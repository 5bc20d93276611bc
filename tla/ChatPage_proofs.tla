-------------------------- MODULE ChatPage_proofs --------------------------
(***************************************************************************)
(* What a client shows of a chat thread, and of the files of a project, for  *)
(* any bounds.                                                               *)
(*                                                                           *)
(* ChatPage.  The rows of a thread form a tree in which ranks fall upwards,  *)
(* so that findPath finds a chain.  On the page, the messages that have ids  *)
(* stand together, linked to one another; behind them stand those of at most *)
(* one response, whose rows are below the last id.  What a read takes for    *)
(* the last word was read when nothing was under way, and nothing is saved   *)
(* before it is applied: the page is locked then, or not open yet.           *)
(*                                                                           *)
(* FileTree, at the end: of each file, the last change that waits or comes   *)
(* says whether it is there, and a tree that was read is right about the     *)
(* files it did not miss.                                                    *)
(***************************************************************************)
EXTENDS ChatPage, SequenceTheorems, WellFoundedInduction, TLAPS

\* What holds of 0 and, up to n, of each number after one it holds of, holds of n.
LEMMA Reaches ==
  ASSUME NEW S, NEW n \in Nat, 0 \in S, \A i \in 0..n : i \in S /\ i < n => i + 1 \in S
  PROVE  n \in S
<1> DEFINE Off == {i \in 0..n : i \notin S}
<1>1. SUFFICES ASSUME Off # {} PROVE FALSE
  OBVIOUS
<1>2. PICK k \in Off : \A y \in Off : <<y, k>> \notin OpToRel(<, Nat)
  <2>1. Off \in SUBSET Nat OBVIOUS
  <2> QED BY <2>1, <1>1, NatLessThanWellFounded, WFMin
<1>3. \A y \in Off : ~(y < k)
  <2>1. Off \in SUBSET Nat OBVIOUS
  <2> HIDE DEF Off
  <2> QED BY <2>1, <1>2 DEF OpToRel
<1>4. k \in 0..n /\ k \notin S
  OBVIOUS
<1>5. k - 1 \in 0..n /\ k - 1 < k /\ k - 1 < n /\ (k - 1) + 1 = k
  BY <1>4
<1>6. k - 1 \notin S
  BY <1>4, <1>5
<1>7. k - 1 \in Off
  BY <1>5, <1>6
<1> HIDE DEF Off
<1> QED BY <1>3, <1>5, <1>7

\* What is appended to a sequence, taken from it, or changed in it.
LEMMA AppendOne ==
  ASSUME NEW S, NEW s \in Seq(S), NEW e \in S, NEW t, t = Append(s, e)
  PROVE  /\ t \in Seq(S) /\ Len(t) = Len(s) + 1 /\ Len(s) \in Nat
         /\ t[Len(s) + 1] = e /\ \A i \in 1..Len(s) : t[i] = s[i]
  BY AppendProperties, LenProperties

\* The sequences on the way to Only(s, S).
Filters(s, S, f) ==
  f = [i \in 0..Len(s) |->
         IF i = 0 THEN <<>>
         ELSE IF s[i] \in S THEN Append(f[i - 1], s[i]) ELSE f[i - 1]]

\* A function defined step by step over a sequence is there.
LEMMA FiltersExist == ASSUME NEW T, NEW s \in Seq(T), NEW S PROVE \E f : Filters(s, S, f)
<1> DEFINE Put(b, e) == IF e \in S THEN Append(b, e) ELSE b
           Upto(n, f) == f = [i \in 0..n |-> IF i = 0 THEN <<>> ELSE Put(f[i - 1], s[i])]
           Good == {n \in Nat : \E f : Upto(n, f)}
<1>1. Len(s) \in Nat
  BY LenProperties
<1>2. 0 \in Good
  <2>1. Upto(0, [i \in 0..0 |-> <<>>])
    OBVIOUS
  <2> HIDE DEF Upto
  <2> QED BY <2>1
<1>3. ASSUME NEW n \in Nat, n \in Good PROVE n + 1 \in Good
  <2>1. PICK f : Upto(n, f)
    BY <1>3
  <2> DEFINE g == [i \in 0..(n + 1) |-> IF i = n + 1 THEN Put(f[n], s[n + 1]) ELSE f[i]]
  <2> HIDE DEF Put
  <2>2. ASSUME NEW i \in 0..(n + 1)
        PROVE  g[i] = IF i = 0 THEN <<>> ELSE Put(g[i - 1], s[i])
    <3>1. CASE i = n + 1
      <4>1. g[i] = Put(f[n], s[n + 1])
        BY <3>1
      <4>2. i - 1 = n /\ g[n] = f[n] /\ i # 0
        BY <3>1
      <4> QED BY <3>1, <4>1, <4>2
    <3>2. CASE i # n + 1
      <4>1. g[i] = f[i] /\ i \in 0..n
        BY <3>2
      <4>2. f[i] = IF i = 0 THEN <<>> ELSE Put(f[i - 1], s[i])
        BY <2>1, <4>1
      <4>3. i # 0 => g[i - 1] = f[i - 1]
        BY <4>1
      <4> QED BY <4>1, <4>2, <4>3
    <3> QED BY <3>1, <3>2
  <2>3. Upto(n + 1, g)
    <3>1. g = [i \in 0..(n + 1) |-> g[i]]
      OBVIOUS
    <3> HIDE DEF g
    <3> QED BY <2>2, <3>1
  <2> HIDE DEF Upto, g
  <2> QED BY <2>3
<1>4. Len(s) \in Good
  <2> HIDE DEF Good
  <2> QED BY <1>1, <1>2, <1>3, Reaches
<1> QED BY <1>4 DEF Filters

\* Step by step.
Steps(s, S, f) ==
  /\ f[0] = <<>>
  /\ \A i \in 0..Len(s) : i < Len(s) =>
       f[i + 1] = IF s[i + 1] \in S THEN Append(f[i], s[i + 1]) ELSE f[i]

\* Only(s, S) is the end of such steps, and they are these.
LEMMA OnlySteps ==
  ASSUME NEW T, NEW s \in Seq(T), NEW S
  PROVE  \E f : Steps(s, S, f) /\ Only(s, S) = f[Len(s)]
<1> DEFINE upto == CHOOSE f : Filters(s, S, f)
<1>1. Filters(s, S, upto)
  BY FiltersExist
<1>2. Only(s, S) = upto[Len(s)]
  BY DEF Only, Filters
<1>3. Len(s) \in Nat
  BY LenProperties
<1> HIDE DEF upto
<1>4. Steps(s, S, upto)
  <2>1. \A i \in 0..Len(s) : upto[i] = IF i = 0 THEN <<>>
           ELSE IF s[i] \in S THEN Append(upto[i - 1], s[i]) ELSE upto[i - 1]
    BY <1>1 DEF Filters
  <2>2. 0 \in 0..Len(s)
    BY <1>3
  <2>3. ASSUME NEW i \in 0..Len(s), i < Len(s)
        PROVE  i + 1 \in 0..Len(s) /\ i + 1 # 0 /\ (i + 1) - 1 = i
    BY <1>3, <2>3
  <2> QED BY <2>1, <2>2, <2>3 DEF Steps
<1> QED BY <1>2, <1>4

\* Of the first n elements of s the sequence o has those in S: each is one of them, and the
\* last is the last of them.
Picks(s, S, n, o) ==
  /\ \A i \in 1..Len(o) : \E j \in 1..n : o[i] = s[j] /\ s[j] \in S
  /\ o = <<>> => \A j \in 1..n : s[j] \notin S
  /\ o # <<>> => \E j \in 1..n : /\ s[j] \in S /\ o[Len(o)] = s[j]
                                /\ \A k \in 1..n : k > j => s[k] \notin S

\* One more element is picked, or passed over.
LEMMA PicksOne ==
  ASSUME NEW T, NEW s \in Seq(T), NEW S, NEW n \in Nat, n < Len(s),
         NEW o \in Seq(T), Picks(s, S, n, o),
         NEW p, p = IF s[n + 1] \in S THEN Append(o, s[n + 1]) ELSE o
  PROVE  p \in Seq(T) /\ Picks(s, S, n + 1, p)
<1>1. n + 1 \in 1..(n + 1) /\ (\A j \in 1..n : j \in 1..(n + 1))
      /\ (\A j \in 1..(n + 1) : j = n + 1 \/ j \in 1..n) /\ (\A j \in 1..(n + 1) : ~(j > n + 1))
  OBVIOUS
<1>2. s[n + 1] \in T
  <2>1. n + 1 \in 1..Len(s)
    BY LenProperties
  <2> QED BY <2>1, ElementOfSeq
<1>3. CASE s[n + 1] \notin S
  BY <1>1, <1>3 DEF Picks
<1>4. CASE s[n + 1] \in S
  <2> DEFINE e == s[n + 1]
  <2>1. p = Append(o, e)
    BY <1>4
  <2> HIDE DEF e
  <2>2. /\ p \in Seq(T) /\ Len(p) = Len(o) + 1 /\ Len(o) \in Nat
        /\ p[Len(o) + 1] = e /\ \A i \in 1..Len(o) : p[i] = o[i]
    BY <1>2, <2>1, AppendOne DEF e
  <2>3. p # <<>>
    BY <2>2
  <2>4. \A i \in 1..Len(p) : i = Len(o) + 1 \/ i \in 1..Len(o)
    BY <2>2
  <2>5. \A i \in 1..Len(p) : \E j \in 1..(n + 1) : p[i] = s[j] /\ s[j] \in S
    BY <1>1, <1>4, <2>2, <2>4 DEF Picks, e
  <2>6. s[n + 1] \in S /\ p[Len(p)] = s[n + 1] /\ \A k \in 1..(n + 1) : k > n + 1 => s[k] \notin S
    BY <1>1, <1>4, <2>2 DEF e
  <2> QED BY <1>1, <2>2, <2>3, <2>5, <2>6 DEF Picks
<1> QED BY <1>3, <1>4

\* Only(s, S) has exactly the elements of s that are in S, in their order.
LEMMA OnlyPicks ==
  ASSUME NEW T, NEW s \in Seq(T), NEW S
  PROVE  Only(s, S) \in Seq(T) /\ Picks(s, S, Len(s), Only(s, S))
<1>1. PICK f : Steps(s, S, f) /\ Only(s, S) = f[Len(s)]
  BY OnlySteps
<1> DEFINE n == Len(s)
           Good == {i \in 0..n : f[i] \in Seq(T) /\ Picks(s, S, i, f[i])}
<1>2. n \in Nat
  BY LenProperties
<1>3. 0 \in Good
  <2>1. f[0] = <<>> /\ <<>> \in Seq(T) /\ Len(f[0]) = 0
    BY <1>1, EmptySeq DEF Steps
  <2>2. Picks(s, S, 0, f[0])
    BY <2>1 DEF Picks
  <2>3. 0 \in 0..n
    BY <1>2
  <2> HIDE DEF n
  <2> QED BY <2>1, <2>2, <2>3
<1>4. ASSUME NEW i \in 0..n, i \in Good, i < n PROVE i + 1 \in Good
  <2>1. i \in Nat /\ f[i] \in Seq(T) /\ Picks(s, S, i, f[i]) /\ i + 1 \in 0..n /\ i < Len(s)
    BY <1>2, <1>4
  <2>2. f[i + 1] = IF s[i + 1] \in S THEN Append(f[i], s[i + 1]) ELSE f[i]
    BY <1>1, <1>4 DEF Steps
  <2>3. f[i + 1] \in Seq(T) /\ Picks(s, S, i + 1, f[i + 1])
    BY <2>1, <2>2, PicksOne
  <2> QED BY <2>1, <2>3
<1>5. n \in Good
  <2> HIDE DEF Good
  <2> QED BY <1>2, <1>3, <1>4, Reaches
<1> QED BY <1>1, <1>5

\* Where the server can be with a request.
Stages == {"new", "sent", "setup", "model", "saved", "title", "release", "done"}
\* The rows there are, and no row.
Rows == DOMAIN up \union {NoId}

\* A row is made later than the one it is below.
Rank(m) == IF m[2] = "assistant" THEN 2 * m[1] + 1 ELSE 2 * m[1]

\* Whose row is there, and below which other.
RowsRight ==
  /\ at \in [Request -> Stages] /\ below \in [Request -> Id]
  /\ DOMAIN up \subseteq Id \ {NoId} /\ leaf \in Rows
  /\ \A s \in Request :
       /\ at[s] \in {"new", "sent", "setup"} => Question(s) \notin DOMAIN up
       /\ at[s] \in {"model", "saved", "title"} => Question(s) \in DOMAIN up
       /\ at[s] \in {"new", "sent", "setup", "model"} => Answer(s) \notin DOMAIN up
       /\ Question(s) \in DOMAIN up => up[Question(s)] = below[s]
       /\ Answer(s) \in DOMAIN up => Question(s) \in DOMAIN up /\ up[Answer(s)] = Question(s)
       /\ at[s] # "new" => below[s] \in Rows /\ Rank(below[s]) < 2 * s
       /\ at[s] # "new" => \A r \in Request : r < s => at[r] # "new"

\* Questions and answers of different requests are different, and none is NoId.
LEMMA Names ==
  /\ \A s, r : /\ Question(s) # Answer(r) /\ Question(s) # NoId /\ Answer(s) # NoId
               /\ Question(s) = Question(r) => s = r
               /\ Answer(s) = Answer(r) => s = r
  /\ \A s \in Request : Question(s) \in Id /\ Answer(s) \in Id
  /\ \A m \in Id : m = NoId \/ \E s \in Request : m = Question(s) \/ m = Answer(s)
<1>1. \A s, r : /\ Question(s) # Answer(r) /\ Question(s) # NoId /\ Answer(s) # NoId
                /\ Question(s) = Question(r) => s = r
                /\ Answer(s) = Answer(r) => s = r
  BY DEF Question, Answer, NoId
<1>2. \A s \in Request : Question(s) \in Id /\ Answer(s) \in Id
  BY DEF Question, Answer, Id
<1>3. \A m \in Id : m = NoId \/ \E s \in Request : m = Question(s) \/ m = Answer(s)
  BY DEF Question, Answer, Id
<1> QED BY <1>1, <1>2, <1>3

\* The rank of a row.
LEMMA Ranks ==
  ASSUME NumSends \in Nat
  PROVE  /\ \A s \in Request : Rank(Question(s)) = 2 * s /\ Rank(Answer(s)) = 2 * s + 1
         /\ Rank(NoId) = 0
         /\ \A m \in Id : Rank(m) \in 0..(2 * NumSends + 1)
         /\ \A m \in Id : m # NoId => Rank(m) > 1
<1>1. \A s \in Request : Rank(Question(s)) = 2 * s /\ Rank(Answer(s)) = 2 * s + 1
  BY DEF Rank, Question, Answer
<1>2. Rank(NoId) = 0
  BY DEF Rank, NoId
<1>3. \A s \in Request : s \in Nat /\ s >= 1 /\ s <= NumSends
  BY DEF Request
<1>4. ASSUME NEW m \in Id PROVE Rank(m) \in 0..(2 * NumSends + 1) /\ (m # NoId => Rank(m) > 1)
  <2>1. CASE m = NoId
    BY <1>2, <2>1
  <2>2. CASE \E s \in Request : m = Question(s) \/ m = Answer(s)
    <3>1. PICK s \in Request : m = Question(s) \/ m = Answer(s)
      BY <2>2
    <3>2. Rank(m) = 2 * s \/ Rank(m) = 2 * s + 1
      BY <1>1, <3>1
    <3>3. s \in Nat /\ s >= 1 /\ s <= NumSends
      BY <1>3
    <3> QED BY <3>2, <3>3
  <2> QED BY <2>1, <2>2, Names
<1> QED BY <1>1, <1>2, <1>4

\* Going up from a row, ranks fall.
LEMMA RankFalls ==
  ASSUME NumSends \in Nat, RowsRight, NEW m \in DOMAIN up
  PROVE  up[m] \in Rows /\ Rank(up[m]) < Rank(m) /\ m # NoId /\ m \in Id
<1>1. m \in Id /\ m # NoId
  BY DEF RowsRight
<1>2. PICK s \in Request : m = Question(s) \/ m = Answer(s)
  BY <1>1, Names
<1>3. Question(s) \in DOMAIN up /\ at[s] # "new"
  BY <1>2 DEF RowsRight
<1>4. CASE m = Question(s)
  <2>1. up[m] = below[s] /\ below[s] \in Rows /\ Rank(below[s]) < 2 * s
    BY <1>3, <1>4 DEF RowsRight
  <2> QED BY <1>1, <1>4, <2>1, Ranks
<1>5. CASE m = Answer(s)
  <2>1. up[m] = Question(s)
    BY <1>2, <1>5 DEF RowsRight
  <2>2. Rank(Question(s)) = 2 * s /\ Rank(m) = 2 * s + 1 /\ s \in Nat
    BY <1>5, Ranks DEF Request
  <2> QED BY <1>1, <1>3, <2>1, <2>2 DEF Rows
<1> QED BY <1>2, <1>4, <1>5

\* The rows from the first one down to some row.
Chain(c) ==
  /\ c \in Seq(Id)
  /\ \A i \in 1..Len(c) : /\ c[i] \in DOMAIN up
                          /\ up[c[i]] = IF i = 1 THEN NoId ELSE c[i - 1]
\* The chain c ends at the row m.
EndsAt(c, m) == IF c = <<>> THEN m = NoId ELSE c[Len(c)] = m

\* f gives for each row the rows above it, down to itself.
Above(f) == f = [m \in Rows |-> IF m = NoId THEN <<>> ELSE Append(f[up[m]], m)]

\* There is such a function, and Path is its value at the leaf.
LEMMA AboveExists ==
  ASSUME NumSends \in Nat, RowsRight PROVE \E f : Above(f)
<1> DEFINE Low(n) == {m \in Rows : Rank(m) <= n}
           Upto(n, f) == \A m \in Low(n) : f[m] = IF m = NoId THEN <<>> ELSE Append(f[up[m]], m)
           Good == {n \in Nat : \E f : Upto(n, f)}
           top == 2 * NumSends + 1
<1>1. /\ \A m \in Rows : Rank(m) \in 0..top
      /\ \A m \in DOMAIN up : up[m] \in Rows /\ Rank(up[m]) < Rank(m) /\ m # NoId
      /\ \A m \in Rows : m # NoId => m \in DOMAIN up /\ Rank(m) > 1
  <2>1. Rows \subseteq Id
    BY DEF RowsRight, Rows, Id
  <2> QED BY <2>1, Ranks, RankFalls DEF Rows
<1>2. top \in Nat
  OBVIOUS
<1> HIDE DEF top
<1>3. 0 \in Good
  <2>1. Upto(0, [m \in Rows |-> <<>>])
    BY <1>1
  <2> HIDE DEF Upto
  <2> QED BY <2>1
<1>4. ASSUME NEW n \in 0..top, n \in Good, n < top PROVE n + 1 \in Good
  <2>1. PICK f : Upto(n, f)
    BY <1>4
  <2> DEFINE g == [m \in Rows |-> IF Rank(m) = n + 1 THEN Append(f[up[m]], m) ELSE f[m]]
  <2>2. ASSUME NEW m \in Low(n + 1)
        PROVE  g[m] = IF m = NoId THEN <<>> ELSE Append(g[up[m]], m)
    <3>1. m \in Rows /\ Rank(m) <= n + 1 /\ Rank(m) \in Nat /\ n \in Nat
      BY <1>1
    <3>2. CASE m = NoId
      <4>1. Rank(m) = 0
        BY <3>2, Ranks
      <4>2. m \in Low(n) /\ g[m] = f[m]
        BY <3>1, <4>1
      <4> QED BY <2>1, <3>2, <4>2
    <3>3. CASE m # NoId
      <4>1. m \in DOMAIN up /\ up[m] \in Rows /\ Rank(up[m]) < Rank(m) /\ Rank(up[m]) \in Nat
        BY <1>1, <3>1, <3>3
      <4>2. g[up[m]] = f[up[m]]
        BY <3>1, <4>1
      <4>3. CASE Rank(m) = n + 1
        BY <3>1, <3>3, <4>2, <4>3
      <4>4. CASE Rank(m) # n + 1
        <5>1. m \in Low(n) /\ g[m] = f[m]
          BY <3>1, <4>4
        <5>2. f[m] = Append(f[up[m]], m)
          BY <2>1, <3>3, <5>1
        <5> QED BY <3>3, <4>2, <5>1, <5>2
      <4> QED BY <4>3, <4>4
    <3> QED BY <3>2, <3>3
  <2>3. Upto(n + 1, g)
    <3> HIDE DEF g
    <3> QED BY <2>2
  <2>4. n + 1 \in Nat
    OBVIOUS
  <2> HIDE DEF Upto, g
  <2> QED BY <2>3, <2>4
<1>5. top \in Good
  <2> HIDE DEF Good
  <2> QED BY <1>2, <1>3, <1>4, Reaches
<1>6. PICK f : Upto(top, f)
  BY <1>5
<1>7. \A m \in Rows : f[m] = IF m = NoId THEN <<>> ELSE Append(f[up[m]], m)
  BY <1>1, <1>2, <1>6
<1> DEFINE g == [m \in Rows |-> f[m]]
<1>8. Above(g)
  <2>1. \A m \in Rows : g[m] = IF m = NoId THEN <<>> ELSE Append(g[up[m]], m)
    BY <1>1, <1>7
  <2>2. g = [m \in Rows |-> g[m]]
    OBVIOUS
  <2> HIDE DEF g
  <2> QED BY <2>1, <2>2 DEF Above
<1> QED BY <1>8

\* A chain goes on with a row below its last one.
LEMMA ChainOne ==
  ASSUME NEW c, Chain(c), NEW m \in DOMAIN up, m \in Id, EndsAt(c, up[m]), NEW d, d = Append(c, m)
  PROVE  Chain(d) /\ EndsAt(d, m)
<1>1. /\ d \in Seq(Id) /\ Len(d) = Len(c) + 1 /\ Len(c) \in Nat
      /\ d[Len(c) + 1] = m /\ \A i \in 1..Len(c) : d[i] = c[i]
  BY AppendOne DEF Chain
<1>2. d # <<>> /\ d[Len(d)] = m
  BY <1>1
<1>3. ASSUME NEW i \in 1..Len(d)
      PROVE  d[i] \in DOMAIN up /\ up[d[i]] = IF i = 1 THEN NoId ELSE d[i - 1]
  <2>1. CASE i = Len(c) + 1
    <3>1. CASE c = <<>>
      <4>1. i = 1 /\ up[m] = NoId
        BY <2>1, <3>1 DEF EndsAt
      <4> QED BY <1>1, <2>1, <4>1
    <3>2. CASE c # <<>>
      <4>1. Len(c) # 0
        BY <3>2, EmptySeq DEF Chain
      <4>2. i # 1 /\ i - 1 = Len(c) /\ i - 1 \in 1..Len(c)
        BY <1>1, <2>1, <4>1
      <4>3. d[i - 1] = up[m]
        BY <1>1, <3>2, <4>2 DEF EndsAt
      <4> QED BY <1>1, <2>1, <4>2, <4>3
    <3> QED BY <3>1, <3>2
  <2>2. CASE i # Len(c) + 1
    <3>1. i \in 1..Len(c) /\ (i # 1 => i - 1 \in 1..Len(c))
      BY <1>1, <2>2
    <3> QED BY <1>1, <3>1 DEF Chain
  <2> QED BY <2>1, <2>2
<1> QED BY <1>1, <1>2, <1>3 DEF Chain, EndsAt

\* findPath: the path of the leaf is a chain that ends at the leaf.
LEMMA PathIsChain ==
  ASSUME NumSends \in Nat, RowsRight PROVE Chain(Path) /\ EndsAt(Path, leaf)
<1> DEFINE above == CHOOSE f : Above(f)
<1>1. Above(above)
  BY AboveExists
<1>2. Path = above[leaf]
  BY DEF Path, Above, Rows
<1> HIDE DEF above
<1>3. \A m \in Rows : above[m] = IF m = NoId THEN <<>> ELSE Append(above[up[m]], m)
  BY <1>1 DEF Above
<1> DEFINE Good == {n \in Nat : \A m \in Rows : Rank(m) <= n =>
                      Chain(above[m]) /\ EndsAt(above[m], m)}
           top == 2 * NumSends + 1
<1>4. /\ \A m \in Rows : Rank(m) \in 0..top
      /\ \A m \in DOMAIN up : up[m] \in Rows /\ Rank(up[m]) < Rank(m) /\ m # NoId
      /\ \A m \in Rows : m # NoId => m \in DOMAIN up /\ Rank(m) > 1 /\ m \in Id
  <2>1. Rows \subseteq Id
    BY DEF RowsRight, Rows, Id
  <2> QED BY <2>1, Ranks, RankFalls DEF Rows
<1>5. top \in Nat
  OBVIOUS
<1> HIDE DEF top
<1>6. Chain(above[NoId]) /\ EndsAt(above[NoId], NoId)
  <2>1. above[NoId] = <<>>
    BY <1>3 DEF Rows
  <2>2. <<>> \in Seq(Id) /\ Len(<<>>) = 0
    BY EmptySeq
  <2> QED BY <2>1, <2>2 DEF Chain, EndsAt
<1>7. 0 \in Good
  <2>1. \A m \in Rows : Rank(m) <= 0 => m = NoId
    BY <1>4, <1>5
  <2> QED BY <1>6, <2>1
<1>8. ASSUME NEW n \in 0..top, n \in Good, n < top PROVE n + 1 \in Good
  <2>1. ASSUME NEW m \in Rows, Rank(m) <= n + 1 PROVE Chain(above[m]) /\ EndsAt(above[m], m)
    <3>1. CASE m = NoId
      BY <1>6, <3>1
    <3>2. CASE m # NoId
      <4>1. m \in DOMAIN up /\ m \in Id /\ up[m] \in Rows
        BY <1>4, <3>2
      <4>2. Rank(up[m]) <= n
        <5>1. Rank(up[m]) < Rank(m) /\ Rank(up[m]) \in Nat /\ Rank(m) \in Nat /\ n \in Nat
          BY <1>4, <4>1
        <5> QED BY <2>1, <5>1
      <4>3. Chain(above[up[m]]) /\ EndsAt(above[up[m]], up[m])
        BY <1>8, <4>1, <4>2
      <4>4. above[m] = Append(above[up[m]], m)
        BY <1>3, <3>2
      <4> QED BY <4>1, <4>3, <4>4, ChainOne
    <3> QED BY <3>1, <3>2
  <2>2. n + 1 \in Nat
    OBVIOUS
  <2> QED BY <2>1, <2>2
<1>9. top \in Good
  <2> HIDE DEF Good
  <2> QED BY <1>5, <1>7, <1>8, Reaches
<1>10. leaf \in Rows
  BY DEF RowsRight
<1> QED BY <1>2, <1>4, <1>5, <1>9, <1>10

\* Two chains that end at one row are the same.
LEMMA ChainsMeet ==
  ASSUME RowsRight, NEW c, NEW d, NEW m, Chain(c), Chain(d), EndsAt(c, m), EndsAt(d, m)
  PROVE  c = d
<1>1. c \in Seq(Id) /\ d \in Seq(Id) /\ Len(c) \in Nat /\ Len(d) \in Nat
  BY LenProperties DEF Chain
<1>2. NoId \notin DOMAIN up
  BY DEF RowsRight
<1>3. (c = <<>> <=> Len(c) = 0) /\ (d = <<>> <=> Len(d) = 0)
  BY <1>1, EmptySeq
<1>4. (c = <<>> <=> m = NoId) /\ (d = <<>> <=> m = NoId)
  <2>1. \A e : Chain(e) /\ EndsAt(e, m) /\ Len(e) \in Nat /\ (e = <<>> <=> Len(e) = 0) => (e = <<>> <=> m = NoId)
    BY <1>2 DEF Chain, EndsAt
  <2> QED BY <1>1, <1>3, <2>1
<1> DEFINE Good == {k \in Nat : k < Len(c) /\ k < Len(d) => c[Len(c) - k] = d[Len(d) - k]}
<1>5. 0 \in Good
  BY <1>1, <1>3, <1>4 DEF EndsAt
<1>6. ASSUME NEW k \in Nat, k \in Good PROVE k + 1 \in Good
  <2> SUFFICES ASSUME k + 1 < Len(c), k + 1 < Len(d)
               PROVE  c[Len(c) - (k + 1)] = d[Len(d) - (k + 1)]
    OBVIOUS
  <2>1. /\ Len(c) - k \in 1..Len(c) /\ Len(c) - k # 1 /\ (Len(c) - k) - 1 = Len(c) - (k + 1)
        /\ Len(d) - k \in 1..Len(d) /\ Len(d) - k # 1 /\ (Len(d) - k) - 1 = Len(d) - (k + 1)
        /\ k < Len(c) /\ k < Len(d)
    BY <1>1
  <2>2. c[Len(c) - k] = d[Len(d) - k]
    BY <1>6, <2>1
  <2>3. up[c[Len(c) - k]] = c[Len(c) - (k + 1)] /\ up[d[Len(d) - k]] = d[Len(d) - (k + 1)]
    BY <2>1 DEF Chain
  <2> QED BY <2>2, <2>3
<1>7. ASSUME NEW k \in Nat PROVE k \in Good
  <2>1. \A i \in 0..k : i \in Good /\ i < k => i + 1 \in Good
    <3> HIDE DEF Good
    <3>1. \A i \in 0..k : i \in Nat
      OBVIOUS
    <3> QED BY <1>6, <3>1
  <2> HIDE DEF Good
  <2> QED BY <1>5, <2>1, Reaches
<1>8. ~(Len(c) < Len(d)) /\ ~(Len(d) < Len(c))
  <2>1. ASSUME NEW e, NEW f, Chain(e), Chain(f), Len(e) \in Nat, Len(f) \in Nat, Len(e) # 0,
               Len(e) < Len(f), e[Len(e) - (Len(e) - 1)] = f[Len(f) - (Len(e) - 1)]
        PROVE  FALSE
    <3>1. /\ Len(e) - (Len(e) - 1) = 1 /\ 1 \in 1..Len(e)
          /\ Len(f) - (Len(e) - 1) \in 1..Len(f) /\ Len(f) - (Len(e) - 1) # 1
          /\ Len(f) - (Len(e) - 1) - 1 \in 1..Len(f)
      BY <2>1
    <3>2. up[e[1]] = NoId
      BY <2>1, <3>1 DEF Chain
    <3>3. /\ up[f[Len(f) - (Len(e) - 1)]] = f[Len(f) - (Len(e) - 1) - 1]
          /\ f[Len(f) - (Len(e) - 1) - 1] \in DOMAIN up
      BY <2>1, <3>1 DEF Chain
    <3> QED BY <1>2, <2>1, <3>1, <3>2, <3>3
  <2>2. ASSUME Len(c) < Len(d) PROVE FALSE
    <3>1. Len(c) # 0
      BY <1>3, <1>4, <2>2
    <3>2. Len(c) - 1 \in Good
      BY <1>1, <1>7, <3>1
    <3>3. c[Len(c) - (Len(c) - 1)] = d[Len(d) - (Len(c) - 1)]
      <4>1. Len(c) - 1 < Len(c) /\ Len(c) - 1 < Len(d)
        BY <1>1, <2>2
      <4> QED BY <3>2, <4>1
    <3> QED BY <1>1, <2>1, <2>2, <3>1, <3>3
  <2>3. ASSUME Len(d) < Len(c) PROVE FALSE
    <3>1. Len(d) # 0
      BY <1>3, <1>4, <2>3
    <3>2. Len(d) - 1 \in Good
      BY <1>1, <1>7, <3>1
    <3>3. c[Len(c) - (Len(d) - 1)] = d[Len(d) - (Len(d) - 1)]
      <4>1. Len(d) - 1 < Len(d) /\ Len(d) - 1 < Len(c)
        BY <1>1, <2>3
      <4> QED BY <3>2, <4>1
    <3> QED BY <1>1, <2>1, <2>3, <3>1, <3>3
  <2> QED BY <2>2, <2>3
<1>9. Len(c) = Len(d)
  BY <1>1, <1>8
<1>10. ASSUME NEW i \in 1..Len(c) PROVE c[i] = d[i]
  <2>1. Len(c) - i \in Nat /\ Len(c) - i < Len(c) /\ Len(c) - (Len(c) - i) = i
    BY <1>1
  <2>2. Len(c) - i \in Good
    BY <1>7, <2>1
  <2> QED BY <1>9, <2>1, <2>2
<1> QED BY <1>1, <1>9, <1>10, SeqEqual

\* What of a response can be unread.
Events == {<<>>, <<"done">>, <<"end">>, <<"error">>, <<"done", "end">>, <<"done", "error">>}
\* A message on the page.
Line == [text : Id \union {<<0, "assistant">>}, id : Id, streaming : BOOLEAN]

\* What of a response was not read yet.  Its ids come when its rows are there.
WireRight ==
  /\ wire \in [Request -> Events]
  /\ \A s \in Request :
      /\ at[s] \in {"new", "sent", "setup", "model", "saved"} => wire[s] = <<>>
      /\ at[s] = "title" => wire[s] \in {<<>>, <<"done">>}
      /\ wire[s] # <<>> /\ Head(wire[s]) = "done" => Question(s) \in DOMAIN up

\* The types of what the other parts say nothing of; a stop on its way was one.
Typed ==
  /\ edit \in [Request -> BOOLEAN] /\ stopped \in [Request -> BOOLEAN]
  /\ generating \in BOOLEAN /\ open \in BOOLEAN /\ locked \in BOOLEAN
  /\ shown \in Seq(Message) /\ gets \in Seq(Read)
  /\ editing \in Id /\ controller \in Request \union {NoRequest}
  /\ fetch \in [Request -> {"none", "open", "closed"}]
  /\ off \subseteq {"astray", "crossed", "behind"}
  /\ notes \in 0..stops /\ stops \in 0..MaxStops
  /\ faults \in 0..MaxFaults /\ opens \in 0..MaxOpens

\* No response is read.
NoneOpen == \A s \in Request : fetch[s] # "open"
\* A page that is not open has nothing under way.
Closed == ~open => NoneOpen /\ editing = NoId /\ ~locked
\* A page that polls has no response of its own, and no form open.
LockRight == locked => NoneOpen /\ editing = NoId

\* A read serves the page that asked for it.
GetsRight ==
  /\ \A i \in 1..Len(gets) : /\ gets[i].why = "poll" => locked
                             /\ gets[i].why = "open" <=> ~open
                             /\ Chain(gets[i].path)
  /\ \A i, j \in 1..Len(gets) : gets[i].why = "poll" /\ gets[j].why = "poll" => i = j
  /\ ~open => Len(gets) <= 1
  /\ Chain(first)
\* An answer to a read that will be taken as what the thread is.
LastWord(g) == g.at = "read" /\ g.why # "reload" /\ ~g.generating /\ ~g.early
\* It is right: nothing has been saved since.
ReadRight == \A i \in 1..Len(gets) :
               LastWord(gets[i]) => UnderWay = {} /\ EndsAt(gets[i].path, leaf)

\* A message without an id.
Blank(i) == shown[i].id = NoId
\* The last two messages are those of s, without ids.
Waits(s) ==
  LET n == Len(shown) IN
  /\ n >= 2 /\ Blank(n - 1) /\ Blank(n)
  /\ shown[n - 1].text = Question(s) /\ shown[n].text = Answer(s)
\* An id on the page is that of a row.
IdsStored == \A i \in 1..Len(shown) : shown[i].id \in Rows
\* Without crossing responses, an id is that of its text, and whoever has ids to come
\* finds his messages at the end.
IdsRight == "crossed" \notin off =>
              /\ \A i \in 1..Len(shown) : shown[i].id \in {NoId, shown[i].text}
              /\ \A s \in Pending : Waits(s)

\* Messages that have ids follow one another, each below the one before it; what a
\* request asks for is below the last of them.
Linked ==
  /\ \A i, j, k \in 1..Len(shown) : i < j /\ j < k /\ ~Blank(i) /\ ~Blank(k) => ~Blank(j)
  /\ \A i \in 1..Len(shown) : ~Blank(i) =>
       up[shown[i].id] = IF i = 1 THEN NoId ELSE shown[i - 1].id
\* The question of s is below the message before it.
Hangs(s) ==
  LET n == Len(shown) IN
  IF n = 2 THEN below[s] = NoId
  ELSE /\ below[s] = shown[n - 2].id
       /\ Blank(n - 2) => \A i \in 1..n : Blank(i)
\* Without messages sent astray either, the messages are linked.
LinksRight == off \intersect {"astray", "crossed"} = {} =>
                Linked /\ \A s \in Pending : Hangs(s)

\* The last message that has an id is m.
Newest(m) ==
  \/ m = NoId /\ \A i \in 1..Len(shown) : Blank(i)
  \/ m # NoId /\ \E i \in 1..Len(shown) :
       shown[i].id = m /\ \A j \in 1..Len(shown) : j > i => Blank(j)

\* A page that knows all there is shows the leaf of the thread, or streams what comes.
Streams == shown # <<>> /\ shown[Len(shown)].streaming
\* The page has missed nothing, and asks for nothing.
Synced == off = {} /\ open /\ ~locked /\ \A i \in 1..Len(gets) : gets[i].why # "reload"
\* The last row of s.
Made(s) == IF Answer(s) \in DOMAIN up THEN Answer(s) ELSE Question(s)
\* Then its own response is what saves, its rows are the last ones, and without one the
\* last id on the page is the leaf.
SyncRight ==
  Synced =>
    /\ \A s \in Request : Saving(s) => fetch[s] = "open"
    /\ \A s \in Pending : Streams /\ (Question(s) \in DOMAIN up => leaf = Made(s))
    /\ Streams \/ Newest(leaf)

\* The messages of the page.
OnPage == IdsStored /\ IdsRight /\ LinksRight /\ SyncRight
\* What is behind them.
Behind == Typed /\ RowsRight /\ WireRight /\ Closed /\ LockRight /\ GetsRight /\ ReadRight
\* The inductive invariant.
PageKept == PageAssumption /\ Behind /\ OnPage

\* It includes the types.
LEMMA KeptTypes == ASSUME PageAssumption, Behind PROVE TypeOK
<1>1. NumSends \in Nat /\ MaxStops \in Nat /\ MaxFaults \in Nat /\ MaxOpens \in Nat
  BY DEF PageAssumption
<1>2. Typed /\ RowsRight /\ WireRight /\ GetsRight
  BY DEF Behind
<1>3. DOMAIN up \subseteq Id /\ \A m \in DOMAIN up : up[m] \in DOMAIN up \union {NoId}
  BY <1>1, <1>2, RankFalls DEF Rows, RowsRight
<1>4. leaf \in DOMAIN up \union {NoId}
  BY <1>2 DEF RowsRight, Rows
<1>5. /\ at \in [Request -> {"new", "sent", "setup", "model", "saved", "title", "release",
                           "done"}]
      /\ below \in [Request -> Id]
  BY <1>2 DEF RowsRight, Stages
<1>6. wire \in [Request -> Seq({"done", "end", "error"})]
  <2>1. Events \subseteq Seq({"done", "end", "error"})
    BY DEF Events
  <2> QED BY <1>2, <2>1 DEF WireRight
<1>7. first \in Seq(Id)
  BY <1>2 DEF GetsRight, Chain
<1>8. notes \in 0..MaxStops
  BY <1>1, <1>2 DEF Typed
<1>9. {edit, stopped} \subseteq [Request -> BOOLEAN] /\ {generating, open, locked} \subseteq BOOLEAN
  BY <1>2 DEF Typed
<1> QED BY <1>2, <1>3, <1>4, <1>5, <1>6, <1>7, <1>8, <1>9 DEF TypeOK, Typed

\* The ids of the messages.
Ids == [i \in 1..Len(shown) |-> shown[i].id]

\* The messages and their ids as sequences.
LEMMA Lines == ASSUME TypeOK
               PROVE  /\ shown \in Seq(Message) /\ DOMAIN shown = 1..Len(shown) /\ Len(shown) \in Nat
                      /\ \A i \in 1..Len(shown) : shown[i] \in Message /\ shown[i].id \in Id
                      /\ Ids \in Seq(Id) /\ Len(Ids) = Len(shown)
                      /\ \A i \in 1..Len(shown) : Ids[i] = shown[i].id
                      /\ WithIds = Only(Ids, Id \ {NoId})
<1>1. shown \in Seq(Message)
  BY DEF TypeOK
<1>2. DOMAIN shown = 1..Len(shown) /\ Len(shown) \in Nat
  BY <1>1, LenProperties
<1>3. \A i \in 1..Len(shown) : shown[i] \in Message /\ shown[i].id \in Id
  <2>1. \A i \in 1..Len(shown) : shown[i] \in Message
    BY <1>1, ElementOfSeq
  <2> QED BY <2>1 DEF Message
<1>4. Ids \in [1..Len(shown) -> Id]
  BY <1>3 DEF Ids
<1>5. Ids \in Seq(Id)
  BY <1>2, <1>4, SeqDef
<1>6. Len(Ids) = Len(shown)
  BY <1>2, <1>4, <1>5, LenProperties
<1>7. \A i \in 1..Len(shown) : Ids[i] = shown[i].id
  BY DEF Ids
<1>8. WithIds = Only(Ids, Id \ {NoId})
  BY <1>2 DEF WithIds, Ids
<1> QED BY <1>1, <1>2, <1>3, <1>5, <1>6, <1>7, <1>8

\* Confirmed is the last id on the page.
LEMMA ConfirmedIsNewest == ASSUME TypeOK PROVE Newest(Confirmed)
<1> DEFINE n == Len(shown)
           S == Id \ {NoId}
           w == Only(Ids, S)
<1>1. /\ n \in Nat /\ Ids \in Seq(Id) /\ Len(Ids) = n /\ WithIds = w
      /\ \A i \in 1..n : Ids[i] = shown[i].id /\ shown[i].id \in Id
  BY Lines
<1>2. w \in Seq(Id) /\ Picks(Ids, S, n, w)
  BY <1>1, OnlyPicks
<1>3. \A i \in 1..n : Ids[i] \in S <=> ~Blank(i)
  BY <1>1 DEF Blank
<1>4. Confirmed = IF w = <<>> THEN NoId ELSE Last(w)
  BY <1>1 DEF Confirmed
<1> HIDE DEF S, w
<1>5. CASE w = <<>>
  <2>1. \A i \in 1..n : Ids[i] \notin S
    BY <1>2, <1>5 DEF Picks
  <2> QED BY <1>3, <1>4, <1>5, <2>1 DEF Newest
<1>6. CASE w # <<>>
  <2>1. PICK j \in 1..n : /\ Ids[j] \in S /\ w[Len(w)] = Ids[j]
                          /\ \A k \in 1..n : k > j => Ids[k] \notin S
    BY <1>2, <1>6 DEF Picks
  <2>2. Confirmed = Ids[j]
    BY <1>4, <1>6, <2>1 DEF Last
  <2>3. ~Blank(j) /\ shown[j].id = Confirmed /\ \A k \in 1..n : k > j => Blank(k)
    BY <1>1, <1>3, <2>1, <2>2
  <2>4. Confirmed # NoId
    BY <2>3 DEF Blank
  <2> QED BY <2>3, <2>4 DEF Newest
<1> QED BY <1>5, <1>6

\* The newest is one.
LEMMA NewestIsOne ==
  ASSUME TypeOK, NEW m, NEW k, Newest(m), Newest(k) PROVE m = k
<1>1. Len(shown) \in Nat
  BY Lines
<1> QED BY <1>1 DEF Newest, Blank

\* Linked messages are a chain.
LEMMA LinkedIsChain ==
  ASSUME TypeOK, RowsRight, IdsStored, Linked
  PROVE  Chain(WithIds) /\ EndsAt(WithIds, Confirmed)
<1> DEFINE n == Len(shown)
           S == Id \ {NoId}
<1>1. /\ n \in Nat /\ Ids \in Seq(Id) /\ Len(Ids) = n /\ WithIds = Only(Ids, S)
      /\ \A i \in 1..n : Ids[i] = shown[i].id /\ shown[i].id \in Id
  BY Lines
<1>2. PICK f : Steps(Ids, S, f) /\ WithIds = f[n]
  BY <1>1, OnlySteps
<1>3. \A i \in 1..n : Ids[i] \in S <=> ~Blank(i)
  BY <1>1 DEF Blank
<1>4. f[0] = <<>> /\ \A i \in 0..n : i < n => f[i + 1] = IF Ids[i + 1] \in S THEN Append(f[i], Ids[i + 1]) ELSE f[i]
  BY <1>1, <1>2 DEF Steps
<1> HIDE DEF S, n
<1> DEFINE Upto(i) == /\ Chain(f[i])
                      /\ (\A j \in 1..i : Blank(j)) => f[i] = <<>>
                      /\ \A j \in 1..i : ~Blank(j) /\ (\A k \in 1..i : k > j => Blank(k)) =>
                            f[i] # <<>> /\ EndsAt(f[i], shown[j].id)
           Good == {i \in 0..n : Upto(i)}
<1>5. 0 \in Good
  <2>1. Chain(<<>>)
    <3>1. <<>> \in Seq(Id) /\ Len(<<>>) = 0
      BY EmptySeq
    <3> QED BY <3>1 DEF Chain
  <2>2. Upto(0)
    BY <1>4, <2>1
  <2>3. 0 \in 0..n
    BY <1>1 DEF n
  <2> HIDE DEF Upto
  <2> QED BY <2>2, <2>3
<1>6. ASSUME NEW i \in 0..n, i \in Good, i < n PROVE i + 1 \in Good
  <2>1. /\ i \in Nat /\ i + 1 \in 0..n /\ i + 1 \in 1..n /\ i + 1 \in 1..(i + 1)
        /\ (\A j \in 1..i : j \in 1..(i + 1) /\ j \in 1..n /\ i + 1 > j)
        /\ (\A j \in 1..(i + 1) : j = i + 1 \/ j \in 1..i) /\ (\A j \in 1..(i + 1) : ~(j > i + 1))
    BY <1>1, <1>6 DEF n
  <2>2. Upto(i)
    BY <1>6
  <2>3. CASE Blank(i + 1)
    <3>1. f[i + 1] = f[i]
      BY <1>3, <1>4, <1>6, <2>1, <2>3
    <3>2. Upto(i + 1)
      BY <2>1, <2>2, <2>3, <3>1
    <3> HIDE DEF Upto
    <3> QED BY <2>1, <3>2
  <2>4. CASE ~Blank(i + 1)
    <3> DEFINE m == shown[i + 1].id
    <3>1. f[i + 1] = Append(f[i], m)
      BY <1>1, <1>3, <1>4, <1>6, <2>1, <2>4 DEF n
    <3>2. m \in DOMAIN up /\ m \in Id
      BY <1>1, <2>1, <2>4 DEF IdsStored, Blank, Rows, n
    <3>3. up[m] = IF i + 1 = 1 THEN NoId ELSE shown[i].id
      <4>1. (i + 1) - 1 = i
        BY <2>1
      <4> QED BY <2>1, <2>4, <4>1 DEF Linked, n
    <3>4. EndsAt(f[i], up[m])
      <4>1. CASE i = 0
        BY <1>4, <3>3, <4>1 DEF EndsAt
      <4>2. CASE i # 0 /\ Blank(i)
        <5>1. \A j \in 1..i : Blank(j)
          <6>1. i \in 1..n /\ i < i + 1 /\ (\A j \in 1..i : j = i \/ j < i)
            BY <2>1, <4>2
          <6> QED BY <2>1, <2>4, <4>2, <6>1 DEF Linked, n
        <5>2. f[i] = <<>>
          BY <2>2, <5>1
        <5>3. up[m] = NoId
          BY <2>1, <3>3, <4>2 DEF Blank
        <5> QED BY <5>2, <5>3 DEF EndsAt
      <4>3. CASE i # 0 /\ ~Blank(i)
        <5>1. i \in 1..i /\ \A k \in 1..i : ~(k > i)
          BY <2>1, <4>3
        <5>2. EndsAt(f[i], shown[i].id)
          BY <2>2, <4>3, <5>1
        <5>3. up[m] = shown[i].id
          BY <2>1, <3>3, <4>3
        <5> QED BY <5>2, <5>3
      <4> QED BY <4>1, <4>2, <4>3
    <3>5. Chain(f[i + 1]) /\ EndsAt(f[i + 1], m)
      BY <2>2, <3>1, <3>2, <3>4, ChainOne
    <3>6. f[i + 1] # <<>>
      <4>1. f[i] \in Seq(Id)
        BY <2>2 DEF Chain
      <4> QED BY <3>1, <3>2, <4>1, AppendProperties
    <3>7. \A j \in 1..(i + 1) : ~Blank(j) /\ (\A k \in 1..(i + 1) : k > j => Blank(k)) => j = i + 1
      BY <2>1, <2>4
    <3>8. Upto(i + 1)
      BY <2>1, <2>4, <3>5, <3>6, <3>7
    <3> HIDE DEF Upto
    <3> QED BY <2>1, <3>8
  <2> QED BY <2>3, <2>4
<1>7. n \in Good
  <2> HIDE DEF Good
  <2> QED BY <1>1, <1>5, <1>6, Reaches DEF n
<1>8. Upto(n) /\ WithIds = f[n]
  BY <1>2, <1>7 DEF n
<1>9. EndsAt(WithIds, Confirmed)
  <2>1. Newest(Confirmed)
    BY ConfirmedIsNewest
  <2>2. CASE \A i \in 1..n : Blank(i)
    <3>1. WithIds = <<>>
      BY <1>8, <2>2
    <3>2. Confirmed = NoId
      BY <3>1 DEF Confirmed
    <3> QED BY <3>1, <3>2 DEF EndsAt
  <2>3. ASSUME NEW i \in 1..n, shown[i].id = Confirmed, Confirmed # NoId,
               \A j \in 1..n : j > i => Blank(j)
        PROVE  EndsAt(WithIds, Confirmed)
    <3>1. ~Blank(i)
      BY <2>3 DEF Blank
    <3>2. EndsAt(f[n], shown[i].id)
      BY <1>8, <2>3, <3>1
    <3> QED BY <1>8, <2>3, <3>2
  <2> QED BY <2>1, <2>2, <2>3 DEF Newest, n
<1> QED BY <1>8, <1>9

\* The invariant is what the page promises.
LEMMA KeptFollows == ASSUME PageKept PROVE PageFollows
<1>1. /\ TypeOK /\ RowsRight /\ IdsStored /\ NumSends \in Nat
      /\ DOMAIN shown = 1..Len(shown) /\ Len(shown) \in Nat
  BY Lines, KeptTypes DEF PageKept, Behind, OnPage, PageAssumption
<1>2. "crossed" \notin off => IdsFit
  BY <1>1 DEF PageKept, OnPage, IdsRight, IdsFit
<1>3. ASSUME off \intersect {"astray", "crossed"} = {}
      PROVE  Chain(WithIds) /\ EndsAt(WithIds, Confirmed)
  BY <1>1, <1>3, LinkedIsChain DEF PageKept, OnPage, LinksRight
<1>4. off \intersect {"astray", "crossed"} = {} => OneConversation
  <2> SUFFICES ASSUME off \intersect {"astray", "crossed"} = {} PROVE OneConversation
    OBVIOUS
  <2>1. Chain(WithIds)
    BY <1>3
  <2>2. DOMAIN WithIds = 1..Len(WithIds)
    BY <2>1, LenProperties DEF Chain
  <2> QED BY <2>1, <2>2 DEF OneConversation, Chain
<1>5. AtRest /\ off = {} => WithIds = Path
  <2> SUFFICES ASSUME AtRest, off = {} PROVE WithIds = Path
    OBVIOUS
  <2>1. Chain(WithIds) /\ EndsAt(WithIds, Confirmed)
    BY <1>3
  <2>2. Chain(Path) /\ EndsAt(Path, leaf)
    BY <1>1, PathIsChain
  <2>3. Synced
    <3>1. Len(gets) = 0
      BY DEF AtRest
    <3> QED BY <3>1 DEF AtRest, Synced, Locked
  <2>4. ~Streams
    <3>1. shown # <<>> => Len(shown) \in DOMAIN shown
      BY <1>1, EmptySeq, Lines
    <3> QED BY <3>1 DEF AtRest, Locked, Streams
  <2>5. Newest(leaf)
    BY <2>3, <2>4 DEF PageKept, OnPage, SyncRight
  <2>6. Confirmed = leaf
    BY <1>1, <2>5, ConfirmedIsNewest, NewestIsOne
  <2> QED BY <1>1, <2>1, <2>2, <2>6, ChainsMeet
<1> QED BY <1>2, <1>4, <1>5 DEF PageFollows

\* The page is not open, the thread empty.
LEMMA PageInit == ASSUME PageAssumption, Init PROVE PageKept
<1>1. Len(shown) = 0 /\ Len(gets) = 0 /\ Len(first) = 0
  BY DEF Init
<1>2. NumSends \in Nat /\ {MaxStops, MaxFaults, MaxOpens} \subseteq Nat
  BY DEF PageAssumption
<1>3. DOMAIN up = {} /\ leaf = NoId /\ NoId \in Id
  BY DEF Init, Id
<1>4. <<>> \in Seq(Message) /\ <<>> \in Seq(Id) /\ <<>> \in Seq(Read)
      /\ <<>> \in Seq({"done", "end", "error"})
  BY EmptySeq
<1>5. Typed
  <2>1. 0 \in 0..stops /\ stops \in 0..MaxStops /\ faults \in 0..MaxFaults /\ opens \in 0..MaxOpens
    BY <1>2 DEF Init
  <2>2. shown \in Seq(Message) /\ gets \in Seq(Read)
    BY <1>4 DEF Init
  <2>3. /\ edit \in [Request -> BOOLEAN] /\ stopped \in [Request -> BOOLEAN]
        /\ generating \in BOOLEAN /\ open \in BOOLEAN /\ locked \in BOOLEAN
    BY DEF Init
  <2>4. /\ editing \in Id /\ controller \in Request \union {NoRequest}
        /\ fetch \in [Request -> {"none", "open", "closed"}]
        /\ off \subseteq {"astray", "crossed", "behind"} /\ notes = 0
    BY <1>3 DEF Init
  <2> QED BY <2>1, <2>2, <2>3, <2>4 DEF Typed
<1>6. RowsRight
  BY <1>3 DEF Init, RowsRight, Rows, Stages
<1>7. WireRight
  BY DEF Init, WireRight, Events
<1>8. Closed /\ LockRight
  BY DEF Init, Closed, LockRight, NoneOpen
<1>9. GetsRight
  <2>1. Chain(first)
    BY <1>1, <1>4 DEF Init, Chain
  <2> QED BY <1>1, <2>1 DEF GetsRight
<1>10. ReadRight /\ IdsStored
  BY <1>1 DEF ReadRight, IdsStored
<1>11. Pending = {}
  BY DEF Init, Pending
<1>12. IdsRight /\ LinksRight
  BY <1>1, <1>11 DEF IdsRight, LinksRight, Linked
<1>13. SyncRight
  BY DEF Init, SyncRight, Synced
<1> QED BY <1>5, <1>6, <1>7, <1>8, <1>9, <1>10, <1>12, <1>13 DEF PageKept, Behind, OnPage

\* The response says that the answer is complete.
Says(s) == wire[s] # <<>> /\ Head(wire[s]) = "done"

\* What is left of a response when its first event is read.
LEMMA EventsRead ==
  ASSUME NEW w \in Events
  PROVE  /\ w = <<>> => /\ Append(w, "done") = <<"done">> /\ Append(w, "end") = <<"end">>
                        /\ Append(w, "error") = <<"error">>
         /\ w = <<"done">> => /\ Append(w, "end") = <<"done", "end">>
                              /\ Append(w, "error") = <<"done", "error">>
         /\ w # <<>> => (Head(w) = "done" <=> w \in {<<"done">>, <<"done", "end">>, <<"done", "error">>})
         /\ w # <<>> /\ Head(w) = "done" => Tail(w) \in {<<>>, <<"end">>, <<"error">>}
<1>1. Head(<<"done">>) = "done" /\ Head(<<"done", "end">>) = "done" /\ Head(<<"done", "error">>) = "done"
  OBVIOUS
<1>2. Head(<<"end">>) = "end" /\ Head(<<"error">>) = "error"
  OBVIOUS
<1>3. /\ Tail(<<"done">>) = <<>> /\ Tail(<<"done", "end">>) = <<"end">>
      /\ Tail(<<"done", "error">>) = <<"error">>
  OBVIOUS
<1>4. /\ Append(<<>>, "done") = <<"done">> /\ Append(<<>>, "end") = <<"end">>
      /\ Append(<<>>, "error") = <<"error">> /\ Append(<<"done">>, "end") = <<"done", "end">>
      /\ Append(<<"done">>, "error") = <<"done", "error">>
  <2>1. Append(<<>>, "done") = <<"done">>
    OBVIOUS
  <2>2. Append(<<>>, "end") = <<"end">>
    OBVIOUS
  <2>3. Append(<<>>, "error") = <<"error">>
    OBVIOUS
  <2>4. Append(<<"done">>, "end") = <<"done", "end">>
    <3> DEFINE a == Append(<<"done">>, "end")
               b == <<"done", "end">>
    <3>1. <<"done">> \in Seq({"done", "end", "error"}) /\ Len(<<"done">>) = 1 /\ <<"done">>[1] = "done"
      OBVIOUS
    <3>2. a \in Seq({"done", "end", "error"}) /\ Len(a) = 2 /\ a[1] = "done" /\ a[2] = "end"
      BY <3>1, AppendProperties
    <3>3. b \in Seq({"done", "end", "error"}) /\ Len(b) = 2 /\ b[1] = "done" /\ b[2] = "end"
      OBVIOUS
    <3>4. \A i \in 1..2 : i = 1 \/ i = 2
      OBVIOUS
    <3> HIDE DEF a, b
    <3>5. a = b
      BY <3>2, <3>3, <3>4, SeqEqual
    <3> QED BY <3>5 DEF a, b
  <2>5. Append(<<"done">>, "error") = <<"done", "error">>
    <3> DEFINE a == Append(<<"done">>, "error")
               b == <<"done", "error">>
    <3>1. <<"done">> \in Seq({"done", "end", "error"}) /\ Len(<<"done">>) = 1 /\ <<"done">>[1] = "done"
      OBVIOUS
    <3>2. a \in Seq({"done", "end", "error"}) /\ Len(a) = 2 /\ a[1] = "done" /\ a[2] = "error"
      BY <3>1, AppendProperties
    <3>3. b \in Seq({"done", "end", "error"}) /\ Len(b) = 2 /\ b[1] = "done" /\ b[2] = "error"
      OBVIOUS
    <3>4. \A i \in 1..2 : i = 1 \/ i = 2
      OBVIOUS
    <3> HIDE DEF a, b
    <3>5. a = b
      BY <3>2, <3>3, <3>4, SeqEqual
    <3> QED BY <3>5 DEF a, b
  <2> QED BY <2>1, <2>2, <2>3, <2>4, <2>5
<1>5. w \in {<<>>, <<"done">>, <<"end">>, <<"error">>, <<"done", "end">>, <<"done", "error">>}
  BY DEF Events
<1> QED BY <1>1, <1>2, <1>3, <1>4, <1>5

\* A step of the server that changes no row is nothing to the page.
LEMMA ServerStays ==
  ASSUME Behind, OnPage, UNCHANGED <<up, leaf, below, page>>, Pending' \subseteq Pending,
         \A s \in Request : Saving(s)' => Saving(s), UnderWay = {} => UnderWay' = {}
  PROVE  Closed' /\ LockRight' /\ GetsRight' /\ ReadRight' /\ OnPage'
<1>1. /\ UNCHANGED <<up, leaf, below>>
      /\ UNCHANGED <<open, shown, first, editing, locked, controller, fetch, gets, off>>
  BY DEF page
<1>2. Closed' /\ LockRight'
  BY <1>1 DEF Behind, Closed, LockRight, NoneOpen
<1>3. GetsRight'
  BY <1>1 DEF Behind, GetsRight, Chain
<1>4. ReadRight'
  BY <1>1 DEF Behind, ReadRight, LastWord, EndsAt
<1>5. IdsStored'
  BY <1>1 DEF OnPage, IdsStored, Rows
<1>6. IdsRight'
  BY <1>1 DEF OnPage, IdsRight, Waits, Blank
<1>7. LinksRight'
  BY <1>1 DEF OnPage, LinksRight, Linked, Hangs, Blank
<1>8. SyncRight'
  BY <1>1 DEF OnPage, SyncRight, Synced, Streams, Newest, Made, Blank
<1> QED BY <1>2, <1>3, <1>4, <1>5, <1>6, <1>7, <1>8 DEF OnPage

\* A row below one there is.
LEMMA RowStays ==
  ASSUME PageAssumption, Behind, OnPage, NEW s \in Request, Saving(s), Saving(s)',
         NEW m \in Id \ DOMAIN up, m # NoId, NEW above, Insert(m, above), m = Made(s)',
         UNCHANGED <<below, wire, page>>, Question(s) \in DOMAIN up',
         \A r \in Request : r # s => at'[r] = at[r]
  PROVE  Closed' /\ LockRight' /\ GetsRight' /\ ReadRight' /\ OnPage'
<1>1. /\ UNCHANGED <<below, wire>>
      /\ UNCHANGED <<open, shown, first, editing, locked, controller, fetch, gets, off>>
  BY DEF page
<1>2. /\ DOMAIN up' = DOMAIN up \union {m} /\ leaf' = m
      /\ \A k \in DOMAIN up : up'[k] = up[k] /\ k # m
  BY DEF Insert
<1>3. Closed' /\ LockRight'
  BY <1>1 DEF Behind, Closed, LockRight, NoneOpen
<1>4. \A c : Chain(c) => Chain(c)'
  BY <1>2 DEF Chain
<1>5. GetsRight'
  BY <1>1, <1>4 DEF Behind, GetsRight
<1>6. UnderWay # {}
  BY DEF Saving, UnderWay
<1>7. ReadRight'
  BY <1>1, <1>6 DEF Behind, ReadRight, LastWord
<1>8. IdsStored'
  BY <1>1, <1>2 DEF OnPage, IdsStored, Rows
<1>9. Pending' = Pending
  <2>1. \A r \in Request : Saving(r)' <=> Saving(r)
    BY DEF Saving
  <2> QED BY <1>1, <2>1 DEF Pending
<1>10. IdsRight'
  BY <1>1, <1>9 DEF OnPage, IdsRight, Waits, Blank
<1>11. LinksRight'
  <2>1. Linked => Linked'
    <3>1. \A i \in 1..Len(shown) : ~Blank(i) => up'[shown[i].id] = up[shown[i].id]
      BY <1>2 DEF OnPage, IdsStored, Blank, Rows
    <3> QED BY <1>1, <3>1 DEF Linked, Blank
  <2>2. \A r \in Request : Hangs(r)' <=> Hangs(r)
    BY <1>1 DEF Hangs, Blank
  <2> QED BY <1>1, <1>9, <2>1, <2>2 DEF OnPage, LinksRight, Pending
<1>12. SyncRight'
  <2> SUFFICES ASSUME Synced' PROVE SyncRight'
    BY DEF SyncRight
  <2>1. Synced /\ off = {}
    BY <1>1 DEF Synced
  <2>2. \A r \in Request : Saving(r)' => fetch'[r] = "open"
    BY <1>1, <2>1 DEF OnPage, SyncRight, Saving
  <2>3. s \in Pending
    BY <2>1 DEF OnPage, SyncRight, Pending
  <2>4. Streams /\ Streams'
    BY <1>1, <2>1, <2>3 DEF OnPage, SyncRight, Streams
  <2>5. \A r \in Pending : r = s
    <3>1. \A r \in Pending : Waits(r)
      BY <2>1 DEF OnPage, IdsRight
    <3>2. \A r \in Pending : Question(r) = Question(s)
      BY <2>3, <3>1 DEF Waits
    <3> QED BY <3>2, Names
  <2>6. leaf' = Made(s)'
    BY <1>2
  <2> QED BY <1>9, <2>2, <2>4, <2>5, <2>6 DEF SyncRight
<1> QED BY <1>3, <1>5, <1>7, <1>8, <1>10, <1>11, <1>12 DEF OnPage

\* A request that moves without a row.
LEMMA Moving ==
  ASSUME Behind, NEW s \in Request, NEW to \in Stages \ {"new"}, Moves(s, to), at[s] # "new",
         UNCHANGED <<up, leaf, below>>,
         to \in {"sent", "setup"} => at[s] \in {"sent", "setup"},
         to \in {"model", "saved", "title"} => at[s] \in {"model", "saved", "title"},
         to = "model" => at[s] = "model"
  PROVE  RowsRight'
<1>1. RowsRight /\ at' \in [Request -> Stages] /\ at'[s] = to
      /\ \A r \in Request : r # s => at'[r] = at[r]
  BY DEF Behind, RowsRight, Moves
<1>2. UNCHANGED <<up, leaf, below>>
  OBVIOUS
<1>3. \A r \in Request : at'[r] = "new" <=> at[r] = "new"
  BY <1>1
<1>4. ASSUME NEW r \in Request
      PROVE  /\ at'[r] \in {"new", "sent", "setup"} => at[r] \in {"new", "sent", "setup"}
             /\ at'[r] \in {"model", "saved", "title"} => at[r] \in {"model", "saved", "title"}
             /\ at'[r] \in {"new", "sent", "setup", "model"} =>
                  at[r] \in {"new", "sent", "setup", "model"}
  BY <1>1
<1> QED BY <1>1, <1>2, <1>3, <1>4 DEF RowsRight, Rows

\* What a request writes when it moves.
LEMMA Writing ==
  ASSUME Behind, NEW s \in Request, NEW to, Moves(s, to), UNCHANGED up,
         \/ to = "title" /\ at[s] \in {"model", "saved"} /\ Writes(s, "done")
         \/ to = "release" /\ at[s] = "title" /\ Writes(s, "end")
         \/ to = "release" /\ at[s] \in {"setup", "model", "title"} /\ Writes(s, "error")
         \/ to = "setup" /\ at[s] = "sent" /\ UNCHANGED wire
         \/ to = "done" /\ at[s] = "release" /\ UNCHANGED wire
  PROVE  /\ WireRight' /\ RowsRight /\ to \in Stages \ {"new"} /\ at[s] # "new"
         /\ \A r \in Request : /\ Saving(r)' => Saving(r)
                               /\ r \in UnderWay' => r \in UnderWay
                               /\ (Saving(r) \/ Says(r))' => Saving(r) \/ Says(r)
<1>1. /\ RowsRight /\ WireRight /\ at \in [Request -> Stages] /\ wire \in [Request -> Events]
      /\ to \in Stages \ {"new"} /\ at[s] # "new" /\ up' = up
  BY DEF Behind, RowsRight, WireRight, Stages
<1>2. at'[s] = to /\ \A r \in Request : r # s => at'[r] = at[r]
  BY <1>1 DEF Moves
<1>3. \A r \in Request : Saving(r)' => Saving(r)
  BY <1>1, <1>2 DEF Saving
<1>4. \A r \in Request : r \in UnderWay' => r \in UnderWay
  BY <1>1, <1>2 DEF UnderWay
<1>5. wire[s] \in Events /\ (at[s] \in {"sent", "setup", "model", "saved"} => wire[s] = <<>>)
      /\ (at[s] = "title" => wire[s] \in {<<>>, <<"done">>})
  BY <1>1 DEF WireRight
<1>6. /\ wire'[s] \in Events
      /\ to = "setup" => wire'[s] = <<>>
      /\ to = "title" => wire'[s] = <<"done">>
      /\ wire'[s] # <<>> /\ Head(wire'[s]) = "done" => Says(s) \/ at[s] \in {"model", "saved"}
  <2>1. CASE to \in {"setup", "done"} /\ UNCHANGED wire
    BY <1>1, <1>5, <2>1 DEF Says
  <2>2. ASSUME NEW e \in {"done", "end", "error"}, Writes(s, e)
        PROVE  wire'[s] = Append(wire[s], e)
    BY <1>1, <2>2 DEF Writes
  <2>3. CASE to = "title" /\ at[s] \in {"model", "saved"} /\ Writes(s, "done")
    <3>1. wire'[s] = <<"done">>
      BY <1>5, <2>2, <2>3, EventsRead
    <3> QED BY <2>3, <3>1 DEF Events
  <2>4. CASE to = "release" /\ at[s] \in {"setup", "model", "title"}
             /\ (Writes(s, "end") \/ Writes(s, "error"))
    <3>1. wire'[s] \in {<<"end">>, <<"error">>, <<"done", "end">>, <<"done", "error">>}
          /\ (wire'[s] \in {<<"done", "end">>, <<"done", "error">>} => wire[s] = <<"done">>)
      <4>1. wire[s] \in {<<>>, <<"done">>}
        BY <1>5, <2>4
      <4>2. wire'[s] = Append(wire[s], "end") \/ wire'[s] = Append(wire[s], "error")
        BY <2>2, <2>4
      <4>3. CASE wire[s] = <<>>
        <5>1. wire'[s] = <<"end">> \/ wire'[s] = <<"error">>
          BY <1>5, <4>2, <4>3, EventsRead
        <5> QED BY <5>1
      <4>4. CASE wire[s] = <<"done">>
        BY <1>5, <4>2, <4>4, EventsRead
      <4> QED BY <4>1, <4>3, <4>4
    <3>2. wire'[s] \in Events
      BY <3>1 DEF Events
    <3>3. <<"done">> \in Events /\ <<"done">> # <<>>
      BY DEF Events
    <3>4. wire'[s] # <<>> /\ Head(wire'[s]) = "done" => Says(s)
      BY <3>1, <3>2, <3>3, EventsRead DEF Says
    <3> QED BY <2>4, <3>2, <3>4
  <2> QED BY <2>1, <2>3, <2>4
<1>7. wire' \in [Request -> Events] /\ \A r \in Request : r # s => wire'[r] = wire[r]
  BY <1>1, <1>6 DEF Writes
<1>8. \A r \in Request : (Saving(r) \/ Says(r))' => Saving(r) \/ Says(r)
  BY <1>2, <1>3, <1>6, <1>7 DEF Saving, Says
<1>9. \A r \in Request : Says(r)' => Question(r) \in DOMAIN up
  BY <1>1, <1>6, <1>7 DEF Says, WireRight, RowsRight
<1>10. ASSUME NEW r \in Request
       PROVE  /\ at'[r] \in {"new", "sent", "setup", "model", "saved"} => wire'[r] = <<>>
              /\ at'[r] = "title" => wire'[r] \in {<<>>, <<"done">>}
  <2>1. CASE r = s
    BY <1>2, <1>6, <2>1
  <2>2. CASE r # s
    BY <1>1, <1>2, <1>7, <2>2 DEF WireRight
  <2> QED BY <2>1, <2>2
<1>11. WireRight'
  BY <1>1, <1>7, <1>9, <1>10 DEF WireRight, Says
<1> QED BY <1>1, <1>3, <1>4, <1>8, <1>11

\* A step of a request that saves nothing.
LEMMA ServerKeeps ==
  ASSUME PageKept, NEW s \in Request,
         Begin(s) \/ Finish(s) \/ End(s) \/ Breaks(s) \/ Release(s)
  PROVE  PageKept'
<1>1. Behind /\ OnPage /\ PageAssumption
  BY DEF PageKept
<1>2. /\ UNCHANGED <<up, leaf, stopped, below, edit, notes, stops, opens>> /\ UNCHANGED page
      /\ generating' \in {generating, TRUE, FALSE}
      /\ faults' = faults \/ (faults' = faults + 1 /\ faults < MaxFaults)
  <2>1. UNCHANGED <<up, leaf, stopped, below, edit, notes, stops, opens>> /\ UNCHANGED page
    BY DEF Begin, Finish, End, Breaks, Release, Fault, request, rows, bounds
  <2>2. generating' \in {generating, TRUE, FALSE}
    BY DEF Begin, Finish, End, Breaks, Release, rows
  <2>3. faults' = faults \/ (faults' = faults + 1 /\ faults < MaxFaults)
    BY DEF Begin, Finish, End, Breaks, Release, Fault, bounds
  <2> QED BY <2>1, <2>2, <2>3
<1>3. PICK to :
        /\ Moves(s, to)
        /\ \/ to = "title" /\ at[s] \in {"model", "saved"} /\ Writes(s, "done")
           \/ to = "release" /\ at[s] = "title" /\ Writes(s, "end")
           \/ to = "release" /\ at[s] \in {"setup", "model", "title"} /\ Writes(s, "error")
           \/ to = "setup" /\ at[s] = "sent" /\ UNCHANGED wire
           \/ to = "done" /\ at[s] = "release" /\ UNCHANGED wire
  <2>1. CASE Begin(s)
    BY <2>1 DEF Begin
  <2>2. CASE Finish(s)
    BY <2>2 DEF Finish
  <2>3. CASE End(s)
    BY <2>3 DEF End
  <2>4. CASE Breaks(s)
    BY <2>4 DEF Breaks
  <2>5. CASE Release(s)
    BY <2>5 DEF Release
  <2> QED BY <2>1, <2>2, <2>3, <2>4, <2>5
<1>4. /\ WireRight' /\ to \in Stages \ {"new"} /\ at[s] # "new"
      /\ \A r \in Request : /\ Saving(r)' => Saving(r)
                            /\ r \in UnderWay' => r \in UnderWay
                            /\ (Saving(r) \/ Says(r))' => Saving(r) \/ Says(r)
  BY <1>1, <1>2, <1>3, Writing
<1>5. RowsRight'
  <2>1. /\ to \in {"sent", "setup"} => at[s] \in {"sent", "setup"}
        /\ to \in {"model", "saved", "title"} => at[s] \in {"model", "saved", "title"}
        /\ to = "model" => at[s] = "model"
    BY <1>3
  <2> QED BY <1>1, <1>2, <1>3, <1>4, <2>1, Moving
<1>6. Typed'
  <2>1. faults' \in 0..MaxFaults /\ generating' \in BOOLEAN
    <3>1. faults \in 0..MaxFaults /\ MaxFaults \in Nat /\ generating \in BOOLEAN
      BY <1>1 DEF PageAssumption, Behind, Typed
    <3>2. faults' = faults \/ (faults' = faults + 1 /\ faults < MaxFaults)
      BY <1>2
    <3>3. generating' \in BOOLEAN
      BY <1>2, <3>1
    <3> QED BY <3>1, <3>2, <3>3
  <2> QED BY <1>1, <1>2, <2>1 DEF Behind, Typed, page
<1>7. Pending' \subseteq Pending
  BY <1>2, <1>4 DEF Pending, Says, page
<1>8. Closed' /\ LockRight' /\ GetsRight' /\ ReadRight' /\ OnPage'
  BY <1>1, <1>2, <1>4, <1>7, ServerStays DEF UnderWay
<1> QED BY <1>1, <1>4, <1>5, <1>6, <1>8 DEF PageKept, Behind

\* The stops of other pages.
LEMMA StopsKeep == ASSUME PageKept, DeliverStop \/ StopElsewhere PROVE PageKept'
<1>1. /\ Behind /\ OnPage /\ UNCHANGED <<up, leaf, generating, at, wire, below, edit, faults, opens>>
      /\ UNCHANGED page
  BY DEF PageKept, DeliverStop, StopElsewhere, StopAllowed, rows, server, request, bounds
<1>2. RowsRight' /\ WireRight'
  BY <1>1 DEF Behind, RowsRight, WireRight, Rows
<1>3. stopped' \in [Request -> BOOLEAN]
  <2>1. stopped \in [Request -> BOOLEAN]
    BY <1>1 DEF Behind, Typed
  <2> QED BY <2>1 DEF DeliverStop, StopElsewhere, server
<1>4. notes' \in 0..stops' /\ stops' \in 0..MaxStops
  <2>1. notes \in 0..stops /\ stops \in 0..MaxStops /\ MaxStops \in Nat
    BY <1>1 DEF PageKept, PageAssumption, Behind, Typed
  <2>2. CASE DeliverStop
    BY <2>1, <2>2 DEF DeliverStop, bounds
  <2>3. CASE StopElsewhere
    BY <2>1, <2>3 DEF StopElsewhere, StopAllowed
  <2> QED BY <2>2, <2>3
<1>5. Typed'
  BY <1>1, <1>3, <1>4 DEF Behind, Typed, page
<1>6. Pending' \subseteq Pending /\ (\A r \in Request : Saving(r)' => Saving(r))
      /\ (UnderWay = {} => UnderWay' = {})
  BY <1>1 DEF Pending, Saving, UnderWay, page
<1>7. Closed' /\ LockRight' /\ GetsRight' /\ ReadRight' /\ OnPage'
  BY <1>1, <1>6, ServerStays
<1> QED BY <1>2, <1>5, <1>7 DEF PageKept, Behind, PageAssumption

\* A row is saved: a page that waits for it stays right, and any other is behind.
LEMMA RowsKeep == ASSUME PageKept, NEW s \in Request, SaveQuestion(s) \/ SaveAnswer(s)
                  PROVE  PageKept'
<1> DEFINE m == IF at[s] = "setup" THEN Question(s) ELSE Answer(s)
           above == IF at[s] = "setup" THEN below[s] ELSE Question(s)
           to == IF at[s] = "setup" THEN "model" ELSE "saved"
<1>1. /\ Behind /\ OnPage /\ PageAssumption /\ Insert(m, above) /\ Moves(s, to)
      /\ at[s] \in {"setup", "model"}
      /\ UNCHANGED <<generating, stopped, wire, below, edit, notes, stops, faults, opens>>
      /\ UNCHANGED page
  BY DEF PageKept, SaveQuestion, SaveAnswer, request, bounds
<1>2. RowsRight /\ WireRight /\ at \in [Request -> Stages] /\ wire \in [Request -> Events]
  BY <1>1 DEF Behind, RowsRight, WireRight
<1>3. at'[s] = to /\ at' \in [Request -> Stages] /\ \A r \in Request : r # s => at'[r] = at[r]
  BY <1>1, <1>2 DEF Moves, Stages
<1>4. m \in Id \ DOMAIN up /\ m # NoId /\ above \in Rows
      /\ (m = Answer(s) => Question(s) \in DOMAIN up)
  BY <1>1, <1>2, Names DEF RowsRight, Rows
<1>5. /\ DOMAIN up' = DOMAIN up \union {m} /\ leaf' = m /\ up'[m] = above
      /\ \A k \in DOMAIN up : up'[k] = up[k] /\ k # m
  BY <1>1, <1>4 DEF Insert
<1>6. \/ m = Question(s) /\ at[s] = "setup" /\ to = "model" /\ above = below[s]
      \/ m = Answer(s) /\ at[s] = "model" /\ to = "saved" /\ above = Question(s)
  <2>1. CASE at[s] = "setup"
    BY <2>1
  <2>2. CASE at[s] = "model"
    BY <2>2
  <2> QED BY <1>1, <2>1, <2>2
<1> HIDE DEF m, above, to
<1>7. ASSUME NEW r \in Request, r # s
      PROVE  /\ Question(r) \in DOMAIN up' <=> Question(r) \in DOMAIN up
             /\ Answer(r) \in DOMAIN up' <=> Answer(r) \in DOMAIN up
             /\ Question(r) # m /\ Answer(r) # m
  BY <1>5, <1>6, <1>7, Names
<1>8. Question(s) \in DOMAIN up' /\ (Answer(s) \in DOMAIN up' <=> m = Answer(s))
      /\ (m = Question(s) <=> at[s] = "setup")
  <2>1. Answer(s) \notin DOMAIN up
    BY <1>1, <1>2 DEF RowsRight
  <2> QED BY <1>4, <1>5, <1>6, <2>1, Names
<1>9. Saving(s) /\ Saving(s)' /\ m = Made(s)'
  BY <1>1, <1>3, <1>6, <1>8 DEF Saving, Made
<1>10. RowsRight'
  <2>1. below' = below /\ below \in [Request -> Id]
    BY <1>1, <1>2 DEF RowsRight
  <2>2. DOMAIN up' \subseteq Id \ {NoId} /\ leaf' \in Rows' /\ Rows \subseteq Rows'
    BY <1>2, <1>4, <1>5 DEF RowsRight, Rows
  <2>3. \A r \in Request : (at'[r] = "new" <=> at[r] = "new") /\ (r # s => at'[r] = at[r])
    BY <1>1, <1>3, <1>6
  <2>4. ASSUME NEW r \in Request
        PROVE  /\ at'[r] \in {"new", "sent", "setup"} => Question(r) \notin DOMAIN up'
               /\ at'[r] \in {"model", "saved", "title"} => Question(r) \in DOMAIN up'
               /\ at'[r] \in {"new", "sent", "setup", "model"} => Answer(r) \notin DOMAIN up'
    <3>1. CASE r = s
      BY <1>3, <1>6, <1>8, <3>1, Names
    <3>2. CASE r # s
      <4>1. /\ at[r] \in {"new", "sent", "setup"} => Question(r) \notin DOMAIN up
            /\ at[r] \in {"model", "saved", "title"} => Question(r) \in DOMAIN up
            /\ at[r] \in {"new", "sent", "setup", "model"} => Answer(r) \notin DOMAIN up
        BY <1>2 DEF RowsRight
      <4>2. /\ Question(r) \in DOMAIN up' <=> Question(r) \in DOMAIN up
            /\ Answer(r) \in DOMAIN up' <=> Answer(r) \in DOMAIN up
        BY <1>7, <3>2
      <4>3. at'[r] = at[r]
        BY <1>3, <3>2
      <4> QED BY <4>1, <4>2, <4>3
    <3> QED BY <3>1, <3>2
  <2>5. ASSUME NEW r \in Request
        PROVE  /\ Question(r) \in DOMAIN up' => up'[Question(r)] = below[r]
               /\ Answer(r) \in DOMAIN up' =>
                    Question(r) \in DOMAIN up' /\ up'[Answer(r)] = Question(r)
    <3>1. CASE r = s
      <4>1. m = Question(s) => up'[Question(s)] = below[s]
        BY <1>5, <1>6, Names
      <4>2. m = Answer(s) => up'[Answer(s)] = Question(s) /\ up'[Question(s)] = below[s]
        BY <1>2, <1>4, <1>5, <1>6, Names DEF RowsRight
      <4> QED BY <1>6, <1>8, <3>1, <4>1, <4>2
    <3>2. CASE r # s
      <4>1. /\ Question(r) \in DOMAIN up => up[Question(r)] = below[r]
            /\ Answer(r) \in DOMAIN up => Question(r) \in DOMAIN up /\ up[Answer(r)] = Question(r)
        BY <1>2 DEF RowsRight
      <4>2. /\ Question(r) \in DOMAIN up' <=> Question(r) \in DOMAIN up
            /\ Answer(r) \in DOMAIN up' <=> Answer(r) \in DOMAIN up
        BY <1>7, <3>2
      <4> QED BY <1>5, <4>1, <4>2
    <3> QED BY <3>1, <3>2
  <2>6. ASSUME NEW r \in Request
        PROVE  at'[r] # "new" => /\ below[r] \in Rows' /\ Rank(below[r]) < 2 * r
                                 /\ \A q \in Request : q < r => at'[q] # "new"
    BY <1>2, <2>2, <2>3 DEF RowsRight
  <2> QED BY <1>3, <2>1, <2>2, <2>4, <2>5, <2>6 DEF RowsRight
<1>11. WireRight'
  <2>1. wire' = wire /\ DOMAIN up \subseteq DOMAIN up'
    BY <1>1, <1>5
  <2>2. wire[s] = <<>>
    BY <1>1, <1>2 DEF WireRight
  <2>3. ASSUME NEW r \in Request
        PROVE  /\ at'[r] \in {"new", "sent", "setup", "model", "saved"} => wire[r] = <<>>
               /\ at'[r] = "title" => wire[r] \in {<<>>, <<"done">>}
    BY <1>2, <1>3, <2>2 DEF WireRight
  <2> QED BY <1>2, <2>1, <2>3 DEF WireRight
<1>12. Typed'
  BY <1>1 DEF Behind, Typed, page
<1>13. Closed' /\ LockRight' /\ GetsRight' /\ ReadRight' /\ OnPage'
  <2>1. UNCHANGED <<below, wire, page>>
    BY <1>1
  <2> QED BY <1>1, <1>3, <1>4, <1>8, <1>9, <2>1, RowStays
<1> QED BY <1>1, <1>10, <1>11, <1>12, <1>13 DEF PageKept, Behind

\* A step of the page leaves the thread as it is.
LEMMA ThreadStays ==
  ASSUME PageKept, UNCHANGED thread
  PROVE  /\ PageAssumption /\ Behind /\ OnPage
         /\ UNCHANGED <<up, leaf, generating, at, stopped, wire, below, edit, notes>>
         /\ RowsRight' /\ WireRight' /\ UnderWay' = UnderWay
         /\ \A r \in Request : (Saving(r)' <=> Saving(r)) /\ Made(r)' = Made(r)
         /\ \A c : Chain(c) => Chain(c)'
<1>1. PageAssumption /\ Behind /\ OnPage
  BY DEF PageKept
<1>2. UNCHANGED <<up, leaf, generating, at, stopped, wire, below, edit, notes>>
  BY DEF thread, rows, server, request
<1>3. RowsRight' /\ WireRight'
  BY <1>1, <1>2 DEF Behind, RowsRight, WireRight, Rows
<1>4. UnderWay' = UnderWay /\ \A r \in Request : (Saving(r)' <=> Saving(r)) /\ Made(r)' = Made(r)
  BY <1>2 DEF UnderWay, Saving, Made
<1>5. \A c : Chain(c) => Chain(c)'
  BY <1>2 DEF Chain
<1> QED BY <1>1, <1>2, <1>3, <1>4, <1>5

\* A page that shows what it showed, and knows no better.
LEMMA ShownStays ==
  ASSUME PageKept, UNCHANGED thread, UNCHANGED <<shown, fetch>>,
         off \intersect {"astray", "crossed"} = off' \intersect {"astray", "crossed"},
         Synced' => Synced
  PROVE  OnPage'
<1>1. /\ OnPage /\ UNCHANGED <<up, leaf, at, wire, below>>
      /\ \A r \in Request : (Saving(r)' <=> Saving(r)) /\ Made(r)' = Made(r)
  BY ThreadStays
<1>2. Pending' = Pending
  BY <1>1 DEF Pending
<1>3. IdsStored'
  BY <1>1 DEF OnPage, IdsStored, Rows
<1>4. IdsRight'
  <2>1. "crossed" \in off' <=> "crossed" \in off
    OBVIOUS
  <2> QED BY <1>1, <1>2, <2>1 DEF OnPage, IdsRight, Waits, Blank
<1>5. LinksRight'
  BY <1>1, <1>2 DEF OnPage, LinksRight, Linked, Hangs, Blank
<1>6. SyncRight'
  <2>1. (Streams' <=> Streams) /\ (Newest(leaf)' <=> Newest(leaf))
    BY <1>1 DEF Streams, Newest, Blank
  <2>2. ASSUME Synced' PROVE SyncRight'
    <3>1. /\ \A s \in Request : Saving(s) => fetch[s] = "open"
          /\ \A s \in Pending : Streams /\ (Question(s) \in DOMAIN up => leaf = Made(s))
          /\ Streams \/ Newest(leaf)
      BY <1>1, <2>2 DEF OnPage, SyncRight
    <3>2. \A s \in Pending' : s \in Pending /\ s \in Request
      BY <1>2 DEF Pending
    <3> QED BY <1>1, <2>1, <3>1, <3>2 DEF SyncRight
  <2> QED BY <2>2 DEF SyncRight
<1> QED BY <1>3, <1>4, <1>5, <1>6 DEF OnPage

\* The form of a question is opened or closed.
LEMMA EditStartKeeps == ASSUME PageKept, NEW m \in Id, EditStart(m) PROVE PageKept'
<1>1. /\ UNCHANGED thread /\ UNCHANGED <<open, shown, first, locked, controller, fetch, gets, off>>
      /\ UNCHANGED <<stops, faults, opens>> /\ open /\ editing' = m /\ (m = NoId \/ ~locked)
  BY DEF EditStart, bounds, Locked
<1>2. /\ PageAssumption /\ Behind /\ OnPage
      /\ UNCHANGED <<up, leaf, generating, at, stopped, wire, below, edit, notes>>
      /\ RowsRight' /\ WireRight' /\ UnderWay' = UnderWay
  BY <1>1, ThreadStays
<1>3. Typed'
  BY <1>1, <1>2 DEF Behind, Typed
<1>4. Closed' /\ LockRight'
  BY <1>1, <1>2 DEF Behind, Closed, LockRight, NoneOpen
<1>5. GetsRight' /\ ReadRight'
  <2>1. GetsRight /\ ReadRight
    BY <1>2 DEF Behind
  <2>2. GetsRight'
    BY <1>1, <1>2, <2>1 DEF GetsRight, Chain
  <2>3. ReadRight'
    BY <1>1, <1>2, <2>1 DEF ReadRight, LastWord, EndsAt
  <2> QED BY <2>2, <2>3
<1>6. OnPage'
  <2>1. Synced' => Synced
    BY <1>1 DEF Synced
  <2> QED BY <1>1, <2>1, ShownStays
<1> QED BY <1>2, <1>3, <1>4, <1>5, <1>6 DEF PageKept, Behind

\* A thread without rows.
LEMMA EmptyChain == Chain(<<>>)
<1>1. <<>> \in Seq(Id) /\ Len(<<>>) = 0
  BY EmptySeq
<1> QED BY <1>1 DEF Chain

\* A read that begins.
LEMMA Asked ==
  ASSUME NEW why \in {"open", "poll", "reload"}
  PROVE  /\ Get(why) \in Read /\ Get(why).why = why /\ Get(why).path = <<>> /\ ~LastWord(Get(why))
         /\ Get(why).at = "asked"
<1>1. <<>> \in Seq(Id)
  BY EmptySeq
<1> QED BY <1>1 DEF Get, Read, LastWord

\* The interval of a locked page.
LEMMA PollKeeps == ASSUME PageKept, Poll PROVE PageKept'
<1>1. /\ UNCHANGED thread /\ UNCHANGED <<open, shown, first, editing, locked, controller, fetch, off>>
      /\ UNCHANGED <<stops, faults, opens>> /\ open /\ locked /\ gets' = Append(gets, Get("poll"))
      /\ \A i \in DOMAIN gets : gets[i].why # "poll"
  BY DEF Poll, bounds
<1>2. /\ PageAssumption /\ Behind /\ OnPage
      /\ UNCHANGED <<up, leaf, generating, at, stopped, wire, below, edit, notes>>
      /\ RowsRight' /\ WireRight' /\ UnderWay' = UnderWay /\ \A c : Chain(c) => Chain(c)'
  BY <1>1, ThreadStays
<1> DEFINE g == Get("poll")
           n == Len(gets)
<1>3. g \in Read /\ g.why = "poll" /\ g.path = <<>> /\ ~LastWord(g)
  BY Asked
<1> HIDE DEF g
<1>4. gets \in Seq(Read)
  BY <1>2 DEF Behind, Typed
<1>5. /\ gets' \in Seq(Read) /\ Len(gets') = n + 1 /\ n \in Nat
      /\ gets'[n + 1] = g /\ \A i \in 1..n : gets'[i] = gets[i]
  BY <1>1, <1>3, <1>4, AppendOne DEF g
<1>6. \A i \in 1..n : gets[i].why # "poll"
  BY <1>1, <1>4, LenProperties
<1>7. \A i \in 1..Len(gets') : i = n + 1 \/ i \in 1..n
  BY <1>5
<1> HIDE DEF n
<1>8. Typed'
  BY <1>1, <1>2, <1>5 DEF Behind, Typed
<1>9. Closed' /\ LockRight'
  BY <1>1, <1>2 DEF Behind, Closed, LockRight, NoneOpen
<1>10. GetsRight'
  <2>1. Chain(first)'
    BY <1>1, <1>2 DEF Behind, GetsRight
  <2>2. \A i \in 1..Len(gets') : /\ gets'[i].why = "poll" => locked'
                                 /\ gets'[i].why = "open" <=> ~open'
                                 /\ Chain(gets[i].path)'
    BY <1>1, <1>2, <1>3, <1>5, <1>7, EmptyChain DEF Behind, GetsRight, n
  <2>3. \A i \in 1..Len(gets') : gets'[i].why = "poll" => i = n + 1
    BY <1>5, <1>6, <1>7
  <2> QED BY <1>1, <2>1, <2>2, <2>3 DEF GetsRight
<1>11. ReadRight'
  <2>1. \A i \in 1..Len(gets') : LastWord(gets'[i]) => i \in 1..n /\ gets'[i] = gets[i]
    BY <1>3, <1>5, <1>7
  <2> QED BY <1>2, <2>1 DEF Behind, ReadRight, LastWord, EndsAt, n
<1>12. OnPage'
  <2>1. Synced' => Synced
    BY <1>1 DEF Synced
  <2> QED BY <1>1, <2>1, ShownStays
<1> QED BY <1>2, <1>8, <1>9, <1>10, <1>11, <1>12 DEF PageKept, Behind

\* The route is opened.
LEMMA OpenKeeps == ASSUME PageKept, Open PROVE PageKept'
<1>1. /\ UNCHANGED thread /\ UNCHANGED <<open, shown, first, editing, locked, controller, fetch, off>>
      /\ UNCHANGED <<stops, faults>> /\ ~open /\ gets' = <<Get("open")>>
      /\ opens < MaxOpens /\ opens' = opens + 1
  BY DEF Open
<1>2. /\ PageAssumption /\ Behind /\ OnPage
      /\ UNCHANGED <<up, leaf, generating, at, stopped, wire, below, edit, notes>>
      /\ RowsRight' /\ WireRight' /\ UnderWay' = UnderWay /\ \A c : Chain(c) => Chain(c)'
  BY <1>1, ThreadStays
<1> DEFINE g == Get("open")
<1>3. g \in Read /\ g.why = "open" /\ g.path = <<>> /\ ~LastWord(g)
  BY Asked
<1>4. gets' = <<g>>
  BY <1>1
<1> HIDE DEF g
<1>5. gets' \in Seq(Read) /\ Len(gets') = 1 /\ gets'[1] = g /\ \A i \in 1..1 : i = 1
  BY <1>3, <1>4
<1>6. opens' \in 0..MaxOpens
  BY <1>1, <1>2 DEF Behind, Typed, PageAssumption
<1>7. Typed'
  BY <1>1, <1>2, <1>5, <1>6 DEF Behind, Typed
<1>8. Closed' /\ LockRight'
  BY <1>1, <1>2 DEF Behind, Closed, LockRight, NoneOpen
<1>9. GetsRight'
  <2>1. Chain(first)'
    BY <1>1, <1>2 DEF Behind, GetsRight
  <2>2. \A i \in 1..Len(gets') : i = 1 /\ gets'[i].why = "open" /\ gets'[i].path = <<>>
    BY <1>3, <1>5
  <2>3. Chain(<<>>)'
    BY <1>2, EmptyChain
  <2>4. Len(gets') <= 1 /\ ~open'
    BY <1>1, <1>5
  <2> QED BY <2>1, <2>2, <2>3, <2>4 DEF GetsRight
<1>10. ReadRight'
  BY <1>3, <1>5 DEF ReadRight, LastWord
<1>11. OnPage'
  <2>1. Synced' => Synced
    BY <1>1 DEF Synced
  <2> QED BY <1>1, <2>1, ShownStays
<1> QED BY <1>2, <1>7, <1>8, <1>9, <1>10, <1>11 DEF PageKept, Behind

\* A read looks at the rows, then at the lock: what it takes for the last word is it.
LEMMA ReadKeeps ==
  ASSUME PageKept, NEW i \in DOMAIN gets, ReadPath(i) \/ ReadLock(i) PROVE PageKept'
<1>1. /\ UNCHANGED thread /\ UNCHANGED <<open, shown, first, editing, locked, controller, fetch, off>>
      /\ UNCHANGED <<stops, faults, opens>>
  BY DEF ReadPath, ReadLock, bounds
<1>2. /\ PageAssumption /\ Behind /\ OnPage
      /\ UNCHANGED <<up, leaf, generating, at, stopped, wire, below, edit, notes>>
      /\ RowsRight' /\ WireRight' /\ UnderWay' = UnderWay /\ \A c : Chain(c) => Chain(c)'
  BY <1>1, ThreadStays
<1> DEFINE n == Len(gets)
           early == ~generating /\ (gets[i].path # Path \/ UnderWay # {})
           g == IF ReadPath(i) THEN [gets[i] EXCEPT !.at = "path", !.path = Path]
                ELSE [gets[i] EXCEPT !.at = "read", !.generating = generating, !.early = early]
<1>3. gets \in Seq(Read) /\ n \in Nat /\ DOMAIN gets = 1..n /\ i \in 1..n /\ gets[i] \in Read
      /\ gets \in [1..n -> Read]
  <2>1. gets \in Seq(Read)
    BY <1>2 DEF Behind, Typed
  <2> QED BY <2>1, LenProperties, ElementOfSeq
<1>4. gets' = [gets EXCEPT ![i] = g]
  BY DEF ReadPath, ReadLock
<1>5. Chain(Path) /\ EndsAt(Path, leaf) /\ Path \in Seq(Id)
  <2>1. NumSends \in Nat /\ RowsRight
    BY <1>2 DEF PageAssumption, Behind
  <2> QED BY <2>1, PathIsChain DEF Chain
<1>6. generating \in BOOLEAN /\ early \in BOOLEAN
  BY <1>2 DEF Behind, Typed
<1> HIDE DEF early
<1>7. g \in Read /\ g.why = gets[i].why /\ Chain(g.path)
  <2>1. Chain(gets[i].path)
    BY <1>2, <1>3 DEF Behind, GetsRight
  <2> QED BY <1>3, <1>5, <1>6, <2>1 DEF Read
<1>8. LastWord(g) => UnderWay = {} /\ EndsAt(g.path, leaf)
  <2>1. CASE ReadPath(i)
    BY <1>3, <2>1 DEF LastWord, Read
  <2>2. CASE ~ReadPath(i)
    <3>1. g.path = gets[i].path /\ g.generating = generating /\ g.early = early
      BY <1>3, <2>2 DEF Read
    <3> HIDE DEF g
    <3> QED BY <1>5, <3>1 DEF LastWord, early
  <2> QED BY <2>1, <2>2
<1> HIDE DEF g, n
<1>9. /\ gets' \in Seq(Read) /\ Len(gets') = n /\ gets'[i] = g
      /\ \A j \in 1..n : j # i => gets'[j] = gets[j]
  <2>1. gets' \in [1..n -> Read]
    BY <1>3, <1>4, <1>7
  <2> QED BY <1>3, <1>4, <2>1, SeqDef, LenProperties
<1>10. Typed'
  BY <1>1, <1>2, <1>9 DEF Behind, Typed
<1>11. Closed' /\ LockRight'
  BY <1>1, <1>2 DEF Behind, Closed, LockRight, NoneOpen
<1>12. \A j \in 1..n : gets'[j].why = gets[j].why
  BY <1>7, <1>9
<1>13. GetsRight'
  <2>1. Chain(first)'
    BY <1>1, <1>2 DEF Behind, GetsRight
  <2>2. \A j \in 1..n : Chain(gets[j].path)'
    BY <1>2, <1>7, <1>9 DEF Behind, GetsRight, n
  <2> QED BY <1>1, <1>2, <1>9, <1>12, <2>1, <2>2 DEF Behind, GetsRight, n
<1>14. ReadRight'
  <2>1. ASSUME NEW j \in 1..n, LastWord(gets'[j])
        PROVE  UnderWay = {} /\ EndsAt(gets'[j].path, leaf)
    BY <1>2, <1>8, <1>9, <2>1 DEF Behind, ReadRight, n
  <2> QED BY <1>2, <1>9, <2>1 DEF ReadRight, LastWord, EndsAt
<1>15. OnPage'
  <2>1. Synced' => Synced
    BY <1>1, <1>9, <1>12 DEF Synced, n
  <2> QED BY <1>1, <2>1, ShownStays
<1> QED BY <1>2, <1>10, <1>11, <1>13, <1>14, <1>15 DEF PageKept, Behind

\* A read is over.
LEMMA RemoveOne ==
  ASSUME NEW S, NEW s \in Seq(S), NEW i \in 1..Len(s), NEW t, t = RemoveAt(s, i)
  PROVE  /\ t \in Seq(S) /\ Len(s) \in Nat /\ Len(t) = Len(s) - 1
         /\ \A j \in 1..Len(t) : t[j] = IF j < i THEN s[j] ELSE s[j + 1]
<1>1. Len(s) \in Nat /\ DOMAIN s = 1..Len(s) /\ i \in 1..Len(s) /\ \A k \in 1..Len(s) : s[k] \in S
  BY LenProperties, ElementOfSeq
<1>2. t = SubSeq(s, 1, i - 1) \o SubSeq(s, i + 1, Len(s))
  BY DEF RemoveAt
<1> DEFINE a == SubSeq(s, 1, i - 1)
           b == SubSeq(s, i + 1, Len(s))
<1>3. /\ a \in Seq(S) /\ Len(a) = i - 1 /\ \A j \in 1..(i - 1) : a[j] = s[j]
  <2>1. \A j \in 1..(i - 1) : s[j] \in S
    BY <1>1
  <2>2. 1 \in Int /\ i - 1 \in Int
    BY <1>1
  <2>3. a \in Seq(S) /\ Len(a) = IF 1 <= i - 1 THEN (i - 1) - 1 + 1 ELSE 0
    BY <2>1, <2>2, SubSeqProperties
  <2>4. Len(a) = i - 1
    <3> HIDE DEF a
    <3> QED BY <1>1, <2>3
  <2>5. \A j \in 1..(i - 1) : a[j] = s[j]
    BY <1>1
  <2> QED BY <2>3, <2>4, <2>5
<1>4. /\ b \in Seq(S) /\ Len(b) = Len(s) - i /\ \A j \in 1..(Len(s) - i) : b[j] = s[i + j]
  <2>1. \A j \in (i + 1)..Len(s) : s[j] \in S
    BY <1>1
  <2>2. i + 1 \in Int /\ Len(s) \in Int
    BY <1>1
  <2>3. b \in Seq(S) /\ Len(b) = IF i + 1 <= Len(s) THEN Len(s) - (i + 1) + 1 ELSE 0
    BY <2>1, <2>2, SubSeqProperties
  <2>4. Len(b) = Len(s) - i
    <3> DEFINE n == Len(s)
    <3>1. n \in Nat /\ i \in 1..n /\ Len(b) = IF i + 1 <= n THEN n - (i + 1) + 1 ELSE 0
      BY <1>1, <2>3
    <3> HIDE DEF b, n
    <3>2. Len(b) = n - i
      BY <3>1
    <3> QED BY <3>2 DEF n
  <2>5. \A j \in 1..(Len(s) - i) : b[j] = s[i + j]
    BY <1>1
  <2> QED BY <2>3, <2>4, <2>5
<1> HIDE DEF a, b
<1>5. /\ t \in Seq(S) /\ Len(t) = Len(a) + Len(b)
      /\ \A j \in 1..Len(t) : t[j] = IF j <= Len(a) THEN a[j] ELSE b[j - Len(a)]
  <2>1. t = a \o b
    BY <1>2 DEF a, b
  <2>2. /\ a \o b \in Seq(S) /\ Len(a \o b) = Len(a) + Len(b)
        /\ \A j \in 1..(Len(a) + Len(b)) :
             (a \o b)[j] = IF j <= Len(a) THEN a[j] ELSE b[j - Len(a)]
    BY <1>3, <1>4, ConcatProperties
  <2> QED BY <2>1, <2>2
<1>6. Len(t) = Len(s) - 1
  BY <1>1, <1>3, <1>4, <1>5
<1>7. ASSUME NEW j \in 1..Len(t) PROVE t[j] = IF j < i THEN s[j] ELSE s[j + 1]
  <2>1. CASE j < i
    <3>1. j \in 1..(i - 1) /\ j <= Len(a)
      BY <1>1, <1>3, <2>1
    <3> QED BY <1>3, <1>5, <2>1, <3>1
  <2>2. CASE ~(j < i)
    <3>1. /\ j - (i - 1) \in 1..(Len(s) - i) /\ i + (j - (i - 1)) = j + 1 /\ ~(j <= Len(a))
          /\ j - Len(a) = j - (i - 1)
      BY <1>1, <1>3, <1>6, <2>2
    <3>2. t[j] = b[j - (i - 1)]
      BY <1>5, <3>1
    <3>3. b[j - (i - 1)] = s[i + (j - (i - 1))]
      BY <1>4, <3>1
    <3> QED BY <2>2, <3>1, <3>2, <3>3
  <2> QED BY <2>1, <2>2
<1> QED BY <1>1, <1>5, <1>6, <1>7

\* A read that is answered, or fails.
LEMMA GetsLess ==
  ASSUME PageKept, UNCHANGED thread, NEW i \in DOMAIN gets, gets' = RemoveAt(gets, i)
  PROVE  /\ i \in 1..Len(gets) /\ gets[i] \in Read /\ Chain(gets[i].path)
         /\ gets' \in Seq(Read) /\ Len(gets') \in Nat /\ Len(gets) = Len(gets') + 1
         /\ \A k \in 1..Len(gets) : k # i => \E j \in 1..Len(gets') : gets'[j] = gets[k]
         /\ ReadRight'
         /\ open' = open /\ Chain(first)' /\ (locked' = locked \/ gets[i].why = "poll") => GetsRight'
<1> DEFINE n == Len(gets)
           t == gets'
<1>1. Behind /\ gets \in Seq(Read) /\ GetsRight
  BY DEF PageKept, Behind, Typed
<1>2. n \in Nat /\ DOMAIN gets = 1..n /\ i \in 1..n /\ \A k \in 1..n : gets[k] \in Read
  BY <1>1, LenProperties, ElementOfSeq
<1>3. /\ t \in Seq(Read) /\ Len(t) = n - 1
      /\ \A j \in 1..Len(t) : t[j] = IF j < i THEN gets[j] ELSE gets[j + 1]
  <2>1. i \in 1..Len(gets) /\ gets \in Seq(Read) /\ t = RemoveAt(gets, i)
    BY <1>1, <1>2
  <2> HIDE DEF t, n
  <2>2. /\ t \in Seq(Read) /\ Len(t) = Len(gets) - 1
        /\ \A j \in 1..Len(t) : t[j] = IF j < i THEN gets[j] ELSE gets[j + 1]
    <3> DEFINE g == gets
               S == Read
    <3>1. g \in Seq(S) /\ i \in 1..Len(g) /\ t = RemoveAt(g, i)
      BY <2>1
    <3> HIDE DEF g, S
    <3>2. /\ t \in Seq(S) /\ Len(t) = Len(g) - 1
          /\ \A j \in 1..Len(t) : t[j] = IF j < i THEN g[j] ELSE g[j + 1]
      BY ONLY <3>1, RemoveOne
    <3> QED BY <3>2 DEF g, S
  <2> QED BY <2>2 DEF n
<1>4. Chain(gets[i].path)
  BY <1>1, <1>2 DEF GetsRight
<1> HIDE DEF n, t
<1>5. ASSUME NEW k \in 1..n, k # i PROVE \E j \in 1..Len(t) : t[j] = gets[k]
  <2>1. CASE k < i
    <3>1. k \in 1..Len(t)
      BY <1>2, <1>3, <2>1
    <3> QED BY <1>3, <2>1, <3>1
  <2>2. CASE ~(k < i)
    <3>1. k - 1 \in 1..Len(t) /\ ~(k - 1 < i) /\ (k - 1) + 1 = k
      BY <1>2, <1>3, <1>5, <2>2
    <3> QED BY <1>3, <3>1
  <2> QED BY <2>1, <2>2
<1> DEFINE was(j) == IF j < i THEN j ELSE j + 1
<1>6. ASSUME NEW j \in 1..Len(t) PROVE was(j) \in 1..n /\ was(j) # i /\ t[j] = gets[was(j)]
  BY <1>2, <1>3
<1>7. \A j, k \in 1..Len(t) : was(j) = was(k) => j = k
  BY <1>2, <1>3
<1> HIDE DEF was
<1>8. UNCHANGED leaf /\ UnderWay' = UnderWay /\ \A c : Chain(c) => Chain(c)'
  BY ThreadStays
<1>9. ReadRight'
  <2>1. ASSUME NEW j \in 1..Len(t), LastWord(t[j]) PROVE UnderWay = {} /\ EndsAt(t[j].path, leaf)
    BY <1>1, <1>6, <2>1 DEF Behind, ReadRight, n
  <2> QED BY <1>8, <2>1 DEF ReadRight, LastWord, EndsAt, t
<1>10. ASSUME open' = open, Chain(first)', locked' = locked \/ gets[i].why = "poll"
       PROVE  GetsRight'
  <2>1. ASSUME NEW j \in 1..Len(t)
        PROVE  t[j].why = "open" <=> ~open
    BY <1>1, <1>6 DEF GetsRight, n
  <2>2. ASSUME NEW j \in 1..Len(t), t[j].why = "poll" PROVE locked'
    <3>1. gets[was(j)].why = "poll" /\ was(j) \in 1..n /\ was(j) # i
      BY <1>6, <2>2
    <3>2. gets[i].why # "poll"
      BY <1>1, <1>2, <3>1 DEF GetsRight, n
    <3>3. locked
      BY <1>1, <3>1 DEF GetsRight, n
    <3> QED BY <1>10, <3>2, <3>3
  <2>3. ASSUME NEW j \in 1..Len(t) PROVE Chain(gets[j].path)'
    <3>1. Chain(t[j].path)
      BY <1>1, <1>6 DEF GetsRight, n
    <3> QED BY <1>8, <3>1 DEF t, Chain
  <2>4. \A j, k \in 1..Len(t) : t[j].why = "poll" /\ t[k].why = "poll" => j = k
    <3>1. \A j, k \in 1..n : gets[j].why = "poll" /\ gets[k].why = "poll" => j = k
      BY <1>1 DEF GetsRight, n
    <3> QED BY <1>6, <1>7, <3>1
  <2>5. ~open => Len(t) <= 1
    BY <1>1, <1>2, <1>3 DEF GetsRight, n
  <2> QED BY <1>10, <2>1, <2>2, <2>3, <2>4, <2>5 DEF GetsRight, t
<1> QED BY <1>2, <1>3, <1>4, <1>5, <1>9, <1>10 DEF n, t

\* A read fails; without a reload that was due the page is behind.
LEMMA GetFailsKeeps == ASSUME PageKept, NEW i \in DOMAIN gets, GetFails(i) PROVE PageKept'
<1>1. /\ UNCHANGED thread /\ UNCHANGED <<open, shown, first, editing, locked, controller, fetch>>
      /\ UNCHANGED <<stops, opens>> /\ faults < MaxFaults /\ faults' = faults + 1
      /\ gets' = RemoveAt(gets, i)
      /\ off' = IF gets[i].why = "reload" THEN off \union {"behind"} ELSE off
  BY DEF GetFails, Fault
<1>2. /\ PageAssumption /\ Behind /\ OnPage
      /\ UNCHANGED <<up, leaf, generating, at, stopped, wire, below, edit, notes>>
      /\ RowsRight' /\ WireRight' /\ \A c : Chain(c) => Chain(c)'
  BY <1>1, ThreadStays
<1>3. Chain(first)'
  BY <1>1, <1>2 DEF Behind, GetsRight
<1>4. /\ gets' \in Seq(Read) /\ ReadRight' /\ GetsRight'
      /\ \A k \in 1..Len(gets) : k # i => \E j \in 1..Len(gets') : gets'[j] = gets[k]
  BY <1>1, <1>3, GetsLess
<1>5. faults' \in 0..MaxFaults
  BY <1>1, <1>2 DEF Behind, Typed, PageAssumption
<1>6. Typed'
  <2>1. off' \subseteq {"astray", "crossed", "behind"}
    BY <1>1, <1>2 DEF Behind, Typed
  <2> QED BY <1>1, <1>2, <1>4, <1>5, <2>1 DEF Behind, Typed
<1>7. Closed' /\ LockRight'
  BY <1>1, <1>2 DEF Behind, Closed, LockRight, NoneOpen
<1>8. OnPage'
  <2>1. Synced' => Synced
    <3> SUFFICES ASSUME Synced' PROVE Synced
      OBVIOUS
    <3>1. off = {} /\ gets[i].why # "reload" /\ open /\ ~locked
      BY <1>1 DEF Synced
    <3>2. \A j \in 1..Len(gets') : gets'[j].why # "reload"
      BY DEF Synced
    <3> QED BY <1>4, <3>1, <3>2 DEF Synced
  <2>2. off \intersect {"astray", "crossed"} = off' \intersect {"astray", "crossed"}
    BY <1>1
  <2> QED BY <1>1, <2>1, <2>2, ShownStays
<1> QED BY <1>2, <1>4, <1>6, <1>7, <1>8 DEF PageKept, Behind

\* The bubble of an answer that another request makes.
Waiting == Bubble(<<0, "assistant">>)

\* A page filled with the rows that were read.
LEMMA FilledAnew ==
  ASSUME PageKept, UNCHANGED thread, NEW path, Chain(path),
         \/ shown' = Stored(path)
         \/ shown' = Stored(path) \o <<Waiting>>
  PROVE  /\ shown' \in Seq(Message) /\ IdsStored' /\ Linked'
         /\ \A i \in 1..Len(shown') : shown'[i].id \in {NoId, shown'[i].text}
         /\ shown' = Stored(path) /\ EndsAt(path, leaf) => Newest(leaf)'
<1> DEFINE n == Len(path)
           filled == Stored(path)
           t == shown'
<1>1. UNCHANGED <<up, leaf>> /\ DOMAIN up \subseteq Id \ {NoId}
  BY ThreadStays DEF Behind, RowsRight
<1>2. path \in Seq(Id) /\ n \in Nat /\ DOMAIN path = 1..n
      /\ \A i \in 1..n : path[i] \in Id /\ path[i] \in DOMAIN up /\ path[i] # NoId
  <2>1. path \in Seq(Id) /\ \A i \in 1..Len(path) : path[i] \in DOMAIN up
    BY DEF Chain
  <2> QED BY <1>1, <2>1, LenProperties
<1>3. filled \in [1..n -> Message]
      /\ \A i \in 1..n : filled[i] = [text |-> path[i], id |-> path[i], streaming |-> FALSE]
  BY <1>2 DEF Stored, Message
<1> HIDE DEF n, filled
<1>4. filled \in Seq(Message) /\ Len(filled) = n
  BY <1>2, <1>3, SeqDef, LenProperties
<1>5. Waiting \in Message /\ Waiting.id = NoId
  BY DEF Waiting, Bubble, Message, Id
<1>6. /\ t \in Seq(Message) /\ Len(t) \in {n, n + 1} /\ (shown' = Stored(path) => Len(t) = n)
      /\ \A i \in 1..n : t[i] = filled[i]
      /\ Len(t) = n + 1 => t[n + 1].id = NoId
  <2>1. CASE t = filled
    BY <1>2, <1>4, <2>1 DEF filled
  <2>2. CASE t = filled \o <<Waiting>> /\ t # filled
    <3>1. t = Append(filled, Waiting)
      BY <1>4, <1>5, <2>2, AppendIsConcat
    <3> HIDE DEF t
    <3>2. /\ t \in Seq(Message) /\ Len(t) = Len(filled) + 1 /\ t[Len(filled) + 1] = Waiting
          /\ \A i \in 1..Len(filled) : t[i] = filled[i]
      BY <1>4, <1>5, <3>1, AppendOne
    <3>3. shown' # Stored(path)
      BY <2>2 DEF t, filled
    <3> QED BY <1>2, <1>4, <1>5, <3>2, <3>3
  <2> QED BY <2>1, <2>2 DEF filled
<1> HIDE DEF t
<1>7. \A i \in 1..Len(t) : i \in 1..n \/ (i = n + 1 /\ t[i].id = NoId)
  BY <1>2, <1>6
<1>8. \A i \in 1..n : t[i].id = path[i] /\ t[i].text = path[i] /\ t[i].id # NoId
  BY <1>2, <1>3, <1>6
<1>9. IdsStored'
  <2>1. \A i \in 1..Len(t) : t[i].id \in DOMAIN up \union {NoId}
    BY <1>2, <1>7, <1>8
  <2> QED BY <1>1, <2>1 DEF IdsStored, Rows, t
<1>10. Linked'
  <2>1. \A i \in 1..Len(t) : t[i].id = NoId <=> i = n + 1
    BY <1>2, <1>7, <1>8
  <2>2. \A i, j, k \in 1..Len(t) : j < k => j # n + 1
    BY <1>2, <1>6
  <2>3. ASSUME NEW i \in 1..Len(t), t[i].id # NoId
        PROVE  up[t[i].id] = IF i = 1 THEN NoId ELSE t[i - 1].id
    <3>1. i \in 1..n /\ (i # 1 => i - 1 \in 1..n)
      BY <1>2, <1>7, <2>3
    <3>2. up[path[i]] = IF i = 1 THEN NoId ELSE path[i - 1]
      BY <3>1 DEF Chain, n
    <3> QED BY <1>8, <3>1, <3>2
  <2> QED BY <1>1, <2>1, <2>2, <2>3 DEF Linked, Blank, t
<1>11. \A i \in 1..Len(t) : t[i].id \in {NoId, t[i].text}
  BY <1>7, <1>8
<1>12. ASSUME shown' = Stored(path), EndsAt(path, leaf) PROVE Newest(leaf)'
  <2>1. Len(t) = n
    BY <1>6, <1>12
  <2>2. CASE path = <<>>
    <3>1. leaf = NoId /\ n = 0
      BY <1>12, <2>2 DEF EndsAt, n
    <3> QED BY <1>1, <2>1, <3>1 DEF Newest, Blank, t
  <2>3. CASE path # <<>>
    <3>1. path[n] = leaf /\ n \in 1..n
      <4>1. n # 0
        BY <1>2, <2>3, EmptySeq DEF n
      <4> QED BY <1>2, <1>12, <2>3, <4>1 DEF EndsAt, n
    <3>2. t[n].id = leaf /\ leaf # NoId /\ \A j \in 1..Len(t) : ~(j > n)
      BY <1>2, <1>8, <2>1, <3>1
    <3> QED BY <1>1, <2>1, <3>1, <3>2 DEF Newest, t
  <2> QED BY <2>2, <2>3
<1> QED BY <1>6, <1>9, <1>10, <1>11, <1>12 DEF t

\* SET_MESSAGES with nothing else on the page.
LEMMA Refilled ==
  ASSUME PageKept, UNCHANGED thread, NEW path, Chain(path),
         \/ shown' = Stored(path)
         \/ shown' = Stored(path) \o <<Waiting>>,
         "crossed" \notin off' => Pending' = {},
         Synced' => UnderWay = {} /\ shown' = Stored(path) /\ EndsAt(path, leaf)
  PROVE  shown' \in Seq(Message) /\ OnPage'
<1>1. /\ shown' \in Seq(Message) /\ IdsStored' /\ Linked'
      /\ \A i \in 1..Len(shown') : shown'[i].id \in {NoId, shown'[i].text}
      /\ shown' = Stored(path) /\ EndsAt(path, leaf) => Newest(leaf)'
  BY FilledAnew
<1>2. IdsRight'
  BY <1>1 DEF IdsRight
<1>3. LinksRight'
  BY <1>1 DEF LinksRight
<1>4. SyncRight'
  <2>1. UnderWay = {} => \A s \in Request : ~Saving(s)'
    BY ThreadStays DEF UnderWay, Saving
  <2>2. Synced' => Pending' = {}
    BY DEF Synced
  <2> QED BY <1>1, <2>1, <2>2 DEF SyncRight
<1> QED BY <1>1, <1>2, <1>3, <1>4 DEF OnPage

\* Nothing is pending when the page has no response open.
LEMMA NonePending == ASSUME NoneOpen, UNCHANGED fetch PROVE Pending' = {}
  BY DEF NoneOpen, Pending

\* Nothing is appended.
LEMMA StoredAlone == ASSUME NEW path \in Seq(Id) PROVE Stored(path) \o <<>> = Stored(path)
<1> DEFINE S == {[text |-> m, id |-> m, streaming |-> FALSE] : m \in Id}
           filled == Stored(path)
<1>1. Len(path) \in Nat /\ DOMAIN path = 1..Len(path) /\ \A i \in 1..Len(path) : path[i] \in Id
  BY LenProperties, ElementOfSeq
<1>2. filled \in [1..Len(path) -> S]
  BY <1>1 DEF Stored
<1> HIDE DEF S, filled
<1>3. filled \in Seq(S)
  BY <1>1, <1>2, SeqDef
<1>4. filled \o <<>> = filled
  BY <1>3, ConcatEmptySeq
<1> QED BY <1>4 DEF filled

\* The page is opened with what was read.
LEMMA OpenedKeeps == ASSUME PageKept, NEW i \in DOMAIN gets, Opened(i) PROVE PageKept'
<1> DEFINE g == gets[i]
<1>1. /\ UNCHANGED thread /\ UNCHANGED <<editing, controller, fetch, stops, faults, opens>>
      /\ gets' = RemoveAt(gets, i) /\ g.at = "read" /\ g.why = "open"
      /\ open' = TRUE /\ first' = g.path /\ locked' = g.generating
      /\ off' = (IF g.early THEN {"behind"} ELSE {}) \union {}
      /\ shown' = Stored(g.path) \o IF g.generating THEN <<Waiting>> ELSE <<>>
  BY DEF Opened, Set, bounds, Waiting
<1>2. /\ PageAssumption /\ Behind /\ OnPage
      /\ UNCHANGED <<up, leaf, generating, at, stopped, wire, below, edit, notes>>
      /\ RowsRight' /\ WireRight' /\ UnderWay' = UnderWay /\ \A c : Chain(c) => Chain(c)'
  BY <1>1, ThreadStays
<1>3. /\ i \in 1..Len(gets) /\ g \in Read /\ Chain(g.path)
      /\ gets' \in Seq(Read) /\ Len(gets') \in Nat /\ Len(gets) = Len(gets') + 1 /\ ReadRight'
  BY <1>1, GetsLess
<1>4. Typed /\ GetsRight /\ Closed /\ ReadRight
  BY <1>2 DEF Behind
<1>5. g.generating \in BOOLEAN /\ g.early \in BOOLEAN /\ g.path \in Seq(Id)
  BY <1>3 DEF Read
<1>6. ~open /\ NoneOpen /\ Len(gets') = 0 /\ editing = NoId
  BY <1>1, <1>3, <1>4 DEF GetsRight, Closed
<1>7. IF g.generating THEN shown' = Stored(g.path) \o <<Waiting>> ELSE shown' = Stored(g.path)
  <2>1. CASE ~g.generating
    <3>1. shown' = Stored(g.path) \o <<>>
      BY <1>1, <2>1
    <3> QED BY <1>5, <2>1, <3>1, StoredAlone
  <2> QED BY <1>1, <2>1
<1>8. shown' \in Seq(Message) /\ OnPage'
  <2>1. Synced' => UnderWay = {} /\ shown' = Stored(g.path) /\ EndsAt(g.path, leaf)
    <3> SUFFICES ASSUME Synced'
                 PROVE  UnderWay = {} /\ shown' = Stored(g.path) /\ EndsAt(g.path, leaf)
      OBVIOUS
    <3>1. ~g.generating /\ ~g.early
      BY <1>1, <1>5 DEF Synced
    <3>2. UnderWay = {} /\ EndsAt(g.path, leaf)
      BY <1>1, <1>3, <1>4, <3>1 DEF ReadRight, LastWord
    <3> QED BY <1>7, <3>1, <3>2
  <2>2. Pending' = {}
    BY <1>1, <1>6, NonePending
  <2>3. shown' = Stored(g.path) \/ shown' = Stored(g.path) \o <<Waiting>>
    BY <1>7
  <2> QED BY <1>1, <1>3, <2>1, <2>2, <2>3, Refilled
<1>9. Typed'
  <2>1. off' \subseteq {"astray", "crossed", "behind"}
    BY <1>1
  <2> QED BY <1>1, <1>2, <1>3, <1>4, <1>5, <1>8, <2>1 DEF Typed
<1>10. Closed' /\ LockRight'
  BY <1>1, <1>6 DEF Closed, LockRight, NoneOpen
<1>11. GetsRight'
  <2>1. Chain(first)'
    BY <1>1, <1>2, <1>3
  <2> QED BY <1>1, <1>6, <1>2, <1>3 DEF GetsRight
<1> QED BY <1>2, <1>3, <1>8, <1>9, <1>10, <1>11 DEF PageKept, Behind

\* The page of another request's answer takes nothing while that answer is generated.
LEMMA PolledKeeps == ASSUME PageKept, NEW i \in DOMAIN gets, Polled(i) PROVE PageKept'
<1> DEFINE g == gets[i]
<1>1. /\ UNCHANGED thread /\ gets' = RemoveAt(gets, i) /\ g.at = "read" /\ g.why = "poll"
      /\ UNCHANGED <<open, first, editing, controller, fetch, stops, faults, opens>>
      /\ IF g.generating THEN UNCHANGED <<shown, off, locked>>
         ELSE /\ shown' = Stored(g.path) /\ locked' = FALSE
              /\ off' = (IF g.early THEN {"behind"} ELSE {}) \union {}
  BY DEF Polled, Set, bounds
<1>2. /\ PageAssumption /\ Behind /\ OnPage
      /\ UNCHANGED <<up, leaf, generating, at, stopped, wire, below, edit, notes>>
      /\ RowsRight' /\ WireRight' /\ UnderWay' = UnderWay /\ \A c : Chain(c) => Chain(c)'
  BY <1>1, ThreadStays
<1>3. Typed /\ GetsRight /\ Closed /\ LockRight /\ ReadRight
  BY <1>2 DEF Behind
<1>4. /\ i \in 1..Len(gets) /\ g \in Read /\ Chain(g.path) /\ gets' \in Seq(Read) /\ ReadRight'
      /\ GetsRight'
  <2>1. Chain(first)'
    BY <1>1, <1>2, <1>3 DEF GetsRight
  <2> QED BY <1>1, <2>1, GetsLess
<1>5. g.generating \in BOOLEAN /\ g.early \in BOOLEAN
  BY <1>4 DEF Read
<1>6. locked /\ open /\ NoneOpen /\ editing = NoId
  BY <1>1, <1>3, <1>4 DEF GetsRight, LockRight
<1>7. Closed' /\ LockRight'
  BY <1>1, <1>6 DEF Closed, LockRight, NoneOpen
<1>8. shown' \in Seq(Message) /\ OnPage'
  <2>1. CASE g.generating
    <3>1. Synced' => Synced
      BY <1>1, <1>6, <2>1 DEF Synced
    <3>2. UNCHANGED <<shown, off, fetch>>
      BY <1>1, <2>1
    <3>3. OnPage'
      BY <1>1, <3>1, <3>2, ShownStays
    <3> QED BY <1>3, <3>2, <3>3 DEF Typed
  <2>2. CASE ~g.generating
    <3>1. Synced' => UnderWay = {} /\ EndsAt(g.path, leaf)
      <4>1. Synced' => ~g.early
        BY <1>1, <1>5, <2>2 DEF Synced
      <4> QED BY <1>1, <1>3, <1>4, <2>2, <4>1 DEF ReadRight, LastWord
    <3>2. Pending' = {}
      BY <1>1, <1>6, NonePending
    <3>3. shown' = Stored(g.path)
      BY <1>1, <2>2
    <3> QED BY <1>1, <1>4, <3>1, <3>2, <3>3, Refilled
  <2> QED BY <2>1, <2>2
<1>9. Typed'
  <2>1. off' \subseteq {"astray", "crossed", "behind"} /\ locked' \in BOOLEAN
    BY <1>1, <1>3 DEF Typed
  <2> QED BY <1>1, <1>2, <1>3, <1>4, <1>8, <2>1 DEF Typed
<1> QED BY <1>2, <1>4, <1>7, <1>8, <1>9 DEF PageKept, Behind

\* The reload after a stop; the page is behind if something was still to be saved.
LEMMA ReloadedKeeps == ASSUME PageKept, NEW i \in DOMAIN gets, Reloaded(i) PROVE PageKept'
<1> DEFINE g == gets[i]
<1>1. /\ UNCHANGED thread /\ gets' = RemoveAt(gets, i)
      /\ UNCHANGED <<open, first, editing, locked, controller, fetch, stops, faults, opens>>
      /\ shown' = Stored(g.path)
      /\ off' = (IF UnderWay # {} \/ g.path # Path THEN {"behind"} ELSE {})
                   \union (IF Pending # {} THEN {"crossed"} ELSE {})
  BY DEF Reloaded, Set, bounds
<1>2. /\ PageAssumption /\ Behind /\ OnPage
      /\ UNCHANGED <<up, leaf, generating, at, stopped, wire, below, edit, notes>>
      /\ RowsRight' /\ WireRight' /\ UnderWay' = UnderWay /\ \A c : Chain(c) => Chain(c)'
      /\ \A r \in Request : Saving(r)' <=> Saving(r)
  BY <1>1, ThreadStays
<1>3. Typed /\ GetsRight /\ Closed /\ LockRight
  BY <1>2 DEF Behind
<1>4. /\ Chain(g.path) /\ gets' \in Seq(Read) /\ ReadRight' /\ GetsRight'
  <2>1. Chain(first)'
    BY <1>1, <1>2, <1>3 DEF GetsRight
  <2> QED BY <1>1, <2>1, GetsLess
<1>5. Closed' /\ LockRight'
  BY <1>1, <1>3 DEF Closed, LockRight, NoneOpen
<1>6. shown' \in Seq(Message) /\ OnPage'
  <2>1. Synced' => UnderWay = {} /\ shown' = Stored(g.path) /\ EndsAt(g.path, leaf)
    <3>1. EndsAt(Path, leaf)
      BY <1>2, PathIsChain DEF PageAssumption, Behind
    <3>2. Synced' => UnderWay = {} /\ g.path = Path
      BY <1>1 DEF Synced
    <3> QED BY <1>1, <3>1, <3>2
  <2>2. Pending' = Pending
    BY <1>1, <1>2 DEF Pending
  <2>3. "crossed" \notin off' => Pending' = {}
    BY <1>1, <2>2
  <2> QED BY <1>1, <1>4, <2>1, <2>3, Refilled
<1>7. Typed'
  <2>1. off' \subseteq {"astray", "crossed", "behind"}
    BY <1>1
  <2> QED BY <1>1, <1>2, <1>3, <1>4, <1>6, <2>1 DEF Typed
<1> QED BY <1>2, <1>4, <1>5, <1>6, <1>7 DEF PageKept, Behind

\* The page is left.
LEMMA LeaveKeeps == ASSUME PageKept, Leave PROVE PageKept'
<1>1. /\ UNCHANGED thread /\ UNCHANGED <<stops, faults, opens>>
      /\ open' = FALSE /\ shown' = <<>> /\ first' = <<>> /\ editing' = NoId /\ locked' = FALSE
      /\ controller' = NoRequest /\ gets' = <<>> /\ off' = {}
      /\ fetch' = [s \in Request |-> IF fetch[s] = "open" THEN "closed" ELSE fetch[s]]
  BY DEF Leave, bounds
<1>2. /\ PageAssumption /\ Behind
      /\ UNCHANGED <<up, leaf, generating, at, stopped, wire, below, edit, notes>>
      /\ RowsRight' /\ WireRight' /\ \A c : Chain(c) => Chain(c)'
  BY <1>1, ThreadStays
<1>3. Typed
  BY <1>2 DEF Behind
<1>4. Len(shown') = 0 /\ Len(gets') = 0 /\ shown' \in Seq(Message) /\ gets' \in Seq(Read)
  BY <1>1, EmptySeq
<1>5. fetch' \in [Request -> {"none", "open", "closed"}] /\ NoneOpen'
  BY <1>1, <1>3 DEF Typed, NoneOpen
<1>6. Typed'
  <2>1. NoId \in Id
    BY DEF Id
  <2> QED BY <1>1, <1>2, <1>3, <1>4, <1>5, <2>1 DEF Typed
<1>7. Closed' /\ LockRight'
  BY <1>1, <1>5 DEF Closed, LockRight
<1>8. GetsRight' /\ ReadRight'
  <2>1. Chain(first)'
    BY <1>1, <1>2, EmptyChain
  <2> QED BY <1>1, <1>4, <2>1 DEF GetsRight, ReadRight
<1>9. Pending' = {}
  BY <1>5 DEF Pending, NoneOpen
<1>10. IdsStored' /\ Linked'
  BY <1>4 DEF IdsStored, Linked
<1>11. ~Synced'
  BY <1>1 DEF Synced
<1>12. OnPage'
  BY <1>4, <1>9, <1>10, <1>11 DEF OnPage, IdsRight, LinksRight, SyncRight
<1> QED BY <1>2, <1>6, <1>7, <1>8, <1>12 DEF PageKept, Behind

\* The end of a response; its ids have come before.
LEMMA EndsKeeps == ASSUME PageKept, NEW s \in Request, Ends(s) PROVE PageKept'
<1>1. /\ UNCHANGED thread /\ UNCHANGED <<open, shown, first, editing, locked, gets, off>>
      /\ UNCHANGED <<stops, faults, opens>> /\ controller' = NoRequest
      /\ fetch' = [fetch EXCEPT ![s] = "closed"] /\ wire[s] # <<>> /\ Head(wire[s]) = "end"
  BY DEF Ends, bounds
<1>2. /\ PageAssumption /\ Behind /\ OnPage
      /\ UNCHANGED <<up, leaf, generating, at, stopped, wire, below, edit, notes>>
      /\ RowsRight' /\ WireRight' /\ UnderWay' = UnderWay /\ \A c : Chain(c) => Chain(c)'
      /\ \A r \in Request : (Saving(r)' <=> Saving(r)) /\ Made(r)' = Made(r)
  BY <1>1, ThreadStays
<1>3. Typed /\ GetsRight /\ Closed /\ LockRight /\ ReadRight /\ WireRight
  BY <1>2 DEF Behind
<1>4. /\ fetch' \in [Request -> {"none", "open", "closed"}]
      /\ \A r \in Request : fetch'[r] = IF r = s THEN "closed" ELSE fetch[r]
  BY <1>1, <1>3 DEF Typed
<1>5. ~Saving(s) /\ s \notin Pending
  BY <1>1, <1>3 DEF WireRight, Saving, Pending
<1>6. Pending' = Pending
  BY <1>2, <1>4, <1>5 DEF Pending
<1>7. Typed'
  BY <1>1, <1>2, <1>3, <1>4 DEF Typed
<1>8. Closed' /\ LockRight'
  BY <1>1, <1>3, <1>4 DEF Closed, LockRight, NoneOpen
<1>9. GetsRight' /\ ReadRight'
  BY <1>1, <1>2, <1>3 DEF GetsRight, ReadRight, Chain, LastWord, EndsAt
<1>10. IdsStored' /\ IdsRight'
  BY <1>1, <1>2, <1>6 DEF OnPage, IdsStored, IdsRight, Rows, Waits, Blank
<1>11. LinksRight'
  BY <1>1, <1>2, <1>6 DEF OnPage, LinksRight, Linked, Hangs, Blank
<1>12. SyncRight'
  <2>1. (Streams' <=> Streams) /\ (Newest(leaf)' <=> Newest(leaf)) /\ (Synced' <=> Synced)
    BY <1>1, <1>2 DEF Streams, Newest, Blank, Synced
  <2>2. ASSUME Synced' PROVE SyncRight'
    <3>1. /\ \A r \in Request : Saving(r) => fetch[r] = "open"
          /\ \A r \in Pending : Streams /\ (Question(r) \in DOMAIN up => leaf = Made(r))
          /\ Streams \/ Newest(leaf)
      BY <1>2, <2>1, <2>2 DEF OnPage, SyncRight
    <3>2. \A r \in Pending' : r \in Pending /\ r \in Request
      BY <1>6 DEF Pending
    <3>3. \A r \in Request : Saving(r)' => fetch'[r] = "open"
      BY <1>2, <1>4, <1>5, <3>1
    <3> QED BY <1>2, <2>1, <3>1, <3>2, <3>3 DEF SyncRight
  <2> QED BY <2>2 DEF SyncRight
<1> QED BY <1>2, <1>7, <1>8, <1>9, <1>10, <1>11, <1>12 DEF PageKept, Behind, OnPage

\* The first messages of a page.
Cut(t, k) == /\ t \in Seq(Message) /\ Len(t) = k
             /\ \A i \in 1..k : t[i] = shown[i]

\* Without the last message.
LEMMA FrontIsCut ==
  ASSUME TypeOK, NEW t, NEW k \in 1..Len(shown), Cut(t, k) PROVE Cut(Front(t), k - 1)
<1>1. t \in Seq(Message) /\ Len(t) = k /\ Len(shown) \in Nat
  BY Lines DEF Cut
<1>2. \A i \in 1..(k - 1) : i \in 1..k /\ t[i] \in Message
  <2>1. \A i \in 1..Len(t) : t[i] \in Message
    BY <1>1, ElementOfSeq
  <2> QED BY <1>1, <2>1
<1>3. 1 \in Int /\ k - 1 \in Int
  BY <1>1
<1> DEFINE u == SubSeq(t, 1, k - 1)
<1>4. /\ u \in Seq(Message)
      /\ Len(u) = IF 1 <= k - 1 THEN (k - 1) - 1 + 1 ELSE 0
  BY <1>2, <1>3, SubSeqProperties
<1>5. \A i \in 1..(k - 1) : u[i] = t[i]
  OBVIOUS
<1>6. Len(u) = k - 1
  <2> HIDE DEF u
  <2> QED BY <1>1, <1>4
<1>7. Front(t) = u
  BY <1>1 DEF Front
<1> HIDE DEF u
<1> QED BY <1>2, <1>4, <1>5, <1>6, <1>7 DEF Cut

\* REVERT_SEND takes messages from the end.
LEMMA RevertedIsCut == ASSUME TypeOK PROVE \E k \in 0..Len(shown) : Cut(Reverted(shown), k)
<1> DEFINE n == Len(shown)
           rest == IF n >= 2 /\ Last(shown).streaming THEN Front(shown) ELSE shown
<1>1. n \in Nat /\ Cut(shown, n)
  BY Lines DEF Cut
<1>2. Reverted(shown) = IF n >= 2 /\ Last(rest).text[2] = "user" THEN Front(rest) ELSE rest
  BY DEF Reverted
<1>3. \E k \in 0..n : Cut(rest, k) /\ (n >= 2 => k >= 1)
  <2>1. CASE n >= 2 /\ Last(shown).streaming
    <3>1. n \in 1..Len(shown) /\ n - 1 \in 0..n /\ n - 1 >= 1
      BY <1>1, <2>1
    <3>2. Cut(Front(shown), n - 1)
      BY <1>1, <3>1, FrontIsCut
    <3> QED BY <2>1, <3>1, <3>2
  <2>2. CASE ~(n >= 2 /\ Last(shown).streaming)
    BY <1>1, <2>2
  <2> QED BY <2>1, <2>2
<1> HIDE DEF rest
<1>4. PICK k \in 0..n : Cut(rest, k) /\ (n >= 2 => k >= 1)
  BY <1>3
<1>5. CASE n >= 2 /\ Last(rest).text[2] = "user"
  <2>1. k \in 1..Len(shown) /\ k - 1 \in 0..n
    BY <1>1, <1>4, <1>5
  <2>2. Cut(Front(rest), k - 1)
    BY <1>4, <2>1, FrontIsCut
  <2> QED BY <1>2, <1>5, <2>1, <2>2
<1>6. CASE ~(n >= 2 /\ Last(rest).text[2] = "user")
  BY <1>2, <1>4, <1>6
<1> QED BY <1>5, <1>6

\* A page that keeps its first messages.
LEMMA CutStays ==
  ASSUME OnPage, TypeOK, UNCHANGED up, NEW k \in 0..Len(shown), Cut(shown', k)
  PROVE  /\ IdsStored' /\ (Linked => Linked')
         /\ \A i \in 1..Len(shown') : shown'[i].id = shown[i].id /\ shown'[i].text = shown[i].text
                                      /\ i \in 1..Len(shown)
<1>1. Len(shown) \in Nat /\ \A i \in 1..k : i \in 1..Len(shown)
  BY Lines
<1>2. Len(shown') = k /\ \A i \in 1..k : shown'[i] = shown[i]
  BY DEF Cut
<1>3. IdsStored'
  BY <1>1, <1>2 DEF OnPage, IdsStored, Rows
<1>4. Linked => Linked'
  <2> SUFFICES ASSUME Linked PROVE Linked'
    OBVIOUS
  <2>1. \A i \in 1..k : i # 1 => i - 1 \in 1..k
    BY <1>1
  <2> QED BY <1>1, <1>2, <2>1 DEF Linked, Blank
<1> QED BY <1>1, <1>2, <1>3, <1>4

\* A response fails: the page goes back to what it showed, and is behind.
LEMMA FailsKeeps == ASSUME PageKept, NEW s \in Request, Fails(s) PROVE PageKept'
<1> DEFINE others == Pending \ {s}
<1>1. /\ UNCHANGED thread /\ UNCHANGED <<open, first, editing, locked, gets, stops, opens>>
      /\ fetch[s] = "open" /\ fetch' = [fetch EXCEPT ![s] = "closed"] /\ controller' = NoRequest
      /\ faults' = faults \/ (faults' = faults + 1 /\ faults < MaxFaults)
      /\ \/ /\ shown' = Stored(first)
            /\ off' = {"behind"} \union (IF others # {} THEN {"crossed"} ELSE {})
         \/ /\ shown' = Reverted(shown)
            /\ off' = off \union {"behind"} \union (IF others # {} THEN {"crossed"} ELSE {})
  BY DEF Fails, Set, bounds, Fault
<1>2. /\ PageAssumption /\ Behind /\ OnPage
      /\ UNCHANGED <<up, leaf, generating, at, stopped, wire, below, edit, notes>>
      /\ RowsRight' /\ WireRight' /\ UnderWay' = UnderWay
      /\ \A r \in Request : Saving(r)' <=> Saving(r)
  BY <1>1, ThreadStays
<1>3. Typed /\ GetsRight /\ Closed /\ LockRight /\ ReadRight /\ TypeOK
  BY <1>2, KeptTypes DEF Behind
<1>4. /\ fetch' \in [Request -> {"none", "open", "closed"}]
      /\ \A r \in Request : fetch'[r] = IF r = s THEN "closed" ELSE fetch[r]
  BY <1>1, <1>3 DEF Typed
<1>5. Pending' = others
  BY <1>2, <1>4 DEF Pending
<1> HIDE DEF others
<1>6. "crossed" \notin off' => Pending' = {}
  BY <1>1, <1>5
<1>7. "behind" \in off' /\ off' \subseteq {"astray", "crossed", "behind"} /\ ~Synced'
  BY <1>1, <1>3 DEF Typed, Synced
<1>8. shown' \in Seq(Message) /\ OnPage'
  <2>1. CASE shown' = Stored(first)
    <3>1. Chain(first)
      BY <1>3 DEF GetsRight
    <3> QED BY <1>1, <1>6, <1>7, <2>1, <3>1, Refilled
  <2>2. CASE /\ shown' = Reverted(shown)
             /\ off' = off \union {"behind"} \union (IF others # {} THEN {"crossed"} ELSE {})
    <3>1. PICK k \in 0..Len(shown) : Cut(shown', k)
      BY <1>3, <2>2, RevertedIsCut
    <3>2. /\ IdsStored' /\ (Linked => Linked')
          /\ \A i \in 1..Len(shown') : shown'[i].id = shown[i].id /\ shown'[i].text = shown[i].text
                                       /\ i \in 1..Len(shown)
      BY <1>2, <1>3, <3>1, CutStays
    <3>3. off \subseteq off'
      BY <2>2
    <3>4. IdsRight'
      BY <1>2, <1>6, <3>2, <3>3 DEF OnPage, IdsRight
    <3>5. LinksRight'
      BY <1>2, <1>6, <3>2, <3>3 DEF OnPage, LinksRight
    <3>6. SyncRight'
      BY <1>7 DEF SyncRight
    <3> QED BY <3>1, <3>2, <3>4, <3>5, <3>6 DEF Cut, OnPage
  <2> QED BY <1>1, <2>1, <2>2
<1>9. Typed'
  <2>1. faults' \in 0..MaxFaults
    BY <1>1, <1>2, <1>3 DEF Typed, PageAssumption
  <2> QED BY <1>1, <1>2, <1>3, <1>4, <1>7, <1>8, <2>1 DEF Typed
<1>10. Closed' /\ LockRight'
  BY <1>1, <1>3, <1>4 DEF Closed, LockRight, NoneOpen
<1>11. GetsRight' /\ ReadRight'
  BY <1>1, <1>2, <1>3 DEF GetsRight, ReadRight, Chain, LastWord, EndsAt
<1> QED BY <1>2, <1>8, <1>9, <1>10, <1>11 DEF PageKept, Behind

\* A stop leaves the ids as they are, and asks for what there is or cannot know it.
LEMMA StopKeeps == ASSUME PageKept, Stop PROVE PageKept'
<1> DEFINE kept == NoPolls(gets)
<1>1. /\ UNCHANGED <<up, leaf, generating, at, stopped, wire, below, edit>>
      /\ UNCHANGED <<open, first, editing, faults, opens>> /\ open /\ locked' = FALSE
      /\ controller' = NoRequest /\ notes' \in {notes, notes + 1}
      /\ stops < MaxStops /\ stops' = stops + 1
      /\ shown' = [i \in DOMAIN shown |-> [shown[i] EXCEPT !.streaming = FALSE]]
      /\ IF controller = NoRequest
         THEN gets' = kept /\ off' = off \union {"behind"} /\ UNCHANGED fetch
         ELSE /\ fetch' = [fetch EXCEPT ![controller] = "closed"]
              /\ gets' = Append(kept, Get("reload")) /\ UNCHANGED off
  BY DEF Stop, StopAllowed, rows, server, request
<1>2. PageAssumption /\ Behind /\ OnPage
  BY DEF PageKept
<1>3. Typed /\ GetsRight /\ Closed /\ LockRight /\ ReadRight /\ RowsRight /\ WireRight /\ TypeOK
  BY <1>2, KeptTypes DEF Behind
<1>4. RowsRight' /\ WireRight' /\ UnderWay' = UnderWay /\ \A c : Chain(c) => Chain(c)'
  BY <1>1, <1>3 DEF RowsRight, WireRight, Rows, UnderWay, Chain
<1>5. /\ shown \in Seq(Message) /\ DOMAIN shown = 1..Len(shown) /\ Len(shown) \in Nat
      /\ \A i \in 1..Len(shown) : shown[i] \in Message
  BY <1>3, Lines
<1>6. /\ shown' \in Seq(Message) /\ Len(shown') = Len(shown)
      /\ \A i \in 1..Len(shown) : shown'[i].id = shown[i].id /\ shown'[i].text = shown[i].text
  <2>1. \A i \in 1..Len(shown) :
          /\ shown'[i] \in Message /\ shown'[i].id = shown[i].id /\ shown'[i].text = shown[i].text
    BY <1>1, <1>5 DEF Message
  <2>2. shown' \in [1..Len(shown) -> Message]
    BY <1>1, <1>5, <2>1
  <2> QED BY <1>5, <2>1, <2>2, SeqDef, LenProperties
<1>7. /\ kept \in Seq(Read)
      /\ \A i \in 1..Len(kept) : \E j \in 1..Len(gets) : kept[i] = gets[j] /\ gets[j].why # "poll"
  <2> DEFINE S == {g \in ToSet(gets) : g.why # "poll"}
  <2>1. kept = Only(gets, S) /\ gets \in Seq(Read)
    BY <1>3 DEF NoPolls, Typed
  <2>2. kept \in Seq(Read) /\ Picks(gets, S, Len(gets), kept)
    BY <2>1, OnlyPicks
  <2>3. \A g \in S : g.why # "poll"
    OBVIOUS
  <2> HIDE DEF S, kept
  <2> QED BY <2>2, <2>3 DEF Picks
<1> HIDE DEF kept
<1> DEFINE g == Get("reload")
<1>8. g \in Read /\ g.why = "reload" /\ g.path = <<>> /\ ~LastWord(g)
  BY Asked
<1> HIDE DEF g
<1>9. /\ gets' \in Seq(Read)
      /\ \A i \in 1..Len(gets') : \/ \E j \in 1..Len(gets) : gets'[i] = gets[j] /\ gets[j].why # "poll"
                                  \/ gets'[i] = g
  <2>1. CASE controller = NoRequest
    BY <1>1, <1>7, <2>1
  <2>2. CASE controller # NoRequest
    <3>1. gets' = Append(kept, g)
      BY <1>1, <2>2 DEF g
    <3>2. /\ gets' \in Seq(Read) /\ Len(gets') = Len(kept) + 1 /\ Len(kept) \in Nat
          /\ gets'[Len(kept) + 1] = g /\ \A i \in 1..Len(kept) : gets'[i] = kept[i]
      BY <1>7, <1>8, <3>1, AppendOne
    <3>3. \A i \in 1..Len(gets') : i = Len(kept) + 1 \/ i \in 1..Len(kept)
      BY <3>2
    <3> QED BY <1>7, <3>2, <3>3
  <2> QED BY <2>1, <2>2
<1>10. ~Synced'
  <2>1. CASE controller = NoRequest
    BY <1>1, <2>1 DEF Synced
  <2>2. CASE controller # NoRequest
    <3>1. gets' = Append(kept, g)
      BY <1>1, <2>2 DEF g
    <3>2. Len(gets') = Len(kept) + 1 /\ Len(kept) \in Nat /\ gets'[Len(kept) + 1] = g
      BY <1>7, <1>8, <3>1, AppendOne
    <3>3. Len(kept) + 1 \in 1..Len(gets')
      BY <3>2
    <3> QED BY <1>8, <3>2, <3>3 DEF Synced
  <2> QED BY <2>1, <2>2
<1>11. /\ fetch' \in [Request -> {"none", "open", "closed"}]
       /\ \A r \in Request : fetch'[r] = "open" => fetch[r] = "open"
  BY <1>1, <1>3 DEF Typed
<1>12. Pending' \subseteq Pending
  BY <1>1, <1>11 DEF Pending, Saving
<1>13. Typed'
  <2>1. off' \subseteq {"astray", "crossed", "behind"}
    BY <1>1, <1>3 DEF Typed
  <2>2. notes' \in 0..stops' /\ stops' \in 0..MaxStops
    <3>1. notes \in 0..stops /\ stops \in 0..MaxStops /\ MaxStops \in Nat
      BY <1>2, <1>3 DEF Typed, PageAssumption
    <3> QED BY <1>1, <3>1
  <2> QED BY <1>1, <1>3, <1>6, <1>9, <1>11, <2>1, <2>2 DEF Typed
<1>14. Closed' /\ LockRight'
  BY <1>1 DEF Closed, LockRight
<1>15. GetsRight'
  <2>1. \A i \in 1..Len(gets') : gets'[i].why # "poll" /\ gets'[i].why # "open"
    BY <1>1, <1>3, <1>8, <1>9 DEF GetsRight
  <2>2. ASSUME NEW i \in 1..Len(gets') PROVE Chain(gets[i].path)'
    <3>1. Chain(gets'[i].path)
      BY <1>3, <1>8, <1>9, EmptyChain DEF GetsRight
    <3> QED BY <1>1, <3>1 DEF Chain
  <2>3. Chain(first)'
    BY <1>1, <1>3, <1>4 DEF GetsRight
  <2> QED BY <1>1, <2>1, <2>2, <2>3 DEF GetsRight
<1>16. ReadRight'
  <2>1. ASSUME NEW i \in 1..Len(gets'), LastWord(gets'[i])
        PROVE  UnderWay = {} /\ EndsAt(gets'[i].path, leaf)
    BY <1>3, <1>8, <1>9, <2>1 DEF ReadRight
  <2> QED BY <1>1, <1>4, <2>1 DEF ReadRight, LastWord, EndsAt
<1>17. off' \intersect {"astray", "crossed"} = off \intersect {"astray", "crossed"}
  BY <1>1
<1>18. IdsStored'
  BY <1>1, <1>2, <1>6 DEF OnPage, IdsStored, Rows
<1>19. IdsRight'
  <2> SUFFICES ASSUME "crossed" \notin off' PROVE IdsRight'
    BY DEF IdsRight
  <2>1. "crossed" \notin off
    BY <1>17
  <2>2. \A r \in Request : Waits(r) => Waits(r)'
    BY <1>5, <1>6 DEF Waits, Blank
  <2> QED BY <1>2, <1>6, <1>12, <2>1, <2>2 DEF OnPage, IdsRight, Pending
<1>20. LinksRight'
  <2>1. Linked => Linked'
    <3>1. \A i \in 1..Len(shown) : i # 1 => i - 1 \in 1..Len(shown)
      BY <1>5
    <3> QED BY <1>1, <1>6, <3>1 DEF Linked, Blank
  <2> SUFFICES ASSUME off \intersect {"astray", "crossed"} = {}
               PROVE  Linked' /\ \A r \in Pending' : Hangs(r)'
    BY <1>17 DEF LinksRight
  <2>2. ASSUME NEW r \in Pending PROVE Hangs(r)'
    <3>1. Hangs(r) /\ Waits(r)
      BY <1>2 DEF OnPage, LinksRight, IdsRight
    <3>2. Len(shown) >= 2 /\ (Len(shown) # 2 => Len(shown) - 2 \in 1..Len(shown))
      BY <1>5, <3>1 DEF Waits
    <3> QED BY <1>1, <1>6, <3>1, <3>2 DEF Hangs, Blank
  <2> QED BY <1>2, <1>12, <2>1, <2>2 DEF OnPage, LinksRight
<1> QED BY <1>2, <1>4, <1>10, <1>13, <1>14, <1>15, <1>16, <1>18, <1>19, <1>20
        DEF PageKept, Behind, OnPage, SyncRight

\* The rows of a thread are of requests made before.
LEMMA Older ==
  ASSUME NumSends \in Nat, RowsRight, NEW s \in Request, at[s] = "new", NEW m \in Rows
  PROVE  Rank(m) < 2 * s /\ m \in Id
<1>1. s \in Nat /\ s >= 1
  BY DEF Request
<1>2. CASE m = NoId
  BY <1>1, <1>2, Ranks DEF Id
<1>3. CASE m # NoId
  <2>1. m \in DOMAIN up /\ m \in Id
    BY <1>3 DEF Rows, RowsRight
  <2>2. PICK r \in Request : m = Question(r) \/ m = Answer(r)
    BY <1>3, <2>1, Names
  <2>3. at[r] # "new" /\ r # s
    BY <2>1, <2>2 DEF RowsRight
  <2>4. r \in Nat /\ (Rank(m) = 2 * r \/ Rank(m) = 2 * r + 1)
    BY <2>2, Ranks DEF Request
  <2>5. ~(s < r)
    BY <2>3 DEF RowsRight
  <2> QED BY <1>1, <2>1, <2>3, <2>4, <2>5
<1> QED BY <1>2, <1>3

\* A request for what follows the messages kept: below the last of them, if all have
\* ids or none has, its messages are linked.
LEMMA AskKeeps ==
  ASSUME PageKept, NEW s \in Request, NEW kept, NEW parent \in Rows, NEW edits \in BOOLEAN,
         Ask(s, kept, parent, edits), NEW k \in 0..Len(shown), Cut(kept, k), ~locked,
         editing' \in Id, off \subseteq off', off' \subseteq {"astray", "crossed", "behind"},
         "crossed" \notin off' => Pending = {},
         off' \intersect {"astray", "crossed"} = {} =>
           IF k = 0 THEN parent = NoId
           ELSE parent = shown[k].id /\ (Blank(k) => \A i \in 1..k : Blank(i))
  PROVE  PageKept'
<1>1. /\ UNCHANGED <<up, leaf, generating, stopped, wire, notes, open, first, locked, gets>>
      /\ UNCHANGED <<stops, faults, opens>> /\ open
      /\ at[s] = "new" /\ (\A r \in Request : r < s => at[r] # "new")
      /\ at' = [at EXCEPT ![s] = "sent"]
      /\ below' = [below EXCEPT ![s] = parent] /\ edit' = [edit EXCEPT ![s] = edits]
      /\ shown' = kept \o Optimistic(s) /\ controller' = s
      /\ fetch' = [fetch EXCEPT ![s] = "open"]
  BY DEF Ask, Moves, rows, bounds
<1>2. /\ PageAssumption /\ Behind /\ OnPage /\ Typed /\ GetsRight /\ ReadRight /\ RowsRight
      /\ WireRight /\ TypeOK /\ NumSends \in Nat
  BY KeptTypes DEF PageKept, Behind, PageAssumption
<1>3. /\ at' \in [Request -> Stages] /\ at'[s] = "sent" /\ \A r \in Request : r # s => at'[r] = at[r]
  BY <1>1, <1>2 DEF RowsRight, Stages
<1>4. Rank(parent) < 2 * s /\ parent \in Id
  BY <1>1, <1>2, Older
<1>5. /\ below' \in [Request -> Id] /\ below'[s] = parent
      /\ \A r \in Request : r # s => below'[r] = below[r]
  BY <1>1, <1>2, <1>4 DEF RowsRight
<1>6. RowsRight'
  <2>1. Question(s) \notin DOMAIN up /\ Answer(s) \notin DOMAIN up
    BY <1>1, <1>2 DEF RowsRight
  <2>2. ASSUME NEW r \in Request
        PROVE  /\ at'[r] \in {"new", "sent", "setup"} => Question(r) \notin DOMAIN up
               /\ at'[r] \in {"model", "saved", "title"} => Question(r) \in DOMAIN up
               /\ at'[r] \in {"new", "sent", "setup", "model"} => Answer(r) \notin DOMAIN up
               /\ Question(r) \in DOMAIN up => up[Question(r)] = below'[r]
               /\ Answer(r) \in DOMAIN up => Question(r) \in DOMAIN up /\ up[Answer(r)] = Question(r)
    BY <1>2, <1>3, <1>5, <2>1 DEF RowsRight
  <2>3. ASSUME NEW r \in Request, at'[r] # "new"
        PROVE  /\ below'[r] \in Rows /\ Rank(below'[r]) < 2 * r
               /\ \A q \in Request : q < r => at'[q] # "new"
    <3>1. CASE r = s
      <4>1. \A q \in Request : q < s => q # s
        BY DEF Request
      <4> QED BY <1>1, <1>3, <1>4, <1>5, <3>1, <4>1
    <3>2. CASE r # s
      <4>1. at[r] # "new"
        BY <1>3, <2>3, <3>2
      <4> QED BY <1>2, <1>3, <1>5, <3>2, <4>1 DEF RowsRight
    <3> QED BY <3>1, <3>2
  <2>4. up' = up /\ leaf' = leaf /\ Rows' = Rows
    BY <1>1 DEF Rows
  <2>5. DOMAIN up \subseteq Id \ {NoId} /\ leaf \in Rows
    BY <1>2 DEF RowsRight
  <2> QED BY <1>3, <1>5, <2>2, <2>3, <2>4, <2>5 DEF RowsRight
<1>7. wire[s] = <<>> /\ WireRight'
  <2>1. wire[s] = <<>>
    BY <1>1, <1>2 DEF WireRight
  <2>2. wire' = wire /\ up' = up
    BY <1>1
  <2> QED BY <1>2, <1>3, <2>1, <2>2 DEF WireRight
<1>8. /\ fetch' \in [Request -> {"none", "open", "closed"}] /\ fetch'[s] = "open"
      /\ \A r \in Request : r # s => fetch'[r] = fetch[r]
  BY <1>1, <1>2 DEF Typed
<1>9. Pending' = Pending \union {s} /\ Saving(s)'
  BY <1>1, <1>3, <1>8 DEF Pending, Saving
<1> DEFINE t == shown'
           o == Optimistic(s)
<1>10. /\ o \in Seq(Message) /\ Len(o) = 2 /\ o[1].id = NoId /\ o[1].text = Question(s)
       /\ o[2].id = NoId /\ o[2].text = Answer(s) /\ o[2].streaming
  <2>1. Question(s) \in Id /\ Answer(s) \in Id /\ NoId \in Id
    BY Names DEF Id
  <2> DEFINE a == [text |-> Question(s), id |-> NoId, streaming |-> FALSE]
             b == Bubble(Answer(s))
  <2>2. a \in Message /\ b \in Message /\ b.id = NoId /\ b.text = Answer(s) /\ b.streaming
        /\ a.id = NoId /\ a.text = Question(s)
    BY <2>1 DEF Message, Bubble
  <2>3. o = <<a, b>>
    BY DEF Optimistic
  <2> HIDE DEF a, b, o
  <2> QED BY <2>2, <2>3
<1> HIDE DEF o
<1>11. /\ kept \in Seq(Message) /\ Len(kept) = k /\ k \in Nat /\ Len(shown) \in Nat /\ k <= Len(shown)
       /\ \A i \in 1..k : kept[i] = shown[i] /\ i \in 1..Len(shown)
  BY <1>2, Lines DEF Cut
<1>12. /\ t \in Seq(Message) /\ Len(t) = k + 2 /\ \A i \in 1..k : t[i] = shown[i]
       /\ t[k + 1] = o[1] /\ t[k + 2] = o[2]
  <2>1. t = kept \o o
    BY <1>1 DEF o
  <2> HIDE DEF t
  <2>2. /\ t \in Seq(Message) /\ Len(t) = k + 2
        /\ \A i \in 1..(k + 2) : t[i] = IF i <= k THEN kept[i] ELSE o[i - k]
    <3>1. /\ kept \o o \in Seq(Message) /\ Len(kept \o o) = Len(kept) + Len(o)
          /\ \A i \in 1..(Len(kept) + Len(o)) :
               (kept \o o)[i] = IF i <= Len(kept) THEN kept[i] ELSE o[i - Len(kept)]
      <4>1. kept \in Seq(Message) /\ o \in Seq(Message)
        BY <1>10, <1>11
      <4> QED BY ONLY <4>1, ConcatProperties
    <3>2. Len(kept) = k /\ Len(o) = 2
      BY <1>10, <1>11
    <3> QED BY <2>1, <3>1, <3>2
  <2>3. /\ k + 1 \in 1..(k + 2) /\ k + 2 \in 1..(k + 2) /\ ~(k + 1 <= k) /\ ~(k + 2 <= k)
        /\ (k + 1) - k = 1 /\ (k + 2) - k = 2 /\ \A i \in 1..k : i \in 1..(k + 2) /\ i <= k
    BY <1>11
  <2>4. \A i \in 1..k : t[i] = shown[i]
    BY <1>11, <2>2, <2>3
  <2>5. t[k + 1] = o[1] /\ t[k + 2] = o[2]
    BY <2>2, <2>3
  <2> QED BY <2>2, <2>4, <2>5
<1>13. \A i \in 1..Len(t) : i \in 1..k \/ i = k + 1 \/ i = k + 2
  BY <1>11, <1>12
<1> HIDE DEF t
<1>14. Typed'
  BY <1>1, <1>2, <1>8, <1>12 DEF Typed, t
<1>15. Closed' /\ LockRight'
  BY <1>1 DEF Closed, LockRight
<1>16. GetsRight'
  BY <1>1, <1>2 DEF GetsRight, Chain
<1>17. ReadRight'
  <2>1. \A i \in 1..Len(gets) : gets[i].why # "poll" /\ gets[i].why # "open" /\ gets[i] \in Read
    BY <1>1, <1>2, ElementOfSeq DEF GetsRight, Typed
  <2>2. \A i \in 1..Len(gets) : ~LastWord(gets[i])
    BY <2>1 DEF LastWord, Read
  <2> QED BY <1>1, <2>2 DEF ReadRight, LastWord
<1>18. /\ \A i \in 1..k : t[i].id = shown[i].id /\ t[i].text = shown[i].text
       /\ t[k + 1].id = NoId /\ t[k + 1].text = Question(s)
       /\ t[k + 2].id = NoId /\ t[k + 2].text = Answer(s) /\ t[k + 2].streaming
  BY <1>10, <1>12
<1>19. IdsStored'
  <2>1. \A i \in 1..Len(t) : t[i].id \in Rows
    BY <1>2, <1>11, <1>13, <1>18 DEF OnPage, IdsStored, Rows
  <2> QED BY <1>1, <2>1 DEF IdsStored, Rows, t
<1>20. k + 2 >= 2 /\ (k + 2) - 1 = k + 1 /\ (k + 2) - 2 = k /\ (k + 2 = 2 <=> k = 0)
  BY <1>11
<1>21. IdsRight'
  <2> SUFFICES ASSUME "crossed" \notin off' PROVE IdsRight'
    BY DEF IdsRight
  <2>1. Pending' = {s} /\ "crossed" \notin off
    BY <1>9
  <2>2. \A i \in 1..Len(t) : t[i].id \in {NoId, t[i].text}
    BY <1>2, <1>11, <1>13, <1>18, <2>1 DEF OnPage, IdsRight
  <2>3. Waits(s)'
    BY <1>12, <1>18, <1>20 DEF Waits, Blank, t
  <2> QED BY <2>1, <2>2, <2>3 DEF IdsRight, t
<1>22. LinksRight'
  <2> SUFFICES ASSUME off' \intersect {"astray", "crossed"} = {}
               PROVE  Linked' /\ \A r \in Pending' : Hangs(r)'
    BY DEF LinksRight
  <2>1. Pending' = {s} /\ Linked
    BY <1>2, <1>9 DEF OnPage, LinksRight
  <2>2. IF k = 0 THEN parent = NoId
        ELSE parent = shown[k].id /\ (Blank(k) => \A i \in 1..k : Blank(i))
    OBVIOUS
  <2>3. Linked'
    <3>1. \A i \in 1..Len(t) : t[i].id # NoId => i \in 1..k
      BY <1>13, <1>18
    <3>2. \A i, j, l \in 1..Len(t) : i < j /\ j < l /\ l \in 1..k => i \in 1..k /\ j \in 1..k
      BY <1>11, <1>12
    <3>3. \A i, j, l \in 1..Len(t) :
            i < j /\ j < l /\ t[i].id # NoId /\ t[l].id # NoId => t[j].id # NoId
      <4>1. ASSUME NEW i \in 1..Len(t), NEW j \in 1..Len(t), NEW l \in 1..Len(t), i < j, j < l,
                   t[i].id # NoId, t[l].id # NoId
            PROVE  t[j].id # NoId
        <5>1. i \in 1..k /\ j \in 1..k /\ l \in 1..k
          BY <3>1, <3>2, <4>1
        <5>2. ~Blank(i) /\ ~Blank(l)
          BY <1>18, <4>1, <5>1 DEF Blank
        <5>3. ~Blank(j)
          BY <1>11, <2>1, <4>1, <5>1, <5>2 DEF Linked
        <5> QED BY <1>18, <5>1, <5>3 DEF Blank
      <4> QED BY <4>1
    <3>4. ASSUME NEW i \in 1..Len(t), t[i].id # NoId
          PROVE  up[t[i].id] = IF i = 1 THEN NoId ELSE t[i - 1].id
      <4>1. i \in 1..k /\ (i # 1 => i - 1 \in 1..k)
        BY <1>11, <3>1, <3>4
      <4>2. shown[i].id = t[i].id /\ ~Blank(i) /\ i \in 1..Len(shown)
        BY <1>11, <1>18, <3>4, <4>1 DEF Blank
      <4>3. up[shown[i].id] = IF i = 1 THEN NoId ELSE shown[i - 1].id
        BY <2>1, <4>2 DEF Linked
      <4> QED BY <1>18, <4>1, <4>2, <4>3
    <3> QED BY <1>1, <3>3, <3>4 DEF Linked, Blank, t
  <2>4. Hangs(s)'
    <3>1. k # 0 => k \in 1..k
      BY <1>11
    <3>2. k # 0 /\ Blank(k) => \A i \in 1..Len(t) : t[i].id = NoId
      BY <1>13, <1>18, <2>2 DEF Blank
    <3> QED BY <1>5, <1>12, <1>18, <1>20, <2>2, <3>1, <3>2 DEF Hangs, Blank, t
  <2> QED BY <2>1, <2>3, <2>4
<1>23. SyncRight'
  <2> SUFFICES ASSUME Synced' PROVE SyncRight'
    BY DEF SyncRight
  <2>1. Synced /\ off' = {}
    BY <1>1 DEF Synced
  <2>2. \A r \in Request : Saving(r)' => fetch'[r] = "open"
    BY <1>2, <1>3, <1>8, <2>1 DEF OnPage, SyncRight, Saving
  <2>3. Pending' = {s}
    BY <1>9, <2>1
  <2>4. Streams'
    <3>1. t # <<>>
      BY <1>11, <1>12
    <3> QED BY <1>12, <1>18, <3>1 DEF Streams, t
  <2>5. Question(s) \notin DOMAIN up'
    BY <1>1, <1>2 DEF RowsRight
  <2> QED BY <2>2, <2>3, <2>4, <2>5 DEF SyncRight
<1> QED BY <1>2, <1>6, <1>7, <1>14, <1>15, <1>16, <1>17, <1>19, <1>21, <1>22, <1>23
        DEF PageKept, Behind, OnPage

\* A message is sent below the last one.
LEMMA SendKeeps == ASSUME PageKept, NEW s \in Request, Send(s) PROVE PageKept'
<1> DEFINE n == Len(shown)
           parent == IF shown = <<>> THEN NoId ELSE Last(shown).id
<1>1. /\ PageAssumption /\ Behind /\ OnPage /\ Typed /\ TypeOK
      /\ n \in Nat /\ shown \in Seq(Message)
  BY KeptTypes, Lines DEF PageKept, Behind
<1>2. /\ ~locked /\ Ask(s, shown, parent, FALSE) /\ editing' = editing
      /\ off' = off \union (IF parent # Confirmed THEN {"astray"} ELSE {})
                   \union (IF Pending # {} THEN {"crossed"} ELSE {})
  BY DEF Send, Locked
<1>3. IF n = 0 THEN parent = NoId ELSE parent = shown[n].id /\ n \in 1..n
  <2>1. shown = <<>> <=> n = 0
    BY <1>1, EmptySeq
  <2> QED BY <1>1, <2>1 DEF Last
<1> HIDE DEF parent
<1>4. parent \in Rows
  BY <1>1, <1>3 DEF OnPage, IdsStored, Rows
<1>5. Cut(shown, n) /\ n \in 0..Len(shown)
  BY <1>1 DEF Cut
<1>6. ASSUME off' \intersect {"astray", "crossed"} = {}
      PROVE  IF n = 0 THEN parent = NoId
             ELSE parent = shown[n].id /\ (Blank(n) => \A i \in 1..n : Blank(i))
  <2>1. Newest(parent)
    BY <1>1, <1>2, <1>6, ConfirmedIsNewest
  <2>2. n # 0 /\ Blank(n) => parent = NoId
    BY <1>3 DEF Blank
  <2> QED BY <1>3, <2>1, <2>2 DEF Newest
<1>7. /\ editing' \in Id /\ off \subseteq off' /\ off' \subseteq {"astray", "crossed", "behind"}
      /\ "crossed" \notin off' => Pending = {}
  BY <1>1, <1>2 DEF Typed
<1> QED BY <1>2, <1>4, <1>5, <1>6, <1>7, AskKeeps

\* A question is replaced: what is sent is below what it was below.
LEMMA EditKeeps ==
  ASSUME PageKept, NEW s \in Request, NEW i \in DOMAIN shown, Edit(s, i)
  PROVE  PageKept'
<1> DEFINE kept == SubSeq(shown, 1, i - 1)
           parent == up[shown[i].id]
           k == i - 1
<1>1. /\ PageAssumption /\ Behind /\ OnPage /\ Typed /\ TypeOK /\ RowsRight /\ LockRight
      /\ NumSends \in Nat
  BY KeptTypes DEF PageKept, Behind, PageAssumption
<1>2. /\ Len(shown) \in Nat /\ shown \in Seq(Message) /\ i \in 1..Len(shown)
      /\ \A j \in 1..Len(shown) : shown[j] \in Message
  BY <1>1, Lines
<1>3. /\ ~locked \/ editing = shown[i].id
      /\ Ask(s, kept, parent, TRUE) /\ editing' = NoId /\ shown[i].id \in DOMAIN up
      /\ off' = off \union (IF Pending # {} THEN {"crossed"} ELSE {})
  BY DEF Edit, Locked
<1>4. shown[i].id # NoId /\ parent \in Rows
  BY <1>1, <1>3, RankFalls
<1>5. ~locked
  BY <1>1, <1>3, <1>4 DEF LockRight
<1>6. Cut(kept, k) /\ k \in 0..Len(shown)
  <2>1. k \in Int /\ 1 \in Int /\ k \in 0..Len(shown) /\ \A j \in 1..k : shown[j] \in Message
    BY <1>2
  <2>2. kept \in Seq(Message) /\ Len(kept) = IF 1 <= k THEN k - 1 + 1 ELSE 0
    BY <2>1, SubSeqProperties
  <2>3. \A j \in 1..k : kept[j] = shown[j]
    BY <1>2
  <2> HIDE DEF kept, k
  <2>4. Len(kept) = k
    BY <2>1, <2>2
  <2> QED BY <2>1, <2>2, <2>3, <2>4 DEF Cut
<1> HIDE DEF kept
<1>7. ASSUME off' \intersect {"astray", "crossed"} = {}
      PROVE  IF k = 0 THEN parent = NoId
             ELSE parent = shown[k].id /\ (Blank(k) => \A j \in 1..k : Blank(j))
  <2>1. Linked
    BY <1>1, <1>3, <1>7 DEF OnPage, LinksRight
  <2>2. parent = IF i = 1 THEN NoId ELSE shown[k].id
    BY <1>2, <1>4, <2>1 DEF Linked, Blank
  <2>3. ASSUME k # 0, Blank(k), NEW j \in 1..k PROVE Blank(j)
    <3>1. j \in 1..Len(shown) /\ k \in 1..Len(shown) /\ k < i /\ (j = k \/ j < k)
      BY <1>2, <2>3
    <3> QED BY <1>2, <1>4, <2>1, <2>3, <3>1 DEF Linked, Blank
  <2> QED BY <1>2, <2>2, <2>3
<1> HIDE DEF parent, k
<1>8. /\ editing' \in Id /\ off \subseteq off' /\ off' \subseteq {"astray", "crossed", "behind"}
      /\ "crossed" \notin off' => Pending = {}
  <2>1. NoId \in Id
    BY DEF Id
  <2> QED BY <1>1, <1>3, <2>1 DEF Typed
<1> QED BY <1>3, <1>4, <1>5, <1>6, <1>7, <1>8, AskKeeps

\* What COMPLETE_STREAMING leaves of the messages.
LEMMA Completed ==
  ASSUME TypeOK, RowsRight, WireRight, NEW s \in Request, Question(s) \in DOMAIN up,
         NEW t, t = Complete(s, shown)
  PROVE  /\ t \in Seq(Message) /\ Len(t) = Len(shown)
         /\ \A i \in 1..Len(shown) : t[i].text = shown[i].text
         /\ \A i \in 1..Len(shown) : i < Len(shown) - 1 => t[i] = shown[i]
         /\ \A i \in 1..Len(shown) :
              \/ t[i].id = shown[i].id
              \/ i = Len(shown) - 1 /\ t[i].id = Question(s)
              \/ i = Len(shown) /\ t[i].id = IF Answer(s) \in DOMAIN up THEN Answer(s) ELSE NoId
         /\ \A i \in 1..Len(shown) :
              i = Len(shown) - 1 /\ shown[i].text[2] = "user" => t[i].id = Question(s)
         /\ \A i \in 1..Len(shown) : i = Len(shown) /\ shown[i].text[2] # "user" =>
              t[i].id = IF shown[i].streaming
                        THEN IF Answer(s) \in DOMAIN up THEN Answer(s) ELSE NoId ELSE shown[i].id
<1> DEFINE n == Len(shown)
           made == IF Answer(s) \in DOMAIN up THEN Answer(s) ELSE NoId
<1>1. /\ n \in Nat /\ DOMAIN shown = 1..n /\ \A i \in 1..n : shown[i] \in Message
      /\ Question(s) \in Id /\ made \in Id
  BY Lines, Names DEF Id
<1>2. t = [i \in 1..n |->
             IF i = n - 1 /\ shown[i].text[2] = "user" THEN [shown[i] EXCEPT !.id = Question(s)]
             ELSE IF i = n /\ shown[i].streaming
             THEN [shown[i] EXCEPT !.streaming = FALSE, !.id = made] ELSE shown[i]]
  BY <1>1 DEF Complete
<1> HIDE DEF n, made
<1>3. ASSUME NEW i \in 1..n
      PROVE  /\ t[i] \in Message /\ t[i].text = shown[i].text
             /\ i = n - 1 /\ shown[i].text[2] = "user" => t[i].id = Question(s)
             /\ i = n => t[i].id = IF shown[i].streaming THEN made ELSE shown[i].id
             /\ i # n /\ ~(i = n - 1 /\ shown[i].text[2] = "user") => t[i] = shown[i]
  <2>1. i = n => i # n - 1
    BY <1>1
  <2>2. CASE i = n - 1 /\ shown[i].text[2] = "user"
    <3>1. t[i] = [shown[i] EXCEPT !.id = Question(s)] /\ i # n
      BY <1>2, <2>1, <2>2
    <3> QED BY <1>1, <2>2, <3>1 DEF Message
  <2>3. CASE i = n /\ shown[i].streaming
    <3>1. t[i] = [shown[i] EXCEPT !.streaming = FALSE, !.id = made] /\ i # n - 1
      BY <1>2, <2>1, <2>3
    <3> QED BY <1>1, <2>3, <3>1 DEF Message
  <2>4. CASE ~(i = n - 1 /\ shown[i].text[2] = "user") /\ ~(i = n /\ shown[i].streaming)
    <3>1. t[i] = shown[i]
      BY <1>2, <2>4
    <3> QED BY <1>1, <2>1, <2>4, <3>1
  <2> QED BY <2>2, <2>3, <2>4
<1>4. t \in Seq(Message) /\ Len(t) = n
  <2>1. t \in [1..n -> Message]
    BY <1>2, <1>3
  <2> QED BY <1>1, <2>1, SeqDef, LenProperties
<1>5. \A i \in 1..n : i < n - 1 => i # n /\ i # n - 1
  BY <1>1
<1> QED BY <1>3, <1>4, <1>5 DEF n, made

\* COMPLETE_STREAMING: the last two messages get the ids of their rows.
LEMMA ReceiveKeeps == ASSUME PageKept, NEW s \in Request, Receive(s) PROVE PageKept'
<1> DEFINE n == Len(shown)
           made == IF Answer(s) \in DOMAIN up THEN Answer(s) ELSE NoId
           t == shown'
<1>1. /\ UNCHANGED <<up, leaf, generating, at, stopped, below, edit, notes>>
      /\ UNCHANGED <<open, first, editing, locked, fetch, gets, off, stops, faults, opens>>
      /\ fetch[s] = "open" /\ wire[s] # <<>> /\ Head(wire[s]) = "done"
      /\ wire' = [wire EXCEPT ![s] = Tail(@)] /\ controller' = NoRequest
      /\ t = Complete(s, shown)
  BY DEF Receive, rows, request, bounds
<1>2. /\ PageAssumption /\ Behind /\ OnPage /\ Typed /\ GetsRight /\ ReadRight /\ RowsRight
      /\ WireRight /\ TypeOK /\ Closed /\ LockRight
  BY KeptTypes DEF PageKept, Behind
<1>3. /\ RowsRight' /\ UnderWay' = UnderWay
      /\ \A r \in Request : (Saving(r)' <=> Saving(r)) /\ Made(r)' = Made(r)
  BY <1>1, <1>2 DEF RowsRight, Rows, UnderWay, Saving, Made
<1>4. Question(s) \in DOMAIN up /\ ~Saving(s) /\ wire[s] \in Events /\ s \in Pending
  <2>1. wire[s] \in Events /\ Question(s) \in DOMAIN up /\ ~Saving(s)
    BY <1>1, <1>2 DEF WireRight, Saving
  <2> QED BY <1>1, <2>1 DEF Pending
<1>5. /\ wire'[s] \in {<<>>, <<"end">>, <<"error">>} /\ (wire'[s] # <<>> => Head(wire'[s]) # "done")
      /\ \A r \in Request : r # s => wire'[r] = wire[r]
      /\ wire' \in [Request -> Events]
  <2>1. Tail(wire[s]) \in {<<>>, <<"end">>, <<"error">>}
    BY <1>1, <1>4, EventsRead
  <2>2. {<<>>, <<"end">>, <<"error">>} \subseteq Events
    BY DEF Events
  <2>3. wire'[s] = Tail(wire[s]) /\ \A r \in Request : r # s => wire'[r] = wire[r]
    BY <1>1, <1>2 DEF WireRight
  <2>4. wire' \in [Request -> Events]
    BY <1>1, <1>2, <2>1, <2>2 DEF WireRight
  <2>5. Head(<<"end">>) = "end" /\ Head(<<"error">>) = "error"
    OBVIOUS
  <2> QED BY <2>1, <2>3, <2>4, <2>5
<1>6. WireRight'
  <2>1. at[s] \notin {"new", "sent", "setup", "model", "saved"} /\ (at[s] = "title" => wire'[s] = <<>>)
    <3>1. at[s] # "new"
      BY <1>1, <1>2 DEF WireRight
    <3>2. at[s] = "title" => wire[s] = <<"done">>
      BY <1>1, <1>2 DEF WireRight
    <3>3. Tail(<<"done">>) = <<>>
      OBVIOUS
    <3>4. wire'[s] = Tail(wire[s])
      BY <1>1, <1>2 DEF WireRight
    <3> QED BY <1>4, <3>1, <3>2, <3>3, <3>4 DEF Saving
  <2> QED BY <1>1, <1>2, <1>5, <2>1 DEF WireRight
<1>7. /\ t \in Seq(Message) /\ Len(t) = n /\ n \in Nat
      /\ \A i \in 1..n : t[i].text = shown[i].text
      /\ \A i \in 1..n : i < n - 1 => t[i] = shown[i]
      /\ \A i \in 1..n : \/ t[i].id = shown[i].id
                         \/ i = n - 1 /\ t[i].id = Question(s)
                         \/ i = n /\ t[i].id = made
      /\ \A i \in 1..n : i = n - 1 /\ shown[i].text[2] = "user" => t[i].id = Question(s)
      /\ \A i \in 1..n : i = n /\ shown[i].text[2] # "user" =>
           t[i].id = IF shown[i].streaming THEN made ELSE shown[i].id
  <2>1. n \in Nat
    BY <1>2, Lines
  <2> HIDE DEF t
  <2> QED BY <1>1, <1>2, <1>4, <2>1, Completed
<1> HIDE DEF t
<1>8. Typed'
  BY <1>1, <1>2, <1>7 DEF Typed, t
<1>9. Closed' /\ LockRight'
  BY <1>1, <1>2 DEF Closed, LockRight, NoneOpen
<1>10. GetsRight' /\ ReadRight'
  BY <1>1, <1>2, <1>3 DEF GetsRight, ReadRight, Chain, LastWord, EndsAt
<1>11. Pending' = Pending \ {s}
  <2>1. \A r \in Request : r # s => (r \in Pending' <=> r \in Pending)
    BY <1>1, <1>3, <1>5 DEF Pending
  <2>2. s \notin Pending'
    BY <1>3, <1>4, <1>5 DEF Pending
  <2>3. Pending \subseteq Request /\ Pending' \subseteq Request
    BY DEF Pending
  <2> QED BY <2>1, <2>2, <2>3
<1>12. IdsStored'
  <2>1. \A i \in 1..n : t[i].id \in Rows
    BY <1>2, <1>4, <1>7 DEF OnPage, IdsStored, Rows
  <2> QED BY <1>1, <1>7, <2>1 DEF IdsStored, Rows, t
<1>13. ASSUME "crossed" \notin off
       PROVE  /\ n >= 2 /\ n - 1 \in 1..n /\ n \in 1..n /\ Pending' = {}
              /\ shown[n - 1].text = Question(s) /\ shown[n].text = Answer(s)
              /\ t[n - 1].id = Question(s) /\ t[n].id = IF shown[n].streaming THEN made ELSE NoId
              /\ \A i \in 1..n : shown[i].id \in {NoId, shown[i].text}
  <2>1. \A r \in Pending : Waits(r)
    BY <1>2, <1>13 DEF OnPage, IdsRight
  <2>2. /\ n >= 2 /\ shown[n - 1].text = Question(s) /\ shown[n].text = Answer(s)
        /\ shown[n].id = NoId
    BY <1>4, <2>1 DEF Waits, Blank
  <2>3. n - 1 \in 1..n /\ n \in 1..n
    BY <1>7, <2>2
  <2>4. Question(s)[2] = "user" /\ Answer(s)[2] # "user"
    BY DEF Question, Answer
  <2>5. \A r \in Pending : r = s
    <3>1. \A r \in Pending : Question(r) = Question(s)
      BY <2>1, <2>2 DEF Waits
    <3> QED BY <3>1, Names
  <2> QED BY <1>2, <1>7, <1>11, <1>13, <2>2, <2>3, <2>4, <2>5 DEF OnPage, IdsRight
<1>14. IdsRight'
  <2> SUFFICES ASSUME "crossed" \notin off PROVE IdsRight'
    BY <1>1 DEF IdsRight
  <2>1. ASSUME NEW i \in 1..n PROVE t[i].id \in {NoId, t[i].text}
    <3>1. i < n - 1 \/ i = n - 1 \/ i = n
      BY <1>7
    <3> QED BY <1>7, <1>13, <3>1
  <2> QED BY <1>7, <1>13, <2>1 DEF IdsRight, t
<1>15. LinksRight'
  <2> SUFFICES ASSUME off \intersect {"astray", "crossed"} = {} PROVE Linked'
    <3>1. off' = off
      BY <1>1
    <3>2. off \intersect {"astray", "crossed"} = {} => Pending' = {}
      BY <1>13
    <3> QED BY <3>1, <3>2 DEF LinksRight
  <2>1. Linked /\ Hangs(s)
    BY <1>2, <1>4 DEF OnPage, LinksRight
  <2>2. /\ n >= 2 /\ n - 1 \in 1..n /\ n \in 1..n
        /\ t[n - 1].id = Question(s) /\ t[n].id = IF shown[n].streaming THEN made ELSE NoId
    BY <1>13
  <2>3. n # 2 => n - 2 \in 1..n /\ n - 2 < n - 1
    BY <1>7, <2>2
  <2>4. ASSUME NEW i \in 1..n, NEW j \in 1..n, i < j, j < n - 1, t[i].id # NoId
        PROVE  t[j].id # NoId
    <3>1. i < n - 1 /\ t[i] = shown[i] /\ t[j] = shown[j] /\ n # 2 /\ (j = n - 2 \/ j < n - 2)
      <4>1. i < n - 1 /\ n # 2 /\ (j = n - 2 \/ j < n - 2)
        <5>1. n \in Nat /\ i \in 1..n /\ j \in 1..n /\ i < j /\ j < n - 1
          BY <1>7, <2>4
        <5> HIDE DEF n
        <5> QED BY <5>1
      <4>2. t[i] = shown[i] /\ t[j] = shown[j]
        BY <1>7, <2>4, <4>1
      <4> QED BY <4>1, <4>2
    <3>2. ~Blank(n - 2)
      BY <2>1, <2>4, <3>1 DEF Hangs, Blank
    <3>3. ~Blank(j)
      <4>1. ~Blank(i)
        BY <2>4, <3>1 DEF Blank
      <4> QED BY <2>1, <2>3, <2>4, <3>1, <3>2, <4>1 DEF Linked
    <3> QED BY <3>1, <3>3 DEF Blank
  <2>5. ASSUME NEW i \in 1..n, NEW j \in 1..n, NEW k \in 1..n, i < j, j < k, t[i].id # NoId
        PROVE  t[j].id # NoId
    <3>1. j < n - 1 \/ j = n - 1
      BY <1>7, <2>5
    <3> QED BY <2>2, <2>4, <2>5, <3>1, Names
  <2>6. ASSUME NEW i \in 1..n, t[i].id # NoId
        PROVE  up[t[i].id] = IF i = 1 THEN NoId ELSE t[i - 1].id
    <3>1. CASE i < n - 1
      <4>1. t[i] = shown[i] /\ ~Blank(i) /\ (i # 1 => i - 1 \in 1..n /\ i - 1 < n - 1 /\ t[i - 1] = shown[i - 1])
        BY <1>7, <2>6, <3>1 DEF Blank
      <4> QED BY <2>1, <4>1 DEF Linked
    <3>2. CASE i = n - 1
      <4>1. up[Question(s)] = below[s]
        BY <1>2, <1>4 DEF RowsRight
      <4>2. n = 2 => i = 1 /\ below[s] = NoId
        BY <2>1, <3>2 DEF Hangs
      <4>3. n # 2 => i # 1 /\ i - 1 = n - 2 /\ t[n - 2] = shown[n - 2] /\ below[s] = shown[n - 2].id
        BY <1>7, <2>1, <2>3, <3>2 DEF Hangs
      <4> QED BY <2>2, <3>2, <4>1, <4>2, <4>3
    <3>3. CASE i = n
      <4>1. t[n].id = Answer(s) /\ Answer(s) \in DOMAIN up
        BY <2>2, <2>6, <3>3
      <4>2. up[Answer(s)] = Question(s)
        BY <1>2, <4>1 DEF RowsRight
      <4>3. n # 1
        BY <2>2
      <4> QED BY <2>2, <3>3, <4>1, <4>2, <4>3
    <3> QED BY <1>7, <3>1, <3>2, <3>3
  <2> QED BY <1>1, <1>7, <2>5, <2>6 DEF Linked, Blank, t
<1>16. SyncRight'
  <2> SUFFICES ASSUME Synced' PROVE SyncRight'
    BY DEF SyncRight
  <2>1. Synced /\ "crossed" \notin off
    BY <1>1 DEF Synced
  <2>2. Streams /\ leaf = Made(s) /\ \A r \in Request : Saving(r) => fetch[r] = "open"
    BY <1>2, <1>4, <2>1 DEF OnPage, SyncRight
  <2>3. shown[n].streaming
    BY <2>2 DEF Streams
  <2>4. t[n - 1].id = Question(s) /\ t[n].id = made /\ n >= 2 /\ n - 1 \in 1..n /\ n \in 1..n /\ Pending' = {}
    BY <1>13, <2>1, <2>3
  <2>5. Newest(leaf)'
    <3>1. CASE Answer(s) \in DOMAIN up
      <4>1. t[n].id = leaf /\ leaf # NoId /\ \A j \in 1..n : ~(j > n)
        BY <1>7, <2>2, <2>4, <3>1, Names DEF Made
      <4> QED BY <1>1, <1>7, <2>4, <4>1 DEF Newest, t
    <3>2. CASE Answer(s) \notin DOMAIN up
      <4>1. t[n - 1].id = leaf /\ leaf # NoId /\ t[n].id = NoId /\ \A j \in 1..n : j > n - 1 => j = n
        BY <1>7, <2>2, <2>4, <3>2, Names DEF Made
      <4> QED BY <1>1, <1>7, <2>4, <4>1 DEF Newest, Blank, t
    <3> QED BY <3>1, <3>2
  <2> QED BY <1>1, <1>3, <2>2, <2>4, <2>5 DEF SyncRight
<1> QED BY <1>2, <1>3, <1>6, <1>8, <1>9, <1>10, <1>12, <1>14, <1>15, <1>16
        DEF PageKept, Behind, OnPage

\* Every step of the page and of the server keeps it.
LEMMA PageSteps == ASSUME PageKept, [Next]_vars PROVE PageKept'
<1>1. ASSUME NEW s \in Request, Begin(s) \/ Finish(s) \/ End(s) \/ Breaks(s) \/ Release(s)
      PROVE  PageKept'
  BY <1>1, ServerKeeps
<1>2. ASSUME NEW s \in Request, SaveQuestion(s) \/ SaveAnswer(s) PROVE PageKept'
  BY <1>2, RowsKeep
<1>3. ASSUME NEW s \in Request, Send(s) PROVE PageKept'
  BY <1>3, SendKeeps
<1>4. ASSUME NEW s \in Request, Receive(s) PROVE PageKept'
  BY <1>4, ReceiveKeeps
<1>5. ASSUME NEW s \in Request, Ends(s) PROVE PageKept'
  BY <1>5, EndsKeeps
<1>6. ASSUME NEW s \in Request, Fails(s) PROVE PageKept'
  BY <1>6, FailsKeeps
<1>7. ASSUME NEW s \in Request, NEW i \in DOMAIN shown, Edit(s, i) PROVE PageKept'
  BY <1>7, EditKeeps
<1>8. ASSUME DeliverStop \/ StopElsewhere PROVE PageKept'
  BY <1>8, StopsKeep
<1>9. ASSUME Stop PROVE PageKept'
  BY <1>9, StopKeeps
<1>10. ASSUME Poll PROVE PageKept'
  BY <1>10, PollKeeps
<1>11. ASSUME Open PROVE PageKept'
  BY <1>11, OpenKeeps
<1>12. ASSUME Leave PROVE PageKept'
  BY <1>12, LeaveKeeps
<1>13. ASSUME NEW m \in Id, EditStart(m) PROVE PageKept'
  BY <1>13, EditStartKeeps
<1>14. ASSUME NEW i \in DOMAIN gets, ReadPath(i) \/ ReadLock(i) PROVE PageKept'
  BY <1>14, ReadKeeps
<1>15. ASSUME NEW i \in DOMAIN gets, GetFails(i) PROVE PageKept'
  BY <1>15, GetFailsKeeps
<1>16. ASSUME NEW i \in DOMAIN gets, Opened(i) PROVE PageKept'
  BY <1>16, OpenedKeeps
<1>17. ASSUME NEW i \in DOMAIN gets, Polled(i) PROVE PageKept'
  BY <1>17, PolledKeeps
<1>18. ASSUME NEW i \in DOMAIN gets, Reloaded(i) PROVE PageKept'
  BY <1>18, ReloadedKeeps
<1>19. ASSUME UNCHANGED vars PROVE PageKept'
  <2>1. UNCHANGED thread /\ UNCHANGED page /\ UNCHANGED <<stops, faults, opens>>
    BY <1>19 DEF vars, bounds
  <2>2. UNCHANGED <<open, shown, first, editing, locked, controller, fetch, gets, off>>
    BY <2>1 DEF page
  <2>3. /\ PageAssumption /\ Behind /\ OnPage /\ RowsRight' /\ WireRight' /\ UnderWay' = UnderWay
        /\ UNCHANGED <<up, leaf, generating, at, stopped, wire, below, edit, notes>>
        /\ \A r \in Request : Saving(r)' <=> Saving(r)
    BY <2>1, ThreadStays
  <2>4. Typed'
    BY <2>1, <2>2, <2>3 DEF Behind, Typed
  <2>5. Pending' \subseteq Pending
    BY <2>2, <2>3 DEF Pending
  <2> QED BY <2>1, <2>3, <2>4, <2>5, ServerStays DEF PageKept, Behind
<1> QED BY <1>1, <1>2, <1>3, <1>4, <1>5, <1>6, <1>7, <1>8, <1>9, <1>10, <1>11, <1>12, <1>13,
           <1>14, <1>15, <1>16, <1>17, <1>18, <1>19 DEF Next

\* chatReducer, chat.tsx, chat.ts: for any number of requests, stops, failures and openings,
\* every variable has its type, what the page shows under an id is its row, the rows it
\* shows hang below one another, and a page at rest shows what the thread would if it were
\* opened again, but for the cases that PageFollows excuses.
THEOREM PageIsRight == PageAssumption => (Spec => [](TypeOK /\ PageFollows))
<1>1. PageAssumption /\ Init => PageKept
  BY PageInit
<1>2. PageKept /\ [Next]_vars => PageKept'
  BY PageSteps
<1>3. PageKept => TypeOK /\ PageFollows
  BY KeptTypes, KeptFollows DEF PageKept
<1> QED BY <1>1, <1>2, <1>3, PTL DEF Spec

-----------------------------------------------------------------------------
\* The files of a project, for any paths and bounds; what FileTree calls faults is upsets
\* here.
CONSTANTS Paths, Locks, MaxChanges, MaxReads, MaxAsked, MaxFailed, MaxDrops

VARIABLES files, watching, unsent, batches, reads, online, number, tree, loaded, marks,
          stale, changes, asked, upsets

Disk == INSTANCE FileTree WITH pending <- unsent, link <- online,
          MaxFaults <- MaxFailed, faults <- upsets

\* A change that waits, and a batch of changes.
News == [path : Paths, kind : Disk!Kinds \ {"none"}]
Batch == [Paths -> Disk!Kinds]

\* There is a change of p in the news es up to the n-th; the last one is the i-th.
IsTold(es, n, p) == \E i \in 1..n : es[i].path = p
\* The last change of p among them is the i-th.
LastTold(es, n, p, i) ==
  i \in 1..n /\ es[i].path = p /\ \A j \in 1..n : j > i => es[j].path # p

\* The batch b tells of each file what the last change does to it.
Tells(b, es, n) ==
  \A p \in Paths :
    /\ b[p] # "none" <=> IsTold(es, n, p)
    /\ \A i \in 1..n : LastTold(es, n, p, i) => (b[p] = "deleted") = (es[i].kind = "deleted")

\* The batches on the way to Coalesced(es).
Merges(es, f) ==
  f = [i \in 0..Len(es) |->
         IF i = 0 THEN [p \in Paths |-> "none"]
         ELSE [f[i - 1] EXCEPT ![es[i].path] = Disk!Merge(@, es[i].kind)]]

\* They are there.
LEMMA MergesExist == ASSUME NEW es \in Seq(News) PROVE \E f : Merges(es, f)
<1> DEFINE Put(b, e) == [b EXCEPT ![e.path] = Disk!Merge(@, e.kind)]
           Bare == [p \in Paths |-> "none"]
           Upto(n, f) == f = [i \in 0..n |-> IF i = 0 THEN Bare ELSE Put(f[i - 1], es[i])]
           S == {n \in Nat : \E f : Upto(n, f)}
<1>1. Len(es) \in Nat
  BY LenProperties
<1>2. 0 \in S
  <2>1. Upto(0, [i \in 0..0 |-> Bare])
    OBVIOUS
  <2> HIDE DEF Upto
  <2> QED BY <2>1
<1>3. ASSUME NEW n \in Nat, n \in S PROVE n + 1 \in S
  <2>1. PICK f : Upto(n, f)
    BY <1>3
  <2> DEFINE g == [i \in 0..(n + 1) |-> IF i = n + 1 THEN Put(f[n], es[n + 1]) ELSE f[i]]
  <2> HIDE DEF Put, Bare
  <2>2. ASSUME NEW i \in 0..(n + 1)
        PROVE  g[i] = IF i = 0 THEN Bare ELSE Put(g[i - 1], es[i])
    <3>1. CASE i = n + 1
      <4>1. g[i] = Put(f[n], es[n + 1])
        BY <3>1
      <4>2. i - 1 = n /\ g[n] = f[n] /\ i # 0
        BY <3>1
      <4> QED BY <3>1, <4>1, <4>2
    <3>2. CASE i # n + 1
      <4>1. g[i] = f[i] /\ i \in 0..n
        BY <3>2
      <4>2. f[i] = IF i = 0 THEN Bare ELSE Put(f[i - 1], es[i])
        BY <2>1, <4>1
      <4>3. i # 0 => g[i - 1] = f[i - 1]
        BY <4>1
      <4> QED BY <4>1, <4>2, <4>3
    <3> QED BY <3>1, <3>2
  <2>3. Upto(n + 1, g)
    <3>1. g = [i \in 0..(n + 1) |-> g[i]]
      OBVIOUS
    <3> HIDE DEF g
    <3> QED BY <2>2, <3>1
  <2> HIDE DEF Upto, g
  <2> QED BY <2>3
<1>4. Len(es) \in S
  <2> HIDE DEF S
  <2> QED BY <1>1, <1>2, <1>3, Reaches
<1> QED BY <1>4 DEF Merges

\* Coalesced(es) is the last of them.
LEMMA CoalescedIsMerged ==
  ASSUME NEW es \in Seq(News) PROVE \E f : Merges(es, f) /\ Disk!Coalesced(es) = f[Len(es)]
<1> DEFINE After == CHOOSE f : Merges(es, f)
<1>1. Merges(es, After)
  BY MergesExist
<1>2. Disk!Coalesced(es) = After[Len(es)]
  BY DEF Disk!Coalesced, Merges
<1> HIDE DEF After
<1> QED BY <1>1, <1>2

\* One more change.
LEMMA TellsOne ==
  ASSUME NEW es \in Seq(News), NEW n \in Nat, n < Len(es), NEW b \in Batch, Tells(b, es, n),
         NEW c, c = [b EXCEPT ![es[n + 1].path] = Disk!Merge(@, es[n + 1].kind)]
  PROVE  c \in Batch /\ Tells(c, es, n + 1)
<1> DEFINE e == es[n + 1]
<1>1. e \in News /\ e.path \in Paths /\ e.kind \in {"created", "updated", "deleted"}
  <2>1. n + 1 \in DOMAIN es
    BY LenProperties
  <2>2. e \in News
    BY <2>1, ElementOfSeq, LenProperties
  <2> QED BY <2>2 DEF News, Disk!Kinds
<1>2. /\ Disk!Merge(b[e.path], e.kind) \in Disk!Kinds \ {"none"}
      /\ (Disk!Merge(b[e.path], e.kind) = "deleted") = (e.kind = "deleted")
  <2>1. b[e.path] \in Disk!Kinds
    BY <1>1 DEF Batch
  <2> QED BY <1>1, <2>1 DEF Disk!Merge, Disk!Kinds
<1>3. /\ c \in Batch /\ c[e.path] = Disk!Merge(b[e.path], e.kind)
      /\ \A p \in Paths : p # e.path => c[p] = b[p]
  BY <1>1, <1>2 DEF Batch
<1>4. \A i \in 1..(n + 1) : i = n + 1 \/ (i \in 1..n /\ i < n + 1)
  OBVIOUS
<1>5. 1..n \subseteq 1..(n + 1) /\ n + 1 \in 1..(n + 1) /\ \A i \in 1..n : n + 1 > i
  OBVIOUS
<1>6. ASSUME NEW p \in Paths
      PROVE  /\ c[p] # "none" <=> IsTold(es, n + 1, p)
             /\ \A i \in 1..(n + 1) : LastTold(es, n + 1, p, i) =>
                  (c[p] = "deleted") = (es[i].kind = "deleted")
  <2>1. CASE p = e.path
    <3>1. IsTold(es, n + 1, p) /\ c[p] # "none"
      BY <1>2, <1>3, <1>5, <2>1 DEF IsTold
    <3>2. \A i \in 1..(n + 1) : LastTold(es, n + 1, p, i) => i = n + 1
      BY <1>4, <1>5, <2>1 DEF LastTold
    <3> QED BY <1>2, <1>3, <2>1, <3>1, <3>2
  <2>2. CASE p # e.path
    <3>1. c[p] = b[p]
      BY <1>3, <2>2
    <3>2. IsTold(es, n + 1, p) <=> IsTold(es, n, p)
      BY <1>4, <1>5, <2>2 DEF IsTold
    <3>3. \A i \in 1..(n + 1) : LastTold(es, n + 1, p, i) => i \in 1..n /\ LastTold(es, n, p, i)
      BY <1>4, <1>5, <2>2 DEF LastTold
    <3> QED BY <3>1, <3>2, <3>3 DEF Tells
  <2> QED BY <2>1, <2>2
<1> QED BY <1>3, <1>6 DEF Tells

\* coalesceChanges: a batch tells of each file what its last change does to it.
LEMMA CoalescedTells ==
  ASSUME NEW es \in Seq(News)
  PROVE  Disk!Coalesced(es) \in Batch /\ Tells(Disk!Coalesced(es), es, Len(es))
<1>1. PICK f : Merges(es, f) /\ Disk!Coalesced(es) = f[Len(es)]
  BY CoalescedIsMerged
<1>2. Len(es) \in Nat /\ DOMAIN es = 1..Len(es)
  BY LenProperties
<1>3. /\ f[0] = [p \in Paths |-> "none"]
      /\ \A i \in 0..Len(es) : i < Len(es) =>
           f[i + 1] = [f[i] EXCEPT ![es[i + 1].path] = Disk!Merge(@, es[i + 1].kind)]
  <2>1. \A i \in 0..Len(es) : f[i] = IF i = 0 THEN [p \in Paths |-> "none"]
           ELSE [f[i - 1] EXCEPT ![es[i].path] = Disk!Merge(@, es[i].kind)]
    BY <1>1 DEF Merges
  <2>2. 0 \in 0..Len(es)
    BY <1>2
  <2>3. ASSUME NEW i \in 0..Len(es), i < Len(es)
        PROVE  i + 1 \in 0..Len(es) /\ i + 1 # 0 /\ (i + 1) - 1 = i
    BY <1>2, <2>3
  <2> QED BY <2>1, <2>2, <2>3
<1> DEFINE n == Len(es)
           T == {i \in 0..n : f[i] \in Batch /\ Tells(f[i], es, i)}
<1>4. 0 \in T
  <2>1. f[0] \in Batch
    BY <1>3 DEF Batch, Disk!Kinds
  <2>2. Tells(f[0], es, 0)
    BY <1>3 DEF Tells, IsTold, LastTold
  <2> QED BY <1>2, <2>1, <2>2
<1>5. ASSUME NEW i \in 0..n, i \in T, i < n PROVE i + 1 \in T
  <2>1. i \in Nat /\ f[i] \in Batch /\ Tells(f[i], es, i) /\ i + 1 \in 0..n /\ i < Len(es)
    BY <1>2, <1>5
  <2>2. f[i + 1] = [f[i] EXCEPT ![es[i + 1].path] = Disk!Merge(@, es[i + 1].kind)]
    BY <1>3, <1>5
  <2> QED BY <2>1, <2>2, TellsOne
<1>6. n \in T
  <2> HIDE DEF T
  <2> QED BY <1>2, <1>4, <1>5, Reaches
<1> QED BY <1>1, <1>6

\* The marks of files on the screen.
Marks == {"none", "added", "edited", "deleted"}

\* The files by themselves: what is waiting, what is on its way, what is shown.
TypedTree ==
  /\ files \in SUBSET Paths /\ tree \in SUBSET Paths /\ stale \in SUBSET Paths
  /\ watching \in BOOLEAN /\ online \in BOOLEAN /\ loaded \in BOOLEAN
  /\ unsent \in Seq(News)
  /\ batches \in Seq(Batch)
  /\ reads \in Seq(Disk!Tree)
  /\ marks \in [Paths -> Marks]

\* What is counted.
Bounded ==
  /\ Len(reads) <= MaxReads
  /\ number \in 0..(MaxDrops + 1)
  /\ changes \in 0..MaxChanges /\ asked \in 0..MaxAsked /\ upsets \in 0..MaxFailed

\* A change of p waits for the timer, or is in a batch.
Untold(p) == IsTold(unsent, Len(unsent), p)
\* p is in a batch on its way.
Comes(p) == \E k \in 1..Len(batches) : batches[k][p] # "none"

\* The k-th batch is the last one with p.
LastBatch(p, k) ==
  k \in 1..Len(batches) /\ batches[k][p] # "none"
    /\ \A j \in 1..Len(batches) : j > k => batches[j][p] = "none"

\* Without a watcher nothing is reported and nothing marked.
Quiet ==
  /\ ~watching => unsent = <<>> /\ batches = <<>> /\ \A p \in Paths : marks[p] = "none"
  /\ loaded => online

\* The last change of a file says whether it is there.
LastWaits ==
  \A p \in Paths : \A i \in 1..Len(unsent) :
    LastTold(unsent, Len(unsent), p, i) => (unsent[i].kind = "deleted") = (p \notin files)

\* The same of the batches.
LastComes ==
  \A p \in Paths : \A k \in 1..Len(batches) :
    ~Untold(p) /\ LastBatch(p, k) => (batches[k][p] = "deleted") = (p \notin files)

\* A tree that was read is right about the files it did not miss.
ReadsRight ==
  \A i \in 1..Len(reads) : \A p \in Paths :
    reads[i].at = "read" /\ p \notin reads[i].missed /\ ~Untold(p) /\ ~Comes(p) =>
      (p \in reads[i].seen <=> p \in files)

\* A file that is marked as deleted is gone, and what is shown otherwise is right.
MarkRight ==
  \A p \in Paths :
    online /\ marks[p] = "deleted" /\ p \in files => Untold(p) \/ Comes(p)

\* What is shown of a file that nothing waits for or comes for.
TreeRight ==
  \A p \in Paths :
    online /\ loaded /\ p \notin stale /\ ~Untold(p) /\ ~Comes(p) /\ marks[p] # "deleted" =>
      (p \in tree <=> p \in files)

\* The inductive invariant.
Followed ==
  /\ TypedTree /\ Bounded /\ Quiet
  /\ LastWaits /\ LastComes
  /\ ReadsRight /\ MarkRight /\ TreeRight

\* It is what FileTree promises.
LEMMA FollowedGives == ASSUME Followed PROVE Disk!TypeOK /\ Disk!TreeFollows
<1>1. TypedTree /\ Bounded /\ TreeRight
  BY DEF Followed
<1>2. Disk!TypeOK
  <2>1. unsent \in Seq([path : Paths, kind : Disk!Kinds])
    <3>1. News \subseteq [path : Paths, kind : Disk!Kinds]
      BY DEF News
    <3>2. unsent \in Seq(News)
      BY <1>1 DEF TypedTree
    <3> QED BY <3>1, <3>2, SeqMonotonic
  <2>2. /\ batches \in Seq([Paths -> Disk!Kinds]) /\ reads \in Seq(Disk!Tree)
        /\ marks \in [Paths -> {"none", "added", "edited", "deleted"}]
        /\ {files, tree, stale} \subseteq SUBSET Paths
        /\ {watching, online, loaded} \subseteq BOOLEAN
    BY <1>1 DEF TypedTree, Batch, Marks
  <2> QED BY <1>1, <2>1, <2>2 DEF Disk!TypeOK, Bounded
<1>3. Disk!TreeFollows
  <2> SUFFICES ASSUME online, loaded, unsent = <<>>, batches = <<>>, NEW p \in Paths \ stale,
                      marks[p] # "deleted"
               PROVE  (p \in tree) = (p \in files)
    BY DEF Disk!TreeFollows
  <2>1. Len(unsent) = 0 /\ Len(batches) = 0
    OBVIOUS
  <2>2. ~Untold(p) /\ ~Comes(p)
    BY <2>1 DEF Untold, Comes, IsTold
  <2> QED BY <1>1, <2>2 DEF TreeRight
<1> QED BY <1>2, <1>3

\* Nothing was seen yet.
LEMMA TreeInit == ASSUME Disk!FilesAssumption, Disk!Init PROVE Followed
<1>1. Len(unsent) = 0 /\ Len(batches) = 0 /\ Len(reads) = 0
  BY DEF Disk!Init
<1>2. TypedTree
  <2>1. unsent \in Seq(News) /\ batches \in Seq(Batch) /\ reads \in Seq(Disk!Tree)
    BY EmptySeq DEF Disk!Init
  <2> QED BY <2>1 DEF Disk!Init, TypedTree, Marks
<1>3. Bounded
  BY <1>1 DEF Disk!Init, Bounded, Disk!FilesAssumption
<1>4. Quiet /\ MarkRight /\ TreeRight
  BY DEF Disk!Init, Quiet, MarkRight, TreeRight
<1>5. LastWaits /\ LastComes /\ ReadsRight
  BY <1>1 DEF LastWaits, LastComes, ReadsRight
<1> QED BY <1>2, <1>3, <1>4, <1>5 DEF Followed

\* No other part of the model changes.
LEMMA TreeStutters == ASSUME Followed, UNCHANGED Disk!vars PROVE Followed'
<1>1. UNCHANGED <<files, watching, unsent, batches, reads, online, number, tree, loaded,
                  marks, stale, changes, asked, upsets>>
  BY DEF Disk!vars, Disk!server, Disk!client, Disk!bounds
<1> QED BY <1>1 DEF Followed, TypedTree, Bounded, Quiet, LastWaits, LastComes, ReadsRight,
                    MarkRight, TreeRight, Untold, Comes, IsTold, LastTold, LastBatch

\* buildTree is asked for.
LEMMA AsksKeeps ==
  ASSUME reads \in Seq(Disk!Tree), NEW to \in Nat, Disk!Asks(to), Len(reads) <= MaxReads,
         MaxReads \in Nat
  PROVE  /\ reads' \in Seq(Disk!Tree) /\ Len(reads') <= MaxReads
         /\ \A i \in 1..Len(reads') : reads'[i].at = "read" =>
              i \in 1..Len(reads) /\ reads'[i] = reads[i]
<1> DEFINE e == [to |-> to, tries |-> 1, at |-> "asked", seen |-> {}, missed |-> {}]
<1>1. e \in Disk!Tree /\ e.at # "read"
  BY DEF Disk!Tree
<1>2. reads' = Append(reads, e) /\ Len(reads) < MaxReads
  BY DEF Disk!Asks
<1> HIDE DEF e
<1>3. /\ reads' \in Seq(Disk!Tree) /\ Len(reads') = Len(reads) + 1 /\ Len(reads) \in Nat
      /\ reads'[Len(reads) + 1] = e /\ \A i \in 1..Len(reads) : reads'[i] = reads[i]
  BY <1>1, <1>2, AppendOne
<1>4. \A i \in 1..Len(reads') : i = Len(reads) + 1 \/ i \in 1..Len(reads)
  BY <1>3
<1> QED BY <1>1, <1>2, <1>3, <1>4

\* What waits and what comes is the same when the changes are the same.
LEMMA SameChanges ==
  ASSUME UNCHANGED <<unsent, batches>>
  PROVE  /\ \A p : (Untold(p))' = Untold(p) /\ (Comes(p))' = Comes(p)
         /\ \A p, k : (LastBatch(p, k))' = LastBatch(p, k)
         /\ \A p, i : LastTold(unsent, Len(unsent), p, i)' = LastTold(unsent, Len(unsent), p, i)
  BY DEF Untold, Comes, IsTold, LastTold, LastBatch

\* What is known of the reads after a step that asks for a tree, takes one from them, or
\* leaves them as they are.
ReadsStay ==
  /\ reads' \in Seq(Disk!Tree) /\ Len(reads') <= MaxReads
  /\ \A i \in 1..Len(reads') : reads'[i].at = "read" =>
       \E j \in 1..Len(reads) : reads'[i] = reads[j]

\* Steps that change the reads and counters only.
LEMMA ReadsOnly ==
  ASSUME Followed, ReadsStay, Bounded',
         UNCHANGED <<files, watching, unsent, batches, online, tree, loaded, marks, stale>>
  PROVE  Followed'
<1>1. TypedTree'
  BY DEF Followed, TypedTree, ReadsStay
<1>2. Quiet'
  BY DEF Followed, Quiet
<1>3. LastWaits' /\ LastComes'
  BY SameChanges DEF Followed, LastWaits, LastComes
<1>4. MarkRight' /\ TreeRight'
  BY SameChanges DEF Followed, MarkRight, TreeRight
<1>5. ReadsRight'
  BY SameChanges DEF Followed, ReadsStay, ReadsRight
<1> QED BY <1>1, <1>2, <1>3, <1>4, <1>5 DEF Followed

\* Reads that stay as they are.
LEMMA ReadsUnchanged == ASSUME Followed, UNCHANGED reads PROVE ReadsStay
  BY DEF Followed, TypedTree, Bounded, ReadsStay

\* A read that begins has seen nothing.
LEMMA AsksStay ==
  ASSUME Disk!FilesAssumption, Followed, NEW to \in Nat, Disk!Asks(to) PROVE ReadsStay
  BY AsksKeeps DEF Followed, TypedTree, Bounded, ReadsStay, Disk!FilesAssumption

\* The tree is sent again.
LEMMA ResendKeeps == ASSUME Disk!FilesAssumption, Followed, Disk!Resend PROVE Followed'
<1>1. PICK to \in {0} \union (IF online THEN {number} ELSE {}) : Disk!Asks(to)
  BY DEF Disk!Resend
<1>2. to \in Nat
  BY DEF Followed, Bounded, Disk!FilesAssumption
<1>3. ReadsStay
  BY <1>1, <1>2, AsksStay
<1>4. UNCHANGED <<files, watching, unsent, batches, online, tree, loaded, marks, stale,
                  number, changes, upsets>>
  BY DEF Disk!Resend, Disk!server, Disk!client
<1>5. Bounded'
  BY <1>3, <1>4 DEF Disk!Resend, Followed, Bounded, ReadsStay, Disk!FilesAssumption
<1> QED BY <1>3, <1>4, <1>5, ReadsOnly

\* A read is taken away.
LEMMA RemovedStays ==
  ASSUME NEW S, NEW s \in Seq(S), NEW i \in 1..Len(s), NEW t, t = Disk!RemoveAt(s, i)
  PROVE  /\ t \in Seq(S) /\ Len(t) <= Len(s)
         /\ \A j \in 1..Len(t) : \E k \in 1..Len(s) : t[j] = s[k]
<1>1. Len(s) \in Nat /\ DOMAIN s = 1..Len(s) /\ i \in 1..Len(s) /\ \A k \in 1..Len(s) : s[k] \in S
  BY LenProperties, ElementOfSeq
<1>2. t = SubSeq(s, 1, i - 1) \o SubSeq(s, i + 1, Len(s))
  BY DEF Disk!RemoveAt
<1> DEFINE a == SubSeq(s, 1, i - 1)
           b == SubSeq(s, i + 1, Len(s))
<1>3. /\ a \in Seq(S) /\ Len(a) = i - 1 /\ \A j \in 1..(i - 1) : a[j] = s[j]
  <2>1. \A j \in 1..(i - 1) : s[j] \in S
    BY <1>1
  <2>2. 1 \in Int /\ i - 1 \in Int
    BY <1>1
  <2>3. a \in Seq(S) /\ Len(a) = IF 1 <= i - 1 THEN (i - 1) - 1 + 1 ELSE 0
    BY <2>1, <2>2, SubSeqProperties
  <2>4. Len(a) = i - 1
    <3> HIDE DEF a
    <3> QED BY <1>1, <2>3
  <2>5. \A j \in 1..(i - 1) : a[j] = s[j]
    BY <1>1
  <2> QED BY <2>3, <2>4, <2>5
<1>4. /\ b \in Seq(S) /\ Len(b) = Len(s) - i /\ \A j \in 1..(Len(s) - i) : b[j] = s[i + j]
  <2>1. \A j \in (i + 1)..Len(s) : s[j] \in S
    BY <1>1
  <2>2. i + 1 \in Int /\ Len(s) \in Int
    BY <1>1
  <2>3. b \in Seq(S) /\ Len(b) = IF i + 1 <= Len(s) THEN Len(s) - (i + 1) + 1 ELSE 0
    BY <2>1, <2>2, SubSeqProperties
  <2>4. Len(b) = Len(s) - i
    <3> DEFINE n == Len(s)
    <3>1. n \in Nat /\ i \in 1..n /\ Len(b) = IF i + 1 <= n THEN n - (i + 1) + 1 ELSE 0
      BY <1>1, <2>3
    <3> HIDE DEF b, n
    <3>2. Len(b) = n - i
      BY <3>1
    <3> QED BY <3>2 DEF n
  <2>5. \A j \in 1..(Len(s) - i) : b[j] = s[i + j]
    BY <1>1
  <2> QED BY <2>3, <2>4, <2>5
<1> HIDE DEF a, b
<1>5. /\ t \in Seq(S) /\ Len(t) = Len(a) + Len(b)
      /\ \A j \in 1..Len(t) : t[j] = IF j <= Len(a) THEN a[j] ELSE b[j - Len(a)]
  <2>1. t = a \o b
    BY <1>2 DEF a, b
  <2>2. /\ a \o b \in Seq(S) /\ Len(a \o b) = Len(a) + Len(b)
        /\ \A j \in 1..(Len(a) + Len(b)) :
             (a \o b)[j] = IF j <= Len(a) THEN a[j] ELSE b[j - Len(a)]
    BY <1>3, <1>4, ConcatProperties
  <2> QED BY <2>1, <2>2
<1>6. ASSUME NEW j \in 1..Len(t) PROVE \E k \in 1..Len(s) : t[j] = s[k]
  <2>1. CASE j <= i - 1
    <3>1. j \in 1..(i - 1) /\ j \in 1..Len(s) /\ j <= Len(a)
      BY <1>1, <1>3, <1>5, <2>1
    <3>2. t[j] = a[j] /\ a[j] = s[j]
      BY <1>3, <1>5, <3>1
    <3> QED BY <3>1, <3>2
  <2>2. CASE ~(j <= i - 1)
    <3>1. j - (i - 1) \in 1..(Len(s) - i) /\ i + (j - (i - 1)) = j + 1 /\ j + 1 \in 1..Len(s)
      BY <1>1, <1>3, <1>4, <1>5, <2>2
    <3>2. t[j] = b[j - (i - 1)]
      BY <1>3, <1>5, <2>2
    <3> QED BY <1>4, <3>1, <3>2
  <2> QED BY <2>1, <2>2
<1> QED BY <1>1, <1>3, <1>4, <1>5, <1>6

\* The reads without one of them.
LEMMA RemovesStay ==
  ASSUME Followed, NEW i \in DOMAIN reads, reads' = Disk!RemoveAt(reads, i), MaxReads \in Nat
  PROVE  ReadsStay
<1>1. reads \in Seq(Disk!Tree) /\ Len(reads) <= MaxReads /\ Len(reads) \in Nat
  BY LenProperties DEF Followed, TypedTree, Bounded
<1>2. /\ reads' \in Seq(Disk!Tree) /\ Len(reads') <= Len(reads)
      /\ \A j \in 1..Len(reads') : \E k \in 1..Len(reads) : reads'[j] = reads[k]
  <2> DEFINE S == Disk!Tree
  <2>1. reads \in Seq(S) /\ i \in 1..Len(reads)
    BY <1>1, LenProperties
  <2> HIDE DEF S
  <2>2. /\ reads' \in Seq(S) /\ Len(reads') <= Len(reads)
        /\ \A j \in 1..Len(reads') : \E k \in 1..Len(reads) : reads'[j] = reads[k]
    BY <2>1, RemovedStays
  <2> QED BY <2>2 DEF S
<1>3. Len(reads') \in Nat
  BY <1>2, LenProperties
<1> QED BY <1>1, <1>2, <1>3 DEF ReadsStay

\* A read fails, and is tried again or given up.
LEMMA ReadFailsKeeps ==
  ASSUME Disk!FilesAssumption, Followed, NEW i \in DOMAIN reads, Disk!ReadFails(i) PROVE Followed'
<1>1. /\ reads \in Seq(Disk!Tree) /\ Len(reads) <= MaxReads /\ reads[i] \in Disk!Tree
      /\ MaxReads \in Nat /\ DOMAIN reads = 1..Len(reads)
  BY LenProperties, ElementOfSeq DEF Followed, TypedTree, Bounded, Disk!FilesAssumption
<1>2. ReadsStay
  <2>1. CASE reads' = Disk!RemoveAt(reads, i)
    BY <1>1, <2>1, RemovesStay
  <2>2. CASE reads' = [reads EXCEPT ![i].tries = @ + 1] /\ reads[i].tries < 3
    <3> DEFINE e == [reads[i] EXCEPT !.tries = @ + 1]
    <3>1. e \in Disk!Tree /\ e.at = "asked"
      <4>1. reads[i].at = "asked" /\ reads[i].tries \in 1..3
        BY <1>1 DEF Disk!Tree, Disk!ReadFails
      <4>2. reads[i].tries + 1 \in 1..3
        BY <2>2, <4>1
      <4> QED BY <1>1, <4>1, <4>2 DEF Disk!Tree
    <3>2. reads' = [reads EXCEPT ![i] = e]
      BY <2>2
    <3> HIDE DEF e
    <3>3. reads' \in Seq(Disk!Tree) /\ Len(reads') = Len(reads)
      BY <1>1, <3>1, <3>2, ExceptSeq
    <3>4. \A j \in 1..Len(reads) : reads'[j] = IF j = i THEN e ELSE reads[j]
      BY <1>1, <3>2
    <3> QED BY <1>1, <3>1, <3>3, <3>4 DEF ReadsStay
  <2> QED BY <2>1, <2>2 DEF Disk!ReadFails
<1>3. UNCHANGED <<files, watching, unsent, batches, online, tree, loaded, marks, stale,
                  number, changes, asked>>
  BY DEF Disk!ReadFails, Disk!server, Disk!client
<1>4. Bounded'
  BY <1>2, <1>3 DEF Disk!ReadFails, Followed, Bounded, ReadsStay, Disk!FilesAssumption
<1> QED BY <1>2, <1>3, <1>4, ReadsOnly

\* Of the changes of a file one is the last.
LEMMA LastIsThere ==
  ASSUME NEW es, NEW n \in Nat, NEW p, IsTold(es, n, p)
  PROVE  \E i \in 1..n : es[i].path = p /\ \A j \in 1..n : j > i => es[j].path # p
<1> DEFINE HasLast(m) == \E i \in 1..m : es[i].path = p /\ \A j \in 1..m : j > i => es[j].path # p
           S == {m \in Nat : (\E i \in 1..m : es[i].path = p) => HasLast(m)}
<1>1. 0 \in S
  <2>1. 1..0 = {}
    OBVIOUS
  <2> QED BY <2>1
<1>2. ASSUME NEW m \in 0..n, m \in S, m < n PROVE m + 1 \in S
  <2>1. m \in Nat /\ m + 1 \in Nat /\ m + 1 \in 1..(m + 1) /\ 1..m \subseteq 1..(m + 1)
        /\ (\A j \in 1..(m + 1) : ~(j > m + 1))
        /\ (\A j \in 1..(m + 1) : j = m + 1 \/ j \in 1..m)
    OBVIOUS
  <2>2. CASE es[m + 1].path = p
    BY <2>1, <2>2
  <2>3. CASE es[m + 1].path # p
    <3> SUFFICES ASSUME \E i \in 1..(m + 1) : es[i].path = p PROVE HasLast(m + 1)
      BY <2>1
    <3>1. \E i \in 1..m : es[i].path = p
      BY <2>1, <2>3
    <3>2. HasLast(m)
      BY <1>2, <3>1
    <3> QED BY <2>1, <2>3, <3>2
  <2> QED BY <2>2, <2>3
<1>3. n \in S
  <2> HIDE DEF S
  <2> QED BY <1>1, <1>2, Reaches
<1> QED BY <1>3 DEF IsTold

\* The watcher is up.
LEMMA WatchesKeeps == ASSUME Followed, Disk!Watches PROVE Followed'
<1>1. /\ UNCHANGED <<files, unsent, batches, reads, online, number, tree, loaded, marks, stale,
                     changes, asked, upsets>>
      /\ watching' = TRUE
  BY DEF Disk!Watches, Disk!client, Disk!bounds
<1> QED BY <1>1, SameChanges DEF Followed, TypedTree, Bounded, Quiet, LastWaits, LastComes,
                                 ReadsRight, MarkRight, TreeRight

\* The connection breaks.
LEMMA DropKeeps == ASSUME Followed, Disk!Drop PROVE Followed'
<1>1. /\ UNCHANGED <<files, watching, unsent, batches, reads, number, tree, marks, stale,
                     changes, asked, upsets>>
      /\ online' = FALSE /\ loaded' = FALSE
  BY DEF Disk!Drop, Disk!server, Disk!bounds
<1>2. TypedTree' /\ Bounded' /\ Quiet'
  BY <1>1 DEF Followed, TypedTree, Bounded, Quiet
<1>3. LastWaits' /\ LastComes' /\ ReadsRight'
  BY <1>1, SameChanges DEF Followed, LastWaits, LastComes, ReadsRight
<1>4. MarkRight' /\ TreeRight'
  BY <1>1 DEF MarkRight, TreeRight
<1> QED BY <1>2, <1>3, <1>4 DEF Followed

\* Nothing is left to tell; the client has no connection.
LEMMA EvictKeeps == ASSUME Followed, Disk!Evict PROVE Followed'
<1>1. /\ UNCHANGED <<files, batches, reads, online, number, tree, loaded, marks, stale,
                     changes, asked, upsets>>
      /\ watching' = FALSE /\ unsent' = <<>> /\ batches = <<>> /\ reads = <<>> /\ ~online
      /\ \A p \in Paths : marks[p] = "none"
  BY DEF Disk!Evict, Disk!client, Disk!bounds
<1>2. Len(unsent') = 0 /\ Len(batches') = 0 /\ Len(reads') = 0
  BY <1>1
<1>3. TypedTree' /\ Bounded'
  BY <1>1, EmptySeq DEF Followed, TypedTree, Bounded
<1>4. LastWaits' /\ LastComes' /\ ReadsRight'
  BY <1>2 DEF LastWaits, LastComes, ReadsRight
<1>5. Quiet' /\ MarkRight' /\ TreeRight'
  BY <1>1 DEF Followed, Quiet, MarkRight, TreeRight
<1> QED BY <1>3, <1>4, <1>5 DEF Followed

\* The mark of a deletion has gone before the connection is there again.
LEMMA ConnectsKeeps == ASSUME Disk!FilesAssumption, Followed, Disk!Connects PROVE Followed'
<1>1. /\ UNCHANGED <<files, watching, unsent, batches, tree, loaded, marks, stale,
                     changes, asked, upsets>>
      /\ ~online /\ online' = TRUE /\ number <= MaxDrops /\ number' = number + 1
      /\ \A p \in Paths : marks[p] # "deleted"
  BY DEF Disk!Connects, Disk!server, Disk!bounds
<1>2. ReadsStay
  <2>1. number' \in Nat
    BY <1>1 DEF Followed, Bounded
  <2>2. CASE UNCHANGED reads
    BY <2>2, ReadsUnchanged
  <2>3. CASE Disk!Asks(number')
    BY <2>1, <2>3, AsksStay
  <2> QED BY <2>2, <2>3 DEF Disk!Connects
<1>3. Bounded'
  BY <1>1, <1>2 DEF Followed, Bounded, ReadsStay, Disk!FilesAssumption
<1>4. ~loaded /\ ~loaded'
  BY <1>1 DEF Followed, Quiet
<1>5. TypedTree' /\ Quiet' /\ LastWaits' /\ LastComes' /\ MarkRight' /\ TreeRight'
  BY <1>1, <1>2, <1>4, SameChanges
     DEF Followed, TypedTree, ReadsStay, Quiet, LastWaits, LastComes, MarkRight, TreeRight
<1>6. ReadsRight'
  BY <1>1, <1>2, SameChanges DEF Followed, ReadsStay, ReadsRight
<1> QED BY <1>3, <1>5, <1>6 DEF Followed

\* buildTree reads the workspace as it is.
LEMMA ReadsKeeps ==
  ASSUME Followed, NEW i \in DOMAIN reads, Disk!Reads(i) PROVE Followed'
<1> DEFINE e == [reads[i] EXCEPT !.at = "read", !.seen = files]
<1>1. /\ UNCHANGED <<files, watching, unsent, batches, online, number, tree, loaded, marks,
                     stale, changes, asked, upsets>>
      /\ reads' = [reads EXCEPT ![i] = e]
  BY DEF Disk!Reads, Disk!server, Disk!client, Disk!bounds
<1>2. /\ reads \in Seq(Disk!Tree) /\ reads[i] \in Disk!Tree
      /\ files \in SUBSET Paths /\ i \in 1..Len(reads)
  BY LenProperties, ElementOfSeq DEF Followed, TypedTree
<1>3. e \in Disk!Tree /\ e.seen = files
  BY <1>2 DEF Disk!Tree
<1> HIDE DEF e
<1>4. /\ reads' \in Seq(Disk!Tree) /\ Len(reads') = Len(reads)
      /\ \A j \in 1..Len(reads) : reads'[j] = IF j = i THEN e ELSE reads[j]
  BY <1>1, <1>2, <1>3, ExceptSeq
<1>5. TypedTree' /\ Bounded' /\ Quiet' /\ LastWaits' /\ LastComes' /\ MarkRight' /\ TreeRight'
  BY <1>1, <1>4, SameChanges
     DEF Followed, TypedTree, Bounded, Quiet, LastWaits, LastComes, MarkRight, TreeRight
<1>6. ReadsRight'
  BY <1>1, <1>3, <1>4, SameChanges DEF Followed, ReadsRight
<1> QED BY <1>5, <1>6 DEF Followed

\* The reducer takes a tree over; what it missed stays unknown.
LEMMA TreeArrivesKeeps ==
  ASSUME Disk!FilesAssumption, Followed, NEW i \in DOMAIN reads, Disk!TreeArrives(i)
  PROVE  Followed'
<1>1. /\ UNCHANGED <<files, watching, unsent, batches, online, number, marks,
                     changes, asked, upsets>>
      /\ reads[i].at = "read" /\ reads' = Disk!RemoveAt(reads, i)
      /\ \/ online /\ tree' = reads[i].seen /\ loaded' = TRUE /\ stale' = reads[i].missed
         \/ UNCHANGED <<tree, loaded, stale>>
  BY DEF Disk!TreeArrives, Disk!server, Disk!bounds
<1>2. reads[i] \in Disk!Tree /\ i \in 1..Len(reads)
  BY LenProperties, ElementOfSeq DEF Followed, TypedTree
<1>3. reads[i].seen \in SUBSET Paths /\ reads[i].missed \in SUBSET Paths
  BY <1>2 DEF Disk!Tree
<1>4. ReadsStay
  BY <1>1, RemovesStay DEF Disk!FilesAssumption
<1>5. Bounded' /\ LastWaits' /\ LastComes' /\ MarkRight'
  BY <1>1, <1>4, SameChanges
     DEF Followed, Bounded, ReadsStay, LastWaits, LastComes, MarkRight
<1>6. TypedTree' /\ Quiet'
  <2>1. tree' \in SUBSET Paths /\ stale' \in SUBSET Paths /\ loaded' \in BOOLEAN
    BY <1>1, <1>3 DEF Followed, TypedTree
  <2>2. TypedTree'
    BY <1>1, <1>4, <2>1 DEF Followed, TypedTree, ReadsStay
  <2>3. Quiet'
    BY <1>1 DEF Followed, Quiet
  <2> QED BY <2>2, <2>3
<1>7. ReadsRight'
  BY <1>1, <1>4, SameChanges DEF Followed, ReadsStay, ReadsRight
<1>8. TreeRight'
  <2>1. CASE online /\ tree' = reads[i].seen /\ loaded' = TRUE /\ stale' = reads[i].missed
    BY <1>1, <1>2, <2>1, SameChanges DEF Followed, ReadsRight, TreeRight
  <2>2. CASE UNCHANGED <<tree, loaded, stale>>
    BY <1>1, <2>2, SameChanges DEF Followed, TreeRight
  <2> QED BY <1>1, <2>1, <2>2
<1> QED BY <1>5, <1>6, <1>7, <1>8 DEF Followed

\* A file whose deletion is marked goes with the mark: it is not there again.
LEMMA MarkEndsKeeps == ASSUME Followed, NEW q \in Paths, Disk!MarkEnds(q) PROVE Followed'
<1>1. /\ UNCHANGED <<files, watching, unsent, batches, reads, online, number, loaded, stale,
                     changes, asked, upsets>>
      /\ marks' = [marks EXCEPT ![q] = "none"]
      /\ tree' = IF marks[q] = "deleted" THEN tree \ {q} ELSE tree
  BY DEF Disk!MarkEnds, Disk!server, Disk!bounds
<1>2. /\ marks' \in [Paths -> Marks] /\ marks'[q] = "none"
      /\ \A p \in Paths : p # q => marks'[p] = marks[p]
  BY <1>1 DEF Followed, TypedTree, Marks
<1>3. TypedTree' /\ Bounded' /\ Quiet' /\ LastWaits' /\ LastComes' /\ ReadsRight'
  BY <1>1, <1>2, SameChanges
     DEF Followed, TypedTree, Bounded, Quiet, LastWaits, LastComes, ReadsRight
<1>4. MarkRight'
  BY <1>1, <1>2, SameChanges DEF Followed, MarkRight
<1>5. TreeRight'
  <2> SUFFICES ASSUME NEW p \in Paths, online', loaded', p \notin stale', ~Untold(p)', ~Comes(p)',
                      marks'[p] # "deleted"
               PROVE  p \in tree' <=> p \in files'
    BY DEF TreeRight
  <2>1. online /\ loaded /\ p \notin stale /\ ~Untold(p) /\ ~Comes(p)
    BY <1>1, SameChanges
  <2>2. CASE p = q
    <3>1. CASE marks[q] = "deleted"
      <4>1. p \notin files
        BY <2>1, <2>2, <3>1 DEF Followed, MarkRight
      <4> QED BY <1>1, <2>2, <3>1, <4>1
    <3>2. CASE marks[q] # "deleted"
      <4>1. p \in tree <=> p \in files
        BY <2>1, <2>2, <3>2 DEF Followed, TreeRight
      <4> QED BY <1>1, <3>2, <4>1
    <3> QED BY <3>1, <3>2
  <2>3. CASE p # q
    <3>1. marks[p] # "deleted"
      BY <1>2, <2>3
    <3>2. p \in tree <=> p \in files
      BY <2>1, <3>1 DEF Followed, TreeRight
    <3> QED BY <1>1, <2>3, <3>2
  <2> QED BY <2>2, <2>3
<1> QED BY <1>3, <1>4, <1>5 DEF Followed

-----------------------------------------------------------------------------
\* A change passes the trees that were read.
LEMMA PassesKeeps ==
  ASSUME Followed, NEW change \in [Paths -> Disk!Kinds], Disk!Passes(change)
  PROVE  /\ reads' \in Seq(Disk!Tree) /\ Len(reads') = Len(reads)
         /\ \A i \in 1..Len(reads) :
              /\ reads'[i].at = reads[i].at /\ reads'[i].seen = reads[i].seen
              /\ reads[i].at = "read" => \A p \in Paths :
                   IF change[p] = "none"
                   THEN p \in reads'[i].missed <=> p \in reads[i].missed
                   ELSE p \in reads'[i].missed <=> (change[p] # "deleted") # (p \in reads[i].seen)
<1> DEFINE missed(i) == IF reads[i].at = "asked" THEN {}
                        ELSE {p \in Paths : IF change[p] = "none" THEN p \in reads[i].missed
                                ELSE (change[p] # "deleted") # (p \in reads[i].seen)}
           e(i) == [reads[i] EXCEPT !.missed = missed(i)]
<1>1. reads' = [i \in DOMAIN reads |-> e(i)]
  BY DEF Disk!Passes
<1>2. reads \in Seq(Disk!Tree) /\ DOMAIN reads = 1..Len(reads) /\ Len(reads) \in Nat
  BY LenProperties DEF Followed, TypedTree
<1>3. \A i \in 1..Len(reads) : reads[i] \in Disk!Tree
  BY <1>2, ElementOfSeq
<1>4. \A i \in 1..Len(reads) : missed(i) \in SUBSET Paths
  OBVIOUS
<1>5. ASSUME NEW i \in 1..Len(reads) PROVE e(i) \in Disk!Tree /\ e(i).missed = missed(i)
        /\ e(i).at = reads[i].at /\ e(i).seen = reads[i].seen
  <2>1. reads[i] \in Disk!Tree /\ missed(i) \in SUBSET Paths
    BY <1>3, <1>4
  <2> HIDE DEF missed
  <2> QED BY <2>1 DEF Disk!Tree
<1>6. \A i \in 1..Len(reads) : reads[i].at = "read" => \A p \in Paths :
        IF change[p] = "none"
        THEN p \in missed(i) <=> p \in reads[i].missed
        ELSE p \in missed(i) <=> (change[p] # "deleted") # (p \in reads[i].seen)
  OBVIOUS
<1> HIDE DEF e, missed
<1>7. reads' \in [1..Len(reads) -> Disk!Tree] /\ \A i \in 1..Len(reads) : reads'[i] = e(i)
  BY <1>1, <1>2, <1>5
<1>8. reads' \in Seq(Disk!Tree)
  BY <1>2, <1>7, SeqDef
<1>9. Len(reads') = Len(reads)
  BY <1>2, <1>7, <1>8, LenProperties
<1> QED BY <1>5, <1>6, <1>7, <1>8, <1>9

\* A file is changed before the watcher is up: nothing waits, comes or is marked.
LEMMA UnseenChangeKeeps ==
  ASSUME Disk!FilesAssumption, Followed, NEW q \in Paths, NEW kind \in Disk!Kinds \ {"none"},
         Disk!Change(q, kind), ~watching
  PROVE  Followed'
<1> DEFINE change == [p \in Paths |-> IF p = q THEN kind ELSE "none"]
<1>1. /\ UNCHANGED <<watching, batches, unsent, online, number, tree, loaded, marks, asked,
                     upsets>>
      /\ changes < MaxChanges /\ changes' = changes + 1
      /\ files' = IF kind = "deleted" THEN files \ {q} ELSE files \union {q}
      /\ Disk!Passes(change) /\ stale' = stale \union {q}
  BY DEF Disk!Change, Disk!client
<1>2. change \in [Paths -> Disk!Kinds]
  BY DEF Disk!Kinds
<1>3. /\ reads' \in Seq(Disk!Tree) /\ Len(reads') = Len(reads)
      /\ \A i \in 1..Len(reads) :
              /\ reads'[i].at = reads[i].at /\ reads'[i].seen = reads[i].seen
              /\ reads[i].at = "read" => \A p \in Paths :
                   IF change[p] = "none"
                   THEN p \in reads'[i].missed <=> p \in reads[i].missed
                   ELSE p \in reads'[i].missed <=> (change[p] # "deleted") # (p \in reads[i].seen)
  BY <1>1, <1>2, PassesKeeps
<1>4. /\ change[q] = kind /\ \A p \in Paths : p # q => change[p] = "none"
      /\ kind # "none"
  OBVIOUS
<1> HIDE DEF change
<1>5. unsent = <<>> /\ batches = <<>> /\ \A p \in Paths : marks[p] = "none"
  BY DEF Followed, Quiet
<1>6. Len(unsent) = 0 /\ Len(batches) = 0 /\ Len(unsent') = 0 /\ Len(batches') = 0
  BY <1>1, <1>5
<1>7. \A p \in Paths : /\ q = p => (p \in files' <=> kind # "deleted")
                       /\ q # p => (p \in files' <=> p \in files)
  BY <1>1
<1>8. TypedTree' /\ Bounded' /\ Quiet'
  BY <1>1, <1>3 DEF Followed, TypedTree, Bounded, Quiet, Disk!FilesAssumption
<1>9. LastWaits' /\ LastComes' /\ MarkRight'
  BY <1>1, <1>5, <1>6 DEF LastWaits, LastComes, MarkRight
<1>10. TreeRight'
  BY <1>1, <1>7, SameChanges DEF Followed, TreeRight
<1>11. ReadsRight'
  <2> SUFFICES ASSUME NEW i \in 1..Len(reads'), NEW p \in Paths, reads'[i].at = "read",
                      p \notin reads'[i].missed, ~Untold(p)', ~Comes(p)'
               PROVE  p \in reads'[i].seen <=> p \in files'
    BY DEF ReadsRight
  <2>1. i \in 1..Len(reads) /\ reads[i].at = "read" /\ reads'[i].seen = reads[i].seen
    BY <1>3
  <2>2. CASE p = q
    BY <1>3, <1>4, <1>7, <2>1, <2>2
  <2>3. CASE p # q
    <3>1. p \notin reads[i].missed /\ ~Untold(p) /\ ~Comes(p)
      BY <1>1, <1>3, <1>4, <2>1, <2>3, SameChanges
    <3>2. p \in reads[i].seen <=> p \in files
      BY <2>1, <3>1 DEF Followed, ReadsRight
    <3> QED BY <1>7, <2>1, <2>3, <3>2
  <2> QED BY <2>2, <2>3
<1> QED BY <1>8, <1>9, <1>10, <1>11 DEF Followed

\* The watcher reports a change.
LEMMA SeenChangeKeeps ==
  ASSUME Disk!FilesAssumption, Followed, NEW q \in Paths, NEW kind \in Disk!Kinds \ {"none"},
         Disk!Change(q, kind), watching
  PROVE  Followed'
<1> DEFINE e == [path |-> q, kind |-> kind]
<1>1. /\ UNCHANGED <<watching, batches, reads, stale, online, number, tree, loaded, marks,
                     asked, upsets>>
      /\ changes < MaxChanges /\ changes' = changes + 1
      /\ files' = IF kind = "deleted" THEN files \ {q} ELSE files \union {q}
      /\ unsent' = Append(unsent, e)
  BY DEF Disk!Change, Disk!client
<1>2. e \in News /\ e.path = q /\ e.kind = kind
  BY DEF News
<1> HIDE DEF e
<1>3. unsent \in Seq(News)
  BY DEF Followed, TypedTree
<1>4. /\ unsent' \in Seq(News) /\ Len(unsent') = Len(unsent) + 1 /\ Len(unsent) \in Nat
      /\ unsent'[Len(unsent) + 1] = e /\ \A i \in 1..Len(unsent) : unsent'[i] = unsent[i]
  BY <1>1, <1>2, <1>3, AppendOne
<1> DEFINE n == Len(unsent)
<1>5. n \in Nat /\ Len(unsent') = n + 1 /\ 1..n \subseteq 1..(n + 1) /\ n + 1 \in 1..(n + 1)
      /\ (\A i \in 1..(n + 1) : i = n + 1 \/ (i \in 1..n /\ n + 1 > i))
  BY <1>4
<1>6. unsent'[n + 1] = e /\ \A i \in 1..n : unsent'[i] = unsent[i]
  BY <1>4
<1>7. \A p \in Paths : /\ q = p => (p \in files' <=> kind # "deleted")
                       /\ q # p => (p \in files' <=> p \in files)
  BY <1>1
<1>8. /\ Untold(q)'
      /\ \A p \in Paths : p # q => (Untold(p)' <=> Untold(p))
  BY <1>2, <1>5, <1>6 DEF Untold, IsTold
<1>9. \A p : (Comes(p))' = Comes(p) /\ \A k : LastBatch(p, k)' = LastBatch(p, k)
  BY <1>1 DEF Comes, LastBatch
<1>10. TypedTree' /\ Bounded' /\ Quiet'
  BY <1>1, <1>4 DEF Followed, TypedTree, Bounded, Quiet, Disk!FilesAssumption
<1>11. LastWaits'
  <2> SUFFICES ASSUME NEW p \in Paths, NEW i \in 1..Len(unsent'),
                      LastTold(unsent', Len(unsent'), p, i)
               PROVE  (unsent'[i].kind = "deleted") = (p \notin files')
    BY DEF LastWaits
  <2>1. i \in 1..(n + 1) /\ unsent'[i].path = p
        /\ \A j \in 1..(n + 1) : j > i => unsent'[j].path # p
    BY <1>5 DEF LastTold
  <2>2. CASE i = n + 1
    BY <1>2, <1>6, <1>7, <2>1, <2>2
  <2>3. CASE i # n + 1
    <3>1. i \in 1..n /\ n + 1 > i
      BY <1>5, <2>1, <2>3
    <3>2. p # q
      BY <1>2, <1>5, <1>6, <2>1, <3>1
    <3>3. LastTold(unsent, n, p, i)
      BY <1>5, <1>6, <2>1, <3>1 DEF LastTold
    <3>4. (unsent[i].kind = "deleted") = (p \notin files)
      BY <3>1, <3>3 DEF Followed, LastWaits
    <3> QED BY <1>6, <1>7, <3>1, <3>2, <3>4
  <2> QED BY <2>2, <2>3
<1>12. LastComes' /\ ReadsRight' /\ MarkRight' /\ TreeRight'
  BY <1>1, <1>7, <1>8, <1>9 DEF Followed, LastComes, ReadsRight, MarkRight, TreeRight
<1> QED BY <1>10, <1>11, <1>12 DEF Followed

-----------------------------------------------------------------------------
\* What waited for the timer comes as a batch that tells the same.
LEMMA SendsChangesKeeps ==
  ASSUME Disk!FilesAssumption, Followed, NEW n \in DOMAIN unsent, Disk!SendsChanges(n)
  PROVE  Followed'
<1> DEFINE early == SubSeq(unsent, 1, n)
           batch == Disk!Coalesced(early)
           len == Len(unsent)
<1>1. /\ UNCHANGED <<files, watching, online, number, tree, loaded, marks, stale, changes,
                     asked, upsets>>
      /\ batches' = Append(batches, batch)
      /\ Disk!Asks(0) \/ UNCHANGED reads
      /\ unsent' = SubSeq(unsent, n + 1, len)
  BY DEF Disk!SendsChanges, Disk!client, Disk!bounds
<1>2. unsent \in Seq(News) /\ batches \in Seq(Batch) /\ len \in Nat /\ n \in 1..len
      /\ \A i \in 1..len : unsent[i] \in News
  BY LenProperties, ElementOfSeq DEF Followed, TypedTree
<1>3. early \in Seq(News) /\ Len(early) = n /\ \A i \in 1..n : early[i] = unsent[i]
  <2>1. 1 \in Int /\ n \in Int /\ 1 <= n /\ \A i \in 1..n : i \in 1..len
    BY <1>2
  <2>2. \A i \in 1..n : unsent[i] \in News
    BY <1>2, <2>1
  <2>3. early \in Seq(News) /\ Len(early) = IF 1 <= n THEN n - 1 + 1 ELSE 0
    BY <2>1, <2>2, SubSeqProperties
  <2>4. \A i \in 1..n : early[i] = unsent[i]
    BY <2>1, <1>2
  <2> HIDE DEF early
  <2> QED BY <2>1, <2>3, <2>4
<1>4. unsent' \in Seq(News) /\ Len(unsent') = len - n
      /\ \A i \in 1..(len - n) : unsent'[i] = unsent[n + i]
  <2>1. n + 1 \in Int /\ len \in Int /\ \A i \in (n + 1)..len : i \in 1..len
    BY <1>2
  <2>2. \A i \in (n + 1)..len : unsent[i] \in News
    BY <1>2, <2>1
  <2> DEFINE late == SubSeq(unsent, n + 1, len)
  <2>3. late \in Seq(News) /\ Len(late) = IF n + 1 <= len THEN len - (n + 1) + 1 ELSE 0
    BY <2>1, <2>2, SubSeqProperties
  <2>4. \A i \in 1..(len - n) : late[i] = unsent[n + i]
    BY <1>2
  <2>5. unsent' = late
    BY <1>1
  <2>6. len \in Nat /\ n \in 1..len
    BY <1>2
  <2> HIDE DEF late, len
  <2>7. Len(late) = len - n
    BY <2>3, <2>6
  <2> QED BY <2>3, <2>4, <2>5, <2>7
<1>5. batch \in Batch /\ Tells(batch, early, n)
  BY <1>3, CoalescedTells
<1> HIDE DEF early, batch, len
<1>6. /\ batches' \in Seq(Batch) /\ Len(batches') = Len(batches) + 1 /\ Len(batches) \in Nat
      /\ batches'[Len(batches) + 1] = batch /\ \A k \in 1..Len(batches) : batches'[k] = batches[k]
  BY <1>1, <1>2, <1>5, AppendOne
<1>7. ReadsStay
  <2>1. CASE UNCHANGED reads
    BY <2>1, ReadsUnchanged
  <2>2. CASE Disk!Asks(0)
    BY <2>2, AsksStay
  <2> QED BY <1>1, <2>1, <2>2
<1>8. TypedTree' /\ Bounded'
  BY <1>1, <1>4, <1>6, <1>7 DEF Followed, TypedTree, Bounded, ReadsStay
<1>9. Quiet'
  <2>1. unsent # <<>>
    BY <1>2 DEF len
  <2> QED BY <1>1, <2>1 DEF Followed, Quiet
<1> DEFINE m == Len(batches)
<1>10. m \in Nat /\ Len(batches') = m + 1 /\ 1..m \subseteq 1..(m + 1) /\ m + 1 \in 1..(m + 1)
       /\ (\A k \in 1..(m + 1) : k = m + 1 \/ (k \in 1..m /\ m + 1 > k))
       /\ batches'[m + 1] = batch /\ \A k \in 1..m : batches'[k] = batches[k]
  BY <1>6
<1> HIDE DEF m
<1>11. /\ \A i \in 1..len : i \in 1..n \/ (i - n \in 1..(len - n) /\ n + (i - n) = i)
       /\ \A i \in 1..(len - n) : n + i \in 1..len /\ n + i > n
       /\ \A i \in 1..n : i \in 1..len
  BY <1>2
\* Of a file the batch does not tell of, the rest tells what all did; of another, too,
\* unless the rest tells nothing of it.
<1>12. ASSUME NEW p \in Paths
       PROVE  /\ Untold(p) <=> batch[p] # "none" \/ Untold(p)'
              /\ Comes(p)' <=> batch[p] # "none" \/ Comes(p)
  <2>1. batch[p] # "none" <=> \E i \in 1..n : unsent[i].path = p
    BY <1>3, <1>5 DEF Tells, IsTold
  <2>2. Untold(p)' <=> \E i \in 1..(len - n) : unsent'[i].path = p
    BY <1>4 DEF Untold, IsTold
  <2>3. Untold(p) <=> \E i \in 1..len : unsent[i].path = p
    BY DEF Untold, IsTold, len
  <2>4. Untold(p) <=> batch[p] # "none" \/ Untold(p)'
    <3>1. ASSUME Untold(p) PROVE batch[p] # "none" \/ Untold(p)'
      <4>1. PICK i \in 1..len : unsent[i].path = p
        BY <2>3, <3>1
      <4>2. CASE i \in 1..n
        BY <2>1, <4>1, <4>2
      <4>3. CASE i - n \in 1..(len - n) /\ n + (i - n) = i
        <5>1. unsent'[i - n] = unsent[i]
          BY <1>4, <4>3
        <5> QED BY <2>2, <4>1, <4>3, <5>1
      <4> QED BY <1>11, <4>2, <4>3
    <3>2. ASSUME batch[p] # "none" PROVE Untold(p)
      BY <1>11, <2>1, <2>3, <3>2
    <3>3. ASSUME Untold(p)' PROVE Untold(p)
      BY <1>4, <1>11, <2>2, <2>3, <3>3
    <3> QED BY <3>1, <3>2, <3>3
  <2>5. Comes(p)' <=> batch[p] # "none" \/ Comes(p)
    BY <1>10 DEF Comes, m
  <2> QED BY <2>4, <2>5
<1>13. LastWaits'
  <2> SUFFICES ASSUME NEW p \in Paths, NEW i \in 1..Len(unsent'),
                      LastTold(unsent', Len(unsent'), p, i)
               PROVE  (unsent'[i].kind = "deleted") = (p \notin files')
    BY DEF LastWaits
  <2>1. i \in 1..(len - n) /\ unsent'[i].path = p
        /\ \A j \in 1..(len - n) : j > i => unsent'[j].path # p
    BY <1>4 DEF LastTold
  <2>2. n + i \in 1..len /\ n + i > n /\ unsent'[i] = unsent[n + i] /\ unsent[n + i].path = p
    BY <1>4, <1>11, <2>1
  <2>3. ASSUME NEW j \in 1..len, j > n + i PROVE unsent[j].path # p
    <3>1. j - n \in 1..(len - n) /\ n + (j - n) = j /\ j - n > i
      BY <1>2, <2>1, <2>3
    <3>2. unsent'[j - n] = unsent[j]
      BY <1>4, <3>1
    <3> QED BY <2>1, <3>1, <3>2
  <2>4. LastTold(unsent, len, p, n + i)
    BY <2>2, <2>3 DEF LastTold
  <2>5. (unsent[n + i].kind = "deleted") = (p \notin files)
    BY <2>2, <2>4 DEF Followed, LastWaits, len
  <2> QED BY <1>1, <2>2, <2>5
<1>14. LastComes'
  <2> SUFFICES ASSUME NEW p \in Paths, NEW k \in 1..Len(batches'), ~Untold(p)', LastBatch(p, k)'
               PROVE  (batches'[k][p] = "deleted") = (p \notin files')
    BY DEF LastComes
  <2>1. k \in 1..(m + 1) /\ batches'[k][p] # "none"
        /\ \A j \in 1..(m + 1) : j > k => batches'[j][p] = "none"
    BY <1>10 DEF LastBatch
  <2>2. CASE k = m + 1
    <3>1. batch[p] # "none" /\ batches'[k] = batch
      BY <1>10, <2>1, <2>2
    <3>2. PICK i \in 1..n : early[i].path = p /\ \A j \in 1..n : j > i => early[j].path # p
      <4>1. IsTold(early, n, p)
        BY <1>5, <3>1 DEF Tells
      <4>2. n \in Nat
        BY <1>2
      <4> QED BY <4>1, <4>2, LastIsThere
    <3>3. LastTold(early, n, p, i)
      BY <3>2 DEF LastTold
    <3>4. (batch[p] = "deleted") = (unsent[i].kind = "deleted")
      BY <1>3, <1>5, <3>2, <3>3 DEF Tells
    <3>5. LastTold(unsent, len, p, i)
      <4>1. i \in 1..len /\ unsent[i].path = p
        BY <1>3, <1>11, <3>2
      <4>2. ASSUME NEW j \in 1..len, j > i PROVE unsent[j].path # p
        <5>1. CASE j \in 1..n
          BY <1>3, <3>2, <4>2, <5>1
        <5>2. CASE j - n \in 1..(len - n) /\ n + (j - n) = j
          <6>1. unsent'[j - n] = unsent[j]
            BY <1>4, <5>2
          <6>2. unsent'[j - n].path # p
            BY <1>4, <5>2 DEF Untold, IsTold
          <6> QED BY <6>1, <6>2
        <5> QED BY <1>11, <5>1, <5>2
      <4> QED BY <4>1, <4>2 DEF LastTold
    <3>6. (unsent[i].kind = "deleted") = (p \notin files)
      BY <3>5 DEF Followed, LastWaits, LastTold, len
    <3> QED BY <1>1, <3>1, <3>4, <3>6
  <2>3. CASE k \in 1..m
    <3>1. m + 1 > k /\ batch[p] = "none"
      BY <1>10, <2>1, <2>3
    <3>2. ~Untold(p)
      BY <1>12, <3>1
    <3>3. LastBatch(p, k) /\ batches'[k] = batches[k]
      BY <1>10, <2>1, <2>3 DEF LastBatch, m
    <3>4. (batches[k][p] = "deleted") = (p \notin files)
      BY <2>3, <3>2, <3>3 DEF Followed, LastComes, m
    <3> QED BY <1>1, <3>3, <3>4
  <2> QED BY <1>10, <2>1, <2>2, <2>3
<1>15. \A p \in Paths : ~Untold(p)' /\ ~Comes(p)' => ~Untold(p) /\ ~Comes(p)
  BY <1>12
<1>16. \A p \in Paths : Untold(p) \/ Comes(p) => Untold(p)' \/ Comes(p)'
  BY <1>12
<1>17. ReadsRight'
  BY <1>1, <1>7, <1>15 DEF Followed, ReadsStay, ReadsRight
<1>18. MarkRight' /\ TreeRight'
  BY <1>1, <1>15, <1>16 DEF Followed, MarkRight, TreeRight
<1> QED BY <1>8, <1>9, <1>13, <1>14, <1>17, <1>18 DEF Followed

\* A batch reaches the client, or nobody.
LEMMA BatchArrivesKeeps == ASSUME Followed, Disk!BatchArrives PROVE Followed'
<1> DEFINE batch == Head(batches)
           m == Len(batches)
<1>1. /\ UNCHANGED <<files, watching, unsent, online, number, loaded, changes, asked, upsets>>
      /\ batches # <<>> /\ batches' = Tail(batches) /\ Disk!Passes(batch)
      /\ online => /\ tree' = tree \union {p \in Paths : batch[p] \in {"created", "updated"}}
                 /\ marks' = Disk!LastMark(batch)
                 /\ stale' = {p \in stale : batch[p] = "none"}
      /\ ~online => UNCHANGED <<tree, marks, stale>>
  BY DEF Disk!BatchArrives, Disk!bounds
<1>2. batches \in Seq(Batch) /\ m \in Nat \ {0} /\ batch = batches[1]
  BY <1>1, EmptySeq DEF Followed, TypedTree
<1>3. /\ batch \in Batch /\ batches' \in Seq(Batch) /\ Len(batches') = m - 1
      /\ \A k \in 1..(m - 1) : batches'[k] = batches[k + 1]
  BY <1>1, <1>2, HeadTailProperties
<1> HIDE DEF batch, m
<1>4. /\ batch \in [Paths -> Disk!Kinds]
      /\ \A p \in Paths : batch[p] \in {"none", "created", "updated", "deleted"}
  BY <1>3 DEF Batch, Disk!Kinds
<1>5. /\ \A k \in 1..m : k = 1 \/ (k - 1 \in 1..(m - 1) /\ (k - 1) + 1 = k)
      /\ \A k \in 1..(m - 1) : k + 1 \in 1..m /\ k + 1 > 1
      /\ 1 \in 1..m
  BY <1>2
<1>6. ASSUME NEW p \in Paths
      PROVE  /\ Untold(p)' <=> Untold(p)
             /\ Comes(p) <=> batch[p] # "none" \/ Comes(p)'
  <2>1. Untold(p)' <=> Untold(p)
    BY <1>1 DEF Untold, IsTold
  <2>2. Comes(p)' <=> \E k \in 1..(m - 1) : batches'[k][p] # "none"
    BY <1>3 DEF Comes
  <2>3. Comes(p) <=> \E k \in 1..m : batches[k][p] # "none"
    BY DEF Comes, m
  <2>4. ASSUME Comes(p) PROVE batch[p] # "none" \/ Comes(p)'
    <3>1. PICK k \in 1..m : batches[k][p] # "none"
      BY <2>3, <2>4
    <3>2. CASE k = 1
      BY <1>2, <3>1, <3>2
    <3>3. CASE k - 1 \in 1..(m - 1) /\ (k - 1) + 1 = k
      <4>1. batches'[k - 1] = batches[k]
        BY <1>3, <3>3
      <4> QED BY <2>2, <3>1, <3>3, <4>1
    <3> QED BY <1>5, <3>2, <3>3
  <2>5. ASSUME batch[p] # "none" PROVE Comes(p)
    BY <1>2, <1>5, <2>3, <2>5
  <2>6. ASSUME Comes(p)' PROVE Comes(p)
    BY <1>3, <1>5, <2>2, <2>3, <2>6
  <2> QED BY <2>1, <2>4, <2>5, <2>6
\* A file of the batch that no later change is about is there as the batch says.
<1>7. ASSUME NEW p \in Paths, batch[p] # "none", ~Untold(p)', ~Comes(p)'
      PROVE  (batch[p] = "deleted") = (p \notin files)
  <2>1. ~Untold(p)
    BY <1>6, <1>7
  <2>2. ASSUME NEW j \in 1..m, j > 1 PROVE batches[j][p] = "none"
    <3>1. j - 1 \in 1..(m - 1) /\ (j - 1) + 1 = j
      BY <1>2, <2>2
    <3>2. batches'[j - 1] = batches[j]
      BY <1>3, <3>1
    <3> QED BY <1>3, <1>7, <3>1, <3>2 DEF Comes
  <2>3. LastBatch(p, 1)
    BY <1>2, <1>5, <1>7, <2>2 DEF LastBatch, m
  <2> QED BY <1>2, <1>5, <2>1, <2>3 DEF Followed, LastComes, m
<1>8. /\ reads' \in Seq(Disk!Tree) /\ Len(reads') = Len(reads)
      /\ \A i \in 1..Len(reads) :
              /\ reads'[i].at = reads[i].at /\ reads'[i].seen = reads[i].seen
              /\ reads[i].at = "read" => \A p \in Paths :
                   IF batch[p] = "none"
                   THEN p \in reads'[i].missed <=> p \in reads[i].missed
                   ELSE p \in reads'[i].missed <=> (batch[p] # "deleted") # (p \in reads[i].seen)
  BY <1>1, <1>4, PassesKeeps
<1>9. ASSUME online
      PROVE  /\ marks' \in [Paths -> Marks]
             /\ \A p \in Paths :
                  /\ batch[p] = "none" => marks'[p] = marks[p]
                  /\ batch[p] # "none" => (marks'[p] = "deleted" <=> batch[p] = "deleted")
  <2>1. marks' = [p \in Paths |-> IF batch[p] = "none" THEN marks[p] ELSE Disk!Mark(batch[p])]
    BY <1>1, <1>9 DEF Disk!LastMark
  <2>2. \A p \in Paths : batch[p] # "none" => Disk!Mark(batch[p]) \in Marks
                           /\ (Disk!Mark(batch[p]) = "deleted" <=> batch[p] = "deleted")
    BY <1>4 DEF Disk!Mark, Marks
  <2>3. \A p \in Paths : marks[p] \in Marks
    BY DEF Followed, TypedTree
  <2> QED BY <2>1, <2>2, <2>3
<1>10. tree' \in SUBSET Paths /\ stale' \in SUBSET Paths /\ marks' \in [Paths -> Marks]
  <2>1. /\ tree \in SUBSET Paths /\ stale \in SUBSET Paths
        /\ marks \in [Paths -> Marks] /\ online \in BOOLEAN
    BY DEF Followed, TypedTree
  <2>2. CASE online
    BY <1>1, <1>9, <2>1, <2>2
  <2>3. CASE ~online
    BY <1>1, <2>1, <2>3
  <2> QED BY <2>2, <2>3
<1>11. TypedTree' /\ Bounded'
  BY <1>1, <1>3, <1>8, <1>10 DEF Followed, TypedTree, Bounded
<1>12. Quiet'
  BY <1>1 DEF Followed, Quiet
<1>13. LastWaits'
  BY <1>1 DEF Followed, LastWaits
<1>14. LastComes'
  <2> SUFFICES ASSUME NEW p \in Paths, NEW k \in 1..Len(batches'), ~Untold(p)', LastBatch(p, k)'
               PROVE  (batches'[k][p] = "deleted") = (p \notin files')
    BY DEF LastComes
  <2>1. k \in 1..(m - 1) /\ batches'[k][p] # "none"
        /\ \A j \in 1..(m - 1) : j > k => batches'[j][p] = "none"
    BY <1>3 DEF LastBatch
  <2>2. k + 1 \in 1..m /\ batches'[k] = batches[k + 1]
    BY <1>3, <1>5, <2>1
  <2>3. ASSUME NEW j \in 1..m, j > k + 1 PROVE batches[j][p] = "none"
    <3>1. j - 1 \in 1..(m - 1) /\ (j - 1) + 1 = j /\ j - 1 > k
      BY <1>2, <2>1, <2>3
    <3>2. batches'[j - 1] = batches[j]
      BY <1>3, <3>1
    <3> QED BY <2>1, <3>1, <3>2
  <2>4. LastBatch(p, k + 1) /\ ~Untold(p)
    BY <1>6, <2>1, <2>2, <2>3 DEF LastBatch, m
  <2>5. (batches[k + 1][p] = "deleted") = (p \notin files)
    BY <2>2, <2>4 DEF Followed, LastComes, m
  <2> QED BY <1>1, <2>2, <2>5
<1>15. ReadsRight'
  <2> SUFFICES ASSUME NEW i \in 1..Len(reads'), NEW p \in Paths, reads'[i].at = "read",
                      p \notin reads'[i].missed, ~Untold(p)', ~Comes(p)'
               PROVE  p \in reads'[i].seen <=> p \in files'
    BY DEF ReadsRight
  <2>1. i \in 1..Len(reads) /\ reads[i].at = "read" /\ reads'[i].seen = reads[i].seen
    BY <1>8
  <2>2. CASE batch[p] = "none"
    <3>1. p \notin reads[i].missed /\ ~Untold(p) /\ ~Comes(p)
      BY <1>6, <1>8, <2>1, <2>2
    <3>2. p \in reads[i].seen <=> p \in files
      BY <2>1, <3>1 DEF Followed, ReadsRight
    <3> QED BY <1>1, <2>1, <3>2
  <2>3. CASE batch[p] # "none"
    <3>1. (batch[p] = "deleted") = (p \notin files)
      BY <1>7, <2>3
    <3>2. (batch[p] # "deleted") = (p \in reads[i].seen)
      BY <1>8, <2>1, <2>3
    <3> QED BY <1>1, <2>1, <3>1, <3>2
  <2> QED BY <2>2, <2>3
<1>16. MarkRight'
  <2> SUFFICES ASSUME NEW p \in Paths, online', marks'[p] = "deleted", p \in files',
                      ~Untold(p)', ~Comes(p)'
               PROVE  FALSE
    BY DEF MarkRight
  <2>1. online /\ p \in files
    BY <1>1
  <2>2. CASE batch[p] = "none"
    <3>1. marks[p] = "deleted" /\ ~Untold(p) /\ ~Comes(p)
      BY <1>6, <1>9, <2>1, <2>2
    <3> QED BY <2>1, <3>1 DEF Followed, MarkRight
  <2>3. CASE batch[p] # "none"
    BY <1>7, <1>9, <2>1, <2>3
  <2> QED BY <2>2, <2>3
<1>17. TreeRight'
  <2> SUFFICES ASSUME NEW p \in Paths, online', loaded', p \notin stale', ~Untold(p)', ~Comes(p)',
                      marks'[p] # "deleted"
               PROVE  p \in tree' <=> p \in files'
    BY DEF TreeRight
  <2>1. online /\ loaded
    BY <1>1
  <2>2. CASE batch[p] = "none"
    <3>1. marks[p] # "deleted" /\ ~Untold(p) /\ ~Comes(p) /\ p \notin stale
      BY <1>1, <1>6, <1>9, <2>1, <2>2
    <3>2. p \in tree <=> p \in files
      BY <2>1, <3>1 DEF Followed, TreeRight
    <3>3. p \in tree' <=> p \in tree
      BY <1>1, <2>1, <2>2
    <3> QED BY <1>1, <3>2, <3>3
  <2>3. CASE batch[p] # "none"
    <3>1. batch[p] \in {"created", "updated"}
      BY <1>4, <1>9, <2>1, <2>3
    <3>2. p \in tree'
      BY <1>1, <2>1, <3>1
    <3>3. p \in files
      BY <1>7, <2>3, <3>1
    <3> QED BY <1>1, <3>2, <3>3
  <2> QED BY <2>2, <2>3
<1> QED BY <1>11, <1>12, <1>13, <1>14, <1>15, <1>16, <1>17 DEF Followed

-----------------------------------------------------------------------------
\* Every step keeps it.
LEMMA TreeStep == ASSUME Disk!FilesAssumption, Followed, [Disk!Next]_(Disk!vars) PROVE Followed'
<1>1. ASSUME NEW p \in Paths, NEW kind \in Disk!Kinds \ {"none"}, Disk!Change(p, kind)
      PROVE  Followed'
  BY <1>1, UnseenChangeKeeps, SeenChangeKeeps
<1>2. ASSUME NEW i \in DOMAIN reads,
             Disk!Reads(i) \/ Disk!ReadFails(i) \/ Disk!TreeArrives(i)
      PROVE  Followed'
  BY <1>2, ReadsKeeps, ReadFailsKeeps, TreeArrivesKeeps
<1>3. ASSUME NEW n \in DOMAIN unsent, Disk!SendsChanges(n) PROVE Followed'
  BY <1>3, SendsChangesKeeps
<1>4. ASSUME NEW p \in Paths, Disk!MarkEnds(p) PROVE Followed'
  BY <1>4, MarkEndsKeeps
<1>5. ASSUME \/ Disk!Watches \/ Disk!Evict \/ Disk!Resend
             \/ Disk!Connects \/ Disk!Drop \/ Disk!BatchArrives
      PROVE  Followed'
  BY <1>5, WatchesKeeps, EvictKeeps, ResendKeeps, ConnectsKeeps, DropKeeps, BatchArrivesKeeps
<1> QED BY <1>1, <1>2, <1>3, <1>4, <1>5, TreeStutters DEF Disk!Next

\* coalesceChanges, resendTree, agentReducer: for any number of files, changes, trees on
\* their way and breaks of the connection, every variable has its type, and once a client
\* has a tree of its connection and every change was heard of, a file without the mark of a
\* deletion is in its tree exactly if it is in the workspace, but for those it missed.
THEOREM TreeIsFollowed ==
  ASSUME Disk!FilesAssumption PROVE Disk!Spec => [](Disk!TypeOK /\ Disk!TreeFollows)
<1>1. Disk!Init => Followed
  BY TreeInit
<1>2. Followed /\ [Disk!Next]_(Disk!vars) => Followed'
  BY TreeStep
<1>3. Followed => Disk!TypeOK /\ Disk!TreeFollows
  BY FollowedGives
<1> QED BY <1>1, <1>2, <1>3, PTL DEF Disk!Spec
=============================================================================
