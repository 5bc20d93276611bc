------------------------- MODULE AgentEvents_proofs -------------------------
(***************************************************************************)
(* What the database holds of a session, and what a client shows of it, for  *)
(* any number of prompts, crashes, withdrawals, and writes and events that   *)
(* fail.  The rows and the writes under way are, one after the other, the    *)
(* history; of a prompt that has started, no write that is done or under     *)
(* way puts it back behind the one that took it out; and of the frames on    *)
(* their way to the client, the last of each kind says what the session has. *)
(***************************************************************************)
EXTENDS AgentEvents, SequenceTheorems, WellFoundedInduction, TLAPS

\* What is written.
Said == [of : Nat, part : Nat, run : Nat]
Item == [kind : {"queue"}, queue : Seq(Nat)]
        \union [kind : {"status"}, status : {"idle", "running", "failed"}]
        \union [kind : {"message"}, message : Said]

IsQueue(e) == e.kind = "queue"
IsSaid(e)  == e.kind = "message"

Holds(q, p) == \E i \in DOMAIN q : q[i] = p

\* A queue of prompts that were sent, each once.
Proper(q, n) ==
  /\ q \in Seq(1..n)
  /\ \A i, j \in DOMAIN q : q[i] = q[j] => i = j

\* The messages of the writes ss follow the rows rs in the history h: behind the first i
\* of them the rows will be the first g[i + 1] messages.
Follow(rs, ss, h, g) ==
  /\ g \in [1..(Len(ss) + 1) -> 0..Len(h)]
  /\ g[1] = Len(rs) /\ g[Len(ss) + 1] = Len(h)
  /\ \A i \in 1..Len(ss) :
       IF IsSaid(ss[i]) THEN g[i + 1] = g[i] + 1 /\ h[g[i + 1]] = ss[i].message
                        ELSE g[i + 1] = g[i]
Chain(rs, ss, h) == \E g : Follow(rs, ss, h, g)

\* From the queue stored (k = 0) or the write k of a queue on, none holds p.
Left(p, q, ss, k) ==
  /\ (k = 0 /\ ~Holds(q, p)) \/ (k \in DOMAIN ss /\ IsQueue(ss[k]))
  /\ \A i \in DOMAIN ss : i >= k /\ IsQueue(ss[i]) => ~Holds(ss[i].queue, p)
LeftBy(p, q, ss, n) == \E k \in 0..n : Left(p, q, ss, k)

\* The last write of a queue is cq; without any, it is what is stored.
Ends(ss, cq) ==
  \E k \in DOMAIN ss : /\ IsQueue(ss[k]) /\ ss[k].queue = cq
                       /\ \A i \in DOMAIN ss : i > k => ~IsQueue(ss[i])
Newest(q, ss, cq) ==
  Ends(ss, cq) \/ (q = cq /\ \A i \in DOMAIN ss : ~IsQueue(ss[i]))

\* Prompts with a message that is stored, or that is being written.
Started(rs, ss, p) ==
  \/ \E i \in DOMAIN rs : rs[i].of = p
  \/ \E i \in DOMAIN ss : IsSaid(ss[i]) /\ ss[i].message.of = p

-----------------------------------------------------------------------------
\* Nothing is left of a session that is gone.
Rest == ~up => saves = <<>> /\ queue = <<>> /\ running = 0

Types ==
  /\ {sent, running, said, removals} \subseteq Nat
  /\ saves \in Seq(Item) /\ rows \in Seq(Said) /\ history \in Seq(Said)
  /\ row \in [queue : Seq(Nat), status : {"idle", "running", "failed"}]

InOrder == Len(rows) <= Len(history) /\ \A i \in DOMAIN rows : rows[i] = history[i]
InHand == up => Chain(rows, saves, history)

Queues ==
  /\ Proper(queue, sent) /\ Proper(row.queue, sent)
  /\ removal # Unknown => Proper(removal, sent)
  /\ \A i \in DOMAIN saves : IsQueue(saves[i]) => Proper(saves[i].queue, sent)

\* A prompt that has started was sent, and waits only if a withdrawal put it back.
Once ==
  /\ running <= sent /\ \A p \in Nat : Started(rows, saves, p) => p \in 1..sent
  /\ \A p \in Nat : Holds(queue, p) /\ p \notin revived =>
                      p # running /\ ~Started(rows, saves, p)

\* It left the queue that is stored before its messages are.
LeftFirst ==
  /\ \A i \in DOMAIN rows : rows[i].of \notin revived => Left(rows[i].of, row.queue, saves, 0)
  /\ \A j \in DOMAIN saves : IsSaid(saves[j]) /\ saves[j].message.of \notin revived =>
       LeftBy(saves[j].message.of, row.queue, saves, j - 1)
  /\ running # 0 /\ running \notin revived => LeftBy(running, row.queue, saves, Len(saves))

\* Behind the writes of a queue comes the session's own, unless the last of them failed.
LastQueue ==
  removals = 0 =>
    /\ removal = Unknown
    /\ up => \E q : Newest(q, saves, queue) /\ (q = row.queue \/ missed)

Kept == Rest /\ Types /\ InOrder /\ InHand /\ Queues /\ Once /\ LeftFirst /\ LastQueue

\* No message was added twice.  None that this session added is of a prompt that waits, nor
\* is it one the turn has still to add.
Numbered ==
  /\ crashes \in Nat
  /\ \A i, j \in DOMAIN history : history[i] = history[j] => i = j
  /\ \A i \in DOMAIN history :
       /\ history[i].of \in 1..sent
       /\ history[i].run <= crashes /\ (up \/ history[i].run < crashes)
       /\ history[i].run = crashes =>
            /\ ~Holds(queue, history[i].of)
            /\ history[i].of = running => history[i].part <= said
  /\ running # 0 => ~Holds(queue, running)

-----------------------------------------------------------------------------
\* Induction, for a set.
LEMMA Reaches ==
  ASSUME NEW S, NEW n \in Nat, 0 \in S, \A i \in 0..n : i \in S /\ i < n => i + 1 \in S
  PROVE  n \in S
<1> DEFINE Off == {i \in 0..n : i \notin S}
<1>1. SUFFICES ASSUME Off # {} PROVE FALSE
  OBVIOUS
<1>2. PICK k \in Off : \A y \in Off : <<y, k>> \notin OpToRel(<, Nat)
  <2>1. Off \in SUBSET Nat OBVIOUS
  <2> QED BY <2>1, <1>1, NatLessThanWellFounded, WFMin
<1>3. \A y \in Off : ~(y < k)
  <2>1. Off \in SUBSET Nat OBVIOUS
  <2> HIDE DEF Off
  <2> QED BY <2>1, <1>2 DEF OpToRel
<1>4. k \in 0..n /\ k \notin S
  OBVIOUS
<1>5. k - 1 \in 0..n /\ k - 1 < k /\ k - 1 < n /\ (k - 1) + 1 = k
  BY <1>4
<1>6. k - 1 \notin S
  BY <1>4, <1>5
<1>7. k - 1 \in Off
  BY <1>5, <1>6
<1> HIDE DEF Off
<1> QED BY <1>3, <1>5, <1>7

\* A sequence without its k-th element.
LEMMA Removed ==
  ASSUME NEW S, NEW q \in Seq(S), NEW k \in DOMAIN q
  PROVE  /\ RemoveAt(q, k) \in Seq(S) /\ Len(RemoveAt(q, k)) = Len(q) - 1
         /\ \A i \in 1..Len(RemoveAt(q, k)) :
              RemoveAt(q, k)[i] = IF i < k THEN q[i] ELSE q[i + 1]
<1> DEFINE a == SubSeq(q, 1, k - 1)
           b == SubSeq(q, k + 1, Len(q))
<1>1. Len(q) \in Nat /\ DOMAIN q = 1..Len(q) /\ k \in 1..Len(q)
  BY LenProperties
<1>2. a \in Seq(S) /\ Len(a) = k - 1 /\ \A i \in 1..(k - 1) : a[i] = q[i]
  <2>1. \A i \in 1..(k - 1) : q[i] \in S
    BY <1>1, ElementOfSeq
  <2> QED BY <2>1, <1>1, SubSeqProperties
<1>3. b \in Seq(S) /\ Len(b) = Len(q) - k /\ \A i \in 1..(Len(q) - k) : b[i] = q[k + i]
  <2>1. \A i \in (k + 1)..Len(q) : q[i] \in S
    BY <1>1, ElementOfSeq
  <2> DEFINE m == k + 1
             l == Len(q)
  <2>2. m \in Int /\ l \in Int /\ (\A i \in m..l : q[i] \in S)
    BY <2>1, <1>1
  <2> HIDE DEF m, l
  <2>3. /\ SubSeq(q, m, l) \in Seq(S)
        /\ Len(SubSeq(q, m, l)) = IF m <= l THEN l - m + 1 ELSE 0
        /\ \A i \in 1..(l - m + 1) : SubSeq(q, m, l)[i] = q[m + i - 1]
    BY <2>2, SubSeqProperties
  <2>4. l - m + 1 = l - k /\ (m <= l \/ l - k = 0) /\ \A i \in 1..(l - k) : m + i - 1 = k + i
    BY <1>1 DEF m, l
  <2>5. Len(SubSeq(q, m, l)) = l - k /\ \A i \in 1..(l - k) : SubSeq(q, m, l)[i] = q[k + i]
    <3>1. \A i \in 1..(l - k) : SubSeq(q, m, l)[i] = q[m + i - 1]
      BY <2>3, <2>4
    <3>2. Len(SubSeq(q, m, l)) = l - k
      <4>1. CASE m <= l
        BY <4>1, <2>3, <2>4
      <4>2. CASE ~(m <= l)
        BY <4>2, <2>3, <2>4
      <4> QED BY <4>1, <4>2
    <3> QED BY <3>1, <3>2, <2>4
  <2> QED BY <2>3, <2>5 DEF m, l
<1> HIDE DEF a, b
<1>4. /\ a \o b \in Seq(S) /\ Len(a \o b) = Len(a) + Len(b)
      /\ \A i \in 1..(Len(a) + Len(b)) : (a \o b)[i] = IF i <= Len(a) THEN a[i] ELSE b[i - Len(a)]
  BY <1>2, <1>3, ConcatProperties
<1>5. Len(a) + Len(b) = Len(q) - 1
  BY <1>1, <1>2, <1>3
<1>6. ASSUME NEW i \in 1..(Len(q) - 1) PROVE (a \o b)[i] = IF i < k THEN q[i] ELSE q[i + 1]
  <2>1. CASE i < k
    <3>1. i <= Len(a) /\ i \in 1..(k - 1)
      BY <2>1, <1>1, <1>2
    <3> QED BY <3>1, <2>1, <1>4, <1>5, <1>2
  <2>2. CASE ~(i < k)
    <3>1. ~(i <= Len(a)) /\ i - Len(a) \in 1..(Len(q) - k) /\ k + (i - Len(a)) = i + 1
      <4>1. Len(q) \in Nat /\ k \in 1..Len(q) /\ Len(a) = k - 1
        BY <1>1, <1>2
      <4> QED BY <2>2, <4>1
    <3>2. (a \o b)[i] = b[i - Len(a)]
      BY <3>1, <1>4, <1>5
    <3>3. b[i - Len(a)] = q[k + (i - Len(a))]
      BY <3>1, <1>3
    <3> QED BY <2>2, <3>1, <3>2, <3>3
  <2> QED BY <2>1, <2>2
<1> QED BY <1>4, <1>5, <1>6 DEF RemoveAt, a, b

-----------------------------------------------------------------------------
\* Writes that follow the writes ss.

LEMMA JoinItems ==
  ASSUME NEW ss \in Seq(Item), NEW es \in Seq(Item)
  PROVE  /\ ss \o es \in Seq(Item) /\ Len(ss \o es) = Len(ss) + Len(es)
         /\ \A i \in DOMAIN ss : i \in DOMAIN (ss \o es) /\ (ss \o es)[i] = ss[i]
         /\ \A i \in DOMAIN es : /\ Len(ss) + i \in DOMAIN (ss \o es)
                                 /\ (ss \o es)[Len(ss) + i] = es[i]
         /\ \A i \in DOMAIN (ss \o es) :
              \/ i \in DOMAIN ss
              \/ i - Len(ss) \in DOMAIN es /\ i > Len(ss) /\ (ss \o es)[i] = es[i - Len(ss)]
<1>1. /\ ss \o es \in Seq(Item) /\ Len(ss \o es) = Len(ss) + Len(es)
      /\ \A i \in 1..(Len(ss) + Len(es)) :
           (ss \o es)[i] = IF i <= Len(ss) THEN ss[i] ELSE es[i - Len(ss)]
  BY ConcatProperties
<1>2. DOMAIN ss = 1..Len(ss) /\ DOMAIN es = 1..Len(es) /\ Len(ss) \in Nat /\ Len(es) \in Nat
  BY LenProperties
<1>3. DOMAIN (ss \o es) = 1..(Len(ss) + Len(es))
  BY <1>1, LenProperties
<1> QED BY <1>1, <1>2, <1>3

\* Queues and statuses add nothing to the rows.
LEMMA ChainJoin ==
  ASSUME NEW rs \in Seq(Said), NEW h \in Seq(Said), NEW ss \in Seq(Item), NEW es \in Seq(Item),
         \A i \in DOMAIN es : ~IsSaid(es[i]), Chain(rs, ss, h)
  PROVE  Chain(rs, ss \o es, h)
<1>1. PICK g : Follow(rs, ss, h, g)
  BY DEF Chain
<1> DEFINE n == Len(ss)
           t == ss \o es
           f == [i \in 1..(Len(t) + 1) |-> IF i <= n + 1 THEN g[i] ELSE Len(h)]
<1>2. n \in Nat /\ Len(es) \in Nat /\ Len(t) = n + Len(es) /\ Len(h) \in Nat /\ Len(rs) \in Nat
  BY JoinItems, LenProperties
<1>3. f \in [1..(Len(t) + 1) -> 0..Len(h)]
  BY <1>1, <1>2 DEF Follow
<1>4. f[1] = Len(rs) /\ f[Len(t) + 1] = Len(h)
  BY <1>1, <1>2 DEF Follow
<1>5. ASSUME NEW i \in 1..Len(t)
      PROVE  IF IsSaid(t[i]) THEN f[i + 1] = f[i] + 1 /\ h[f[i + 1]] = t[i].message
                             ELSE f[i + 1] = f[i]
  <2>1. CASE i <= n
    <3>1. t[i] = ss[i] /\ i \in 1..Len(ss)
      BY <2>1, <1>2, JoinItems, LenProperties
    <3>2. f[i] = g[i] /\ f[i + 1] = g[i + 1]
      BY <2>1, <1>2
    <3> HIDE DEF f, t
    <3> QED BY <3>1, <3>2, <1>1 DEF Follow
  <2>2. CASE i > n
    <3>1. ~IsSaid(t[i])
      BY <2>2, <1>2, JoinItems, LenProperties
    <3>2. f[i] = Len(h) /\ f[i + 1] = Len(h)
      BY <2>2, <1>2, <1>1 DEF Follow
    <3> QED BY <3>1, <3>2
  <2> QED BY <2>1, <2>2, <1>2
<1> HIDE DEF f
<1> QED BY <1>3, <1>4, <1>5 DEF Chain, Follow

\* A message comes to the end of the history and of the writes.
LEMMA ChainAppend ==
  ASSUME NEW rs \in Seq(Said), NEW h \in Seq(Said), NEW ss \in Seq(Item), NEW m \in Said,
         Chain(rs, ss, h)
  PROVE  Chain(rs, Append(ss, MessageOf(m)), Append(h, m))
<1>1. PICK g : Follow(rs, ss, h, g)
  BY DEF Chain
<1> DEFINE n == Len(ss)
           e == MessageOf(m)
           t == Append(ss, e)
           f == [i \in 1..(n + 2) |-> IF i <= n + 1 THEN g[i] ELSE Len(h) + 1]
<1>2. n \in Nat /\ Len(h) \in Nat /\ Len(rs) \in Nat /\ e \in Item
  BY LenProperties DEF MessageOf, Item
<1>3. Len(t) = n + 1 /\ Len(Append(h, m)) = Len(h) + 1 /\ t[n + 1] = e
  BY <1>2
<1>4. f \in [1..(Len(t) + 1) -> 0..Len(Append(h, m))]
  BY <1>1, <1>2, <1>3 DEF Follow
<1>5. f[1] = Len(rs) /\ f[Len(t) + 1] = Len(Append(h, m))
  BY <1>1, <1>2, <1>3 DEF Follow
<1>6. ASSUME NEW i \in 1..Len(t)
      PROVE  IF IsSaid(t[i]) THEN f[i + 1] = f[i] + 1 /\ Append(h, m)[f[i + 1]] = t[i].message
                             ELSE f[i + 1] = f[i]
  <2>1. CASE i <= n
    <3>1. t[i] = ss[i] /\ i \in 1..Len(ss)
      BY <2>1, <1>2
    <3>2. f[i] = g[i] /\ f[i + 1] = g[i + 1]
      BY <2>1, <1>2
    <3>3. g[i + 1] \in 0..Len(h) /\ g[i] \in 0..Len(h)
      <4>1. i \in 1..(n + 1) /\ i + 1 \in 1..(n + 1)
        BY <1>2, <2>1
      <4>2. g \in [1..(n + 1) -> 0..Len(h)]
        BY <1>1 DEF Follow
      <4> HIDE DEF n
      <4> QED BY <4>1, <4>2
    <3>4. \A j \in 1..Len(h) : Append(h, m)[j] = h[j]
      BY <1>2
    <3> HIDE DEF f, t
    <3> QED BY <3>1, <3>2, <3>3, <3>4, <1>1 DEF Follow
  <2>2. CASE i = n + 1
    <3>1. IsSaid(t[i]) /\ t[i].message = m
      BY <2>2, <1>3 DEF IsSaid, MessageOf
    <3>2. f[i] = Len(h) /\ f[i + 1] = Len(h) + 1
      BY <2>2, <1>1, <1>2 DEF Follow
    <3>3. Append(h, m)[Len(h) + 1] = m
      BY <1>2
    <3> QED BY <3>1, <3>2, <3>3
  <2>3. i <= n \/ i = n + 1
    <3> HIDE DEF t, n
    <3> QED BY <1>2, <1>3
  <2> HIDE DEF f, t, n
  <2> QED BY <2>1, <2>2, <2>3
<1>7. Follow(rs, t, Append(h, m), f)
  <2> HIDE DEF f, t, n
  <2> QED BY <1>4, <1>5, <1>6 DEF Follow
<1> HIDE DEF f
<1> QED BY <1>7 DEF Chain

\* The oldest write is done.
LEMMA ChainTail ==
  ASSUME NEW rs \in Seq(Said), NEW h \in Seq(Said), NEW ss \in Seq(Item), ss # <<>>,
         Chain(rs, ss, h)
  PROVE  /\ ~IsSaid(Head(ss)) => Chain(rs, Tail(ss), h)
         /\ IsSaid(Head(ss)) => /\ Chain(Append(rs, Head(ss).message), Tail(ss), h)
                                /\ Len(rs) < Len(h) /\ h[Len(rs) + 1] = Head(ss).message
<1>1. PICK g : Follow(rs, ss, h, g)
  BY DEF Chain
<1> DEFINE n == Len(ss)
           t == Tail(ss)
           f == [i \in 1..n |-> g[i + 1]]
<1>2. /\ n \in Nat /\ n > 0 /\ Len(h) \in Nat /\ Len(rs) \in Nat
      /\ Head(ss) = ss[1] /\ Head(ss) \in Item
  BY EmptySeq, LenProperties, HeadTailProperties
<1>3. Len(t) = n - 1 /\ \A i \in 1..Len(t) : t[i] = ss[i + 1]
  BY HeadTailProperties
<1>4. f \in [1..(Len(t) + 1) -> 0..Len(h)]
  BY <1>1, <1>2, <1>3 DEF Follow
<1>5. f[Len(t) + 1] = Len(h) /\ f[1] = g[2]
  BY <1>1, <1>2, <1>3 DEF Follow
<1>6. ASSUME NEW i \in 1..Len(t)
      PROVE  IF IsSaid(t[i]) THEN f[i + 1] = f[i] + 1 /\ h[f[i + 1]] = t[i].message
                             ELSE f[i + 1] = f[i]
  <2>1. t[i] = ss[i + 1] /\ i + 1 \in 1..n /\ f[i] = g[i + 1] /\ f[i + 1] = g[(i + 1) + 1]
    BY <1>2, <1>3
  <2> HIDE DEF f, t
  <2> QED BY <2>1, <1>1 DEF Follow
<1>7. /\ g[1] = Len(rs) /\ g[2] \in 0..Len(h)
      /\ IF IsSaid(ss[1]) THEN g[2] = g[1] + 1 /\ h[g[2]] = ss[1].message ELSE g[2] = g[1]
  <2>1. 1 \in 1..n /\ 1 + 1 = 2 /\ 2 \in 1..(n + 1)
    BY <1>2
  <2>2. /\ g \in [1..(n + 1) -> 0..Len(h)] /\ g[1] = Len(rs)
        /\ IF IsSaid(ss[1]) THEN g[1 + 1] = g[1] + 1 /\ h[g[1 + 1]] = ss[1].message
                            ELSE g[1 + 1] = g[1]
    BY <1>1, <2>1 DEF Follow
  <2> HIDE DEF n
  <2> QED BY <2>1, <2>2
<1>8. IsSaid(Head(ss)) => Len(rs) < Len(h) /\ h[Len(rs) + 1] = Head(ss).message
  BY <1>2, <1>7
<1>9. IsSaid(Head(ss)) => Len(Append(rs, Head(ss).message)) = Len(rs) + 1
  <2>1. IsSaid(Head(ss)) => Head(ss).message \in Said
    BY <1>2 DEF IsSaid, Item
  <2> QED BY <2>1
<1>10. /\ ~IsSaid(Head(ss)) => Follow(rs, t, h, f)
       /\ IsSaid(Head(ss)) => Follow(Append(rs, Head(ss).message), t, h, f)
  <2> HIDE DEF f, t, n
  <2> QED BY <1>2, <1>4, <1>5, <1>6, <1>7, <1>9 DEF Follow
<1> HIDE DEF f
<1> QED BY <1>8, <1>10 DEF Chain
\* Where the messages of the writes lie in the history only goes up.
LEMMA Rises ==
  ASSUME NEW rs \in Seq(Said), NEW h \in Seq(Said), NEW ss \in Seq(Item), NEW g,
         Follow(rs, ss, h, g), ss # <<>>
  PROVE  \A i \in 1..Len(ss) : g[i + 1] >= g[2]
<1> DEFINE n == Len(ss)
           S == {i \in 0..(n - 1) : g[i + 2] >= g[2]}
<1>1. n \in Nat /\ n > 0 /\ Len(h) \in Nat
  BY EmptySeq, LenProperties
<1>2. /\ g \in [1..(n + 1) -> 0..Len(h)]
      /\ \A i \in 1..n : g[i + 1] = g[i] + 1 \/ g[i + 1] = g[i]
  BY DEF Follow
<1> HIDE DEF n
<1>3. ASSUME NEW k \in 0..(n - 1) PROVE k \in S
  <2>1. 0 \in S
    BY <1>1, <1>2
  <2>2. ASSUME NEW i \in 0..k, i \in S, i < k PROVE i + 1 \in S
    <3>1. i + 2 \in 1..n /\ i + 1 \in 0..(n - 1) /\ (i + 2) + 1 = (i + 1) + 2
      BY <1>1, <1>3, <2>2
    <3>2. g[(i + 2) + 1] >= g[i + 2] /\ g[i + 2] >= g[2]
      <4>1. g[i + 2] \in Nat
        BY <1>1, <1>2, <3>1
      <4> QED BY <1>2, <2>2, <3>1, <4>1
    <3>3. g[(i + 2) + 1] \in Int /\ g[i + 2] \in Int /\ g[2] \in Int
      BY <1>1, <1>2, <3>1
    <3> QED BY <3>1, <3>2, <3>3
  <2> HIDE DEF S
  <2> QED BY <1>1, <1>3, <2>1, <2>2, Reaches
<1>4. ASSUME NEW i \in 1..n PROVE g[i + 1] >= g[2]
  <2>1. i - 1 \in 0..(n - 1) /\ (i - 1) + 2 = i + 1
    BY <1>1
  <2>2. i - 1 \in S
    <3> HIDE DEF S
    <3> QED BY <1>3, <2>1
  <2> QED BY <2>1, <2>2
<1> QED BY <1>4 DEF n

\* The oldest write is of a message and fails: the history is without that message.
LEMMA ChainSkip ==
  ASSUME NEW rs \in Seq(Said), NEW h \in Seq(Said), NEW ss \in Seq(Item), ss # <<>>,
         Chain(rs, ss, h), IsSaid(Head(ss)), NEW k, k = Len(rs) + 1
  PROVE  k \in DOMAIN h /\ Chain(rs, Tail(ss), RemoveAt(h, k))
<1>1. PICK g : Follow(rs, ss, h, g)
  BY DEF Chain
<1> DEFINE n == Len(ss)
           t == Tail(ss)
           r == RemoveAt(h, k)
           f == [i \in 1..n |-> g[i + 1] - 1]
<1>2. /\ n \in Nat /\ n > 0 /\ Len(h) \in Nat /\ Len(rs) \in Nat /\ DOMAIN h = 1..Len(h)
      /\ Head(ss) = ss[1] /\ Head(ss) \in Item
  BY EmptySeq, LenProperties, HeadTailProperties
<1>3. Len(t) = n - 1 /\ \A i \in 1..Len(t) : t[i] = ss[i + 1]
  BY HeadTailProperties
<1>4. /\ g \in [1..(n + 1) -> 0..Len(h)] /\ g[1] = Len(rs) /\ g[n + 1] = Len(h)
      /\ \A i \in 1..n : IF IsSaid(ss[i]) THEN g[i + 1] = g[i] + 1 /\ h[g[i + 1]] = ss[i].message
                                           ELSE g[i + 1] = g[i]
  BY <1>1 DEF Follow
<1>5. \A i \in 1..n : g[i + 1] >= g[2]
  BY <1>1, Rises
<1> HIDE DEF n, t
<1>6. g[2] = k /\ k \in 1..Len(h)
  <2>1. 1 \in 1..n /\ 1 + 1 = 2 /\ 2 \in 1..(n + 1)
    BY <1>2
  <2>2. g[2] = g[1] + 1 /\ g[2] \in 0..Len(h)
    BY <1>2, <1>4, <2>1
  <2> QED BY <1>2, <1>4, <2>2
<1>7. r \in Seq(Said) /\ Len(r) = Len(h) - 1
      /\ \A i \in 1..Len(r) : r[i] = IF i < k THEN h[i] ELSE h[i + 1]
  <2>1. k \in DOMAIN h /\ h \in Seq(Said)
    BY <1>2, <1>6
  <2> QED BY Zenon, <2>1, Removed
<1> HIDE DEF r
<1>8. \A i \in 1..n : g[i + 1] \in k..Len(h) /\ i + 1 \in 1..(n + 1)
  <2> TAKE i \in 1..n
  <2>1. i + 1 \in 1..(n + 1) /\ g[i + 1] >= k
    BY <1>2, <1>5, <1>6
  <2> QED BY <1>2, <1>4, <1>6, <2>1
<1>9. f \in [1..(Len(t) + 1) -> 0..Len(r)]
  <2>1. Len(t) + 1 = n
    BY <1>2, <1>3
  <2>2. \A i \in 1..n : g[i + 1] - 1 \in 0..Len(r)
    BY <1>2, <1>6, <1>7, <1>8
  <2> QED BY <2>1, <2>2
<1>10. f[1] = Len(rs) /\ f[Len(t) + 1] = Len(r)
  <2>1. f[1] = g[2] - 1
    BY <1>2
  <2>2. f[Len(t) + 1] = g[n + 1] - 1
    BY <1>2, <1>3
  <2> HIDE DEF f
  <2> QED BY <1>2, <1>4, <1>6, <1>7, <2>1, <2>2
<1>11. ASSUME NEW i \in 1..Len(t)
       PROVE  IF IsSaid(t[i]) THEN f[i + 1] = f[i] + 1 /\ r[f[i + 1]] = t[i].message
                              ELSE f[i + 1] = f[i]
  <2>1. t[i] = ss[i + 1] /\ i \in 1..n /\ i + 1 \in 1..n
    BY <1>2, <1>3
  <2>2. f[i] = g[i + 1] - 1 /\ f[i + 1] = g[(i + 1) + 1] - 1
    BY <2>1
  <2> HIDE DEF f
  <2>3. g[i + 1] \in k..Len(h) /\ g[(i + 1) + 1] \in k..Len(h)
    BY <1>8, <2>1
  <2>4. CASE IsSaid(t[i])
    <3>1. g[(i + 1) + 1] = g[i + 1] + 1 /\ h[g[(i + 1) + 1]] = t[i].message
      BY <1>4, <2>1, <2>4
    <3> DEFINE x == g[i + 1]
               y == g[(i + 1) + 1]
    <3>2. f[i + 1] = f[i] + 1 /\ f[i + 1] \in 1..Len(r) /\ ~(f[i + 1] < k) /\ f[i + 1] + 1 = y
      <4>1. /\ f[i] = x - 1 /\ f[i + 1] = y - 1 /\ y = x + 1
            /\ x \in k..Len(h) /\ y \in k..Len(h) /\ k \in 1..Len(h)
            /\ Len(h) \in Nat /\ Len(r) = Len(h) - 1
        BY <1>2, <1>6, <1>7, <2>2, <2>3, <3>1
      <4> HIDE DEF x, y
      <4> QED BY <4>1
    <3>3. r[f[i + 1]] = t[i].message
      BY <1>7, <3>1, <3>2
    <3> QED BY <2>4, <3>2, <3>3
  <2>5. CASE ~IsSaid(t[i])
    <3>1. g[(i + 1) + 1] = g[i + 1]
      BY <1>4, <2>1, <2>5
    <3> QED BY <2>2, <2>5, <3>1
  <2> QED BY <2>4, <2>5
<1>12. Follow(rs, t, r, f)
  <2> HIDE DEF f
  <2> QED BY <1>9, <1>10, <1>11 DEF Follow
<1> HIDE DEF f
<1> QED BY <1>2, <1>6, <1>12 DEF Chain, t, r
-----------------------------------------------------------------------------
\* Writes without p change nothing about where it left.
LEMMA LeftJoin ==
  ASSUME NEW ss \in Seq(Item), NEW es \in Seq(Item), NEW p, NEW q, NEW k, Left(p, q, ss, k),
         \A i \in DOMAIN es : IsQueue(es[i]) => ~Holds(es[i].queue, p)
  PROVE  Left(p, q, ss \o es, k)
<1> DEFINE t == ss \o es
<1>1. (k = 0 /\ ~Holds(q, p)) \/ (k \in DOMAIN t /\ IsQueue(t[k]))
  BY JoinItems DEF Left
<1>2. ASSUME NEW i \in DOMAIN t, i >= k, IsQueue(t[i]) PROVE ~Holds(t[i].queue, p)
  <2>1. CASE i \in DOMAIN ss
    <3>1. t[i] = ss[i]
      BY <2>1, JoinItems
    <3> HIDE DEF t
    <3> QED BY <3>1, <2>1, <1>2 DEF Left
  <2>2. CASE i - Len(ss) \in DOMAIN es /\ t[i] = es[i - Len(ss)]
    <3> HIDE DEF t
    <3> QED BY <2>2, <1>2
  <2> QED BY <2>1, <2>2, JoinItems
<1> HIDE DEF t
<1> QED BY <1>1, <1>2 DEF Left

\* It leaves with the last write of a queue, if that queue does not hold it.
LEMMA LeftNow ==
  ASSUME NEW ss \in Seq(Item), NEW es \in Seq(Item), NEW p, NEW q, NEW cq,
         Ends(es, cq), ~Holds(cq, p)
  PROVE  LeftBy(p, q, ss \o es, Len(ss \o es))
<1> DEFINE t == ss \o es
<1>1. PICK n \in DOMAIN es : /\ IsQueue(es[n]) /\ es[n].queue = cq
                             /\ \A i \in DOMAIN es : i > n => ~IsQueue(es[i])
  BY DEF Ends
<1>2. /\ Len(ss) \in Nat /\ DOMAIN ss = 1..Len(ss) /\ n \in Nat /\ n > 0
      /\ t \in Seq(Item) /\ Len(t) \in Nat /\ DOMAIN t = 1..Len(t)
  BY JoinItems, LenProperties
<1>3. Len(ss) + n \in DOMAIN t /\ t[Len(ss) + n] = es[n]
  BY JoinItems
<1>4. ASSUME NEW i \in DOMAIN t, i >= Len(ss) + n, IsQueue(t[i]) PROVE ~Holds(t[i].queue, p)
  <2>1. i \notin DOMAIN ss
    BY <1>2, <1>4
  <2>2. i - Len(ss) \in DOMAIN es /\ t[i] = es[i - Len(ss)]
    BY <2>1, JoinItems
  <2>3. i - Len(ss) = n \/ i - Len(ss) > n
    <3> HIDE DEF t
    <3>1. i \in Nat /\ Len(ss) \in Nat /\ n \in Nat /\ i >= Len(ss) + n
      BY <1>2, <1>4
    <3> QED BY <3>1
  <2> HIDE DEF t
  <2> QED BY <2>2, <2>3, <1>1, <1>4
<1> HIDE DEF t
<1> QED BY <1>1, <1>2, <1>3, <1>4 DEF LeftBy, Left

\* When the oldest write is done, what it wrote is stored.
LEMMA LeftTail ==
  ASSUME NEW ss \in Seq(Item), ss # <<>>, NEW p, NEW q, NEW k \in Nat, Left(p, q, ss, k)
  PROVE  Left(p, IF IsQueue(Head(ss)) THEN Head(ss).queue ELSE q, Tail(ss),
              IF k = 0 THEN 0 ELSE k - 1)
<1> DEFINE t == Tail(ss)
<1>1. /\ Len(ss) \in Nat /\ Len(ss) > 0 /\ DOMAIN ss = 1..Len(ss) /\ Head(ss) = ss[1]
      /\ Len(t) = Len(ss) - 1 /\ DOMAIN t = 1..Len(t)
      /\ \A i \in 1..Len(t) : t[i] = ss[i + 1]
  BY EmptySeq, LenProperties, HeadTailProperties
<1> HIDE DEF t
<1>2. CASE k = 0
  <2>1. IsQueue(ss[1]) => ~Holds(ss[1].queue, p)
    BY <1>1, <1>2 DEF Left
  <2>2. \A i \in DOMAIN t : IsQueue(t[i]) => ~Holds(t[i].queue, p)
    BY <1>1, <1>2 DEF Left
  <2>3. ~Holds(q, p)
    BY <1>1, <1>2 DEF Left
  <2> QED BY <1>1, <1>2, <2>1, <2>2, <2>3 DEF Left, t
<1>3. CASE k > 0
  <2>1. k \in DOMAIN ss /\ IsQueue(ss[k])
    BY <1>3 DEF Left
  <2>2. \A i \in DOMAIN t : i >= k - 1 /\ IsQueue(t[i]) => ~Holds(t[i].queue, p)
    <3>1. ASSUME NEW i \in DOMAIN t, i >= k - 1
          PROVE  i + 1 \in DOMAIN ss /\ i + 1 >= k /\ t[i] = ss[i + 1]
      BY <1>1, <3>1
    <3> QED BY <3>1 DEF Left
  <2>3. CASE k = 1
    <3>1. IsQueue(ss[1]) /\ ~Holds(ss[1].queue, p)
      BY <1>1, <2>1, <2>3 DEF Left
    <3> QED BY <1>1, <2>2, <2>3, <3>1 DEF Left, t
  <2>4. CASE k > 1
    <3>1. k - 1 \in DOMAIN t /\ t[k - 1] = ss[k]
      BY <1>1, <2>1, <2>4
    <3> QED BY <2>1, <2>2, <2>4, <3>1 DEF Left, t
  <2> QED BY <1>3, <2>3, <2>4
<1> QED BY <1>2, <1>3

\* The oldest write fails: what is stored stays, which must not hold p if p left with that write.
LEMMA LeftSkip ==
  ASSUME NEW ss \in Seq(Item), ss # <<>>, NEW p, NEW q, NEW k \in Nat, Left(p, q, ss, k),
         k = 1 => ~Holds(q, p)
  PROVE  Left(p, q, Tail(ss), IF k = 0 THEN 0 ELSE k - 1)
<1> DEFINE t == Tail(ss)
<1>1. /\ Len(ss) \in Nat /\ Len(ss) > 0 /\ DOMAIN ss = 1..Len(ss)
      /\ Len(t) = Len(ss) - 1 /\ DOMAIN t = 1..Len(t)
      /\ \A i \in 1..Len(t) : t[i] = ss[i + 1]
  BY EmptySeq, LenProperties, HeadTailProperties
<1> HIDE DEF t
<1>2. \A i \in DOMAIN t : i >= k - 1 /\ IsQueue(t[i]) => ~Holds(t[i].queue, p)
  <2>1. ASSUME NEW i \in DOMAIN t, i >= k - 1
        PROVE  i + 1 \in DOMAIN ss /\ i + 1 >= k /\ t[i] = ss[i + 1]
    BY <1>1, <2>1
  <2> QED BY <2>1 DEF Left
<1>3. CASE k = 0
  BY <1>1, <1>2, <1>3 DEF Left, t
<1>4. CASE k = 1
  BY <1>2, <1>4 DEF Left, t
<1>5. CASE k > 1
  <2>1. k \in DOMAIN ss /\ IsQueue(ss[k])
    BY <1>5 DEF Left
  <2>2. k - 1 \in DOMAIN t /\ t[k - 1] = ss[k]
    BY <1>1, <1>5, <2>1
  <2> QED BY <1>2, <1>5, <2>1, <2>2 DEF Left, t
<1> QED BY <1>3, <1>4, <1>5

\* The newest queue, with more writes behind it or without the oldest one.
LEMMA NewestJoin ==
  ASSUME NEW ss \in Seq(Item), NEW es \in Seq(Item), NEW q, NEW cq
  PROVE  /\ Ends(es, cq) => Newest(q, ss \o es, cq)
         /\ Newest(q, ss, cq) /\ (\A i \in DOMAIN es : ~IsQueue(es[i])) => Newest(q, ss \o es, cq)
<1> DEFINE t == ss \o es
<1>1. /\ Len(ss) \in Nat /\ DOMAIN ss = 1..Len(ss) /\ DOMAIN es = 1..Len(es) /\ Len(es) \in Nat
      /\ t \in Seq(Item) /\ Len(t) \in Nat /\ DOMAIN t = 1..Len(t)
      /\ Len(t) = Len(ss) + Len(es)
  BY JoinItems, LenProperties
<1>2. /\ \A i \in 1..Len(ss) : t[i] = ss[i]
      /\ \A i \in 1..Len(es) : t[Len(ss) + i] = es[i]
  BY <1>1, JoinItems
<1> HIDE DEF t
<1>3. ASSUME Ends(es, cq) PROVE Ends(t, cq)
  <2>1. PICK n \in DOMAIN es : /\ IsQueue(es[n]) /\ es[n].queue = cq
                               /\ \A i \in DOMAIN es : i > n => ~IsQueue(es[i])
    BY <1>3 DEF Ends
  <2>2. ASSUME NEW i \in DOMAIN t, i > Len(ss) + n PROVE ~IsQueue(t[i])
    <3>1. i - Len(ss) \in 1..Len(es) /\ Len(ss) + (i - Len(ss)) = i /\ i - Len(ss) > n
      BY <1>1, <2>1, <2>2
    <3> QED BY <1>1, <1>2, <2>1, <3>1
  <2>3. Len(ss) + n \in DOMAIN t /\ t[Len(ss) + n] = es[n]
    BY <1>1, <1>2, <2>1
  <2> QED BY <2>1, <2>2, <2>3 DEF Ends
<1>4. ASSUME Newest(q, ss, cq), \A i \in DOMAIN es : ~IsQueue(es[i]) PROVE Newest(q, t, cq)
  <2>1. ASSUME NEW i \in DOMAIN t, i > Len(ss) PROVE ~IsQueue(t[i])
    <3>1. i - Len(ss) \in 1..Len(es) /\ Len(ss) + (i - Len(ss)) = i
      BY <1>1, <2>1
    <3> QED BY <1>1, <1>2, <1>4, <3>1
  <2>2. ASSUME Ends(ss, cq) PROVE Ends(t, cq)
    <3>1. PICK n \in DOMAIN ss : /\ IsQueue(ss[n]) /\ ss[n].queue = cq
                                 /\ \A i \in DOMAIN ss : i > n => ~IsQueue(ss[i])
      BY <2>2 DEF Ends
    <3>2. n \in DOMAIN t /\ t[n] = ss[n]
      BY <1>1, <1>2
    <3>3. \A i \in DOMAIN t : i > n => ~IsQueue(t[i])
      BY <1>1, <1>2, <2>1, <3>1
    <3> QED BY <3>1, <3>2, <3>3 DEF Ends
  <2>3. (\A i \in DOMAIN ss : ~IsQueue(ss[i])) => \A i \in DOMAIN t : ~IsQueue(t[i])
    BY <1>1, <1>2, <2>1
  <2> QED BY <1>4, <2>2, <2>3 DEF Newest
<1> QED BY <1>3, <1>4 DEF Newest, t

LEMMA NewestTail ==
  ASSUME NEW ss \in Seq(Item), ss # <<>>, NEW q, NEW cq, Newest(q, ss, cq)
  PROVE  Newest(IF IsQueue(Head(ss)) THEN Head(ss).queue ELSE q, Tail(ss), cq)
<1> DEFINE t == Tail(ss)
<1>1. /\ Len(ss) \in Nat /\ Len(ss) > 0 /\ DOMAIN ss = 1..Len(ss) /\ Head(ss) = ss[1]
      /\ Len(t) = Len(ss) - 1 /\ DOMAIN t = 1..Len(t)
      /\ \A i \in 1..Len(t) : t[i] = ss[i + 1]
  BY EmptySeq, LenProperties, HeadTailProperties
<1> HIDE DEF t
<1>2. ASSUME NEW n \in DOMAIN ss, IsQueue(ss[n]), ss[n].queue = cq,
             \A i \in DOMAIN ss : i > n => ~IsQueue(ss[i])
      PROVE  Newest(IF IsQueue(ss[1]) THEN ss[1].queue ELSE q, t, cq)
  <2>1. CASE n = 1
    <3>1. \A i \in DOMAIN t : ~IsQueue(t[i])
      BY <1>1, <1>2, <2>1
    <3> QED BY <1>2, <2>1, <3>1 DEF Newest
  <2>2. CASE n > 1
    <3>1. n - 1 \in DOMAIN t /\ t[n - 1] = ss[n]
      BY <1>1, <1>2, <2>2
    <3>2. \A i \in DOMAIN t : i > n - 1 => ~IsQueue(t[i])
      BY <1>1, <1>2, <2>2
    <3> QED BY <1>2, <3>1, <3>2 DEF Newest, Ends
  <2> QED BY <1>1, <2>1, <2>2
<1>3. ASSUME q = cq, \A i \in DOMAIN ss : ~IsQueue(ss[i])
      PROVE  Newest(IF IsQueue(ss[1]) THEN ss[1].queue ELSE q, t, cq)
  BY <1>1, <1>3 DEF Newest
<1> QED BY <1>1, <1>2, <1>3 DEF Newest, Ends, t
-----------------------------------------------------------------------------
\* Who has started, with more writes or with one done.
LEMMA StartedJoin ==
  ASSUME NEW rs, NEW ss \in Seq(Item), NEW es \in Seq(Item), NEW p, Started(rs, ss \o es, p)
  PROVE  Started(rs, ss, p) \/ \E i \in DOMAIN es : IsSaid(es[i]) /\ es[i].message.of = p
<1> DEFINE t == ss \o es
<1>1. \A i \in DOMAIN t : \/ i \in DOMAIN ss /\ t[i] = ss[i]
                          \/ i - Len(ss) \in DOMAIN es /\ t[i] = es[i - Len(ss)]
  BY JoinItems
<1>2. Started(rs, t, p)
  OBVIOUS
<1> HIDE DEF t
<1> QED BY <1>1, <1>2 DEF Started

LEMMA StartedTail ==
  ASSUME NEW rs \in Seq(Said), NEW ss \in Seq(Item), ss # <<>>, NEW p
  PROVE  /\ Started(rs, Tail(ss), p) => Started(rs, ss, p)
         /\ IsSaid(Head(ss)) /\ Started(Append(rs, Head(ss).message), Tail(ss), p)
              => Started(rs, ss, p)
<1> DEFINE t == Tail(ss)
<1>1. /\ Len(ss) \in Nat /\ Len(ss) > 0 /\ DOMAIN ss = 1..Len(ss) /\ Head(ss) = ss[1]
      /\ Len(t) = Len(ss) - 1 /\ DOMAIN t = 1..Len(t) /\ ss[1] \in Item
      /\ \A i \in 1..Len(t) : t[i] = ss[i + 1]
  BY EmptySeq, LenProperties, HeadTailProperties
<1> HIDE DEF t
<1>2. Started(rs, t, p) => Started(rs, ss, p)
  BY <1>1 DEF Started
<1>3. ASSUME IsSaid(ss[1]), Started(Append(rs, ss[1].message), t, p) PROVE Started(rs, ss, p)
  <2> DEFINE r == Append(rs, ss[1].message)
  <2>1. ss[1].message \in Said
    BY <1>1, <1>3 DEF IsSaid, Item
  <2>2. \A i \in DOMAIN r : (i \in DOMAIN rs /\ r[i] = rs[i]) \/ r[i] = ss[1].message
    BY <2>1, AppendProperties, LenProperties
  <2> HIDE DEF r
  <2>3. Started(r, t, p)
    BY <1>3 DEF r
  <2> QED BY <1>1, <1>2, <1>3, <2>2, <2>3 DEF Started
<1> QED BY <1>1, <1>2, <1>3 DEF t

\* Nothing is under way: the rows are the history.
LEMMA ChainStart == ASSUME NEW rs \in Seq(Said) PROVE Chain(rs, <<>>, rs)
<1> DEFINE g == [i \in 1..1 |-> Len(rs)]
<1>1. Len(rs) \in Nat /\ Len(<<>>) = 0
  BY LenProperties
<1>2. Follow(rs, <<>>, rs, g)
  BY <1>1 DEF Follow
<1> HIDE DEF g
<1> QED BY <1>2 DEF Chain

\* The session stores its queue and its status: the last queue it writes is its own, and
\* none of them holds a prompt that has started, but for one a withdrawal put back.
LEMMA EmitKeeps ==
  ASSUME Kept, NEW es \in Seq(Item), saves' = saves \o es, Ends(es, queue'),
         {sent', running', said'} \subseteq Nat, sent' >= sent, running' <= sent',
         \A i \in DOMAIN es : ~IsSaid(es[i]),
         \A i \in DOMAIN es : IsQueue(es[i]) => Proper(es[i].queue, sent'),
         \A i \in DOMAIN es : IsQueue(es[i]) => \A p \in Nat :
           Holds(es[i].queue, p) /\ p \notin revived
             => ~Started(rows, saves, p) /\ (p = running => running' # running),
         running' = running \/ ~Holds(queue', running'),
         up', (up /\ history' = history) \/ (~up /\ history' = rows),
         UNCHANGED <<rows, row, removal, removals, revived>>
  PROVE  Kept'
<1>1. Types /\ saves' \in Seq(Item)
  BY JoinItems DEF Kept, Types
<1>2. PICK n \in DOMAIN es : IsQueue(es[n]) /\ es[n].queue = queue'
  BY DEF Ends
<1>3. Rest' /\ Types'
  BY <1>1 DEF Types, Rest
<1>4. InOrder'
  <2>1. CASE up BY <2>1 DEF Kept, InOrder
  <2>2. CASE ~up BY <2>2, <1>1, LenProperties DEF Types, InOrder
  <2> QED BY <2>1, <2>2
<1>5. InHand'
  <2>1. CASE up
    <3>1. Chain(rows, saves, history)
      BY <2>1 DEF Kept, InHand
    <3>2. Chain(rows, saves \o es, history)
      BY <3>1, <1>1, ChainJoin DEF Types
    <3> QED BY <2>1, <3>2 DEF InHand
  <2>2. CASE ~up
    <3>1. saves = <<>>
      BY <2>2 DEF Kept, Rest
    <3>2. Chain(rows, saves, rows)
      BY <3>1, <1>1, ChainStart DEF Types
    <3>3. Chain(rows, saves \o es, rows)
      BY <3>2, <1>1, ChainJoin DEF Types
    <3> QED BY <2>2, <3>3 DEF InHand
  <2> QED BY <2>1, <2>2
<1>6. \A q : Proper(q, sent) => Proper(q, sent')
  <2> TAKE q
  <2> HAVE Proper(q, sent)
  <2>1. 1..sent \subseteq 1..sent'
    BY <1>1 DEF Types
  <2>2. q \in Seq(1..sent')
    BY <2>1, SeqMonotonic DEF Proper
  <2> QED BY <2>2 DEF Proper
<1>7. Queues'
  <2>0. saves \in Seq(Item) /\ es \in Seq(Item)
    BY <1>1 DEF Types
  <2>1. \A i \in DOMAIN (saves \o es) :
          IsQueue((saves \o es)[i]) => Proper((saves \o es)[i].queue, sent')
    <3> TAKE i \in DOMAIN (saves \o es)
    <3>1. CASE i \in DOMAIN saves
      <4>1. (saves \o es)[i] = saves[i]
        BY <2>0, <3>1, JoinItems
      <4>2. IsQueue(saves[i]) => Proper(saves[i].queue, sent)
        BY <3>1 DEF Kept, Queues
      <4> QED BY <4>1, <4>2, <1>6
    <3>2. CASE i - Len(saves) \in DOMAIN es /\ (saves \o es)[i] = es[i - Len(saves)]
      BY <3>2
    <3>3. \/ i \in DOMAIN saves
          \/ i - Len(saves) \in DOMAIN es /\ (saves \o es)[i] = es[i - Len(saves)]
      BY <2>0, JoinItems
    <3> QED BY <3>1, <3>2, <3>3
  <2>2. Proper(queue', sent')
    BY <1>2
  <2>3. Proper(row.queue, sent') /\ (removal # Unknown => Proper(removal, sent'))
    BY <1>6 DEF Kept, Queues
  <2> QED BY <2>1, <2>2, <2>3 DEF Queues
<1>8. \A p \in Nat : Started(rows, saves \o es, p) => Started(rows, saves, p)
  BY <1>1, StartedJoin DEF Types
<1>9. Once'
  <2>1. \A p \in Nat : Started(rows, saves, p) => p \in 1..sent'
    BY <1>1 DEF Kept, Once, Types
  <2>2. \A p \in Nat : Holds(queue', p) /\ p \notin revived
                         => p # running' /\ ~Started(rows, saves, p)
    BY <1>2
  <2> QED BY <1>8, <2>1, <2>2 DEF Once
<1>10. \A p \in Nat : Started(rows, saves, p) /\ p \notin revived
          => \A i \in DOMAIN es : IsQueue(es[i]) => ~Holds(es[i].queue, p)
  OBVIOUS
<1>11. LeftFirst'
  <2>1. ASSUME NEW i \in DOMAIN rows, rows[i].of \notin revived
        PROVE  Left(rows[i].of, row.queue, saves \o es, 0)
    <3>1. Left(rows[i].of, row.queue, saves, 0)
      BY <2>1 DEF Kept, LeftFirst
    <3>2. Started(rows, saves, rows[i].of) /\ rows[i].of \in Nat
      <4>1. rows[i] \in Said
        BY <2>1, <1>1, ElementOfSeq, LenProperties DEF Types
      <4> QED BY <4>1, <2>1 DEF Started, Said
    <3> QED BY <2>1, <3>1, <3>2, <1>1, <1>10, LeftJoin DEF Types
  <2>2. ASSUME NEW j \in DOMAIN (saves \o es), IsSaid((saves \o es)[j]),
               (saves \o es)[j].message.of \notin revived
        PROVE  LeftBy((saves \o es)[j].message.of, row.queue, saves \o es, j - 1)
    <3>1. j \in DOMAIN saves /\ (saves \o es)[j] = saves[j]
      <4>1. saves \in Seq(Item) /\ es \in Seq(Item)
        BY <1>1 DEF Types
      <4>2. \/ j \in DOMAIN saves
            \/ j - Len(saves) \in DOMAIN es /\ (saves \o es)[j] = es[j - Len(saves)]
        BY <4>1, JoinItems
      <4>3. j \in DOMAIN saves
        BY <4>2, <2>2
      <4> QED BY <4>1, <4>3, JoinItems
    <3> DEFINE p == saves[j].message.of
    <3>2. PICK k \in 0..(j - 1) : Left(p, row.queue, saves, k)
      BY <2>2, <3>1 DEF Kept, LeftFirst, LeftBy
    <3>3. Started(rows, saves, p)
      BY <2>2, <3>1 DEF Started
    <3>4. p \in Nat
      <4>0. saves \in Seq(Item)
        BY <1>1 DEF Types
      <4>1. saves[j] \in Item
        <5>1. DOMAIN saves = 1..Len(saves)
          BY <4>0, LenProperties
        <5> QED BY <3>1, <4>0, <5>1, ElementOfSeq
      <4>2. saves[j].kind = "message"
        BY <2>2, <3>1 DEF IsSaid
      <4>3. saves[j].message \in Said
        BY <4>1, <4>2 DEF Item
      <4> QED BY <4>3 DEF Said
    <3>5. Left(p, row.queue, saves \o es, k)
      <4> HIDE DEF p
      <4>1. p \notin revived
        BY <2>2, <3>1 DEF p
      <4> QED BY <3>2, <3>3, <3>4, <4>1, <1>1, <1>10, LeftJoin DEF Types
    <3> QED BY <3>1, <3>5 DEF LeftBy
  <2>3. ASSUME running' # 0, running' \notin revived
        PROVE  LeftBy(running', row.queue, saves \o es, Len(saves \o es))
    <3>1. CASE running' = running
      <4>1. PICK k \in 0..Len(saves) : Left(running, row.queue, saves, k)
        BY <2>3, <3>1 DEF Kept, LeftFirst, LeftBy
      <4>2. \A i \in DOMAIN es : IsQueue(es[i]) => ~Holds(es[i].queue, running)
        BY <2>3, <3>1
      <4>3. Left(running, row.queue, saves \o es, k)
        BY <4>1, <4>2, <1>1, LeftJoin DEF Types
      <4>4. k \in 0..Len(saves \o es)
        BY <1>1, JoinItems, LenProperties DEF Types
      <4> QED BY <3>1, <4>3, <4>4 DEF LeftBy
    <3>2. CASE ~Holds(queue', running')
      BY <3>2, <1>1, LeftNow DEF Types
    <3> QED BY <3>1, <3>2
  <2> QED BY <2>1, <2>2, <2>3 DEF LeftFirst
<1>12. LastQueue'
  <2>1. Newest(row.queue, saves', queue')
    BY <1>1, NewestJoin DEF Types
  <2> QED BY <2>1 DEF Kept, LastQueue
<1> QED BY <1>3, <1>4, <1>5, <1>7, <1>9, <1>11, <1>12 DEF Kept
-----------------------------------------------------------------------------
\* The first prompt of a queue is not among the others.
LEMMA TailOfProper ==
  ASSUME NEW n \in Nat, NEW q, Proper(q, n), q # <<>>
  PROVE  /\ Proper(Tail(q), n) /\ Head(q) \in 1..n /\ ~Holds(Tail(q), Head(q)) /\ Holds(q, Head(q))
         /\ \A p : Holds(Tail(q), p) => Holds(q, p)
<1> DEFINE t == Tail(q)
<1>1. q \in Seq(1..n) /\ \A i, j \in DOMAIN q : q[i] = q[j] => i = j
  BY DEF Proper
<1>2. /\ Len(q) \in Nat /\ Len(q) > 0 /\ DOMAIN q = 1..Len(q) /\ Head(q) = q[1] /\ Head(q) \in 1..n
      /\ t \in Seq(1..n) /\ Len(t) = Len(q) - 1 /\ DOMAIN t = 1..Len(t)
      /\ \A i \in 1..Len(t) : t[i] = q[i + 1]
  BY <1>1, EmptySeq, LenProperties, HeadTailProperties
<1> HIDE DEF t
<1>3. \A i, j \in DOMAIN t : t[i] = t[j] => i = j
  <2> TAKE i, j \in DOMAIN t
  <2> HAVE t[i] = t[j]
  <2>1. i + 1 \in DOMAIN q /\ j + 1 \in DOMAIN q /\ t[i] = q[i + 1] /\ t[j] = q[j + 1]
    BY <1>2
  <2>2. i + 1 = j + 1
    BY <1>1, <2>1
  <2> QED BY <2>2, <1>2
<1>4. ~Holds(t, q[1])
  <2> SUFFICES ASSUME NEW i \in DOMAIN t, t[i] = q[1] PROVE FALSE
    BY DEF Holds
  <2>1. i + 1 \in DOMAIN q /\ 1 \in DOMAIN q /\ t[i] = q[i + 1]
    BY <1>2
  <2>2. i + 1 = 1
    BY <1>1, <2>1
  <2> QED BY <2>2, <1>2
<1>5. \A p : Holds(t, p) => Holds(q, p)
  <2>1. ASSUME NEW i \in DOMAIN t PROVE i + 1 \in DOMAIN q /\ q[i + 1] = t[i]
    BY <1>2
  <2> QED BY <2>1 DEF Holds
<1>6. Holds(q, q[1])
  BY <1>2 DEF Holds
<1> QED BY <1>2, <1>3, <1>4, <1>5, <1>6 DEF Proper, t

\* What can be withdrawn from a queue.
LEMMA RemoveOfProper ==
  ASSUME NEW n \in Nat, NEW q, Proper(q, n), NEW k \in DOMAIN q
  PROVE  /\ Proper(RemoveAt(q, k), n)
         /\ \A p : Holds(RemoveAt(q, k), p) => Holds(q, p)
<1> DEFINE t == RemoveAt(q, k)
<1>1. /\ q \in Seq(1..n) /\ Len(q) \in Nat /\ DOMAIN q = 1..Len(q) /\ k \in 1..Len(q)
      /\ \A i, j \in DOMAIN q : q[i] = q[j] => i = j
  BY LenProperties DEF Proper
<1>4. /\ t \in Seq(1..n) /\ Len(t) = Len(q) - 1
      /\ \A i \in 1..Len(t) : t[i] = IF i < k THEN q[i] ELSE q[i + 1]
  <2>1. q \in Seq(1..n)
    BY <1>1
  <2> QED BY Zenon, <2>1, Removed
<1> HIDE DEF t
<1>5. DOMAIN t = 1..(Len(q) - 1)
  BY <1>4, LenProperties
<1>6. \A i, j \in DOMAIN t : t[i] = t[j] => i = j
  <2> TAKE i, j \in DOMAIN t
  <2> HAVE t[i] = t[j]
  <2> DEFINE x == IF i < k THEN i ELSE i + 1
             y == IF j < k THEN j ELSE j + 1
  <2>1. x \in DOMAIN q /\ y \in DOMAIN q
    <3>1. Len(q) \in Nat /\ DOMAIN q = 1..Len(q) /\ i \in 1..(Len(q) - 1) /\ j \in 1..(Len(q) - 1)
      BY <1>1, <1>5
    <3> QED BY <3>1
  <2>2. t[i] = q[x] /\ t[j] = q[y]
    BY <1>1, <1>4, <1>5
  <2>3. x = y
    <3> HIDE DEF x, y
    <3> QED BY <2>1, <2>2, <1>1
  <2> QED BY <2>3, <1>1, <1>5
<1>7. \A p : Holds(t, p) => Holds(q, p)
  <2>1. ASSUME NEW i \in DOMAIN t PROVE \E j \in DOMAIN q : q[j] = t[i]
    <3>1. i \in 1..Len(t) /\ i \in DOMAIN q /\ i + 1 \in DOMAIN q
      <4>1. Len(q) \in Nat /\ DOMAIN q = 1..Len(q) /\ Len(t) = Len(q) - 1 /\ i \in 1..(Len(q) - 1)
        BY <1>1, <1>4, <1>5
      <4> QED BY <4>1
    <3>2. t[i] = q[i] \/ t[i] = q[i + 1]
      BY <3>1, <1>4
    <3> QED BY <3>1, <3>2
  <2> QED BY <2>1 DEF Holds
<1> QED BY <1>4, <1>6, <1>7 DEF Proper, t

\* A prompt that is new comes last.
LEMMA AppendOfProper ==
  ASSUME NEW n \in Nat, NEW q, Proper(q, n)
  PROVE  /\ Proper(Append(q, n + 1), n + 1) /\ Append(q, n + 1) # <<>>
         /\ \A p : Holds(Append(q, n + 1), p) => Holds(q, p) \/ p = n + 1
<1> DEFINE t == Append(q, n + 1)
<1>1. q \in Seq(1..n) /\ q \in Seq(1..(n + 1)) /\ \A i, j \in DOMAIN q : q[i] = q[j] => i = j
  <2>1. 1..n \subseteq 1..(n + 1)
    OBVIOUS
  <2> QED BY <2>1, SeqMonotonic DEF Proper
<1>2. /\ Len(q) \in Nat /\ DOMAIN q = 1..Len(q) /\ t \in Seq(1..(n + 1)) /\ t # <<>>
      /\ Len(t) = Len(q) + 1 /\ t[Len(q) + 1] = n + 1 /\ \A i \in 1..Len(q) : t[i] = q[i]
  BY <1>1, AppendProperties, LenProperties
<1> HIDE DEF t
<1>3. DOMAIN t = 1..(Len(q) + 1) /\ \A i \in 1..Len(q) : q[i] \in 1..n
  BY <1>1, <1>2, LenProperties, ElementOfSeq
<1>4. \A i, j \in DOMAIN t : t[i] = t[j] => i = j
  <2> TAKE i, j \in DOMAIN t
  <2> HAVE t[i] = t[j]
  <2>1. CASE i <= Len(q) /\ j <= Len(q)
    BY <2>1, <1>1, <1>2, <1>3
  <2>2. CASE i = Len(q) + 1 \/ j = Len(q) + 1
    BY <2>2, <1>2, <1>3
  <2> QED BY <2>1, <2>2, <1>2, <1>3
<1>5. \A p : Holds(t, p) => Holds(q, p) \/ p = n + 1
  BY <1>2, <1>3 DEF Holds
<1> QED BY <1>2, <1>4, <1>5 DEF Proper, t

-----------------------------------------------------------------------------
LEMMA EventItems ==
  /\ \A s \in {"idle", "running", "failed"} :
       StatusEvent(s) \in Item /\ ~IsSaid(StatusEvent(s)) /\ ~IsQueue(StatusEvent(s))
  /\ \A q \in Seq(Nat) : /\ QueueEvent(q) \in Item /\ ~IsSaid(QueueEvent(q))
                         /\ IsQueue(QueueEvent(q)) /\ QueueEvent(q).queue = q
  BY DEF StatusEvent, QueueEvent, Item, IsSaid, IsQueue

LEMMA PairItems ==
  ASSUME NEW a \in Item, NEW b \in Item
  PROVE  /\ <<a, b>> \in Seq(Item) /\ DOMAIN <<a, b>> = {1, 2} /\ Len(<<a, b>>) = 2
         /\ <<a, b>>[1] = a /\ <<a, b>>[2] = b
<1>1. <<a, b>> \in Seq(Item) /\ Len(<<a, b>>) = 2 /\ <<a, b>>[1] = a /\ <<a, b>>[2] = b
  OBVIOUS
<1>2. 1..2 = {1, 2}
  OBVIOUS
<1> QED BY <1>1, <1>2, LenProperties

LEMMA ProperIsQueue == ASSUME NEW n \in Nat, NEW q, Proper(q, n) PROVE q \in Seq(Nat)
<1>1. 1..n \subseteq Nat
  OBVIOUS
<1> QED BY <1>1, SeqMonotonic DEF Proper

\* What the head of the loop stores, behind writes that end with its queue.
PumpWrites(q, before) ==
  before \o IF q = <<>> THEN <<StatusEvent("idle")>>
            ELSE <<StatusEvent("running"), QueueEvent(Tail(q))>>

LEMMA PumpEvents ==
  ASSUME NEW n \in Nat, NEW q, Proper(q, n), NEW before \in Seq(Item), Ends(before, q),
         \A i \in DOMAIN before : ~IsSaid(before[i]),
         \A i \in DOMAIN before : IsQueue(before[i]) => before[i].queue = q
  PROVE  /\ PumpWrites(q, before) \in Seq(Item)
         /\ Ends(PumpWrites(q, before), IF q = <<>> THEN q ELSE Tail(q))
         /\ \A i \in DOMAIN PumpWrites(q, before) : ~IsSaid(PumpWrites(q, before)[i])
         /\ \A i \in DOMAIN PumpWrites(q, before) : IsQueue(PumpWrites(q, before)[i]) =>
              \/ PumpWrites(q, before)[i].queue = q
              \/ q # <<>> /\ PumpWrites(q, before)[i].queue = Tail(q)
<1> DEFINE es == PumpWrites(q, before)
<1>1. CASE q = <<>>
  <2> DEFINE last == <<StatusEvent("idle")>>
  <2>1. last \in Seq(Item) /\ DOMAIN last = {1} /\ last[1] = StatusEvent("idle")
    BY EventItems
  <2> HIDE DEF last
  <2>2. \A i \in DOMAIN last : ~IsSaid(last[i]) /\ ~IsQueue(last[i])
    <3>1. ~IsSaid(StatusEvent("idle")) /\ ~IsQueue(StatusEvent("idle"))
      BY EventItems
    <3> QED BY <2>1, <3>1
  <2>3. es = before \o last
    BY <1>1 DEF last, PumpWrites
  <2> HIDE DEF es
  <2>4. Newest(q, before \o last, q) /\ Ends(before \o last, q)
    <3>1. PICK k \in DOMAIN before : /\ IsQueue(before[k]) /\ before[k].queue = q
                                     /\ \A i \in DOMAIN before : i > k => ~IsQueue(before[i])
      BY DEF Ends
    <3>2. k \in DOMAIN (before \o last) /\ (before \o last)[k] = before[k]
      BY <2>1, <3>1, JoinItems
    <3>3. \A i \in DOMAIN (before \o last) : i > k => ~IsQueue((before \o last)[i])
      BY <2>1, <2>2, <3>1, JoinItems
    <3> QED BY <3>1, <3>2, <3>3 DEF Ends, Newest
  <2>5. \A i \in DOMAIN (before \o last) :
          /\ ~IsSaid((before \o last)[i])
          /\ IsQueue((before \o last)[i]) => (before \o last)[i].queue = q
    <3> TAKE i \in DOMAIN (before \o last)
    <3>1. CASE i \in DOMAIN before
      <4>1. (before \o last)[i] = before[i]
        BY <3>1, <2>1, JoinItems
      <4> QED BY <4>1, <3>1
    <3>2. CASE i - Len(before) \in DOMAIN last /\ (before \o last)[i] = last[i - Len(before)]
      BY <3>2, <2>2
    <3> QED BY <3>1, <3>2, <2>1, JoinItems
  <2>6. before \o last \in Seq(Item)
    BY <2>1, JoinItems
  <2>7. /\ es \in Seq(Item) /\ Ends(es, q)
        /\ \A i \in DOMAIN es : ~IsSaid(es[i]) /\ (IsQueue(es[i]) => es[i].queue = q)
    BY <2>3, <2>4, <2>5, <2>6
  <2> QED BY <1>1, <2>7 DEF es
<1>2. CASE q # <<>>
  <2> DEFINE last == <<StatusEvent("running"), QueueEvent(Tail(q))>>
  <2>1. Tail(q) \in Seq(Nat)
    BY <1>2, TailOfProper, ProperIsQueue
  <2>2. /\ last \in Seq(Item) /\ DOMAIN last = {1, 2}
        /\ last[1] = StatusEvent("running") /\ last[2] = QueueEvent(Tail(q))
    BY <2>1, EventItems, PairItems
  <2> HIDE DEF last
  <2>3. /\ ~IsQueue(last[1]) /\ IsQueue(last[2]) /\ last[2].queue = Tail(q)
        /\ ~IsSaid(last[1]) /\ ~IsSaid(last[2])
    BY <2>1, <2>2, EventItems
  <2>4. es = before \o last
    BY <1>2 DEF last, PumpWrites
  <2> HIDE DEF es
  <2>5. Ends(last, Tail(q))
    BY <2>2, <2>3 DEF Ends
  <2>6. Ends(before \o last, Tail(q))
    <3>1. /\ Len(before) + 2 \in DOMAIN (before \o last)
          /\ (before \o last)[Len(before) + 2] = last[2]
          /\ Len(before \o last) = Len(before) + Len(last)
      BY <2>2, JoinItems
    <3>2. Len(last) = 2
      BY <2>2, LenProperties DEF last
    <3>3. \A i \in DOMAIN (before \o last) : ~(i > Len(before) + 2)
      BY <2>2, <3>1, <3>2, JoinItems, LenProperties
    <3> QED BY <2>3, <3>1, <3>3 DEF Ends
  <2>7. \A i \in DOMAIN (before \o last) :
          /\ ~IsSaid((before \o last)[i])
          /\ IsQueue((before \o last)[i]) =>
               (before \o last)[i].queue = q \/ (before \o last)[i].queue = Tail(q)
    <3> TAKE i \in DOMAIN (before \o last)
    <3>1. CASE i \in DOMAIN before
      <4>1. (before \o last)[i] = before[i]
        BY <3>1, <2>2, JoinItems
      <4> QED BY <4>1, <3>1
    <3>2. CASE i - Len(before) \in DOMAIN last /\ (before \o last)[i] = last[i - Len(before)]
      <4>1. i - Len(before) = 1 \/ i - Len(before) = 2
        BY <3>2, <2>2
      <4> QED BY <4>1, <3>2, <2>3
    <3> QED BY <3>1, <3>2, <2>2, JoinItems
  <2>8. before \o last \in Seq(Item)
    BY <2>2, JoinItems
  <2>9. es \in Seq(Item) /\ Ends(es, Tail(q))
    BY <2>4, <2>6, <2>8
  <2>10. \A i \in DOMAIN es :
           /\ ~IsSaid(es[i])
           /\ IsQueue(es[i]) => es[i].queue = q \/ es[i].queue = Tail(q)
    BY <2>4, <2>7
  <2>11. (IF q = <<>> THEN q ELSE Tail(q)) = Tail(q)
    BY <1>2
  <2>12. /\ es \in Seq(Item) /\ Ends(es, IF q = <<>> THEN q ELSE Tail(q))
         /\ \A i \in DOMAIN es : ~IsSaid(es[i])
         /\ \A i \in DOMAIN es : IsQueue(es[i]) =>
              es[i].queue = q \/ (q # <<>> /\ es[i].queue = Tail(q))
    <3>1. \A i \in DOMAIN es : IsQueue(es[i]) =>
            es[i].queue = q \/ (q # <<>> /\ es[i].queue = Tail(q))
      BY <1>2, <2>10
    <3> QED BY <2>9, <2>10, <2>11, <3>1
  <2> QED BY <2>12 DEF es
<1> QED BY <1>1, <1>2
-----------------------------------------------------------------------------
\* The steps of the session.

\* What Kept says about the types, once.
LEMMA KeptTypes ==
  ASSUME Kept
  PROVE  /\ sent \in Nat /\ running \in Nat /\ said \in Nat /\ removals \in Nat
         /\ saves \in Seq(Item) /\ rows \in Seq(Said) /\ history \in Seq(Said)
         /\ row \in [queue : Seq(Nat), status : {"idle", "running", "failed"}]
         /\ Proper(queue, sent) /\ Proper(row.queue, sent) /\ queue \in Seq(Nat)
         /\ (running # 0 \/ queue # <<>> \/ saves # <<>>) => up
<1>1. Proper(queue, sent) /\ sent \in Nat
  BY DEF Kept, Types, Queues
<1>2. queue \in Seq(Nat)
  BY <1>1, ProperIsQueue
<1> QED BY <1>1, <1>2 DEF Kept, Types, Queues, Rest

LEMMA QueueWrite ==
  ASSUME NEW q \in Seq(Nat)
  PROVE  /\ <<QueueEvent(q)>> \in Seq(Item) /\ Ends(<<QueueEvent(q)>>, q)
         /\ \A i \in DOMAIN <<QueueEvent(q)>> :
              ~IsSaid(<<QueueEvent(q)>>[i]) /\ <<QueueEvent(q)>>[i].queue = q
<1> DEFINE e == QueueEvent(q)
<1>1. e \in Item /\ ~IsSaid(e) /\ IsQueue(e) /\ e.queue = q
  BY EventItems
<1> HIDE DEF e
<1>2. <<e>> \in Seq(Item) /\ DOMAIN <<e>> = {1} /\ <<e>>[1] = e
  BY <1>1
<1>3. Ends(<<e>>, q)
  BY <1>1, <1>2 DEF Ends
<1> QED BY <1>1, <1>2, <1>3 DEF e

LEMMA FailedWrites ==
  ASSUME NEW q \in Seq(Nat), NEW es, es = <<StatusEvent("failed"), QueueEvent(q)>>
  PROVE  /\ es \in Seq(Item) /\ Ends(es, q)
         /\ \A i \in DOMAIN es : ~IsSaid(es[i]) /\ (IsQueue(es[i]) => es[i].queue = q)
<1>1. StatusEvent("failed") \in Item /\ QueueEvent(q) \in Item
  BY EventItems
<1>2. /\ es \in Seq(Item) /\ DOMAIN es = {1, 2}
      /\ es[1] = StatusEvent("failed") /\ es[2] = QueueEvent(q)
  BY <1>1, PairItems
<1>3. /\ ~IsSaid(es[1]) /\ ~IsQueue(es[1])
      /\ ~IsSaid(es[2]) /\ IsQueue(es[2]) /\ es[2].queue = q
  BY <1>2, EventItems
<1> QED BY <1>2, <1>3 DEF Ends

\* The head of the loop.
LEMMA PumpKeeps ==
  ASSUME Kept, NEW q, NEW text, NEW before \in Seq(Item), Pump(q, text, before),
         Ends(before, q), sent' \in Nat, sent' >= sent, Proper(q, sent'),
         \A i \in DOMAIN before : ~IsSaid(before[i]) /\ (IsQueue(before[i]) => before[i].queue = q),
         \A p \in Nat : Holds(q, p) /\ p \notin revived => ~Started(rows, saves, p) /\ p # running,
         up', (up /\ history' = history) \/ (~up /\ history' = rows),
         UNCHANGED <<rows, row, removal, removals, revived>>
  PROVE  Kept'
<1> DEFINE es == PumpWrites(q, before)
<1>1. /\ saves' = saves \o es /\ said' = 0
      /\ queue' = (IF q = <<>> THEN q ELSE Tail(q))
      /\ running' = (IF q = <<>> THEN 0 ELSE Head(q))
  BY DEF Pump, Emit, PumpWrites
<1>2. /\ es \in Seq(Item) /\ Ends(es, IF q = <<>> THEN q ELSE Tail(q))
      /\ \A i \in DOMAIN es : ~IsSaid(es[i])
      /\ \A i \in DOMAIN es : IsQueue(es[i]) =>
           es[i].queue = q \/ (q # <<>> /\ es[i].queue = Tail(q))
  BY PumpEvents
<1> HIDE DEF es
<1>3. q # <<>> => /\ Proper(Tail(q), sent') /\ Head(q) \in 1..sent' /\ ~Holds(Tail(q), Head(q))
                  /\ \A p : Holds(Tail(q), p) => Holds(q, p)
  BY TailOfProper
<1>4. Ends(es, queue')
  BY <1>1, <1>2
<1>5. running' \in Nat /\ running' <= sent' /\ ~Holds(queue', running')
  <2>1. CASE q = <<>>
    BY <2>1, <1>1 DEF Holds
  <2>2. CASE q # <<>>
    BY <2>2, <1>1, <1>3
  <2> QED BY <2>1, <2>2
<1>6. \A i \in DOMAIN es : IsQueue(es[i]) =>
        /\ Proper(es[i].queue, sent')
        /\ \A p : Holds(es[i].queue, p) => Holds(q, p)
  BY <1>2, <1>3
<1>7. {sent', running', said'} \subseteq Nat
  BY <1>1, <1>5
<1> QED BY <1>1, <1>2, <1>4, <1>5, <1>6, <1>7, EmitKeeps

LEMMA SubmitKeeps == ASSUME Kept, Submit PROVE Kept'
<1> DEFINE q == Append(queue, sent + 1)
<1>1. /\ sent' = sent + 1 /\ up /\ up'
      /\ UNCHANGED <<rows, row, removal, removals, revived, history>>
      /\ IF running = 0 THEN Pump(q, <<>>, <<QueueEvent(q)>>)
         ELSE /\ queue' = q /\ saves' = saves \o <<QueueEvent(q)>>
              /\ running' = running /\ said' = said
  BY DEF Submit, Emit, elsewhere
<1>2. /\ Proper(q, sent + 1) /\ q # <<>> /\ \A p : Holds(q, p) => Holds(queue, p) \/ p = sent + 1
  BY KeptTypes, AppendOfProper
<1> HIDE DEF q
<1>3. \A p \in Nat : Holds(q, p) /\ p \notin revived => ~Started(rows, saves, p) /\ p # running
  BY <1>2, KeptTypes DEF Kept, Once
<1>4. q \in Seq(Nat) /\ sent + 1 \in Nat /\ sent \in Nat
  BY <1>2, KeptTypes, ProperIsQueue
<1>5. CASE running = 0
  <2>1. Pump(q, <<>>, <<QueueEvent(q)>>)
    BY <1>1, <1>5
  <2>2. sent' \in Nat /\ sent' >= sent /\ Proper(q, sent')
    BY <1>1, <1>2, <1>4
  <2> QED BY <1>1, <1>3, <1>4, <2>1, <2>2, QueueWrite, PumpKeeps
<1>6. CASE running # 0
  <2> DEFINE es == <<QueueEvent(q)>>
  <2>1. /\ es \in Seq(Item) /\ Ends(es, q)
        /\ \A i \in DOMAIN es : ~IsSaid(es[i]) /\ es[i].queue = q
    BY <1>4, QueueWrite
  <2>2. saves' = saves \o es /\ queue' = q /\ running' = running /\ said' = said
    BY <1>1, <1>6
  <2> HIDE DEF es
  <2>3. /\ {sent', running', said'} \subseteq Nat /\ sent' >= sent /\ running' <= sent'
        /\ Proper(q, sent')
    BY <1>1, <1>2, <1>4, <2>2, KeptTypes DEF Kept, Once
  <2>4. Ends(es, queue')
    BY <2>1, <2>2
  <2> QED BY <1>1, <1>3, <2>1, <2>2, <2>3, <2>4, EmitKeeps
<1> QED BY <1>5, <1>6

LEMMA RestoreKeeps == ASSUME Kept, Restore PROVE Kept'
<1>1. /\ ~up /\ up' /\ history' = rows /\ sent' = sent
      /\ UNCHANGED <<rows, row, removal, removals, revived>>
  BY DEF Restore, elsewhere
<1>2. saves = <<>> /\ queue = <<>> /\ running = 0
  BY <1>1 DEF Kept, Rest
<1>3. CASE row.queue # <<>>
  <2> DEFINE q == row.queue
  <2>1. Pump(q, <<>>, <<QueueEvent(q)>>)
    BY <1>3 DEF Restore
  <2>2. Proper(q, sent) /\ q \in Seq(Nat) /\ sent \in Nat
    BY KeptTypes, ProperIsQueue
  <2>3. ASSUME NEW p \in Nat, Holds(q, p), p \notin revived
        PROVE  ~Started(rows, saves, p) /\ p # running
    <3>1. p # 0
      BY <2>2, <2>3, ElementOfSeq, LenProperties DEF Holds, Proper
    <3>2. ASSUME NEW i \in DOMAIN rows, rows[i].of = p PROVE FALSE
      <4>1. Left(p, q, saves, 0)
        BY <2>3, <3>2 DEF Kept, LeftFirst
      <4>2. 0 \notin DOMAIN saves
        BY <1>2
      <4> QED BY <2>3, <4>1, <4>2 DEF Left
    <3>3. DOMAIN saves = {}
      BY <1>2
    <3> QED BY <1>2, <3>1, <3>2, <3>3 DEF Started
  <2>4. sent' \in Nat /\ sent' >= sent /\ Proper(q, sent')
    BY <1>1, <2>2
  <2> HIDE DEF q
  <2> QED BY <1>1, <2>1, <2>2, <2>3, <2>4, QueueWrite, PumpKeeps
<1>4. CASE row.queue = <<>>
  <2>1. UNCHANGED <<queue, running, said, saves>>
    BY <1>4 DEF Restore
  <2>2. Rest' /\ Types' /\ Queues' /\ Once' /\ LeftFirst'
    <3>1. Rest'
      BY <1>1 DEF Rest
    <3>2. Types'
      BY <1>1, <2>1 DEF Kept, Types
    <3>3. Queues' /\ Once' /\ LeftFirst'
      BY <1>1, <2>1 DEF Kept, Queues, Once, LeftFirst
    <3> QED BY <3>1, <3>2, <3>3
  <2>3. InOrder'
    BY <1>1, KeptTypes, LenProperties DEF InOrder
  <2>4. InHand'
    BY <1>1, <1>2, <2>1, KeptTypes, ChainStart DEF InHand
  <2>5. LastQueue'
    BY <1>1, <1>2, <1>4, <2>1 DEF Kept, LastQueue, Newest
  <2> QED BY <2>2, <2>3, <2>4, <2>5 DEF Kept
<1> QED BY <1>3, <1>4

LEMMA WithdrawKeeps == ASSUME Kept, NEW i \in DOMAIN queue, Withdraw(i) PROVE Kept'
<1>1. /\ queue' = RemoveAt(queue, i) /\ saves' = saves \o <<QueueEvent(queue')>>
      /\ UNCHANGED <<sent, up, running, said, history, rows, row, removal, removals, revived>>
  BY DEF Withdraw, Emit, turn, elsewhere
<1>2. up
  <2>1. queue # <<>>
    OBVIOUS
  <2> QED BY <2>1, KeptTypes
<1>3. Proper(queue', sent) /\ \A p : Holds(queue', p) => Holds(queue, p)
  BY <1>1, KeptTypes, RemoveOfProper
<1>4. queue' \in Seq(Nat)
  BY <1>3, KeptTypes, ProperIsQueue
<1> DEFINE es == <<QueueEvent(queue')>>
<1>5. /\ es \in Seq(Item) /\ Ends(es, queue')
      /\ \A j \in DOMAIN es : ~IsSaid(es[j]) /\ es[j].queue = queue'
  BY <1>4, QueueWrite
<1>6. saves' = saves \o es
  BY <1>1
<1> HIDE DEF es
<1>7. {sent', running', said'} \subseteq Nat /\ sent' >= sent /\ running' <= sent'
  BY <1>1, KeptTypes DEF Kept, Once
<1>8. \A p \in Nat : Holds(queue', p) /\ p \notin revived => ~Started(rows, saves, p) /\ p # running
  BY <1>3 DEF Kept, Once
<1> QED BY <1>1, <1>2, <1>3, <1>5, <1>6, <1>7, <1>8, EmitKeeps

LEMMA EndTurnKeeps == ASSUME Kept, NEW failed \in BOOLEAN, EndTurn(failed) PROVE Kept'
<1> DEFINE es == IF failed THEN <<StatusEvent("failed"), QueueEvent(queue)>>
                           ELSE <<QueueEvent(queue)>>
<1>1. /\ running # 0 /\ Pump(queue, Flushed, es)
      /\ UNCHANGED <<sent, up, history, rows, row, removal, removals, revived>>
  BY DEF EndTurn, elsewhere
<1>2. up /\ Proper(queue, sent) /\ queue \in Seq(Nat) /\ sent \in Nat
  BY <1>1, KeptTypes
<1>3. /\ es \in Seq(Item) /\ Ends(es, queue)
      /\ \A i \in DOMAIN es : ~IsSaid(es[i]) /\ (IsQueue(es[i]) => es[i].queue = queue)
  <2>1. CASE failed
    BY <2>1, <1>2, FailedWrites
  <2>2. CASE ~failed
    BY <2>2, <1>2, QueueWrite
  <2> QED BY <2>1, <2>2
<1> HIDE DEF es
<1>4. \A p \in Nat : Holds(queue, p) /\ p \notin revived => ~Started(rows, saves, p) /\ p # running
  BY DEF Kept, Once
<1>5. sent' \in Nat /\ sent' >= sent /\ Proper(queue, sent')
  BY <1>1, <1>2
<1> QED BY <1>1, <1>2, <1>3, <1>4, <1>5, PumpKeeps

\* A step that leaves all this alone.
LEMMA SameKeeps ==
  ASSUME Kept, said' \in Nat,
         UNCHANGED <<sent, up, queue, running, history, saves, removal, removals, revived,
                     missed, row, rows>>
  PROVE  Kept'
<1>1. Rest' /\ InOrder' /\ InHand' /\ Queues' /\ Once' /\ LeftFirst' /\ LastQueue'
  BY DEF Kept, Rest, InOrder, InHand, Queues, Once, LeftFirst, LastQueue
<1>2. Types'
  BY DEF Kept, Types
<1> QED BY <1>1, <1>2 DEF Kept

\* The turn adds a message: its prompt left the queue long ago.
LEMMA SayKeeps == ASSUME Kept, crashes \in Nat, Say PROVE Kept'
<1> DEFINE m == NextMessage
           e == MessageOf(m)
           es == <<e>>
<1>1. /\ running # 0 /\ history' = Append(history, m) /\ saves' = Append(saves, e)
      /\ said' = said + 1
      /\ UNCHANGED <<sent, up, queue, running, rows, row, removal, removals, revived, missed>>
  BY DEF Say, Adds, elsewhere
<1>2. /\ up /\ saves \in Seq(Item) /\ rows \in Seq(Said) /\ history \in Seq(Said)
      /\ {sent, running, said, removals} \subseteq Nat
  BY <1>1, KeptTypes
<1>3. m \in Said /\ e \in Item /\ IsSaid(e) /\ ~IsQueue(e) /\ e.message = m /\ m.of = running
  BY <1>2 DEF NextMessage, Said, MessageOf, Item, IsSaid, IsQueue
<1> HIDE DEF m, e
<1>4. /\ es \in Seq(Item) /\ DOMAIN es = {1} /\ es[1] = e /\ Append(saves, e) = saves \o es
  BY <1>2, <1>3, AppendIsConcat
<1>5. \A i \in DOMAIN es : IsSaid(es[i]) /\ ~IsQueue(es[i]) /\ es[i].message.of = running
  BY <1>3, <1>4
<1> HIDE DEF es
<1>6. saves' = saves \o es /\ saves \o es \in Seq(Item)
  BY <1>1, <1>2, <1>4, JoinItems
<1>7. Rest' /\ Types'
  <2>1. history' \in Seq(Said) /\ said' \in Nat
    BY <1>1, <1>2, <1>3
  <2> QED BY <2>1, <1>1, <1>2, <1>6 DEF Rest, Kept, Types
<1>8. InOrder'
  BY <1>1, <1>2, <1>3, AppendProperties, LenProperties DEF Kept, InOrder
<1>9. InHand'
  <2>1. Chain(rows, saves, history)
    BY <1>2 DEF Kept, InHand
  <2>2. Chain(rows, Append(saves, e), Append(history, m))
    BY <2>1, <1>2, <1>3, ChainAppend DEF e
  <2> QED BY <2>2, <1>1 DEF InHand
<1>10. Queues'
  <2>1. \A i \in DOMAIN (saves \o es) :
          IsQueue((saves \o es)[i]) => Proper((saves \o es)[i].queue, sent)
    <3> TAKE i \in DOMAIN (saves \o es)
    <3>1. CASE i \in DOMAIN saves
      BY <3>1, <1>2, <1>4, JoinItems DEF Kept, Queues
    <3>2. CASE i - Len(saves) \in DOMAIN es /\ (saves \o es)[i] = es[i - Len(saves)]
      BY <3>2, <1>5
    <3>3. \/ i \in DOMAIN saves
          \/ i - Len(saves) \in DOMAIN es /\ (saves \o es)[i] = es[i - Len(saves)]
      BY <1>2, <1>4, JoinItems
    <3> QED BY <3>1, <3>2, <3>3
  <2> QED BY <2>1, <1>1, <1>6 DEF Kept, Queues
<1>11. \A p \in Nat : Started(rows, saves \o es, p) => Started(rows, saves, p) \/ p = running
  BY <1>2, <1>4, <1>5, StartedJoin
<1>12. Once'
  BY <1>1, <1>2, <1>6, <1>11 DEF Kept, Once
<1>13. \A p, k : Left(p, row.queue, saves, k) => Left(p, row.queue, saves \o es, k)
  BY <1>2, <1>4, <1>5, LeftJoin
<1>14. /\ DOMAIN saves = 1..Len(saves) /\ Len(saves) \in Nat
       /\ DOMAIN (saves \o es) = 1..(Len(saves) + 1) /\ Len(saves \o es) = Len(saves) + 1
  <2>1. Len(es) = 1
    BY <1>4, LenProperties
  <2> QED BY <2>1, <1>2, <1>4, <1>6, JoinItems, LenProperties
<1>15. running \notin revived => LeftBy(running, row.queue, saves \o es, Len(saves))
  BY <1>1, <1>13 DEF Kept, LeftFirst, LeftBy
<1>16. LeftFirst'
  <2>1. ASSUME NEW i \in DOMAIN rows, rows[i].of \notin revived
        PROVE  Left(rows[i].of, row.queue, saves \o es, 0)
    BY <2>1, <1>13 DEF Kept, LeftFirst
  <2>2. ASSUME NEW j \in DOMAIN (saves \o es), IsSaid((saves \o es)[j]),
               (saves \o es)[j].message.of \notin revived
        PROVE  LeftBy((saves \o es)[j].message.of, row.queue, saves \o es, j - 1)
    <3>1. CASE j \in DOMAIN saves
      <4>1. (saves \o es)[j] = saves[j]
        BY <3>1, <1>2, <1>4, JoinItems
      <4>2. LeftBy(saves[j].message.of, row.queue, saves, j - 1)
        BY <4>1, <3>1, <2>2 DEF Kept, LeftFirst
      <4> QED BY <4>1, <4>2, <1>13 DEF LeftBy
    <3>2. CASE j - Len(saves) \in DOMAIN es /\ (saves \o es)[j] = es[j - Len(saves)]
      <4>1. (saves \o es)[j].message.of = running /\ j - 1 = Len(saves)
        BY <3>2, <1>4, <1>5, <1>14
      <4> QED BY <4>1, <2>2, <1>15
    <3>3. \/ j \in DOMAIN saves
          \/ j - Len(saves) \in DOMAIN es /\ (saves \o es)[j] = es[j - Len(saves)]
      BY <1>2, <1>4, JoinItems
    <3> QED BY <3>1, <3>2, <3>3
  <2>3. running \notin revived => LeftBy(running, row.queue, saves \o es, Len(saves \o es))
    BY <1>14, <1>15 DEF LeftBy
  <2> QED BY <2>1, <2>2, <2>3, <1>1, <1>6 DEF LeftFirst
<1>17. LastQueue'
  <2>1. \A q : Newest(q, saves, queue) => Newest(q, saves \o es, queue)
    BY <1>2, <1>4, <1>5, NewestJoin
  <2> QED BY <2>1, <1>1, <1>2, <1>6 DEF Kept, LastQueue
<1> QED BY <1>7, <1>8, <1>9, <1>10, <1>12, <1>16, <1>17 DEF Kept

\* The server ends: what it had in hand is gone, what is stored stays.
LEMMA CrashKeeps == ASSUME Kept, Crash PROVE Kept'
<1>1. /\ ~up' /\ queue' = <<>> /\ running' = 0 /\ said' = 0 /\ saves' = <<>>
      /\ UNCHANGED <<sent, history, rows, row, removal, removals, revived>>
  BY DEF Crash, elsewhere
<1>2. Rest' /\ InOrder' /\ InHand' /\ LastQueue'
  BY <1>1 DEF Kept, Rest, InOrder, InHand, LastQueue
<1>3. Types'
  BY <1>1 DEF Kept, Types
<1>4. Proper(<<>>, sent) /\ DOMAIN <<>> = {} /\ (\A p : ~Holds(<<>>, p))
  BY DEF Proper, Holds
<1>5. Queues'
  BY <1>1, <1>4 DEF Kept, Queues
<1>6. \A p : Started(rows, <<>>, p) => Started(rows, saves, p)
  BY <1>4 DEF Started
<1>7. Once'
  BY <1>1, <1>4, <1>6, KeptTypes DEF Kept, Once
<1>8. LeftFirst'
  <2>1. ASSUME NEW i \in DOMAIN rows, rows[i].of \notin revived
        PROVE  Left(rows[i].of, row.queue, <<>>, 0)
    <3>1. Left(rows[i].of, row.queue, saves, 0) /\ 0 \notin DOMAIN saves
      BY <2>1, KeptTypes, LenProperties DEF Kept, LeftFirst
    <3> QED BY <3>1, <1>4 DEF Left
  <2> QED BY <2>1, <1>1, <1>4 DEF LeftFirst
<1> QED BY <1>2, <1>3, <1>5, <1>7, <1>8 DEF Kept

\* A withdrawal at another server reads the stored queue.
LEMMA RemoveReadsKeeps == ASSUME Kept, NEW i \in DOMAIN row.queue, RemoveReads(i) PROVE Kept'
<1>1. /\ removal' = RemoveAt(row.queue, i) /\ removals' = removals + 1
      /\ UNCHANGED <<sent, up, queue, running, said, history, saves, revived, row, rows>>
  BY DEF RemoveReads, agent, turn
<1>2. Proper(RemoveAt(row.queue, i), sent) /\ removals \in Nat
  BY KeptTypes, RemoveOfProper
<1>3. Queues'
  BY <1>1, <1>2 DEF Kept, Queues
<1>4. Types' /\ LastQueue'
  BY <1>1, <1>2 DEF Kept, Types, LastQueue
<1>5. Rest' /\ InOrder' /\ InHand' /\ Once' /\ LeftFirst'
  BY <1>1 DEF Kept, Rest, InOrder, InHand, Once, LeftFirst
<1> QED BY <1>3, <1>4, <1>5 DEF Kept

\* It writes back what it read: the prompts it puts back count as revived.
LEMMA RemoveWritesKeeps == ASSUME Kept, RemoveWrites PROVE Kept'
<1>1. /\ removal # Unknown /\ removal' = Unknown /\ row' = [row EXCEPT !.queue = removal]
      /\ revived' = revived \union (ToSet(removal) \ ToSet(row.queue))
      /\ UNCHANGED <<sent, up, queue, running, said, history, saves, removals, rows>>
  BY DEF RemoveWrites, agent, turn
<1>2. Proper(removal, sent) /\ removal \in Seq(Nat)
  BY <1>1, KeptTypes, ProperIsQueue DEF Kept, Queues
<1>3. row'.queue = removal /\ row' \in [queue : Seq(Nat), status : {"idle", "running", "failed"}]
  BY <1>1, <1>2, KeptTypes
<1>4. Types'
  BY <1>1, <1>3 DEF Kept, Types
<1>5. Queues'
  BY <1>1, <1>2, <1>3 DEF Kept, Queues
<1>6. removals # 0
  BY <1>1 DEF Kept, LastQueue
<1>7. \A p, k : p \notin revived' /\ Left(p, row.queue, saves, k) => Left(p, removal, saves, k)
  <2>1. \A p : p \notin revived' /\ ~Holds(row.queue, p) => ~Holds(removal, p)
    BY <1>1 DEF Holds, ToSet
  <2> QED BY <2>1 DEF Left
<1>8. Once' /\ LastQueue' /\ Rest' /\ InOrder' /\ InHand'
  BY <1>1, <1>6 DEF Kept, Once, LastQueue, Rest, InOrder, InHand
<1>9. LeftFirst'
  <2>1. \A p : p \notin revived' => p \notin revived
    BY <1>1
  <2>2. \A i \in DOMAIN rows : rows[i].of \notin revived' => Left(rows[i].of, removal, saves, 0)
    BY <2>1, <1>7 DEF Kept, LeftFirst
  <2>3. \A p, n : p \notin revived' /\ LeftBy(p, row.queue, saves, n)
                    => LeftBy(p, removal, saves, n)
    BY <1>7 DEF LeftBy
  <2>4. \A j \in DOMAIN saves : IsSaid(saves[j]) /\ saves[j].message.of \notin revived' =>
          LeftBy(saves[j].message.of, removal, saves, j - 1)
    BY <2>1, <2>3 DEF Kept, LeftFirst
  <2>5. running # 0 /\ running \notin revived' => LeftBy(running, removal, saves, Len(saves))
    BY <2>1, <2>3 DEF Kept, LeftFirst
  <2> QED BY <2>2, <2>4, <2>5, <1>1, <1>3 DEF LeftFirst
<1> QED BY <1>4, <1>5, <1>8, <1>9 DEF Kept
\* What a write leaves stored.
LEMMA WriteStores ==
  ASSUME Types, NEW w \in Item, Write(w)
  PROVE  /\ row'.queue = IF IsQueue(w) THEN w.queue ELSE row.queue
         /\ row' \in [queue : Seq(Nat), status : {"idle", "running", "failed"}]
         /\ rows' = IF IsSaid(w) THEN Append(rows, w.message) ELSE rows
         /\ IsSaid(w) => ~IsQueue(w) /\ w.message \in Said
<1>1. row \in [queue : Seq(Nat), status : {"idle", "running", "failed"}]
  BY DEF Types
<1>2. CASE w.kind = "queue"
  <2>1. w.queue \in Seq(Nat)
    BY <1>2 DEF Item
  <2>2. row' = [row EXCEPT !.queue = w.queue] /\ rows' = rows
    BY <1>2 DEF Write
  <2> QED BY <1>1, <1>2, <2>1, <2>2 DEF IsQueue, IsSaid
<1>3. CASE w.kind = "status"
  <2>1. w.status \in {"idle", "running", "failed"}
    BY <1>3 DEF Item
  <2>2. row' = [row EXCEPT !.status = w.status] /\ rows' = rows
    BY <1>3 DEF Write
  <2> QED BY <1>1, <1>3, <2>1, <2>2 DEF IsQueue, IsSaid
<1>4. CASE w.kind = "message"
  <2>1. w.message \in Said
    BY <1>4 DEF Item
  <2>2. row' = row /\ rows' = Append(rows, w.message)
    BY <1>4 DEF Write
  <2> QED BY <1>1, <1>4, <2>1, <2>2 DEF IsQueue, IsSaid
<1> QED BY <1>2, <1>3, <1>4 DEF Item

\* The oldest write is done: what comes next in the history is in the rows.
LEMMA SaveKeeps == ASSUME Kept, Save PROVE Kept'
<1> DEFINE w == Head(saves)
           t == Tail(saves)
<1>1. /\ saves # <<>> /\ Write(w) /\ saves' = t
      /\ UNCHANGED <<sent, up, queue, running, said, history, removal, removals, revived>>
  <2>1. saves # <<>> /\ Write(w) /\ saves' = t
    BY DEF Save
  <2>2. UNCHANGED <<sent, up, queue, running, said, history, removal, removals, revived>>
    BY <2>1 DEF Write, agent, turn
  <2> QED BY <2>1, <2>2
<1>2. /\ up /\ saves \in Seq(Item) /\ rows \in Seq(Said) /\ history \in Seq(Said)
      /\ {sent, running, said, removals} \subseteq Nat
  BY <1>1, KeptTypes
<1>3. /\ w = saves[1] /\ w \in Item /\ Len(saves) \in Nat /\ Len(saves) > 0
      /\ DOMAIN saves = 1..Len(saves) /\ t \in Seq(Item)
      /\ Len(t) = Len(saves) - 1 /\ DOMAIN t = 1..Len(t)
      /\ \A i \in 1..Len(t) : t[i] = saves[i + 1]
  BY <1>1, <1>2, EmptySeq, LenProperties, HeadTailProperties
<1>4. /\ row'.queue = IF IsQueue(w) THEN w.queue ELSE row.queue
      /\ row' \in [queue : Seq(Nat), status : {"idle", "running", "failed"}]
      /\ rows' = IF IsSaid(w) THEN Append(rows, w.message) ELSE rows
      /\ IsSaid(w) => ~IsQueue(w) /\ w.message \in Said
  <2> HIDE DEF w
  <2> QED BY <1>1, <1>3, WriteStores DEF Kept
<1>5. /\ ~IsSaid(w) => Chain(rows, t, history)
      /\ IsSaid(w) => /\ Chain(Append(rows, w.message), t, history)
                      /\ Len(rows) < Len(history) /\ history[Len(rows) + 1] = w.message
  <2>1. Chain(rows, saves, history)
    BY <1>2 DEF Kept, InHand
  <2> QED BY <2>1, <1>1, <1>2, ChainTail
<1>6. \A p : Started(rows', t, p) => Started(rows, saves, p)
  <2>1. CASE IsSaid(w)
    BY <2>1, <1>1, <1>2, <1>4, StartedTail
  <2>2. CASE ~IsSaid(w)
    BY <2>2, <1>1, <1>2, <1>4, StartedTail
  <2> QED BY <2>1, <2>2
<1>7. \A p : \A k \in Nat : Left(p, row.queue, saves, k) =>
               Left(p, row'.queue, t, IF k = 0 THEN 0 ELSE k - 1)
  <2> TAKE p
  <2> TAKE k \in Nat
  <2> HAVE Left(p, row.queue, saves, k)
  <2>1. Left(p, IF IsQueue(w) THEN w.queue ELSE row.queue, t, IF k = 0 THEN 0 ELSE k - 1)
    BY <1>1, <1>2, LeftTail
  <2> HIDE DEF w, t
  <2> QED BY <2>1, <1>4
<1>8. removals = 0 => \E q : Newest(q, t, queue) /\ (q = row'.queue \/ missed')
  <2> SUFFICES ASSUME removals = 0
               PROVE  \E q : Newest(q, t, queue) /\ (q = row'.queue \/ missed')
    OBVIOUS
  <2>1. PICK q : Newest(q, saves, queue) /\ (q = row.queue \/ missed)
    BY <1>2 DEF Kept, LastQueue
  <2>2. Newest(IF IsQueue(w) THEN w.queue ELSE q, t, queue)
    BY <2>1, <1>1, <1>2, NewestTail
  <2>3. ~IsQueue(w) /\ missed => missed'
    BY <1>1 DEF Write, IsQueue
  <2> HIDE DEF w, t
  <2> QED BY <2>1, <2>2, <2>3, <1>4
<1> HIDE DEF w, t
<1>9. Rest' /\ LastQueue' /\ InHand'
  <2>1. Rest'
    BY <1>1, <1>2 DEF Rest
  <2>2. LastQueue'
    BY <1>1, <1>8 DEF Kept, LastQueue
  <2>3. InHand'
    BY <1>1, <1>4, <1>5 DEF InHand
  <2> QED BY <2>1, <2>2, <2>3
<1>10. Types'
  <2>1. rows' \in Seq(Said)
    BY <1>2, <1>4, AppendProperties
  <2> QED BY <2>1, <1>1, <1>2, <1>3, <1>4 DEF Types
<1>11. \A i \in DOMAIN rows' : \/ i \in DOMAIN rows /\ rows'[i] = rows[i]
                               \/ IsSaid(w) /\ i = Len(rows) + 1 /\ rows'[i] = w.message
  <2>1. CASE IsSaid(w)
    BY <2>1, <1>2, <1>4, AppendProperties, LenProperties
  <2>2. CASE ~IsSaid(w)
    BY <2>2, <1>4
  <2> QED BY <2>1, <2>2
<1>12. InOrder'
  <2>1. Len(rows') <= Len(history)
    <3>1. CASE IsSaid(w)
      <4>1. Len(rows') = Len(rows) + 1
        BY <3>1, <1>2, <1>4, AppendProperties
      <4> QED BY <4>1, <3>1, <1>2, <1>5, LenProperties
    <3>2. CASE ~IsSaid(w)
      BY <3>2, <1>4 DEF Kept, InOrder
    <3> QED BY <3>1, <3>2
  <2>2. \A i \in DOMAIN rows' : rows'[i] = history[i]
    BY <1>5, <1>11 DEF Kept, InOrder
  <2> QED BY <2>1, <2>2, <1>1 DEF InOrder
<1>13. Queues'
  <2>1. ASSUME NEW i \in DOMAIN t, IsQueue(t[i]) PROVE Proper(t[i].queue, sent)
    <3>1. i + 1 \in DOMAIN saves /\ t[i] = saves[i + 1]
      BY <1>3, <2>1
    <3> QED BY <3>1, <2>1 DEF Kept, Queues
  <2>2. IsQueue(w) => Proper(w.queue, sent)
    <3>1. 1 \in DOMAIN saves
      BY <1>3
    <3> QED BY <3>1, <1>3 DEF Kept, Queues
  <2>3. Proper(row'.queue, sent)
    BY <2>2, <1>4 DEF Kept, Queues
  <2> QED BY <2>1, <2>3, <1>1 DEF Kept, Queues
<1>14. Once'
  BY <1>1, <1>6 DEF Kept, Once
<1>15. LeftFirst'
  <2>1. ASSUME NEW i \in DOMAIN rows', rows'[i].of \notin revived
        PROVE  Left(rows'[i].of, row'.queue, t, 0)
    <3>1. Left(rows'[i].of, row.queue, saves, 0)
      <4>1. CASE i \in DOMAIN rows /\ rows'[i] = rows[i]
        BY <4>1, <2>1 DEF Kept, LeftFirst
      <4>2. CASE IsSaid(w) /\ rows'[i] = w.message
        <5>1. 1 \in DOMAIN saves /\ 1 - 1 = 0
          BY <1>3
        <5>2. LeftBy(w.message.of, row.queue, saves, 1 - 1)
          BY <5>1, <4>2, <2>1, <1>3 DEF Kept, LeftFirst
        <5>3. PICK k \in 0..0 : Left(w.message.of, row.queue, saves, k)
          BY <5>1, <5>2 DEF LeftBy
        <5>4. k = 0
          OBVIOUS
        <5> QED BY <5>3, <5>4, <4>2
      <4> QED BY <4>1, <4>2, <1>11
    <3> QED BY <3>1, <1>7
  <2>2. ASSUME NEW j \in DOMAIN t, IsSaid(t[j]), t[j].message.of \notin revived
        PROVE  LeftBy(t[j].message.of, row'.queue, t, j - 1)
    <3>1. j + 1 \in DOMAIN saves /\ t[j] = saves[j + 1] /\ (j + 1) - 1 = j /\ j \in Nat /\ j > 0
      BY <1>3, <2>2
    <3>2. LeftBy(t[j].message.of, row.queue, saves, j)
      BY <3>1, <2>2 DEF Kept, LeftFirst
    <3>3. PICK k \in 0..j : Left(t[j].message.of, row.queue, saves, k)
      BY <3>2 DEF LeftBy
    <3>4. Left(t[j].message.of, row'.queue, t, IF k = 0 THEN 0 ELSE k - 1)
      BY <3>3, <1>7
    <3>5. (IF k = 0 THEN 0 ELSE k - 1) \in 0..(j - 1)
      BY <3>1, <3>3
    <3> QED BY <3>4, <3>5 DEF LeftBy
  <2>3. ASSUME running # 0, running \notin revived PROVE LeftBy(running, row'.queue, t, Len(t))
    <3>1. PICK k \in 0..Len(saves) : Left(running, row.queue, saves, k)
      BY <2>3 DEF Kept, LeftFirst, LeftBy
    <3>2. Left(running, row'.queue, t, IF k = 0 THEN 0 ELSE k - 1)
      BY <3>1, <1>3, <1>7
    <3>3. (IF k = 0 THEN 0 ELSE k - 1) \in 0..Len(t)
      BY <3>1, <1>3
    <3> QED BY <3>2, <3>3 DEF LeftBy
  <2> QED BY <2>1, <2>2, <2>3, <1>1 DEF LeftFirst
<1> QED BY <1>9, <1>10, <1>12, <1>13, <1>14, <1>15 DEF Kept

\* The oldest write fails: what it would have written is missing, and the others follow.
LEMMA SaveFailsKeeps == ASSUME Kept, Numbered, SaveFails PROVE Kept'
<1> DEFINE w == Head(saves)
           t == Tail(saves)
           n == Len(rows) + 1
<1>1. /\ saves # <<>> /\ saves' = t
      /\ UNCHANGED <<sent, up, queue, running, said, removal, removals, row, rows>>
      /\ ~IsSaid(w) => history' = history
      /\ IsSaid(w) => \E i \in DOMAIN history :
                        history[i] = w.message /\ history' = RemoveAt(history, i)
      /\ IsQueue(w) => missed' /\ revived' = revived \union (ToSet(row.queue) \ ToSet(w.queue))
      /\ ~IsQueue(w) => UNCHANGED <<missed, revived>>
  BY DEF SaveFails, turn, IsSaid, IsQueue
<1>2. /\ up /\ saves \in Seq(Item) /\ rows \in Seq(Said) /\ history \in Seq(Said)
      /\ {sent, running, said, removals} \subseteq Nat
      /\ row \in [queue : Seq(Nat), status : {"idle", "running", "failed"}]
  BY <1>1, KeptTypes
<1>3. /\ w = saves[1] /\ w \in Item /\ Len(saves) \in Nat /\ Len(saves) > 0
      /\ DOMAIN saves = 1..Len(saves) /\ t \in Seq(Item)
      /\ Len(t) = Len(saves) - 1 /\ DOMAIN t = 1..Len(t)
      /\ \A i \in 1..Len(t) : t[i] = saves[i + 1]
  BY <1>1, <1>2, EmptySeq, LenProperties, HeadTailProperties
<1>4. Chain(rows, saves, history)
  BY <1>2 DEF Kept, InHand
<1>5. IsSaid(w) => n \in DOMAIN history /\ history' = RemoveAt(history, n)
                   /\ Chain(rows, t, history')
  <2> SUFFICES ASSUME IsSaid(w)
               PROVE  n \in DOMAIN history /\ history' = RemoveAt(history, n)
                      /\ Chain(rows, t, history')
    OBVIOUS
  <2>1. n \in DOMAIN history /\ Chain(rows, t, RemoveAt(history, n))
    BY <1>1, <1>2, <1>4, ChainSkip
  <2>2. history[n] = w.message
    BY <1>1, <1>2, <1>4, ChainTail
  <2>3. PICK i \in DOMAIN history : history[i] = w.message /\ history' = RemoveAt(history, i)
    BY <1>1
  <2> HIDE DEF n, w
  <2>4. i = n
    BY <2>1, <2>2, <2>3 DEF Numbered
  <2> QED BY <2>1, <2>3, <2>4
<1>6. /\ ~IsSaid(w) => Chain(rows, t, history)
      /\ IsSaid(w) => /\ history' \in Seq(Said) /\ Len(history') = Len(history) - 1
                      /\ \A i \in 1..Len(history') :
                           history'[i] = IF i < n THEN history[i] ELSE history[i + 1]
  <2>1. ~IsSaid(w) => Chain(rows, t, history)
    BY <1>1, <1>2, <1>4, ChainTail
  <2> HIDE DEF n, w, t
  <2>2. IsSaid(w) => /\ history' \in Seq(Said) /\ Len(history') = Len(history) - 1
                     /\ \A i \in 1..Len(history') :
                          history'[i] = IF i < n THEN history[i] ELSE history[i + 1]
    <3> SUFFICES ASSUME IsSaid(w)
                 PROVE  /\ history' \in Seq(Said) /\ Len(history') = Len(history) - 1
                        /\ \A i \in 1..Len(history') :
                             history'[i] = IF i < n THEN history[i] ELSE history[i + 1]
      OBVIOUS
    <3>1. n \in DOMAIN history /\ history \in Seq(Said) /\ history' = RemoveAt(history, n)
      BY <1>2, <1>5
    <3>2. /\ RemoveAt(history, n) \in Seq(Said)
          /\ Len(RemoveAt(history, n)) = Len(history) - 1
          /\ \A i \in 1..Len(RemoveAt(history, n)) :
               RemoveAt(history, n)[i] = IF i < n THEN history[i] ELSE history[i + 1]
      BY Zenon, <3>1, Removed
    <3> QED BY <3>1, <3>2
  <2> QED BY <2>1, <2>2
<1>7. \A p : Started(rows, t, p) => Started(rows, saves, p)
  BY <1>1, <1>2, StartedTail
<1>8. ASSUME NEW p, p \notin revived', NEW k \in Nat, Left(p, row.queue, saves, k)
      PROVE  Left(p, row.queue, t, IF k = 0 THEN 0 ELSE k - 1)
  <2>1. ASSUME k = 1 PROVE ~Holds(row.queue, p)
    <3>1. IsQueue(w) /\ ~Holds(w.queue, p)
      BY <1>3, <1>8, <2>1 DEF Left
    <3>2. p \in ToSet(row.queue) => p \in ToSet(w.queue)
      BY <1>1, <1>8, <3>1
    <3> QED BY <3>1, <3>2 DEF Holds, ToSet
  <2> QED BY <1>1, <1>2, <1>8, <2>1, LeftSkip
<1>9. LastQueue'
  <2> SUFFICES ASSUME removals = 0
               PROVE  /\ removal = Unknown
                      /\ \E q : Newest(q, t, queue) /\ (q = row.queue \/ missed')
    BY <1>1 DEF LastQueue
  <2>1. removal = Unknown
    BY DEF Kept, LastQueue
  <2>2. PICK q : Newest(q, saves, queue) /\ (q = row.queue \/ missed)
    BY <1>2 DEF Kept, LastQueue
  <2>3. Newest(IF IsQueue(w) THEN w.queue ELSE q, t, queue)
    BY <2>2, <1>1, <1>2, NewestTail
  <2> HIDE DEF w, t
  <2> QED BY <2>1, <2>2, <2>3, <1>1
<1> HIDE DEF w, t, n
<1>10. Rest' /\ InHand' /\ Types'
  <2>1. Rest'
    BY <1>1, <1>2 DEF Rest
  <2>2. InHand'
    BY <1>1, <1>5, <1>6 DEF InHand
  <2>3. Types'
    BY <1>1, <1>2, <1>3, <1>6 DEF Types
  <2> QED BY <2>1, <2>2, <2>3
<1>11. InOrder'
  <2>1. CASE IsSaid(w)
    <3>1. /\ DOMAIN rows = 1..Len(rows) /\ Len(rows) \in Nat
          /\ DOMAIN history = 1..Len(history) /\ Len(history) \in Nat
      BY <1>2, LenProperties
    <3>2. Len(rows) < Len(history)
      BY <1>5, <2>1, <3>1 DEF n
    <3>3. \A i \in DOMAIN rows : i \in 1..Len(history') /\ i < n
      BY <1>6, <2>1, <3>1, <3>2 DEF n
    <3>4. \A i \in DOMAIN rows : rows[i] = history'[i]
      BY <1>6, <2>1, <3>3 DEF Kept, InOrder
    <3> QED BY <1>1, <1>6, <2>1, <3>1, <3>2, <3>4 DEF InOrder
  <2>2. CASE ~IsSaid(w)
    BY <1>1, <2>2 DEF Kept, InOrder
  <2> QED BY <2>1, <2>2
<1>12. Queues'
  <2>1. ASSUME NEW i \in DOMAIN t, IsQueue(t[i]) PROVE Proper(t[i].queue, sent)
    <3>1. i + 1 \in DOMAIN saves /\ t[i] = saves[i + 1]
      BY <1>3, <2>1
    <3> QED BY <3>1, <2>1 DEF Kept, Queues
  <2> QED BY <2>1, <1>1 DEF Kept, Queues
<1>13. \A p : p \notin revived' => p \notin revived
  BY <1>1
<1>14. Once'
  BY <1>1, <1>7, <1>13 DEF Kept, Once
<1>15. LeftFirst'
  <2>1. ASSUME NEW i \in DOMAIN rows, rows[i].of \notin revived'
        PROVE  Left(rows[i].of, row.queue, t, 0)
    <3>1. Left(rows[i].of, row.queue, saves, 0)
      BY <1>13, <2>1 DEF Kept, LeftFirst
    <3> QED BY <2>1, <3>1, <1>8
  <2>2. ASSUME NEW p, p \notin revived', NEW j \in Nat, LeftBy(p, row.queue, saves, j)
        PROVE  LeftBy(p, row.queue, t, IF j = 0 THEN 0 ELSE j - 1)
    <3>1. PICK k \in 0..j : Left(p, row.queue, saves, k)
      BY <2>2 DEF LeftBy
    <3>2. Left(p, row.queue, t, IF k = 0 THEN 0 ELSE k - 1)
      BY <2>2, <3>1, <1>8
    <3>3. (IF k = 0 THEN 0 ELSE k - 1) \in 0..(IF j = 0 THEN 0 ELSE j - 1)
      BY <2>2, <3>1
    <3> QED BY <3>2, <3>3 DEF LeftBy
  <2>3. ASSUME NEW j \in DOMAIN t, IsSaid(t[j]), t[j].message.of \notin revived'
        PROVE  LeftBy(t[j].message.of, row.queue, t, j - 1)
    <3>1. j + 1 \in DOMAIN saves /\ t[j] = saves[j + 1] /\ (j + 1) - 1 = j /\ j \in Nat /\ j > 0
      BY <1>3, <2>3
    <3>2. LeftBy(t[j].message.of, row.queue, saves, j)
      BY <1>13, <3>1, <2>3 DEF Kept, LeftFirst
    <3> QED BY <2>2, <2>3, <3>1, <3>2
  <2>4. ASSUME running # 0, running \notin revived' PROVE LeftBy(running, row.queue, t, Len(t))
    <3>1. LeftBy(running, row.queue, saves, Len(saves))
      BY <1>13, <2>4 DEF Kept, LeftFirst
    <3> QED BY <1>3, <2>2, <2>4, <3>1
  <2> QED BY <2>1, <2>3, <2>4, <1>1 DEF LeftFirst
<1> QED BY <1>9, <1>10, <1>11, <1>12, <1>14, <1>15 DEF Kept

\* The withdrawal elsewhere ends without its write.
LEMMA RemoveFailsKeeps == ASSUME Kept, RemoveFails PROVE Kept'
<1>1. /\ removal # Unknown /\ removal' = Unknown
      /\ UNCHANGED <<sent, up, queue, running, said, history, saves, removals, revived, missed,
                     row, rows>>
  BY DEF RemoveFails, agent, turn
<1>2. Queues' /\ Types'
  BY <1>1 DEF Kept, Queues, Types
<1>3. Rest' /\ InOrder' /\ InHand' /\ Once' /\ LeftFirst' /\ LastQueue'
  BY <1>1 DEF Kept, Rest, InOrder, InHand, Once, LeftFirst, LastQueue
<1> QED BY <1>2, <1>3 DEF Kept

\* Nobody has said anything.
LEMMA InitKept == ASSUME Init PROVE Kept
<1>1. /\ sent = 0 /\ up /\ queue = <<>> /\ running = 0 /\ said = 0 /\ history = <<>>
      /\ saves = <<>> /\ removal = Unknown /\ removals = 0 /\ rows = <<>>
      /\ row = [queue |-> <<>>, status |-> "idle"]
  BY DEF Init
<1>2. /\ <<>> \in Seq(Item) /\ <<>> \in Seq(Said) /\ <<>> \in Seq(Nat)
      /\ DOMAIN <<>> = {} /\ Len(<<>>) = 0 /\ Proper(<<>>, 0) /\ row.queue = <<>>
  BY <1>1 DEF Proper
<1>3. Rest /\ Types /\ InOrder
  BY <1>1, <1>2 DEF Rest, Types, InOrder
<1>4. InHand
  BY <1>1, <1>2, ChainStart DEF InHand
<1>5. Queues /\ LeftFirst /\ LastQueue
  BY <1>1, <1>2 DEF Queues, LeftFirst, LastQueue, Newest
<1>6. Once
  BY <1>1, <1>2 DEF Once, Started, Holds
<1> QED BY <1>3, <1>4, <1>5, <1>6 DEF Kept

\* The text that is only shown is no write.
LEMMA FlushKeeps == ASSUME Kept, Flush PROVE Kept'
<1>1. /\ saves' = saves \o <<>>
      /\ UNCHANGED <<sent, up, queue, running, said, history, removal, removals, revived,
                     missed, row, rows>>
  BY DEF Flush, Emit, elsewhere
<1>2. saves' = saves
  BY <1>1, KeptTypes, ConcatEmptySeq
<1> QED BY <1>1, <1>2, KeptTypes, SameKeeps

LEMMA StepKept == ASSUME Kept, Numbered, [Next]_vars PROVE Kept'
<1>0. said \in Nat /\ crashes \in Nat
  BY KeptTypes DEF Numbered
<1>1. CASE Submit BY <1>1, SubmitKeeps
<1>2. CASE Restore BY <1>2, RestoreKeeps
<1>3. ASSUME NEW i \in DOMAIN queue, Withdraw(i) PROVE Kept'
  BY <1>3, WithdrawKeeps
<1>4. CASE Stream
  BY <1>0, <1>4, SameKeeps DEF Stream, elsewhere
<1>5. CASE Flush BY <1>5, FlushKeeps
<1>6. CASE Say BY <1>0, <1>6, SayKeeps
<1>7. ASSUME NEW failed \in BOOLEAN, EndTurn(failed) PROVE Kept'
  BY <1>7, EndTurnKeeps
<1>8. CASE Crash BY <1>8, CrashKeeps
<1>9. CASE Save BY <1>9, SaveKeeps
<1>10. CASE SaveFails BY <1>10, SaveFailsKeeps
<1>11. CASE Deliver
  BY <1>0, <1>11, SameKeeps DEF Deliver, agent, turn, elsewhere
<1>12. CASE Lose
  BY <1>0, <1>12, SameKeeps DEF Lose, agent, turn
<1>13. ASSUME NEW i \in DOMAIN row.queue, RemoveReads(i) PROVE Kept'
  BY <1>13, RemoveReadsKeeps
<1>14. CASE RemoveWrites BY <1>14, RemoveWritesKeeps
<1>15. CASE RemoveFails BY <1>15, RemoveFailsKeeps
<1>16. CASE Upgrade
  BY <1>0, <1>16, SameKeeps DEF Upgrade, ElsewhereUnchanged, agent, turn, elsewhere
<1>17. CASE Subscribe
  BY <1>0, <1>17, SameKeeps DEF Subscribe, ElsewhereUnchanged, agent, turn, elsewhere
<1>18. CASE Drop
  BY <1>0, <1>18, SameKeeps DEF Drop, agent, turn
<1>19. CASE LoadRow
  BY <1>0, <1>19, SameKeeps DEF LoadRow, ElsewhereUnchanged, agent, turn, elsewhere
<1>20. CASE LoadReturns
  BY <1>0, <1>20, SameKeeps DEF LoadReturns, ElsewhereUnchanged, agent, turn, elsewhere
<1>21. CASE Receive
  BY <1>0, <1>21, SameKeeps DEF Receive, ElsewhereUnchanged, agent, turn, elsewhere
<1>22. CASE UNCHANGED vars
  BY <1>0, <1>22, SameKeeps DEF vars, agent, turn, elsewhere
<1> QED BY <1>1, <1>2, <1>3, <1>4, <1>5, <1>6, <1>7, <1>8, <1>9, <1>10, <1>11, <1>12, <1>13,
           <1>14, <1>15, <1>16, <1>17, <1>18, <1>19, <1>20, <1>21, <1>22 DEF Next

\* A step that adds no message, takes no prompt and gives none back.
LEMMA SameNumbered ==
  ASSUME Numbered, UNCHANGED <<sent, up, queue, running, said, crashes, history>>
  PROVE  Numbered'
  BY DEF Numbered

\* The head of the loop, on a queue of which this session has said nothing.
LEMMA PumpNumbered ==
  ASSUME Numbered, NEW q, NEW text, NEW before, Pump(q, text, before), Proper(q, sent'),
         sent' \in Nat, sent' >= sent, sent \in Nat, up', crashes' = crashes,
         \A i \in DOMAIN history' : i \in DOMAIN history /\ history'[i] = history[i],
         \A i \in DOMAIN history' : history'[i].run = crashes => ~Holds(q, history'[i].of)
  PROVE  Numbered'
<1>1. /\ queue' = (IF q = <<>> THEN q ELSE Tail(q)) /\ said' = 0
      /\ running' = (IF q = <<>> THEN 0 ELSE Head(q))
  BY DEF Pump
<1>2. q # <<>> => /\ Head(q) \in 1..sent' /\ Holds(q, Head(q)) /\ ~Holds(Tail(q), Head(q))
                  /\ \A p : Holds(Tail(q), p) => Holds(q, p)
  BY TailOfProper
<1>3. running' # 0 => ~Holds(queue', running')
  BY <1>1, <1>2
<1>4. ASSUME NEW i \in DOMAIN history'
      PROVE  /\ history'[i].of \in 1..sent' /\ history'[i].run <= crashes'
             /\ history'[i].run = crashes' =>
                  ~Holds(queue', history'[i].of) /\ history'[i].of # running'
  <2>1. history'[i].of \in 1..sent /\ history'[i].run <= crashes
    BY DEF Numbered
  <2>2. history'[i].of \in 1..sent' /\ history'[i].of # 0
    BY <2>1
  <2>3. history'[i].run = crashes => ~Holds(q, history'[i].of)
    OBVIOUS
  <2>4. CASE q = <<>>
    BY <1>1, <2>1, <2>2, <2>3, <2>4
  <2>5. CASE q # <<>>
    BY <1>1, <1>2, <2>1, <2>2, <2>3, <2>5
  <2> QED BY <2>4, <2>5
<1>5. \A i, j \in DOMAIN history' : history'[i] = history'[j] => i = j
  BY DEF Numbered
<1>6. crashes' \in Nat
  BY DEF Numbered
<1> QED BY <1>3, <1>4, <1>5, <1>6 DEF Numbered

LEMMA SubmitNumbered == ASSUME Kept, Numbered, Submit PROVE Numbered'
<1> DEFINE q == Append(queue, sent + 1)
<1>1. /\ sent' = sent + 1 /\ up' = up /\ up /\ UNCHANGED <<history, crashes>>
      /\ running = 0 => Pump(q, <<>>, <<QueueEvent(q)>>)
      /\ running # 0 => queue' = q /\ running' = running /\ said' = said
  BY DEF Submit
<1>2. Proper(q, sent + 1) /\ \A p : Holds(q, p) => Holds(queue, p) \/ p = sent + 1
  BY KeptTypes, AppendOfProper
<1> HIDE DEF q
<1>3. /\ sent \in Nat /\ running <= sent /\ running \in Nat
      /\ \A i \in DOMAIN history : history[i].of \in 1..sent /\ history[i].of \in 1..sent'
  BY <1>1, KeptTypes DEF Kept, Once, Numbered
<1>4. \A i \in DOMAIN history : history[i].run = crashes => ~Holds(q, history[i].of)
  BY <1>2, <1>3 DEF Numbered
<1>5. CASE running = 0
  <2>1. Pump(q, <<>>, <<QueueEvent(q)>>)
    BY <1>1, <1>5
  <2>2. sent' \in Nat /\ sent' >= sent /\ Proper(q, sent')
    BY <1>1, <1>2, <1>3
  <2> QED BY <1>1, <1>3, <1>4, <2>1, <2>2, PumpNumbered
<1>6. CASE running # 0
  <2>1. ~Holds(q, running)
    BY <1>2, <1>3, <1>6 DEF Numbered
  <2> QED BY <1>1, <1>3, <1>4, <1>6, <2>1 DEF Numbered
<1> QED BY <1>5, <1>6

\* What is restored was said by an earlier session.
LEMMA RestoreNumbered == ASSUME Kept, Numbered, Restore PROVE Numbered'
<1>1. ~up /\ up' /\ history' = rows /\ UNCHANGED <<sent, crashes>>
  BY DEF Restore
<1>2. \A i \in DOMAIN rows : i \in DOMAIN history /\ rows[i] = history[i]
  BY KeptTypes, LenProperties DEF Kept, InOrder
<1>3. \A i \in DOMAIN rows : rows[i].of \in 1..sent /\ rows[i].run < crashes
  BY <1>1, <1>2 DEF Numbered
<1>4. \A i \in DOMAIN rows : rows[i].run \in Nat
  <2>1. \A i \in DOMAIN rows : rows[i] \in Said
    BY KeptTypes, ElementOfSeq, LenProperties
  <2> QED BY <2>1 DEF Said
<1>5. \A i \in DOMAIN rows : rows[i].run <= crashes /\ rows[i].run # crashes
  BY <1>3, <1>4 DEF Numbered
<1>6. CASE row.queue # <<>>
  <2>1. Pump(row.queue, <<>>, <<QueueEvent(row.queue)>>)
    BY <1>6 DEF Restore
  <2>2. Proper(row.queue, sent) /\ sent \in Nat /\ sent' >= sent
    BY <1>1, KeptTypes
  <2> QED BY <1>1, <1>2, <1>5, <2>1, <2>2, PumpNumbered
<1>7. CASE row.queue = <<>>
  <2>1. UNCHANGED <<queue, running, said>>
    BY <1>7 DEF Restore
  <2>2. running = 0
    BY <1>1 DEF Kept, Rest
  <2>3. \A i, j \in DOMAIN rows : rows[i] = rows[j] => i = j
    BY <1>2 DEF Numbered
  <2> QED BY <1>1, <1>3, <1>5, <2>1, <2>2, <2>3 DEF Numbered
<1> QED BY <1>6, <1>7

LEMMA WithdrawNumbered ==
  ASSUME Kept, Numbered, NEW i \in DOMAIN queue, Withdraw(i) PROVE Numbered'
<1>1. /\ queue' = RemoveAt(queue, i)
      /\ UNCHANGED <<sent, up, running, said, history, crashes>>
  BY DEF Withdraw, turn
<1>2. \A p : Holds(queue', p) => Holds(queue, p)
  BY <1>1, KeptTypes, RemoveOfProper
<1> QED BY <1>1, <1>2 DEF Numbered

LEMMA EndTurnNumbered ==
  ASSUME Kept, Numbered, NEW failed \in BOOLEAN, EndTurn(failed) PROVE Numbered'
<1>1. PICK es : Pump(queue, Flushed, es)
  BY DEF EndTurn
<1>2. running # 0 /\ UNCHANGED <<sent, up, history, crashes>>
  BY DEF EndTurn
<1>3. up /\ Proper(queue, sent) /\ sent \in Nat /\ sent' >= sent
  BY <1>2, KeptTypes
<1>4. \A i \in DOMAIN history : history[i].run = crashes => ~Holds(queue, history[i].of)
  BY DEF Numbered
<1> QED BY <1>1, <1>2, <1>3, <1>4, PumpNumbered

\* The next message of the turn is a new one.
LEMMA SayNumbered == ASSUME Kept, Numbered, Say PROVE Numbered'
<1> DEFINE m == NextMessage
<1>1. /\ running # 0 /\ history' = Append(history, m) /\ said' = said + 1
      /\ UNCHANGED <<sent, up, queue, running, crashes>>
  BY DEF Say, Adds
<1>2. /\ running \in 1..sent /\ said \in Nat /\ crashes \in Nat /\ up
      /\ m \in Said /\ history \in Seq(Said)
  <2>1. /\ running \in Nat /\ said \in Nat /\ sent \in Nat /\ up /\ history \in Seq(Said)
        /\ running <= sent /\ crashes \in Nat
    BY <1>1, KeptTypes DEF Kept, Once, Numbered
  <2>2. said + 1 \in Nat /\ running \in 1..sent
    BY <1>1, <2>1
  <2> QED BY <2>1, <2>2 DEF NextMessage, Said
<1>3. m.of = running /\ m.part = said + 1 /\ m.run = crashes
  BY DEF NextMessage
<1> HIDE DEF m
<1>4. \A i \in DOMAIN history' :
        \/ i \in DOMAIN history /\ history'[i] = history[i] /\ i # Len(history) + 1
        \/ i = Len(history) + 1 /\ history'[i] = m
  BY <1>1, <1>2, AppendProperties, LenProperties
<1>5. \A i \in DOMAIN history : history[i].part \in Nat
  <2>1. \A i \in DOMAIN history : history[i] \in Said
    BY <1>2, ElementOfSeq, LenProperties
  <2> QED BY <2>1 DEF Said
<1>6. \A i \in DOMAIN history : history[i] # m
  <2> SUFFICES ASSUME NEW i \in DOMAIN history, history[i] = m PROVE FALSE
    OBVIOUS
  <2>1. said + 1 <= said
    BY <1>3 DEF Numbered
  <2> QED BY <2>1, <1>2
<1>7. \A i, j \in DOMAIN history' : history'[i] = history'[j] => i = j
  BY <1>4, <1>6 DEF Numbered
<1>8. ~Holds(queue, running)
  BY <1>1 DEF Numbered
<1>9. ASSUME NEW i \in DOMAIN history'
      PROVE  /\ history'[i].of \in 1..sent /\ history'[i].run <= crashes
             /\ history'[i].run = crashes =>
                  /\ ~Holds(queue, history'[i].of)
                  /\ history'[i].of = running => history'[i].part <= said + 1
  <2>1. CASE i = Len(history) + 1 /\ history'[i] = m
    BY <1>2, <1>3, <1>8, <2>1
  <2>2. CASE i \in DOMAIN history /\ history'[i] = history[i]
    BY <1>2, <1>5, <2>2 DEF Numbered
  <2> QED BY <1>4, <2>1, <2>2
<1> QED BY <1>1, <1>2, <1>7, <1>8, <1>9 DEF Numbered

\* All that was said is of a session that is gone.
LEMMA CrashNumbered == ASSUME Kept, Numbered, Crash PROVE Numbered'
<1>1. /\ crashes' = crashes + 1 /\ up' = FALSE /\ queue' = <<>> /\ running' = 0
      /\ UNCHANGED <<sent, history>>
  BY DEF Crash
<1>2. \A i \in DOMAIN history : history[i].run \in Nat
  <2>1. \A i \in DOMAIN history : history[i] \in Said
    BY KeptTypes, ElementOfSeq, LenProperties
  <2> QED BY <2>1 DEF Said
<1>3. /\ crashes + 1 \in Nat
      /\ \A i \in DOMAIN history :
           history[i].run < crashes + 1 /\ history[i].run # crashes + 1
           /\ history[i].run <= crashes + 1
  BY <1>2 DEF Numbered
<1> QED BY <1>1, <1>3 DEF Numbered

\* A message whose save failed is left out.
LEMMA SaveFailsNumbered == ASSUME Kept, Numbered, SaveFails PROVE Numbered'
<1>1. /\ UNCHANGED <<sent, up, queue, running, said, crashes>>
      /\ history' = history \/ \E k \in DOMAIN history : history' = RemoveAt(history, k)
  BY DEF SaveFails, turn
<1>2. CASE history' = history
  BY <1>1, <1>2, SameNumbered
<1>3. ASSUME NEW k \in DOMAIN history, history' = RemoveAt(history, k) PROVE Numbered'
  <2> DEFINE t == RemoveAt(history, k)
             At(i) == IF i < k THEN i ELSE i + 1
  <2>1. /\ Len(history) \in Nat /\ DOMAIN history = 1..Len(history) /\ k \in 1..Len(history)
        /\ history \in Seq(Said)
    BY KeptTypes, LenProperties
  <2>2. /\ t \in Seq(Said) /\ Len(t) = Len(history) - 1
        /\ \A i \in 1..Len(t) : t[i] = IF i < k THEN history[i] ELSE history[i + 1]
    BY Zenon, <2>1, Removed
  <2> HIDE DEF t
  <2>3. DOMAIN t = 1..(Len(history) - 1)
    BY <2>2, LenProperties
  <2>4. \A i \in DOMAIN t : At(i) \in DOMAIN history /\ t[i] = history[At(i)]
    BY <2>1, <2>2, <2>3
  <2>5. \A i, j \in DOMAIN t : At(i) = At(j) => i = j
    BY <2>1, <2>3
  <2> HIDE DEF At
  <2>6. \A i, j \in DOMAIN t : t[i] = t[j] => i = j
    BY <2>4, <2>5 DEF Numbered
  <2>7. history' = t
    BY <1>3 DEF t
  <2> QED BY <1>1, <2>4, <2>6, <2>7 DEF Numbered
<1> QED BY <1>1, <1>2, <1>3

LEMMA InitNumbered == ASSUME Init PROVE Numbered
<1>1. /\ crashes = 0 /\ history = <<>> /\ running = 0 /\ sent = 0 /\ up /\ queue = <<>>
      /\ said = 0
  BY DEF Init
<1> QED BY <1>1 DEF Numbered

LEMMA StepNumbered == ASSUME Kept, Numbered, [Next]_vars PROVE Numbered'
<1>1. CASE Submit BY <1>1, SubmitNumbered
<1>2. CASE Restore BY <1>2, RestoreNumbered
<1>3. ASSUME NEW i \in DOMAIN queue, Withdraw(i) PROVE Numbered'
  BY <1>3, WithdrawNumbered
<1>4. CASE Stream
  BY <1>4, SameNumbered DEF Stream
<1>5. CASE Flush
  BY <1>5, SameNumbered DEF Flush
<1>6. CASE Say BY <1>6, SayNumbered
<1>7. ASSUME NEW failed \in BOOLEAN, EndTurn(failed) PROVE Numbered'
  BY <1>7, EndTurnNumbered
<1>8. CASE Crash BY <1>8, CrashNumbered
<1>9. CASE Save
  <2>1. Write(Head(saves))
    BY <1>9 DEF Save
  <2> QED BY <2>1, SameNumbered DEF Write, agent, turn
<1>10. CASE SaveFails BY <1>10, SaveFailsNumbered
<1>11. CASE Deliver
  BY <1>11, SameNumbered DEF Deliver, agent, turn
<1>12. CASE Lose
  BY <1>12, SameNumbered DEF Lose, agent, turn
<1>13. ASSUME NEW i \in DOMAIN row.queue, RemoveReads(i) PROVE Numbered'
  BY <1>13, SameNumbered DEF RemoveReads, agent, turn
<1>14. CASE RemoveWrites
  BY <1>14, SameNumbered DEF RemoveWrites, agent, turn
<1>15. CASE RemoveFails
  BY <1>15, SameNumbered DEF RemoveFails, agent, turn
<1>16. CASE Upgrade
  BY <1>16, SameNumbered DEF Upgrade, ElsewhereUnchanged, agent, turn
<1>17. CASE Subscribe
  BY <1>17, SameNumbered DEF Subscribe, ElsewhereUnchanged, agent, turn
<1>18. CASE Drop
  BY <1>18, SameNumbered DEF Drop, agent, turn
<1>19. CASE LoadRow
  BY <1>19, SameNumbered DEF LoadRow, ElsewhereUnchanged, agent, turn
<1>20. CASE LoadReturns
  BY <1>20, SameNumbered DEF LoadReturns, ElsewhereUnchanged, agent, turn
<1>21. CASE Receive
  BY <1>21, SameNumbered DEF Receive, ElsewhereUnchanged, agent, turn
<1>22. CASE UNCHANGED vars
  BY <1>22, SameNumbered DEF vars, agent, turn
<1> QED BY <1>1, <1>2, <1>3, <1>4, <1>5, <1>6, <1>7, <1>8, <1>9, <1>10, <1>11, <1>12, <1>13,
           <1>14, <1>15, <1>16, <1>17, <1>18, <1>19, <1>20, <1>21, <1>22 DEF Next

LEMMA KeptIsStored == Kept => StoredStateWas
<1> SUFFICES ASSUME Kept PROVE StoredStateWas
  OBVIOUS
<1>1. /\ rows \in Seq(Said) /\ history \in Seq(Said) /\ row.queue \in Seq(Nat)
      /\ Len(rows) \in Nat /\ Len(history) \in Nat /\ Len(rows) <= Len(history)
      /\ DOMAIN rows = 1..Len(rows) /\ \A i \in 1..Len(rows) : rows[i] = history[i]
  BY KeptTypes, LenProperties, ProperIsQueue DEF Kept, InOrder
<1>2. IsPrefix(rows, history)
  <2>1. /\ SubSeq(history, 1, Len(rows)) \in Seq(Said)
        /\ Len(SubSeq(history, 1, Len(rows))) = Len(rows)
        /\ \A i \in 1..Len(rows) : SubSeq(history, 1, Len(rows))[i] = history[i]
    <3>1. \A i \in 1..Len(rows) : history[i] \in Said
      BY <1>1, ElementOfSeq
    <3> QED BY <3>1, <1>1, SubSeqProperties
  <2>2. rows = SubSeq(history, 1, Len(rows))
    BY <2>1, <1>1, SeqEqual
  <2> QED BY <2>2, <1>1 DEF IsPrefix
<1>3. ASSUME NEW i \in DOMAIN rows, Contains(row.queue, rows[i].of) PROVE rows[i].of \in revived
  <2>1. Holds(row.queue, rows[i].of)
    BY <1>1, <1>3, LenProperties DEF Contains, Holds
  <2>2. 0 \notin DOMAIN saves
    BY KeptTypes, LenProperties
  <2> QED BY <2>1, <2>2 DEF Kept, LeftFirst, Left
<1>4. up /\ saves = <<>> /\ removals = 0 /\ ~missed => row.queue = queue
  <2>1. DOMAIN <<>> = {}
    OBVIOUS
  <2> QED BY <2>1 DEF Kept, LastQueue, Newest, Ends
<1> QED BY <1>2, <1>3, <1>4 DEF StoredStateWas

\* persistMessage, persistQueue, saveQueue: for any number of prompts, messages, crashes,
\* withdrawals and writes that fail, the rows are the oldest messages of the history but those
\* whose save failed; whoever has a message among them has left the stored queue, unless a
\* withdrawal at another server put it back or a failed write left it there; and a session
\* with nothing under way has stored its queue, unless the last write of it failed.
THEOREM HistoryIsStored == Spec => []StoredStateWas
<1>1. Init => Kept /\ Numbered
  BY InitKept, InitNumbered
<1>2. Kept /\ Numbered /\ [Next]_vars => Kept' /\ Numbered'
  BY StepKept, StepNumbered
<1>3. Kept /\ Numbered => StoredStateWas
  BY KeptIsStored
<1> QED BY <1>1, <1>2, <1>3, PTL DEF Spec

-----------------------------------------------------------------------------
\* The client: frames on their way and what the screen will be behind them.

\* What the client is sent, and what it shows.
Statuses == {"idle", "running", "failed"}
Frame == Item \union [kind : {"chunk"}, texts : SUBSET Said]
Screen == [status : Statuses, queue : Seq(Nat) \union {Unknown}, messages : Seq(Said),
           bubble : SUBSET Said]

IsStatus(e) == e.kind = "status"
IsChunk(e)  == e.kind = "chunk"

QueueFrames     == {e \in Frame : IsQueue(e)}
QueueFrame(q)   == {e \in Frame : IsQueue(e) /\ e.queue = q}
StatusFrames    == {e \in Frame : IsStatus(e)}
StatusFrame(s)  == {e \in Frame : IsStatus(e) /\ e.status = s}
MessageFrame(m) == {e \in Frame : IsSaid(e) /\ e.message = m}
Chunks          == {e \in Frame : IsChunk(e)}
ChunksOf(m)     == {e \in Frame : IsChunk(e) /\ m \in e.texts}

\* Behind the i-th of the frames es none is of the kind K; the last of the kind K there is
\* followed, or is itself, one of the kind G; exactly one is of the kind K.
Quiet(es, i, K) == \A j \in DOMAIN es : j > i => es[j] \notin K
Settles(es, i, K, G) == \E k \in DOMAIN es : k > i /\ es[k] \in G /\ Quiet(es, k, K)
Single(es, i, K) ==
  \E k \in DOMAIN es : /\ k > i /\ es[k] \in K
                       /\ \A j \in DOMAIN es : j > i /\ j # k => es[j] \notin K

OnlyOnce(ms, m) == \E i \in DOMAIN ms : \A j \in DOMAIN ms : ms[j] = m <=> j = i

\* What the screen v will be when the frames es behind the i-th have arrived.
QueueWillBe(v, es, i, q) ==
  Settles(es, i, QueueFrames, QueueFrame(q)) \/ (v.queue = q /\ Quiet(es, i, QueueFrames))
StatusWillBe(v, es, i, s) ==
  Settles(es, i, StatusFrames, StatusFrame(s)) \/ (v.status = s /\ Quiet(es, i, StatusFrames))
BubbleGoes(v, es, i) ==
  Settles(es, i, Chunks, StatusFrame("idle")) \/ (v.bubble = {} /\ Quiet(es, i, Chunks))
MessageOnce(v, es, i, m) ==
  \/ OnlyOnce(v.messages, m) /\ Quiet(es, i, MessageFrame(m))
  \/ ~Holds(v.messages, m) /\ Single(es, i, MessageFrame(m))
TextFirst(v, es, i, m) ==
  /\ Holds(v.messages, m) => m \notin v.bubble /\ Quiet(es, i, ChunksOf(m))
  /\ \A k \in DOMAIN es : k > i /\ es[k] \in MessageFrame(m) => Quiet(es, k, ChunksOf(m))

-----------------------------------------------------------------------------
\* The next frame, and what the others still are.
LEMMA Behind ==
  ASSUME NEW es \in Seq(Frame), NEW i \in Nat, i < Len(es)
  PROVE  /\ i + 1 \in DOMAIN es /\ es[i + 1] \in Frame
         /\ \A K : Quiet(es, i, K) => es[i + 1] \notin K /\ Quiet(es, i + 1, K)
         /\ \A K, G : Settles(es, i, K, G) =>
              Settles(es, i + 1, K, G) \/ (es[i + 1] \in G /\ Quiet(es, i + 1, K))
         /\ \A K : Single(es, i, K) =>
              \/ es[i + 1] \in K /\ Quiet(es, i + 1, K)
              \/ es[i + 1] \notin K /\ Single(es, i + 1, K)
<1>1. DOMAIN es = 1..Len(es) /\ Len(es) \in Nat
  BY LenProperties
<1>2. i + 1 \in DOMAIN es /\ es[i + 1] \in Frame
  BY <1>1, ElementOfSeq
<1>3. \A j \in DOMAIN es : (j > i <=> j > i + 1 \/ j = i + 1) /\ (j = i + 1 => ~(j > i + 1))
  BY <1>1
<1>4. ASSUME NEW K, Quiet(es, i, K) PROVE es[i + 1] \notin K /\ Quiet(es, i + 1, K)
  BY <1>2, <1>3, <1>4 DEF Quiet
<1>5. ASSUME NEW K, NEW G, Settles(es, i, K, G)
      PROVE  Settles(es, i + 1, K, G) \/ (es[i + 1] \in G /\ Quiet(es, i + 1, K))
  <2>1. PICK k \in DOMAIN es : k > i /\ es[k] \in G /\ Quiet(es, k, K)
    BY <1>5 DEF Settles
  <2>2. k > i + 1 \/ k = i + 1
    BY <1>3, <2>1
  <2> QED BY <2>1, <2>2 DEF Settles
<1>6. ASSUME NEW K, Single(es, i, K)
      PROVE  \/ es[i + 1] \in K /\ Quiet(es, i + 1, K)
             \/ es[i + 1] \notin K /\ Single(es, i + 1, K)
  <2>1. PICK k \in DOMAIN es : /\ k > i /\ es[k] \in K
                               /\ \A j \in DOMAIN es : j > i /\ j # k => es[j] \notin K
    BY <1>6 DEF Single
  <2>2. CASE k = i + 1
    <3>1. Quiet(es, i + 1, K)
      BY <1>3, <2>1, <2>2 DEF Quiet
    <3> QED BY <2>1, <2>2, <3>1
  <2>3. CASE k > i + 1
    <3>1. es[i + 1] \notin K
      BY <1>2, <1>3, <2>1, <2>3
    <3>2. Single(es, i + 1, K)
      BY <1>3, <2>1, <2>3 DEF Single
    <3> QED BY <3>1, <3>2
  <2> QED BY <1>3, <2>1, <2>2, <2>3
<1> QED BY <1>2, <1>4, <1>5, <1>6

\* The first frame has gone.
LEMMA Shifted ==
  ASSUME NEW es \in Seq(Frame), es # <<>>
  PROVE  /\ Tail(es) \in Seq(Frame)
         /\ \A K : Quiet(es, 1, K) => Quiet(Tail(es), 0, K)
         /\ \A K, G : Settles(es, 1, K, G) => Settles(Tail(es), 0, K, G)
         /\ \A K : Single(es, 1, K) => Single(Tail(es), 0, K)
<1> DEFINE t == Tail(es)
<1>1. /\ Len(es) \in Nat /\ Len(es) > 0 /\ DOMAIN es = 1..Len(es) /\ t \in Seq(Frame)
      /\ Len(t) = Len(es) - 1 /\ DOMAIN t = 1..Len(t)
      /\ \A i \in 1..Len(t) : t[i] = es[i + 1]
  BY EmptySeq, LenProperties, HeadTailProperties
<1> HIDE DEF t
<1>2. ASSUME NEW j \in DOMAIN t
      PROVE  j + 1 \in DOMAIN es /\ t[j] = es[j + 1] /\ j + 1 > 1 /\ j > 0 /\ j \in Nat
  BY <1>1, <1>2
<1>3. ASSUME NEW k \in DOMAIN es, k > 1
      PROVE  k - 1 \in DOMAIN t /\ t[k - 1] = es[k] /\ k - 1 > 0 /\ k \in Nat
  <2>1. k - 1 \in 1..Len(t) /\ (k - 1) + 1 = k /\ k \in Nat
    BY <1>1, <1>3
  <2> QED BY <1>1, <2>1
<1>4. ASSUME NEW K, NEW k \in DOMAIN es, k >= 1, Quiet(es, k, K) PROVE Quiet(t, k - 1, K)
  <2>1. SUFFICES ASSUME NEW j \in DOMAIN t, j > k - 1 PROVE t[j] \notin K
    BY DEF Quiet
  <2>2. j + 1 > k
    BY <1>1, <1>2, <2>1
  <2> QED BY <1>2, <1>4, <2>2 DEF Quiet
<1>5. ASSUME NEW K, Quiet(es, 1, K) PROVE Quiet(t, 0, K)
  <2>1. 1 \in DOMAIN es /\ 1 - 1 = 0
    BY <1>1
  <2> QED BY <1>4, <1>5, <2>1
<1>6. ASSUME NEW K, NEW G, Settles(es, 1, K, G) PROVE Settles(t, 0, K, G)
  <2>1. PICK k \in DOMAIN es : k > 1 /\ es[k] \in G /\ Quiet(es, k, K)
    BY <1>6 DEF Settles
  <2>2. k >= 1
    BY <1>1, <2>1
  <2>3. Quiet(t, k - 1, K)
    BY <1>4, <2>1, <2>2
  <2>4. k - 1 \in DOMAIN t /\ t[k - 1] \in G /\ k - 1 > 0
    BY <1>3, <2>1
  <2> QED BY <2>3, <2>4 DEF Settles
<1>7. ASSUME NEW K, Single(es, 1, K) PROVE Single(t, 0, K)
  <2>1. PICK k \in DOMAIN es : /\ k > 1 /\ es[k] \in K
                               /\ \A j \in DOMAIN es : j > 1 /\ j # k => es[j] \notin K
    BY <1>7 DEF Single
  <2>2. k - 1 \in DOMAIN t /\ t[k - 1] \in K /\ k - 1 > 0 /\ k \in Nat
    BY <1>3, <2>1
  <2>3. ASSUME NEW j \in DOMAIN t, j # k - 1 PROVE t[j] \notin K
    <3>1. j + 1 \in DOMAIN es /\ t[j] = es[j + 1] /\ j + 1 > 1 /\ j \in Nat
      BY <1>2
    <3>2. j + 1 # k
      BY <2>2, <2>3, <3>1
    <3> QED BY <2>1, <3>1, <3>2
  <2> QED BY <2>2, <2>3 DEF Single
<1> QED BY <1>1, <1>5, <1>6, <1>7 DEF t

\* More frames come behind.
LEMMA JoinFrames ==
  ASSUME NEW a \in Seq(Frame), NEW b \in Seq(Frame)
  PROVE  /\ a \o b \in Seq(Frame) /\ Len(a \o b) = Len(a) + Len(b)
         /\ \A i \in DOMAIN a : i \in DOMAIN (a \o b) /\ (a \o b)[i] = a[i] /\ i <= Len(a) /\ i > 0
         /\ \A i \in DOMAIN b : /\ Len(a) + i \in DOMAIN (a \o b) /\ Len(a) + i > Len(a)
                                /\ (a \o b)[Len(a) + i] = b[i]
         /\ \A i \in DOMAIN (a \o b) :
              \/ i \in DOMAIN a
              \/ i - Len(a) \in DOMAIN b /\ i > Len(a) /\ (a \o b)[i] = b[i - Len(a)]
<1>1. /\ a \o b \in Seq(Frame) /\ Len(a \o b) = Len(a) + Len(b)
      /\ \A i \in 1..(Len(a) + Len(b)) :
           (a \o b)[i] = IF i <= Len(a) THEN a[i] ELSE b[i - Len(a)]
  BY ConcatProperties
<1>2. DOMAIN a = 1..Len(a) /\ DOMAIN b = 1..Len(b) /\ Len(a) \in Nat /\ Len(b) \in Nat
  BY LenProperties
<1>3. DOMAIN (a \o b) = 1..(Len(a) + Len(b))
  BY <1>1, LenProperties
<1> QED BY <1>1, <1>2, <1>3

\* Two sequences of frames and the kinds in them.
LEMMA JoinKinds ==
  ASSUME NEW a \in Seq(Frame), NEW b \in Seq(Frame)
  PROVE  /\ \A K : Quiet(a, 0, K) /\ Quiet(b, 0, K) => Quiet(a \o b, 0, K)
         /\ \A K : \A k \in DOMAIN a : Quiet(a, k, K) /\ Quiet(b, 0, K) => Quiet(a \o b, k, K)
         /\ \A K, G : Settles(b, 0, K, G) => Settles(a \o b, 0, K, G)
         /\ \A K, G : Settles(a, 0, K, G) /\ Quiet(b, 0, K) => Settles(a \o b, 0, K, G)
         /\ \A K : Single(a, 0, K) /\ Quiet(b, 0, K) => Single(a \o b, 0, K)
         /\ \A K : Quiet(a, 0, K) /\ Single(b, 0, K) => Single(a \o b, 0, K)
<1> DEFINE t == a \o b
<1>1. DOMAIN a = 1..Len(a) /\ DOMAIN b = 1..Len(b) /\ Len(a) \in Nat /\ Len(b) \in Nat
  BY LenProperties
<1>2. /\ \A i \in DOMAIN a : i \in DOMAIN t /\ t[i] = a[i] /\ i <= Len(a) /\ i > 0
      /\ \A i \in DOMAIN b : Len(a) + i \in DOMAIN t /\ Len(a) + i > Len(a) /\ t[Len(a) + i] = b[i]
      /\ \A i \in DOMAIN t : \/ i \in DOMAIN a
                             \/ i - Len(a) \in DOMAIN b /\ i > Len(a) /\ t[i] = b[i - Len(a)]
      /\ DOMAIN t \subseteq Nat
  BY JoinFrames, LenProperties
<1> HIDE DEF t
<1>3. ASSUME NEW K, NEW k \in Nat, Quiet(a, k, K), Quiet(b, 0, K) PROVE Quiet(t, k, K)
  <2>1. SUFFICES ASSUME NEW j \in DOMAIN t, j > k PROVE t[j] \notin K
    BY DEF Quiet
  <2>2. CASE j \in DOMAIN a
    BY <1>2, <1>3, <2>1, <2>2 DEF Quiet
  <2>3. CASE j - Len(a) \in DOMAIN b /\ t[j] = b[j - Len(a)]
    <3>1. j - Len(a) > 0
      BY <1>1, <2>3
    <3> QED BY <1>3, <2>3, <3>1 DEF Quiet
  <2> QED BY <1>2, <2>2, <2>3
<1>4. ASSUME NEW K, NEW k \in DOMAIN b, Quiet(b, k, K) PROVE Quiet(t, Len(a) + k, K)
  <2>1. SUFFICES ASSUME NEW j \in DOMAIN t, j > Len(a) + k PROVE t[j] \notin K
    BY DEF Quiet
  <2>2. j \notin DOMAIN a
    <3>1. j > Len(a)
      BY <1>1, <1>2, <2>1
    <3> QED BY <1>1, <1>2, <3>1
  <2>3. j - Len(a) \in DOMAIN b /\ t[j] = b[j - Len(a)]
    BY <1>2, <2>2
  <2>4. j - Len(a) > k
    BY <1>1, <1>2, <2>1
  <2> QED BY <1>4, <2>3, <2>4 DEF Quiet
<1>5. ASSUME NEW K, NEW G, Settles(b, 0, K, G) PROVE Settles(t, 0, K, G)
  <2>1. PICK k \in DOMAIN b : b[k] \in G /\ Quiet(b, k, K)
    BY <1>5 DEF Settles
  <2>2. Len(a) + k \in DOMAIN t /\ Len(a) + k > 0 /\ t[Len(a) + k] \in G
    BY <1>1, <1>2, <2>1
  <2> QED BY <1>4, <2>1, <2>2 DEF Settles
<1>6. ASSUME NEW K, NEW G, Settles(a, 0, K, G), Quiet(b, 0, K) PROVE Settles(t, 0, K, G)
  <2>1. PICK k \in DOMAIN a : k > 0 /\ a[k] \in G /\ Quiet(a, k, K)
    BY <1>6 DEF Settles
  <2>2. k \in DOMAIN t /\ t[k] \in G /\ k \in Nat
    BY <1>1, <1>2, <2>1
  <2> QED BY <1>3, <1>6, <2>1, <2>2 DEF Settles
<1>7. ASSUME NEW K, Single(a, 0, K), Quiet(b, 0, K) PROVE Single(t, 0, K)
  <2>1. PICK k \in DOMAIN a : /\ k > 0 /\ a[k] \in K
                              /\ \A j \in DOMAIN a : j > 0 /\ j # k => a[j] \notin K
    BY <1>7 DEF Single
  <2>2. k \in DOMAIN t /\ t[k] \in K
    BY <1>2, <2>1
  <2>3. ASSUME NEW j \in DOMAIN t, j # k PROVE t[j] \notin K
    <3>1. CASE j \in DOMAIN a
      BY <1>2, <2>1, <2>3, <3>1
    <3>2. CASE j - Len(a) \in DOMAIN b /\ j > Len(a) /\ t[j] = b[j - Len(a)]
      <4>1. j - Len(a) > 0
        BY <1>1, <3>2
      <4> QED BY <1>7, <3>2, <4>1 DEF Quiet
    <3> QED BY <1>2, <3>1, <3>2
  <2> QED BY <2>1, <2>2, <2>3 DEF Single
<1>8. ASSUME NEW K, Quiet(a, 0, K), Single(b, 0, K) PROVE Single(t, 0, K)
  <2>1. PICK k \in DOMAIN b : /\ b[k] \in K
                              /\ \A j \in DOMAIN b : j > 0 /\ j # k => b[j] \notin K
    BY <1>8 DEF Single
  <2>2. Len(a) + k \in DOMAIN t /\ Len(a) + k > 0 /\ t[Len(a) + k] \in K
    BY <1>1, <1>2, <2>1
  <2>3. ASSUME NEW j \in DOMAIN t, j # Len(a) + k PROVE t[j] \notin K
    <3>1. CASE j \in DOMAIN a
      BY <1>2, <1>8, <3>1 DEF Quiet
    <3>2. CASE j - Len(a) \in DOMAIN b /\ j > Len(a) /\ t[j] = b[j - Len(a)]
      <4>1. j - Len(a) > 0 /\ j - Len(a) # k
        BY <1>1, <2>3, <3>2
      <4> QED BY <2>1, <3>2, <4>1
    <3> QED BY <1>2, <3>1, <3>2
  <2> QED BY <2>2, <2>3 DEF Single
<1>9. 0 \in Nat /\ DOMAIN a \subseteq Nat
  BY <1>1
<1> QED BY <1>3, <1>5, <1>6, <1>7, <1>8, <1>9 DEF t

\* A text stays before its message when frames come that do not repeat it.
LEMMA TextJoin ==
  ASSUME NEW a \in Seq(Frame), NEW b \in Seq(Frame), NEW v, NEW m
  PROVE  /\ TextFirst(v, a, 0, m) /\ Quiet(b, 0, ChunksOf(m)) => TextFirst(v, a \o b, 0, m)
         /\ /\ ~Holds(v.messages, m) /\ Quiet(a, 0, MessageFrame(m))
            /\ Quiet(b, 0, MessageFrame(m))
            => TextFirst(v, a \o b, 0, m)
<1> DEFINE t == a \o b
           C == ChunksOf(m)
           M == MessageFrame(m)
<1>1. /\ \A i \in DOMAIN a : i \in DOMAIN t /\ t[i] = a[i] /\ i > 0
      /\ \A i \in DOMAIN t : \/ i \in DOMAIN a
                             \/ i - Len(a) \in DOMAIN b /\ i > Len(a) /\ t[i] = b[i - Len(a)]
      /\ DOMAIN t \subseteq Nat /\ DOMAIN b = 1..Len(b) /\ Len(a) \in Nat /\ DOMAIN a = 1..Len(a)
      /\ Len(b) \in Nat
  BY JoinFrames, LenProperties
<1>2. /\ \A K : Quiet(a, 0, K) /\ Quiet(b, 0, K) => Quiet(t, 0, K)
      /\ \A K : \A k \in DOMAIN a : Quiet(a, k, K) /\ Quiet(b, 0, K) => Quiet(t, k, K)
  BY JoinKinds
<1> HIDE DEF t, C, M
<1>3. ASSUME TextFirst(v, a, 0, m), Quiet(b, 0, C) PROVE TextFirst(v, t, 0, m)
  <2>0. /\ Holds(v.messages, m) => m \notin v.bubble /\ Quiet(a, 0, C)
        /\ \A k \in DOMAIN a : k > 0 /\ a[k] \in M => Quiet(a, k, C)
    BY <1>3 DEF TextFirst, C, M
  <2>1. Holds(v.messages, m) => m \notin v.bubble /\ Quiet(t, 0, C)
    BY <2>0, <1>2, <1>3
  <2>2. ASSUME NEW k \in DOMAIN t, t[k] \in M PROVE Quiet(t, k, C)
    <3>1. CASE k \in DOMAIN a
      BY <3>1, <2>0, <2>2, <1>1, <1>2, <1>3
    <3>2. CASE k - Len(a) \in DOMAIN b /\ k > Len(a)
      <4>1. SUFFICES ASSUME NEW j \in DOMAIN t, j > k PROVE t[j] \notin C
        BY DEF Quiet
      <4>2. j \notin DOMAIN a
        BY <1>1, <3>2, <4>1
      <4>3. j - Len(a) \in DOMAIN b /\ t[j] = b[j - Len(a)] /\ j - Len(a) > 0
        BY <1>1, <4>2
      <4> QED BY <1>3, <4>3 DEF Quiet
    <3> QED BY <1>1, <3>1, <3>2
  <2> QED BY <2>1, <2>2 DEF TextFirst, C, M
<1>4. ASSUME ~Holds(v.messages, m), Quiet(a, 0, M), Quiet(b, 0, M) PROVE TextFirst(v, t, 0, m)
  <2>1. Quiet(t, 0, M)
    BY <1>2, <1>4
  <2>2. \A k \in DOMAIN t : k > 0 => t[k] \notin M
    BY <2>1 DEF Quiet
  <2> QED BY <1>4, <2>2 DEF TextFirst, M
<1> QED BY <1>3, <1>4 DEF t, C, M

-----------------------------------------------------------------------------
\* The reducer, kind by kind.
LEMMA Reduced ==
  ASSUME NEW v \in Screen, NEW e \in Frame
  PROVE  /\ Reduce(v, e) \in Screen
         /\ Reduce(v, e).queue = IF IsQueue(e) THEN e.queue ELSE v.queue
         /\ Reduce(v, e).status = IF IsStatus(e) THEN e.status ELSE v.status
         /\ Reduce(v, e).messages = IF IsSaid(e) THEN Append(v.messages, e.message)
                                    ELSE v.messages
         /\ Reduce(v, e).bubble = IF IsSaid(e) \/ (IsStatus(e) /\ e.status = "idle") THEN {}
                                  ELSE IF IsChunk(e) THEN v.bubble \union e.texts ELSE v.bubble
         /\ IsSaid(e) => e.message \in Said
         /\ ~IsChunk(e) \/ ~(IsQueue(e) \/ IsStatus(e) \/ IsSaid(e))
         /\ ~IsStatus(e) \/ ~(IsQueue(e) \/ IsSaid(e))
         /\ ~IsSaid(e) \/ ~IsQueue(e)
<1>0. /\ v.status \in Statuses /\ v.queue \in Seq(Nat) \union {Unknown}
      /\ v.messages \in Seq(Said) /\ v.bubble \in SUBSET Said
      /\ v = [status |-> v.status, queue |-> v.queue, messages |-> v.messages,
              bubble |-> v.bubble]
  BY DEF Screen
<1>1. CASE e.kind = "queue"
  <2>1. e.queue \in Seq(Nat)
    BY <1>1 DEF Frame, Item
  <2>2. Reduce(v, e) = [v EXCEPT !.queue = e.queue]
    BY <1>1 DEF Reduce
  <2> QED BY <1>0, <1>1, <2>1, <2>2 DEF Screen, IsQueue, IsStatus, IsSaid, IsChunk
<1>2. CASE e.kind = "status"
  <2>1. e.status \in Statuses
    BY <1>2 DEF Frame, Item, Statuses
  <2>2. Reduce(v, e) = [v EXCEPT !.status = e.status,
                                 !.bubble = IF e.status = "idle" THEN {} ELSE @]
    BY <1>2 DEF Reduce
  <2> QED BY <1>0, <1>2, <2>1, <2>2 DEF Screen, IsQueue, IsStatus, IsSaid, IsChunk
<1>3. CASE e.kind = "message"
  <2>1. e.message \in Said
    BY <1>3 DEF Frame, Item
  <2>2. Reduce(v, e) = [v EXCEPT !.messages = Append(@, e.message), !.bubble = {}]
    BY <1>3 DEF Reduce
  <2>3. Append(v.messages, e.message) \in Seq(Said)
    BY <1>0, <2>1
  <2> QED BY <1>0, <1>3, <2>1, <2>2, <2>3 DEF Screen, IsQueue, IsStatus, IsSaid, IsChunk
<1>4. CASE e.kind = "chunk"
  <2>1. e.texts \in SUBSET Said
    BY <1>4 DEF Frame, Item
  <2>2. Reduce(v, e) = [v EXCEPT !.bubble = @ \union e.texts]
    BY <1>4 DEF Reduce
  <2> QED BY <1>0, <1>4, <2>1, <2>2 DEF Screen, IsQueue, IsStatus, IsSaid, IsChunk
<1> QED BY <1>1, <1>2, <1>3, <1>4 DEF Frame, Item

\* A message comes to the end of those that are shown.
LEMMA ShowsMessage ==
  ASSUME NEW ms \in Seq(Said), NEW x \in Said
  PROVE  /\ \A m : Holds(Append(ms, x), m) <=> Holds(ms, m) \/ m = x
         /\ \A m : OnlyOnce(ms, m) /\ m # x => OnlyOnce(Append(ms, x), m)
         /\ ~Holds(ms, x) => OnlyOnce(Append(ms, x), x)
<1> DEFINE t == Append(ms, x)
           n == Len(ms) + 1
<1>1. /\ DOMAIN ms = 1..Len(ms) /\ Len(ms) \in Nat /\ DOMAIN t = 1..n /\ t[n] = x
      /\ \A i \in DOMAIN ms : t[i] = ms[i]
  BY LenProperties, AppendProperties
<1>2. /\ n \in DOMAIN t /\ n \notin DOMAIN ms /\ DOMAIN ms \subseteq DOMAIN t
      /\ \A i \in DOMAIN t : i \in DOMAIN ms \/ i = n
  BY <1>1
<1> HIDE DEF t, n
<1>3. \A m : Holds(t, m) <=> Holds(ms, m) \/ m = x
  BY <1>1, <1>2 DEF Holds
<1>4. ASSUME NEW m, OnlyOnce(ms, m), m # x PROVE OnlyOnce(t, m)
  BY <1>1, <1>2, <1>4 DEF OnlyOnce
<1>5. ASSUME ~Holds(ms, x) PROVE OnlyOnce(t, x)
  BY <1>1, <1>2, <1>5 DEF OnlyOnce, Holds
<1> QED BY <1>3, <1>4, <1>5 DEF t

\* The next frame arrives: what the screen will be is what it would have been.
LEMMA NextFrame ==
  ASSUME NEW v \in Screen, NEW es \in Seq(Frame), NEW i \in Nat, i < Len(es),
         NEW w, w = Reduce(v, es[i + 1])
  PROVE  /\ w \in Screen
         /\ \A q : QueueWillBe(v, es, i, q) => QueueWillBe(w, es, i + 1, q)
         /\ \A s : StatusWillBe(v, es, i, s) => StatusWillBe(w, es, i + 1, s)
         /\ BubbleGoes(v, es, i) => BubbleGoes(w, es, i + 1)
         /\ \A m : MessageOnce(v, es, i, m) => MessageOnce(w, es, i + 1, m)
         /\ \A m : TextFirst(v, es, i, m) => TextFirst(w, es, i + 1, m)
<1> DEFINE e == es[i + 1]
<1>0. w = Reduce(v, e)
  OBVIOUS
<1>1. /\ i + 1 \in DOMAIN es /\ e \in Frame
      /\ \A K : Quiet(es, i, K) => e \notin K /\ Quiet(es, i + 1, K)
      /\ \A K, G : Settles(es, i, K, G) =>
           Settles(es, i + 1, K, G) \/ (e \in G /\ Quiet(es, i + 1, K))
      /\ \A K : Single(es, i, K) => \/ e \in K /\ Quiet(es, i + 1, K)
                                    \/ e \notin K /\ Single(es, i + 1, K)
  BY Behind
<1> HIDE DEF e
<1>2. /\ w \in Screen
      /\ w.queue = IF IsQueue(e) THEN e.queue ELSE v.queue
      /\ w.status = IF IsStatus(e) THEN e.status ELSE v.status
      /\ w.messages = IF IsSaid(e) THEN Append(v.messages, e.message) ELSE v.messages
      /\ w.bubble = IF IsSaid(e) \/ (IsStatus(e) /\ e.status = "idle") THEN {}
                    ELSE IF IsChunk(e) THEN v.bubble \union e.texts ELSE v.bubble
      /\ IsSaid(e) => e.message \in Said
      /\ ~IsChunk(e) \/ ~(IsQueue(e) \/ IsStatus(e) \/ IsSaid(e))
      /\ v.messages \in Seq(Said)
  <2>1. v.messages \in Seq(Said)
    BY DEF Screen
  <2>2. e \in Frame
    BY <1>1
  <2> DEFINE r == Reduce(v, e)
  <2>3. /\ r \in Screen
        /\ r.queue = IF IsQueue(e) THEN e.queue ELSE v.queue
        /\ r.status = IF IsStatus(e) THEN e.status ELSE v.status
        /\ r.messages = IF IsSaid(e) THEN Append(v.messages, e.message) ELSE v.messages
        /\ r.bubble = IF IsSaid(e) \/ (IsStatus(e) /\ e.status = "idle") THEN {}
                      ELSE IF IsChunk(e) THEN v.bubble \union e.texts ELSE v.bubble
        /\ IsSaid(e) => e.message \in Said
        /\ ~IsChunk(e) \/ ~(IsQueue(e) \/ IsStatus(e) \/ IsSaid(e))
    BY <2>2, Reduced
  <2>4. w = r
    BY <1>0
  <2> HIDE DEF r
  <2> QED BY <2>1, <2>3, <2>4
<1>3. ASSUME NEW q, QueueWillBe(v, es, i, q) PROVE QueueWillBe(w, es, i + 1, q)
  <2>1. CASE Settles(es, i, QueueFrames, QueueFrame(q))
    <3>1. e \in QueueFrame(q) => w.queue = q
      BY <1>2 DEF QueueFrame
    <3> QED BY <1>1, <2>1, <3>1 DEF QueueWillBe
  <2>2. CASE v.queue = q /\ Quiet(es, i, QueueFrames)
    <3>1. ~IsQueue(e) /\ Quiet(es, i + 1, QueueFrames)
      <4>1. e \notin QueueFrames /\ Quiet(es, i + 1, QueueFrames)
        BY <1>1, <2>2
      <4> QED BY <1>1, <4>1 DEF QueueFrames
    <3> QED BY <1>2, <2>2, <3>1 DEF QueueWillBe
  <2> QED BY <1>3, <2>1, <2>2 DEF QueueWillBe
<1>4. ASSUME NEW s, StatusWillBe(v, es, i, s) PROVE StatusWillBe(w, es, i + 1, s)
  <2>1. CASE Settles(es, i, StatusFrames, StatusFrame(s))
    <3>1. e \in StatusFrame(s) => w.status = s
      BY <1>2 DEF StatusFrame
    <3> QED BY <1>1, <2>1, <3>1 DEF StatusWillBe
  <2>2. CASE v.status = s /\ Quiet(es, i, StatusFrames)
    <3>1. ~IsStatus(e) /\ Quiet(es, i + 1, StatusFrames)
      <4>1. e \notin StatusFrames /\ Quiet(es, i + 1, StatusFrames)
        BY <1>1, <2>2
      <4> QED BY <1>1, <4>1 DEF StatusFrames
    <3> QED BY <1>2, <2>2, <3>1 DEF StatusWillBe
  <2> QED BY <1>4, <2>1, <2>2 DEF StatusWillBe
<1>5. ASSUME BubbleGoes(v, es, i) PROVE BubbleGoes(w, es, i + 1)
  <2>1. CASE Settles(es, i, Chunks, StatusFrame("idle"))
    <3>1. e \in StatusFrame("idle") => w.bubble = {}
      BY <1>2 DEF StatusFrame
    <3> QED BY <1>1, <2>1, <3>1 DEF BubbleGoes
  <2>2. CASE v.bubble = {} /\ Quiet(es, i, Chunks)
    <3>1. ~IsChunk(e) /\ Quiet(es, i + 1, Chunks)
      <4>1. e \notin Chunks /\ Quiet(es, i + 1, Chunks)
        BY <1>1, <2>2
      <4> QED BY <1>1, <4>1 DEF Chunks
    <3>2. w.bubble = {}
      BY <1>2, <2>2, <3>1
    <3> QED BY <3>1, <3>2 DEF BubbleGoes
  <2> QED BY <1>5, <2>1, <2>2 DEF BubbleGoes
<1>6. ASSUME NEW m, MessageOnce(v, es, i, m) PROVE MessageOnce(w, es, i + 1, m)
  <2>0. e \in MessageFrame(m) <=> IsSaid(e) /\ e.message = m
    BY <1>1 DEF MessageFrame
  <2>1. CASE OnlyOnce(v.messages, m) /\ Quiet(es, i, MessageFrame(m))
    <3>1. e \notin MessageFrame(m) /\ Quiet(es, i + 1, MessageFrame(m))
      BY <1>1, <2>1
    <3>2. OnlyOnce(w.messages, m)
      BY <1>2, <2>0, <2>1, <3>1, ShowsMessage
    <3> QED BY <3>1, <3>2 DEF MessageOnce
  <2>2. CASE ~Holds(v.messages, m) /\ Single(es, i, MessageFrame(m))
    <3>1. CASE e \in MessageFrame(m) /\ Quiet(es, i + 1, MessageFrame(m))
      <4>1. OnlyOnce(w.messages, m)
        BY <1>2, <2>0, <2>2, <3>1, ShowsMessage
      <4> QED BY <3>1, <4>1 DEF MessageOnce
    <3>2. CASE e \notin MessageFrame(m) /\ Single(es, i + 1, MessageFrame(m))
      <4>1. ~Holds(w.messages, m)
        BY <1>2, <2>0, <2>2, <3>2, ShowsMessage
      <4> QED BY <3>2, <4>1 DEF MessageOnce
    <3> QED BY <1>1, <2>2, <3>1, <3>2
  <2> QED BY <1>6, <2>1, <2>2 DEF MessageOnce
<1>7. ASSUME NEW m, TextFirst(v, es, i, m) PROVE TextFirst(w, es, i + 1, m)
  <2>0. /\ Holds(v.messages, m) => m \notin v.bubble /\ Quiet(es, i, ChunksOf(m))
        /\ \A k \in DOMAIN es : k > i /\ es[k] \in MessageFrame(m) => Quiet(es, k, ChunksOf(m))
    BY <1>7 DEF TextFirst
  <2>1. \A k \in DOMAIN es : k > i + 1 => k > i
    <3>1. DOMAIN es \subseteq Nat
      BY LenProperties
    <3> QED BY <3>1
  <2>2. \A k \in DOMAIN es : k > i + 1 /\ es[k] \in MessageFrame(m) => Quiet(es, k, ChunksOf(m))
    BY <2>0, <2>1
  <2>3. ASSUME Holds(w.messages, m) PROVE m \notin w.bubble /\ Quiet(es, i + 1, ChunksOf(m))
    <3>1. CASE IsSaid(e) /\ e.message = m
      <4>1. w.bubble = {}
        BY <1>2, <3>1
      <4>2. es[i + 1] \in MessageFrame(m) /\ i + 1 > i
        BY <1>1, <3>1 DEF e, MessageFrame
      <4> QED BY <1>1, <2>0, <4>1, <4>2
    <3>2. CASE ~(IsSaid(e) /\ e.message = m)
      <4>1. Holds(v.messages, m)
        BY <1>2, <2>3, <3>2, ShowsMessage
      <4>2. e \notin ChunksOf(m) /\ Quiet(es, i + 1, ChunksOf(m))
        BY <1>1, <2>0, <4>1
      <4>3. IsChunk(e) => m \notin e.texts
        BY <1>1, <4>2 DEF ChunksOf
      <4>4. m \notin w.bubble
        BY <1>2, <2>0, <4>1, <4>3
      <4> QED BY <4>2, <4>4
    <3> QED BY <3>1, <3>2
  <2> QED BY <2>2, <2>3 DEF TextFirst
<1> QED BY <1>2, <1>3, <1>4, <1>5, <1>6, <1>7

-----------------------------------------------------------------------------
\* What the screen will be when all has arrived.

\* The frames es, one after the other, on the screen v.
Screens(v, es, f) ==
  f = [i \in 0..Len(es) |-> IF i = 0 THEN v ELSE Reduce(f[i - 1], es[i])]

\* There is a screen behind every frame.
LEMMA ScreensExist == ASSUME NEW v, NEW es \in Seq(Frame) PROVE \E f : Screens(v, es, f)
<1> DEFINE Upto(n, f) == f = [i \in 0..n |-> IF i = 0 THEN v ELSE Reduce(f[i - 1], es[i])]
           S == {n \in Nat : \E f : Upto(n, f)}
<1>1. Len(es) \in Nat
  BY LenProperties
<1>2. 0 \in S
  <2>1. Upto(0, [i \in 0..0 |-> v])
    OBVIOUS
  <2> HIDE DEF Upto
  <2> QED BY <2>1
<1>3. ASSUME NEW n \in Nat, n \in S PROVE n + 1 \in S
  <2>1. PICK f : Upto(n, f)
    BY <1>3
  <2> DEFINE g == [i \in 0..(n + 1) |-> IF i = n + 1 THEN Reduce(f[n], es[n + 1]) ELSE f[i]]
  <2>2. ASSUME NEW i \in 0..(n + 1)
        PROVE  g[i] = IF i = 0 THEN v ELSE Reduce(g[i - 1], es[i])
    <3>1. CASE i = n + 1
      <4>1. g[i] = Reduce(f[n], es[n + 1])
        BY <3>1
      <4>2. i - 1 = n /\ g[n] = f[n] /\ i # 0
        BY <3>1
      <4> QED BY <3>1, <4>1, <4>2
    <3>2. CASE i # n + 1
      <4>1. g[i] = f[i] /\ i \in 0..n
        BY <3>2
      <4>2. f[i] = IF i = 0 THEN v ELSE Reduce(f[i - 1], es[i])
        BY <2>1, <4>1
      <4>3. i # 0 => g[i - 1] = f[i - 1]
        BY <4>1
      <4> QED BY <4>1, <4>2, <4>3
    <3> QED BY <3>1, <3>2
  <2>3. Upto(n + 1, g)
    <3>1. g = [i \in 0..(n + 1) |-> g[i]]
      OBVIOUS
    <3> HIDE DEF g
    <3> QED BY <2>2, <3>1
  <2> HIDE DEF Upto, g
  <2> QED BY <2>3
<1>4. Len(es) \in S
  <2> HIDE DEF S
  <2> QED BY <1>1, <1>2, <1>3, Reaches
<1> QED BY <1>4 DEF Screens

\* Shown is the last of them.
LEMMA ShownIsScreen ==
  ASSUME NEW es, es = socket \o notifies, es \in Seq(Frame)
  PROVE  \E f : Screens(view, es, f) /\ Shown = f[Len(es)]
<1> DEFINE After == CHOOSE f : Screens(view, es, f)
<1>1. Screens(view, es, After)
  BY ScreensExist
<1>2. Shown = After[Len(es)]
  BY DEF Shown, Screens
<1> HIDE DEF After
<1> QED BY <1>1, <1>2

\* When all has arrived.
LEMMA ShownAtLast ==
  ASSUME NEW es, es = socket \o notifies, es \in Seq(Frame), view \in Screen
  PROVE  /\ \A q : QueueWillBe(view, es, 0, q) => Shown.queue = q
         /\ \A s : StatusWillBe(view, es, 0, s) => Shown.status = s
         /\ BubbleGoes(view, es, 0) => Shown.bubble = {}
         /\ \A m : MessageOnce(view, es, 0, m) => OnlyOnce(Shown.messages, m)
<1>1. PICK f : Screens(view, es, f) /\ Shown = f[Len(es)]
  BY ShownIsScreen
<1>2. Len(es) \in Nat /\ DOMAIN es = 1..Len(es)
  BY LenProperties
<1>3. /\ f[0] = view
      /\ \A i \in 0..Len(es) : i < Len(es) => f[i + 1] = Reduce(f[i], es[i + 1])
  <2>1. \A i \in 0..Len(es) : f[i] = IF i = 0 THEN view ELSE Reduce(f[i - 1], es[i])
    BY <1>1 DEF Screens
  <2>2. 0 \in 0..Len(es)
    BY <1>2
  <2>3. ASSUME NEW i \in 0..Len(es), i < Len(es)
        PROVE  i + 1 \in 0..Len(es) /\ i + 1 # 0 /\ (i + 1) - 1 = i
    BY <1>2, <2>3
  <2> QED BY <2>1, <2>2, <2>3
<1> DEFINE n == Len(es)
           S == {i \in 0..n : f[i] \in Screen}
<1>4. \A i \in 0..n : f[i] \in Screen
  <2>1. ASSUME NEW k \in 0..n PROVE k \in S
    <3>1. 0 \in S
      BY <1>2, <1>3
    <3>2. \A i \in 0..k : i \in S /\ i < k => i + 1 \in S
      <4>1. ASSUME NEW i \in 0..k, i < k, f[i] \in Screen PROVE i + 1 \in S
        <5>1. i \in Nat /\ i < Len(es) /\ i \in 0..n /\ i + 1 \in 0..n
          BY <1>2, <2>1, <4>1
        <5>2. f[i + 1] = Reduce(f[i], es[i + 1])
          BY <1>3, <5>1
        <5> QED BY <4>1, <5>1, <5>2, NextFrame
      <4> QED BY <4>1
    <3> HIDE DEF S
    <3> QED BY <1>2, <2>1, <3>1, <3>2, Reaches
  <2> QED BY <2>1
<1>5. ASSUME NEW i \in 0..n, i < n
      PROVE  /\ i + 1 \in 0..n
             /\ \A q : QueueWillBe(f[i], es, i, q) => QueueWillBe(f[i + 1], es, i + 1, q)
             /\ \A s : StatusWillBe(f[i], es, i, s) => StatusWillBe(f[i + 1], es, i + 1, s)
             /\ BubbleGoes(f[i], es, i) => BubbleGoes(f[i + 1], es, i + 1)
             /\ \A m : MessageOnce(f[i], es, i, m) => MessageOnce(f[i + 1], es, i + 1, m)
  <2>1. i \in Nat /\ i < Len(es) /\ i + 1 \in 0..n /\ f[i] \in Screen
    BY <1>2, <1>4, <1>5
  <2>2. f[i + 1] = Reduce(f[i], es[i + 1])
    BY <1>3, <1>5
  <2> QED BY <2>1, <2>2, NextFrame
<1>6. \A K, G : ~Settles(es, n, K, G) /\ ~Single(es, n, K)
  BY <1>2 DEF Settles, Single
<1>7. 0 \in 0..n /\ n \in Nat
  BY <1>2
<1> HIDE DEF n
<1>8. ASSUME NEW q, QueueWillBe(view, es, 0, q) PROVE Shown.queue = q
  <2> DEFINE T == {i \in 0..n : QueueWillBe(f[i], es, i, q)}
  <2>1. 0 \in T /\ \A i \in 0..n : i \in T /\ i < n => i + 1 \in T
    BY <1>3, <1>5, <1>7, <1>8
  <2> HIDE DEF T
  <2>2. n \in T
    BY <1>7, <2>1, Reaches
  <2>3. QueueWillBe(f[n], es, n, q)
    BY <2>2 DEF T
  <2> QED BY <1>1, <1>6, <2>3 DEF QueueWillBe, n
<1>9. ASSUME NEW s, StatusWillBe(view, es, 0, s) PROVE Shown.status = s
  <2> DEFINE T == {i \in 0..n : StatusWillBe(f[i], es, i, s)}
  <2>1. 0 \in T /\ \A i \in 0..n : i \in T /\ i < n => i + 1 \in T
    BY <1>3, <1>5, <1>7, <1>9
  <2> HIDE DEF T
  <2>2. n \in T
    BY <1>7, <2>1, Reaches
  <2>3. StatusWillBe(f[n], es, n, s)
    BY <2>2 DEF T
  <2> QED BY <1>1, <1>6, <2>3 DEF StatusWillBe, n
<1>10. ASSUME BubbleGoes(view, es, 0) PROVE Shown.bubble = {}
  <2> DEFINE T == {i \in 0..n : BubbleGoes(f[i], es, i)}
  <2>1. 0 \in T /\ \A i \in 0..n : i \in T /\ i < n => i + 1 \in T
    BY <1>3, <1>5, <1>7, <1>10
  <2> HIDE DEF T
  <2>2. n \in T
    BY <1>7, <2>1, Reaches
  <2>3. BubbleGoes(f[n], es, n)
    BY <2>2 DEF T
  <2> QED BY <1>1, <1>6, <2>3 DEF BubbleGoes, n
<1>11. ASSUME NEW m, MessageOnce(view, es, 0, m) PROVE OnlyOnce(Shown.messages, m)
  <2> DEFINE T == {i \in 0..n : MessageOnce(f[i], es, i, m)}
  <2>1. 0 \in T /\ \A i \in 0..n : i \in T /\ i < n => i + 1 \in T
    BY <1>3, <1>5, <1>7, <1>11
  <2> HIDE DEF T
  <2>2. n \in T
    BY <1>7, <2>1, Reaches
  <2>3. MessageOnce(f[n], es, n, m)
    BY <2>2 DEF T
  <2> QED BY <1>1, <1>6, <2>3 DEF MessageOnce, n
<1> QED BY <1>8, <1>9, <1>10, <1>11

-----------------------------------------------------------------------------
\* What a client has been told of is on its screen, or on the way there.

Coming == socket \o notifies

ShownTypes ==
  /\ socket \in Seq(Frame) /\ notifies \in Seq(Frame)
  /\ view \in Screen /\ status \in Statuses /\ upgraded \in Statuses
  /\ load \in [stage : {"none", "sent", "applied"},
               row : [queue : Seq(Nat), status : Statuses], rows : Seq(Said)]
  /\ told \in [queue : BOOLEAN, status : BOOLEAN, messages : SUBSET Said, texts : SUBSET Said]

\* Who has heard of something listens; what the snapshot would replace is heard of after it.
Hearing ==
  /\ told.queue \/ told.status \/ told.messages # {} \/ told.texts # {} => link = "open"
  /\ told.status \/ told.messages # {} \/ told.texts # {} => load.stage = "applied"

\* The text that waits is that of the turn's next message.
Writes ==
  /\ status = "idle" => running = 0
  /\ running = 0 => said = 0
  /\ buffer # {} => running # 0
  /\ buffer \subseteq {NextMessage}

\* A message without a row is neither on the screen nor on its way.
Unseen ==
  \A m : ~Holds(rows, m) =>
    /\ ~Holds(view.messages, m) /\ ~Holds(load.rows, m)
    /\ Quiet(socket, 0, MessageFrame(m)) /\ Quiet(notifies, 0, MessageFrame(m))

QueueRight ==
  told.queue =>
    /\ QueueWillBe(view, Coming, 0, queue)
    /\ heard \/ load.stage = "applied" \/ Settles(Coming, 0, QueueFrames, QueueFrame(queue))
StatusRight ==
  told.status => /\ StatusWillBe(view, Coming, 0, status)
                 /\ status = "idle" => BubbleGoes(view, Coming, 0)
MessagesRight ==
  /\ \A m \in told.messages : MessageOnce(view, Coming, 0, m)
  /\ \A m \in told.texts : TextFirst(view, Coming, 0, m)
Right == QueueRight /\ StatusRight /\ MessagesRight

Seen == Kept /\ Numbered /\ ShownTypes /\ Hearing /\ Writes /\ Unseen /\ Right

-----------------------------------------------------------------------------
\* It is what the client is promised.
LEMMA SeenFollows == ASSUME Seen PROVE ViewFollows
<1>1. Coming \in Seq(Frame) /\ view \in Screen /\ view.messages \in Seq(Said)
  BY JoinFrames DEF Seen, ShownTypes, Coming, Screen
<1>2. /\ \A q : QueueWillBe(view, Coming, 0, q) => Shown.queue = q
      /\ \A s : StatusWillBe(view, Coming, 0, s) => Shown.status = s
      /\ BubbleGoes(view, Coming, 0) => Shown.bubble = {}
      /\ \A m : MessageOnce(view, Coming, 0, m) => OnlyOnce(Shown.messages, m)
  BY <1>1, ShownAtLast DEF Coming
<1>3. told.queue => Shown.queue = queue
  BY <1>2 DEF Seen, Right, QueueRight
<1>4. told.status => Shown.status = status
  BY <1>2 DEF Seen, Right, StatusRight
<1>5. told.status /\ status = "idle" => Shown.bubble = {}
  BY <1>2 DEF Seen, Right, StatusRight
<1>6. \A m \in told.messages : OnlyOnce(Shown.messages, m)
  BY <1>2 DEF Seen, Right, MessagesRight
<1>7. ASSUME NEW m \in view.bubble \intersect told.texts PROVE ~Contains(view.messages, m)
  <2>1. TextFirst(view, Coming, 0, m)
    BY <1>7 DEF Seen, Right, MessagesRight
  <2>2. ~Holds(view.messages, m)
    BY <1>7, <2>1 DEF TextFirst
  <2> QED BY <1>1, <2>2, LenProperties DEF Contains, Holds
<1> HIDE DEF Shown
<1> QED BY <1>3, <1>4, <1>5, <1>6, <1>7 DEF ViewFollows, OnlyOnce

-----------------------------------------------------------------------------
\* The frames evs go out: who hears of them.
LEMMA Telling ==
  ASSUME ShownTypes, Hearing, NEW evs \in Seq(Frame), Tell(evs), UNCHANGED <<link, load>>,
         NEW texts \in SUBSET Said, \A i \in DOMAIN evs : IsChunk(evs[i]) => evs[i].texts = texts
  PROVE  /\ told' \in [queue : BOOLEAN, status : BOOLEAN, messages : SUBSET Said,
                       texts : SUBSET Said]
         /\ told'.messages = told.messages
         /\ told'.queue => told.queue \/ (Listens /\ ~Quiet(evs, 0, QueueFrames))
         /\ told'.status => told.status \/ (Loaded /\ ~Quiet(evs, 0, StatusFrames))
         /\ \A m \in told'.texts : m \in told.texts \/ (Loaded /\ m \in texts)
<1>1. /\ DOMAIN evs \subseteq Nat /\ \A i \in DOMAIN evs : evs[i] \in Frame /\ i > 0
  BY LenProperties, ElementOfSeq
<1> DEFINE kinds == {evs[i].kind : i \in DOMAIN evs}
           new == IF Loaded THEN told.texts \union Texts(evs) ELSE told.texts
<1>2. told' = [told EXCEPT !.queue = @ \/ ("queue" \in kinds /\ Listens),
                           !.status = @ \/ ("status" \in kinds /\ Loaded),
                           !.texts = IF Loaded THEN @ \union Texts(evs) ELSE @]
  BY DEF Tell
<1>3. told \in [queue : BOOLEAN, status : BOOLEAN, messages : SUBSET Said, texts : SUBSET Said]
  BY DEF ShownTypes
<1>4. \A m \in Texts(evs) : m \in texts
  BY DEF Texts, IsChunk
<1>5. "queue" \in kinds => ~Quiet(evs, 0, QueueFrames)
  BY <1>1 DEF Quiet, QueueFrames, IsQueue
<1>6. "status" \in kinds => ~Quiet(evs, 0, StatusFrames)
  BY <1>1 DEF Quiet, StatusFrames, IsStatus
<1> HIDE DEF kinds
<1>7. /\ told'.messages = told.messages
      /\ told'.queue = (told.queue \/ ("queue" \in kinds /\ Listens))
      /\ told'.status = (told.status \/ ("status" \in kinds /\ Loaded))
      /\ told'.texts = IF Loaded THEN told.texts \union Texts(evs) ELSE told.texts
  BY <1>2, <1>3
<1>8. told'.texts \in SUBSET Said
  <2>1. told.texts \in SUBSET Said
    BY <1>3
  <2> QED BY <1>4, <1>7, <2>1
<1>9. told' \in [queue : BOOLEAN, status : BOOLEAN, messages : SUBSET Said, texts : SUBSET Said]
  BY <1>2, <1>3, <1>7, <1>8
<1> QED BY <1>4, <1>5, <1>6, <1>7, <1>9

\* Three sequences, joined in either order.
LEMMA Regroup ==
  ASSUME NEW a \in Seq(Frame), NEW b \in Seq(Frame), NEW c \in Seq(Frame)
  PROVE  (a \o b) \o c = a \o (b \o c)
  BY ConcatAssociative

\* What is emitted comes behind all that is on its way.
LEMMA ComesBehind ==
  ASSUME ShownTypes, NEW evs \in Seq(Frame)
  PROVE  socket \o (notifies \o evs) = Coming \o evs
<1>1. socket \in Seq(Frame) /\ notifies \in Seq(Frame)
  BY DEF ShownTypes
<1>2. (socket \o notifies) \o evs = socket \o (notifies \o evs)
  BY <1>1, Regroup
<1> QED BY Zenon, <1>2 DEF Coming

\* The text that waits is that of a message without a row.
LEMMA TextIsNew == ASSUME Seen PROVE \A m \in buffer : ~Holds(rows, m)
<1> SUFFICES ASSUME NEW m \in buffer, Holds(rows, m) PROVE FALSE
  OBVIOUS
<1>1. m.of = running /\ m.part = said + 1 /\ m.run = crashes
  BY DEF Seen, Writes, NextMessage
<1>2. PICK i \in DOMAIN rows : rows[i] = m
  BY DEF Holds
<1>3. i \in DOMAIN history /\ history[i] = m
  BY <1>2, KeptTypes, LenProperties DEF Seen, Kept, InOrder
<1>4. said + 1 <= said /\ said \in Nat
  BY <1>1, <1>3, KeptTypes DEF Seen, Numbered
<1> QED BY <1>4

\* What the session emits: the text that waits first, then its queue and its status.
LEMMA EmitShows ==
  ASSUME Seen, NEW text \in Seq(Frame), NEW es \in Seq(Frame), NEW evs, evs = text \o es,
         notifies' = notifies \o evs, Tell(evs),
         UNCHANGED <<socket, link, load, view, heard, rows>>,
         \A i \in DOMAIN text : IsChunk(text[i]) /\ text[i].texts = buffer,
         \A i \in DOMAIN es : IsQueue(es[i]) \/ IsStatus(es[i]),
         \/ Settles(es, 0, QueueFrames, QueueFrame(queue'))
         \/ Quiet(es, 0, QueueFrames) /\ queue' = queue,
         \/ Settles(es, 0, StatusFrames, StatusFrame(status'))
         \/ Quiet(es, 0, StatusFrames) /\ status' = status /\ (status = "idle" => text = <<>>)
  PROVE  Right' /\ Unseen' /\ notifies' \in Seq(Frame)
         /\ told' \in [queue : BOOLEAN, status : BOOLEAN, messages : SUBSET Said,
                       texts : SUBSET Said]
         /\ (told'.queue \/ told'.status \/ told'.messages # {} \/ told'.texts # {}
               => link = "open")
         /\ (told'.status \/ told'.messages # {} \/ told'.texts # {} => load.stage = "applied")
<1> DEFINE c == socket \o notifies
           d == c \o evs
<1>1. /\ socket \in Seq(Frame) /\ notifies \in Seq(Frame) /\ evs \in Seq(Frame)
      /\ c \in Seq(Frame) /\ Coming = c
  BY JoinFrames DEF Seen, ShownTypes, Coming
<1>2. Coming' = d /\ notifies' \in Seq(Frame)
  <2>1. Coming' = socket \o (notifies \o evs)
    BY DEF Coming
  <2>2. notifies \o evs \in Seq(Frame)
    BY <1>1, JoinFrames
  <2>3. Coming \o evs = socket \o (notifies \o evs)
    BY <1>1, ComesBehind DEF Seen
  <2> QED BY <1>1, <2>1, <2>2, <2>3
<1>3. \A i \in DOMAIN es : ~IsChunk(es[i]) /\ ~IsSaid(es[i])
  BY DEF IsChunk, IsSaid, IsQueue, IsStatus
<1>4. \A i \in DOMAIN text : ~IsQueue(text[i]) /\ ~IsStatus(text[i]) /\ ~IsSaid(text[i])
  BY DEF IsChunk, IsSaid, IsQueue, IsStatus
<1>5. /\ Quiet(text, 0, QueueFrames) /\ Quiet(text, 0, StatusFrames)
      /\ \A m : Quiet(text, 0, MessageFrame(m)) /\ Quiet(es, 0, MessageFrame(m))
      /\ \A m : m \notin buffer => Quiet(text, 0, ChunksOf(m))
      /\ \A m : Quiet(es, 0, ChunksOf(m))
      /\ \A k : Quiet(es, k, Chunks)
  BY <1>3, <1>4 DEF Quiet, QueueFrames, StatusFrames, MessageFrame, ChunksOf, Chunks
<1>6. /\ \A m : Quiet(evs, 0, MessageFrame(m))
      /\ \A m : m \notin buffer => Quiet(evs, 0, ChunksOf(m))
  BY <1>5, JoinKinds
<1>7. \/ Settles(evs, 0, QueueFrames, QueueFrame(queue'))
      \/ Quiet(evs, 0, QueueFrames) /\ queue' = queue
  BY <1>5, JoinKinds
<1>8. \/ Settles(evs, 0, StatusFrames, StatusFrame(status'))
      \/ Quiet(evs, 0, StatusFrames) /\ status' = status
  BY <1>5, JoinKinds
<1>9. ASSUME status' = "idle"
      PROVE  \/ Settles(evs, 0, Chunks, StatusFrame("idle"))
             \/ Quiet(evs, 0, Chunks) /\ status = "idle" /\ Quiet(evs, 0, StatusFrames)
  <2>1. CASE Settles(es, 0, StatusFrames, StatusFrame(status'))
    <3>1. Settles(es, 0, Chunks, StatusFrame("idle"))
      BY <1>5, <1>9, <2>1 DEF Settles
    <3> QED BY <3>1, JoinKinds
  <2>2. CASE Quiet(es, 0, StatusFrames) /\ status' = status /\ text = <<>>
    <3>1. Quiet(text, 0, Chunks)
      BY <2>2 DEF Quiet
    <3> QED BY <1>5, <1>9, <2>2, <3>1, JoinKinds
  <2> QED BY <1>9, <2>1, <2>2
<1>10. /\ told' \in [queue : BOOLEAN, status : BOOLEAN, messages : SUBSET Said,
                     texts : SUBSET Said]
       /\ told'.messages = told.messages
       /\ told'.queue => told.queue \/ (Listens /\ ~Quiet(evs, 0, QueueFrames))
       /\ told'.status => told.status \/ (Loaded /\ ~Quiet(evs, 0, StatusFrames))
       /\ \A m \in told'.texts : m \in told.texts \/ (Loaded /\ m \in buffer)
  <2>1. buffer \in SUBSET Said
    BY KeptTypes DEF Seen, Numbered, Writes, NextMessage, Said
  <2>2. \A i \in DOMAIN evs : IsChunk(evs[i]) => evs[i].texts = buffer
    BY <1>3, JoinFrames
  <2> QED BY <1>1, <2>1, <2>2, Telling DEF Seen
<1> HIDE DEF c
<1>11. QueueRight'
  <2> SUFFICES ASSUME told'.queue
               PROVE  /\ QueueWillBe(view, d, 0, queue')
                      /\ \/ heard \/ load.stage = "applied"
                         \/ Settles(d, 0, QueueFrames, QueueFrame(queue'))
    BY <1>2 DEF QueueRight
  <2>1. CASE Settles(evs, 0, QueueFrames, QueueFrame(queue'))
    BY <1>1, <2>1, JoinKinds DEF QueueWillBe
  <2>2. CASE Quiet(evs, 0, QueueFrames) /\ queue' = queue
    <3>1. QueueRight /\ told.queue
      BY <1>10, <2>2 DEF Seen, Right
    <3>2. /\ QueueWillBe(view, c, 0, queue)
          /\ heard \/ load.stage = "applied" \/ Settles(c, 0, QueueFrames, QueueFrame(queue))
      BY <1>1, <3>1 DEF QueueRight
    <3> QED BY <1>1, <2>2, <3>2, JoinKinds DEF QueueWillBe
  <2> QED BY <1>7, <2>1, <2>2
<1>12. StatusRight'
  <2> SUFFICES ASSUME told'.status
               PROVE  /\ StatusWillBe(view, d, 0, status')
                      /\ status' = "idle" => BubbleGoes(view, d, 0)
    BY <1>2 DEF StatusRight
  <2>1. Quiet(evs, 0, StatusFrames) =>
          /\ StatusWillBe(view, c, 0, status) /\ (status = "idle" => BubbleGoes(view, c, 0))
    BY <1>1, <1>10 DEF Seen, Right, StatusRight
  <2>2. StatusWillBe(view, d, 0, status')
    <3>1. CASE Settles(evs, 0, StatusFrames, StatusFrame(status'))
      BY <1>1, <3>1, JoinKinds DEF StatusWillBe
    <3>2. CASE Quiet(evs, 0, StatusFrames) /\ status' = status
      BY <1>1, <2>1, <3>2, JoinKinds DEF StatusWillBe
    <3> QED BY <1>8, <3>1, <3>2
  <2>3. ASSUME status' = "idle" PROVE BubbleGoes(view, d, 0)
    <3>1. CASE Settles(evs, 0, Chunks, StatusFrame("idle"))
      BY <1>1, <3>1, JoinKinds DEF BubbleGoes
    <3>2. CASE Quiet(evs, 0, Chunks) /\ status = "idle" /\ Quiet(evs, 0, StatusFrames)
      BY <1>1, <2>1, <3>2, JoinKinds DEF BubbleGoes
    <3> QED BY <1>9, <2>3, <3>1, <3>2
  <2> QED BY <2>2, <2>3
<1>13. \A m : ~Holds(rows, m) => ~Holds(view.messages, m) /\ Quiet(c, 0, MessageFrame(m))
  BY <1>1, JoinKinds DEF Seen, Unseen, c
<1>14. MessagesRight'
  <2>1. ASSUME NEW m \in told'.messages PROVE MessageOnce(view, d, 0, m)
    <3>1. MessageOnce(view, c, 0, m)
      BY <1>1, <1>10, <2>1 DEF Seen, Right, MessagesRight
    <3> QED BY <1>1, <1>6, <3>1, JoinKinds DEF MessageOnce
  <2>2. ASSUME NEW m \in told'.texts PROVE TextFirst(view, d, 0, m)
    <3>1. CASE m \in buffer
      <4>1. ~Holds(rows, m)
        BY <3>1, TextIsNew
      <4> QED BY <1>1, <1>6, <1>13, <4>1, TextJoin
    <3>2. CASE m \notin buffer /\ m \in told.texts
      <4>1. TextFirst(view, c, 0, m)
        BY <1>1, <3>2 DEF Seen, Right, MessagesRight
      <4> QED BY <1>1, <1>6, <3>2, <4>1, TextJoin
    <3> QED BY <1>10, <2>2, <3>1, <3>2
  <2> QED BY <1>2, <2>1, <2>2 DEF MessagesRight
<1>15. Unseen'
  BY <1>1, <1>6, JoinKinds DEF Seen, Unseen
<1>16. /\ told'.queue \/ told'.status \/ told'.messages # {} \/ told'.texts # {} => link = "open"
       /\ told'.status \/ told'.messages # {} \/ told'.texts # {} => load.stage = "applied"
  BY <1>10 DEF Seen, Hearing, Loaded, Listens
<1> QED BY <1>2, <1>10, <1>11, <1>12, <1>14, <1>15, <1>16 DEF Right

\* What is written is a sequence of frames as well.
LEMMA ItemFrames ==
  ASSUME NEW es \in Seq(Item)
  PROVE  /\ es \in Seq(Frame) /\ DOMAIN es \subseteq Nat
         /\ \A i \in DOMAIN es : es[i] \in Frame /\ i > 0
         /\ \A q : Ends(es, q) => Settles(es, 0, QueueFrames, QueueFrame(q))
         /\ (\A i \in DOMAIN es : ~IsSaid(es[i])) =>
              \A i \in DOMAIN es : IsQueue(es[i]) \/ IsStatus(es[i])
         /\ (\A i \in DOMAIN es : ~IsSaid(es[i]) /\ IsQueue(es[i])) => Quiet(es, 0, StatusFrames)
<1>1. /\ DOMAIN es = 1..Len(es) /\ Len(es) \in Nat /\ \A i \in DOMAIN es : es[i] \in Item
      /\ es \in Seq(Frame)
  <2>1. Item \subseteq Frame
    BY DEF Frame
  <2> QED BY <2>1, LenProperties, ElementOfSeq, SeqMonotonic
<1>2. \A i \in DOMAIN es : es[i] \in Frame /\ i > 0 /\ i \in Nat
  BY <1>1 DEF Frame
<1>3. ASSUME NEW q, Ends(es, q) PROVE Settles(es, 0, QueueFrames, QueueFrame(q))
  <2>1. PICK k \in DOMAIN es : /\ IsQueue(es[k]) /\ es[k].queue = q
                               /\ \A i \in DOMAIN es : i > k => ~IsQueue(es[i])
    BY <1>3 DEF Ends
  <2>2. es[k] \in QueueFrame(q) /\ Quiet(es, k, QueueFrames)
    BY <1>2, <2>1 DEF QueueFrame, Quiet, QueueFrames
  <2> QED BY <1>2, <2>2 DEF Settles
<1>4. \A i \in DOMAIN es : ~IsSaid(es[i]) => IsQueue(es[i]) \/ IsStatus(es[i])
  BY <1>1 DEF Item, IsSaid, IsQueue, IsStatus
<1>5. ASSUME \A i \in DOMAIN es : ~IsSaid(es[i]) /\ IsQueue(es[i]) PROVE Quiet(es, 0, StatusFrames)
  BY <1>5 DEF Quiet, StatusFrames, IsQueue, IsStatus
<1> QED BY <1>1, <1>2, <1>3, <1>4, <1>5

\* What the head of the loop shows.
LEMMA PumpFrames ==
  ASSUME NEW n \in Nat, NEW q, Proper(q, n), NEW before \in Seq(Item), Ends(before, q),
         \A i \in DOMAIN before : ~IsSaid(before[i]),
         \A i \in DOMAIN before : IsQueue(before[i]) => before[i].queue = q,
         NEW es, es = PumpWrites(q, before)
  PROVE  /\ es \in Seq(Frame) /\ \A i \in DOMAIN es : IsQueue(es[i]) \/ IsStatus(es[i])
         /\ Settles(es, 0, QueueFrames, QueueFrame(IF q = <<>> THEN q ELSE Tail(q)))
         /\ Settles(es, 0, StatusFrames, StatusFrame(IF q = <<>> THEN "idle" ELSE "running"))
<1>1. /\ es \in Seq(Item) /\ \A i \in DOMAIN es : ~IsSaid(es[i])
      /\ Ends(es, IF q = <<>> THEN q ELSE Tail(q))
  BY PumpEvents
<1>2. before \in Seq(Frame)
  BY ItemFrames
<1>3. ASSUME q = <<>> PROVE Settles(es, 0, StatusFrames, StatusFrame("idle"))
  <2> DEFINE last == <<StatusEvent("idle")>>
  <2>1. StatusEvent("idle") \in StatusFrame("idle") /\ StatusEvent("idle") \in Frame
    BY EventItems DEF StatusFrame, StatusEvent, IsStatus, Frame
  <2>2. last \in Seq(Frame) /\ DOMAIN last = {1} /\ last[1] \in StatusFrame("idle")
    BY <2>1
  <2>3. es = before \o last
    BY <1>3 DEF PumpWrites
  <2> HIDE DEF last
  <2>4. Settles(last, 0, StatusFrames, StatusFrame("idle"))
    BY <2>2 DEF Settles, Quiet
  <2> QED BY <1>2, <2>2, <2>3, <2>4, JoinKinds
<1>4. ASSUME q # <<>> PROVE Settles(es, 0, StatusFrames, StatusFrame("running"))
  <2> DEFINE last == <<StatusEvent("running"), QueueEvent(Tail(q))>>
  <2>1. Tail(q) \in Seq(Nat)
    BY <1>4, TailOfProper, ProperIsQueue
  <2>2. /\ StatusEvent("running") \in StatusFrame("running") /\ StatusEvent("running") \in Item
        /\ QueueEvent(Tail(q)) \in Item /\ QueueEvent(Tail(q)) \notin StatusFrames
    BY <2>1, EventItems DEF StatusFrame, StatusFrames, StatusEvent, QueueEvent, IsStatus, Frame
  <2>3. /\ last \in Seq(Item) /\ DOMAIN last = {1, 2} /\ last[1] \in StatusFrame("running")
        /\ last[2] \notin StatusFrames
    BY <2>2, PairItems
  <2>4. es = before \o last
    BY <1>4 DEF PumpWrites
  <2> HIDE DEF last
  <2>5. Settles(last, 0, StatusFrames, StatusFrame("running"))
    BY <2>3 DEF Settles, Quiet
  <2> QED BY <1>2, <2>3, <2>4, <2>5, JoinKinds, ItemFrames
<1> QED BY <1>1, <1>3, <1>4, ItemFrames

\* The text that waits, sent.
LEMMA TextFrames ==
  ASSUME Seen, NEW text, text = <<>> \/ text = Flushed
  PROVE  /\ text \in Seq(Frame) /\ \A i \in DOMAIN text : IsChunk(text[i]) /\ text[i].texts = buffer
         /\ buffer = {} => text = <<>>
<1>1. buffer \in SUBSET Said
  BY KeptTypes DEF Seen, Numbered, Writes, NextMessage, Said
<1>2. /\ ChunkEvent(buffer) \in Frame /\ IsChunk(ChunkEvent(buffer))
      /\ ChunkEvent(buffer).texts = buffer
  BY <1>1 DEF ChunkEvent, Frame, IsChunk
<1>3. <<ChunkEvent(buffer)>> \in Seq(Frame) /\ DOMAIN <<ChunkEvent(buffer)>> = {1}
  BY <1>2
<1>4. <<>> \in Seq(Frame) /\ DOMAIN <<>> = {}
  OBVIOUS
<1>5. <<ChunkEvent(buffer)>>[1] = ChunkEvent(buffer)
  OBVIOUS
<1> QED BY <1>2, <1>3, <1>4, <1>5 DEF Flushed

\* The session emits and leaves the rest alone.
LEMMA EmitSeen ==
  ASSUME Seen, Kept', NEW text, text = <<>> \/ text = Flushed,
         NEW es \in Seq(Frame), notifies' = notifies \o text \o es, Tell(text \o es),
         UNCHANGED client, UNCHANGED rows,
         \A i \in DOMAIN es : IsQueue(es[i]) \/ IsStatus(es[i]),
         \/ Settles(es, 0, QueueFrames, QueueFrame(queue'))
         \/ Quiet(es, 0, QueueFrames) /\ queue' = queue,
         \/ Settles(es, 0, StatusFrames, StatusFrame(status'))
         \/ Quiet(es, 0, StatusFrames) /\ status' = status,
         status' \in Statuses, Writes', Numbered'
  PROVE  Seen'
<1> DEFINE evs == text \o es
<1>1. text \in Seq(Frame) /\ \A i \in DOMAIN text : IsChunk(text[i]) /\ text[i].texts = buffer
  BY TextFrames
<1>2. (notifies \o text) \o es = notifies \o (text \o es)
  <2>1. notifies \in Seq(Frame) /\ text \in Seq(Frame)
    BY <1>1 DEF Seen, ShownTypes
  <2> QED BY Zenon, <2>1, Regroup
<1>3. notifies' = notifies \o evs /\ Tell(evs)
  BY <1>2
<1>4. status = "idle" => text = <<>>
  BY TextFrames DEF Seen, Writes
<1>5. UNCHANGED <<socket, link, load, view, heard, rows>>
  BY DEF client
<1>6. /\ Right' /\ Unseen' /\ notifies' \in Seq(Frame)
      /\ told' \in [queue : BOOLEAN, status : BOOLEAN, messages : SUBSET Said, texts : SUBSET Said]
      /\ (told'.queue \/ told'.status \/ told'.messages # {} \/ told'.texts # {} => link = "open")
      /\ (told'.status \/ told'.messages # {} \/ told'.texts # {} => load.stage = "applied")
  <2>1. evs = text \o es
    OBVIOUS
  <2> HIDE DEF evs
  <2> QED BY <1>1, <1>3, <1>4, <1>5, <2>1, EmitShows
<1>7. ShownTypes'
  BY <1>6 DEF Seen, ShownTypes, client
<1>8. Hearing'
  BY <1>6 DEF Seen, Hearing, client
<1> QED BY <1>6, <1>7, <1>8 DEF Seen

-----------------------------------------------------------------------------
\* The steps of the session, as the client sees them.

\* The head of the loop; what it has in hand afterwards has not started.
LEMMA PumpSeen ==
  ASSUME Seen, Kept', Numbered', NEW text, text = <<>> \/ text = Flushed,
         NEW q, NEW before \in Seq(Item), Pump(q, text, before), Ends(before, q),
         \A i \in DOMAIN before : ~IsSaid(before[i]) /\ (IsQueue(before[i]) => before[i].queue = q),
         Proper(q, sent'), sent' \in Nat, buffer' = {}, UNCHANGED client, UNCHANGED rows
  PROVE  Seen'
<1> DEFINE es == PumpWrites(q, before)
<1>1. /\ queue' = (IF q = <<>> THEN q ELSE Tail(q)) /\ running' = (IF q = <<>> THEN 0 ELSE Head(q))
      /\ said' = 0 /\ status' = IF q = <<>> THEN "idle" ELSE "running"
      /\ notifies' = notifies \o text \o es /\ Tell(text \o es)
  BY DEF Pump, Emit, PumpWrites
<1>2. /\ es \in Seq(Frame) /\ \A i \in DOMAIN es : IsQueue(es[i]) \/ IsStatus(es[i])
      /\ Settles(es, 0, QueueFrames, QueueFrame(queue'))
      /\ Settles(es, 0, StatusFrames, StatusFrame(status'))
  BY <1>1, PumpFrames
<1> HIDE DEF es
<1>3. /\ status' \in Statuses /\ Writes'
  <2>1. status' \in Statuses
    BY <1>1 DEF Statuses
  <2>2. status' = "idle" => running' = 0
    BY <1>1
  <2> QED BY <1>1, <2>1, <2>2 DEF Writes
<1> QED BY <1>1, <1>2, <1>3, EmitSeen

\* A prompt: the queue with it, and the head of the loop when the agent rests.
LEMMA SubmitSeen == ASSUME Seen, EventsAssumption, Submit PROVE Seen'
<1> DEFINE q == Append(queue, sent + 1)
<1>1. Kept /\ Kept' /\ Numbered'
  BY SubmitKeeps, SubmitNumbered DEF Seen
<1>2. /\ sent' = sent + 1 /\ up /\ up' = up
      /\ UNCHANGED <<rows, history, buffer, crashes>> /\ UNCHANGED client
      /\ running = 0 => Pump(q, <<>>, <<QueueEvent(q)>>)
      /\ running # 0 =>
           /\ queue' = q /\ Emit(<<>>, <<QueueEvent(q)>>)
           /\ UNCHANGED <<running, said, status>>
  BY DEF Submit
<1>3. /\ Proper(q, sent + 1) /\ \A p : Holds(q, p) => Holds(queue, p) \/ p = sent + 1
  BY <1>1, KeptTypes, AppendOfProper
<1> HIDE DEF q
<1>4. q \in Seq(Nat) /\ sent + 1 \in Nat /\ sent \in Nat
  BY <1>1, <1>3, KeptTypes, ProperIsQueue
<1>5. CASE running = 0
  <2>1. Pump(q, <<>>, <<QueueEvent(q)>>)
    BY <1>2, <1>5
  <2>2. sent' \in Nat /\ Proper(q, sent')
    BY <1>2, <1>3, <1>4
  <2>3. buffer' = {}
    BY <1>2, <1>5 DEF Seen, Writes
  <2> QED BY <1>1, <1>2, <1>4, <2>1, <2>2, <2>3, QueueWrite, PumpSeen
<1>6. CASE running # 0
  <2> DEFINE es == <<QueueEvent(q)>>
  <2>1. /\ es \in Seq(Item) /\ Ends(es, q)
        /\ \A i \in DOMAIN es : ~IsSaid(es[i]) /\ es[i].queue = q /\ IsQueue(es[i])
    <3>1. <<QueueEvent(q)>>[1] = QueueEvent(q) /\ DOMAIN <<QueueEvent(q)>> = {1}
      OBVIOUS
    <3> QED BY <1>4, <3>1, QueueWrite, EventItems
  <2>2. /\ queue' = q /\ notifies' = notifies \o <<>> \o es /\ Tell(<<>> \o es)
        /\ UNCHANGED <<running, said, status>>
    BY <1>2, <1>6 DEF Emit
  <2> HIDE DEF es
  <2>3. /\ es \in Seq(Frame) /\ Settles(es, 0, QueueFrames, QueueFrame(queue'))
        /\ \A i \in DOMAIN es : IsQueue(es[i]) \/ IsStatus(es[i])
        /\ Quiet(es, 0, StatusFrames)
    BY <2>1, <2>2, ItemFrames
  <2>4. status' \in Statuses /\ Writes'
    BY <1>2, <2>2 DEF Seen, ShownTypes, Writes, NextMessage
  <2> QED BY <1>1, <1>2, <2>2, <2>3, <2>4, EmitSeen
<1> QED BY <1>5, <1>6

\* A step that emits nothing and leaves the client alone.
LEMMA SameSeen ==
  ASSUME Seen, Kept', Numbered', Writes', UNCHANGED <<notifies, told, rows, queue, status>>,
         UNCHANGED client
  PROVE  Seen'
<1>1. UNCHANGED <<socket, link, upgraded, load, view, heard>>
  BY DEF client
<1>2. ShownTypes' /\ Hearing' /\ Unseen'
  BY <1>1 DEF Seen, ShownTypes, Hearing, Unseen
<1>3. Coming' = Coming
  BY <1>1 DEF Coming
<1>4. Right'
  BY <1>1, <1>3 DEF Seen, Right, QueueRight, StatusRight, MessagesRight
<1> QED BY <1>2, <1>4 DEF Seen

\* A restart: the head of the loop on the queue that is stored.
LEMMA RestoreSeen == ASSUME Seen, EventsAssumption, Restore PROVE Seen'
<1>1. Kept /\ Kept' /\ Numbered'
  BY RestoreKeeps, RestoreNumbered DEF Seen
<1>2. ~up /\ sent' = sent /\ UNCHANGED <<rows, buffer, crashes>> /\ UNCHANGED client
  BY DEF Restore
<1>3. running = 0 /\ buffer = {}
  BY <1>1, <1>2 DEF Kept, Rest, Seen, Writes
<1>4. CASE row.queue # <<>>
  <2> DEFINE q == row.queue
  <2>1. Pump(q, <<>>, <<QueueEvent(q)>>)
    BY <1>4 DEF Restore
  <2>2. Proper(q, sent') /\ q \in Seq(Nat) /\ sent' \in Nat
    BY <1>1, <1>2, KeptTypes, ProperIsQueue
  <2> HIDE DEF q
  <2> QED BY <1>1, <1>2, <1>3, <2>1, <2>2, QueueWrite, PumpSeen
<1>5. CASE row.queue = <<>>
  <2>1. UNCHANGED <<queue, running, said, status, notifies, told>>
    BY <1>5 DEF Restore
  <2>2. Writes'
    BY <1>2, <2>1 DEF Seen, Writes, NextMessage
  <2> QED BY <1>1, <1>2, <2>1, <2>2, SameSeen
<1> QED BY <1>4, <1>5

LEMMA WithdrawSeen ==
  ASSUME Seen, EventsAssumption, NEW i \in DOMAIN queue, Withdraw(i) PROVE Seen'
<1> DEFINE es == <<QueueEvent(queue')>>
<1>1. Kept /\ Kept' /\ Numbered'
  BY WithdrawKeeps, WithdrawNumbered DEF Seen
<1>2. /\ queue' = RemoveAt(queue, i)
      /\ notifies' = notifies \o <<>> \o es /\ Tell(<<>> \o es)
      /\ UNCHANGED <<sent, up, running, said, status, buffer, history, rows, crashes>>
      /\ UNCHANGED client
  BY DEF Withdraw, Emit, turn
<1>3. Proper(queue', sent) /\ \A p : Holds(queue', p) => Holds(queue, p)
  BY <1>1, <1>2, KeptTypes, RemoveOfProper
<1>4. queue' \in Seq(Nat)
  BY <1>1, <1>3, KeptTypes, ProperIsQueue
<1>5. /\ es \in Seq(Item) /\ Ends(es, queue')
      /\ \A j \in DOMAIN es : ~IsSaid(es[j]) /\ es[j].queue = queue' /\ IsQueue(es[j])
  <2>1. es[1] = QueueEvent(queue') /\ DOMAIN es = {1}
    OBVIOUS
  <2> QED BY <1>4, <2>1, QueueWrite, EventItems
<1> HIDE DEF es
<1>6. /\ es \in Seq(Frame) /\ Settles(es, 0, QueueFrames, QueueFrame(queue'))
      /\ \A j \in DOMAIN es : IsQueue(es[j]) \/ IsStatus(es[j])
      /\ Quiet(es, 0, StatusFrames)
  BY <1>5, ItemFrames
<1>7. status' \in Statuses /\ Writes'
  BY <1>2 DEF Seen, ShownTypes, Writes, NextMessage
<1> QED BY <1>1, <1>2, <1>6, <1>7, EmitSeen

LEMMA EndTurnSeen ==
  ASSUME Seen, EventsAssumption, NEW failed \in BOOLEAN, EndTurn(failed) PROVE Seen'
<1> DEFINE es == IF failed THEN <<StatusEvent("failed"), QueueEvent(queue)>>
                           ELSE <<QueueEvent(queue)>>
<1>1. Kept /\ Kept' /\ Numbered'
  BY EndTurnKeeps, EndTurnNumbered DEF Seen
<1>2. /\ running # 0 /\ Pump(queue, Flushed, es) /\ buffer' = {}
      /\ UNCHANGED <<sent, rows>> /\ UNCHANGED client
  BY DEF EndTurn
<1>3. up /\ Proper(queue, sent) /\ queue \in Seq(Nat) /\ sent \in Nat
  BY <1>1, <1>2, KeptTypes
<1>4. /\ es \in Seq(Item) /\ Ends(es, queue)
      /\ \A i \in DOMAIN es : ~IsSaid(es[i]) /\ (IsQueue(es[i]) => es[i].queue = queue)
  <2>1. CASE failed
    BY <2>1, <1>3, FailedWrites
  <2>2. CASE ~failed
    BY <2>2, <1>3, QueueWrite
  <2> QED BY <2>1, <2>2
<1> HIDE DEF es
<1>5. sent' \in Nat /\ Proper(queue, sent')
  BY <1>2, <1>3
<1> QED BY <1>1, <1>2, <1>3, <1>4, <1>5, PumpSeen

LEMMA StreamSeen == ASSUME Seen, EventsAssumption, Stream PROVE Seen'
<1>1. /\ said \in 1..(Parts - 1) /\ buffer' = buffer \union {NextMessage}
      /\ UNCHANGED <<sent, up, queue, running, said, status, history, saves, notifies, row, rows,
                     told, removal, removals, revived, missed, crashes>>
      /\ UNCHANGED client
  BY DEF Stream, elsewhere
<1>2. Kept' /\ Numbered'
  BY <1>1, KeptTypes, SameKeeps, SameNumbered DEF Seen
<1>3. said # 0 /\ running # 0
  BY <1>1 DEF Seen, Writes, EventsAssumption
<1>4. Writes'
  BY <1>1, <1>3 DEF Seen, Writes, NextMessage
<1> QED BY <1>1, <1>2, <1>4, SameSeen

LEMMA FlushSeen == ASSUME Seen, EventsAssumption, Flush PROVE Seen'
<1>1. /\ notifies' = notifies \o Flushed \o <<>> /\ Tell(Flushed \o <<>>) /\ buffer' = {}
      /\ UNCHANGED <<sent, up, queue, running, said, status, history, rows, crashes>>
      /\ UNCHANGED client
  BY DEF Flush, Emit
<1>2. Kept' /\ Numbered'
  BY <1>1, FlushKeeps, SameNumbered DEF Seen
<1>3. /\ <<>> \in Seq(Frame) /\ Quiet(<<>>, 0, QueueFrames) /\ Quiet(<<>>, 0, StatusFrames)
      /\ \A i \in DOMAIN <<>> : IsQueue(<<>>[i]) \/ IsStatus(<<>>[i])
  BY DEF Quiet
<1>4. Writes' /\ status' \in Statuses
  BY <1>1 DEF Seen, Writes, ShownTypes
<1> QED BY <1>1, <1>2, <1>3, <1>4, EmitSeen

\* A message: the text that waits goes out before it.
LEMMA SaySeen == ASSUME Seen, EventsAssumption, Say PROVE Seen'
<1>1. Kept' /\ Numbered'
  BY SayKeeps, SayNumbered DEF Seen, Numbered
<1>2. /\ running # 0 /\ notifies' = notifies \o Flushed /\ Tell(Flushed) /\ buffer' = {}
      /\ UNCHANGED <<queue, running, status, rows>> /\ UNCHANGED client
  BY DEF Say, Adds
<1>3. /\ <<>> \in Seq(Frame) /\ Quiet(<<>>, 0, QueueFrames) /\ Quiet(<<>>, 0, StatusFrames)
      /\ \A i \in DOMAIN <<>> : IsQueue(<<>>[i]) \/ IsStatus(<<>>[i])
  BY DEF Quiet
<1>4. notifies' = notifies \o Flushed \o <<>> /\ Tell(Flushed \o <<>>)
  <2>1. notifies \in Seq(Frame) /\ Flushed \in Seq(Frame)
    BY TextFrames DEF Seen, ShownTypes
  <2>2. notifies \o Flushed \in Seq(Frame)
    BY <2>1, JoinFrames
  <2>3. notifies \o Flushed \o <<>> = notifies \o Flushed /\ Flushed \o <<>> = Flushed
    BY <2>1, <2>2, ConcatEmptySeq
  <2> QED BY <1>2, <2>3
<1>5. Writes' /\ status' \in Statuses
  BY <1>2 DEF Seen, Writes, ShownTypes
<1> QED BY <1>1, <1>2, <1>3, <1>4, <1>5, EmitSeen

\* A crash: nobody has been told anything since.
LEMMA CrashSeen == ASSUME Seen, EventsAssumption, Crash PROVE Seen'
<1>1. /\ running' = 0 /\ said' = 0 /\ buffer' = {} /\ up' = FALSE /\ notifies' = <<>>
      /\ told' = Silence
      /\ UNCHANGED <<status, rows>>
      /\ UNCHANGED <<socket, link, upgraded, load, view, heard>>
  BY DEF Crash, client
<1>2. Kept' /\ Numbered'
  BY CrashKeeps, CrashNumbered DEF Seen
<1>3. /\ told' \in [queue : BOOLEAN, status : BOOLEAN, messages : SUBSET Said, texts : SUBSET Said]
      /\ told'.queue = FALSE /\ told'.status = FALSE /\ told'.messages = {} /\ told'.texts = {}
  BY <1>1 DEF Silence
<1>4. <<>> \in Seq(Frame) /\ \A K : Quiet(<<>>, 0, K)
  BY DEF Quiet
<1>5. ShownTypes' /\ Hearing' /\ Unseen'
  BY <1>1, <1>3, <1>4 DEF Seen, ShownTypes, Hearing, Unseen
<1>6. Writes'
  BY <1>1 DEF Seen, Writes
<1>7. Right'
  BY <1>3 DEF Right, QueueRight, StatusRight, MessagesRight
<1> QED BY <1>2, <1>5, <1>6, <1>7 DEF Seen

\* One more frame.
LEMMA OneFrame ==
  ASSUME NEW a \in Seq(Frame), NEW e \in Frame
  PROVE  /\ Append(a, e) = a \o <<e>> /\ <<e>> \in Seq(Frame)
         /\ \A K : e \notin K => Quiet(<<e>>, 0, K)
         /\ \A K : e \in K => Single(<<e>>, 0, K)
<1>1. <<e>> \in Seq(Frame) /\ DOMAIN <<e>> = {1} /\ <<e>>[1] = e
  OBVIOUS
<1>2. Append(a, e) = a \o <<e>>
  BY AppendIsConcat
<1> QED BY <1>1, <1>2 DEF Quiet, Single

\* A write is done; a message it stores is announced.
LEMMA SaveSeen == ASSUME Seen, EventsAssumption, Save PROVE Seen'
<1> DEFINE w == Head(saves)
<1>1. Kept /\ Kept' /\ Numbered'
  <2>1. UNCHANGED <<sent, up, queue, running, said, crashes, history>>
    BY DEF Save, Write, agent, turn
  <2> QED BY <2>1, SaveKeeps, SameNumbered DEF Seen
<1>2. /\ saves # <<>> /\ Write(w)
      /\ UNCHANGED <<queue, running, said, status, history, buffer, crashes>>
      /\ UNCHANGED client /\ UNCHANGED <<socket, link, upgraded, load, view, heard>>
  BY DEF Save, Write, agent, turn, client
<1>3. w \in Item /\ saves \in Seq(Item) /\ up /\ rows \in Seq(Said)
  BY <1>1, <1>2, KeptTypes, HeadTailProperties
<1> HIDE DEF w
<1>4. Writes'
  BY <1>2 DEF Seen, Writes, NextMessage
<1>5. CASE ~IsSaid(w)
  <2>1. UNCHANGED <<rows, notifies, told>>
    BY <1>2, <1>5 DEF Write, IsSaid
  <2> QED BY <1>1, <1>2, <1>4, <2>1, SameSeen
<1>6. CASE IsSaid(w)
  <2> DEFINE m == w.message
  <2>1. /\ rows' = Append(rows, m) /\ notifies' = Append(notifies, w) /\ TellMessage(m)
        /\ m \in Said /\ w \in Frame
    BY <1>2, <1>3, <1>6 DEF Write, IsSaid, Item, Frame
  <2>2. /\ w \in MessageFrame(m) /\ w \notin QueueFrames /\ w \notin StatusFrames
        /\ w \notin Chunks /\ \A x : w \notin ChunksOf(x)
        /\ \A x : x # m => w \notin MessageFrame(x)
    BY <1>6, <2>1 DEF MessageFrame, QueueFrames, StatusFrames, Chunks, ChunksOf, IsSaid, IsQueue,
         IsStatus, IsChunk
  <2> HIDE DEF m
  <2>3. /\ told' \in [queue : BOOLEAN, status : BOOLEAN, messages : SUBSET Said,
                     texts : SUBSET Said]
        /\ told'.queue = told.queue /\ told'.status = told.status /\ told'.texts = told.texts
        /\ \A x \in told'.messages : x \in told.messages \/ (x = m /\ Loaded)
    <3>1. told \in [queue : BOOLEAN, status : BOOLEAN, messages : SUBSET Said, texts : SUBSET Said]
      BY DEF Seen, ShownTypes
    <3>2. told' = IF Loaded THEN [told EXCEPT !.messages = @ \union {m}] ELSE told
      BY <2>1 DEF TellMessage
    <3> QED BY <2>1, <3>1, <3>2
  <2> DEFINE c == socket \o notifies
             d == c \o <<w>>
  <2>4. /\ socket \in Seq(Frame) /\ notifies \in Seq(Frame) /\ c \in Seq(Frame) /\ Coming = c
        /\ <<w>> \in Seq(Frame) /\ notifies' = notifies \o <<w>>
        /\ \A K : w \notin K => Quiet(<<w>>, 0, K)
        /\ \A K : w \in K => Single(<<w>>, 0, K)
    BY <2>1, JoinFrames, OneFrame DEF Seen, ShownTypes, Coming
  <2>5. Coming' = d /\ notifies' \in Seq(Frame)
    <3>1. Coming' = socket \o (notifies \o <<w>>)
      BY <1>2, <2>4 DEF Coming
    <3>2. notifies \o <<w>> \in Seq(Frame)
      BY <2>4, JoinFrames
    <3>3. Coming \o <<w>> = socket \o (notifies \o <<w>>)
      BY <2>4, ComesBehind DEF Seen
    <3> QED BY <2>4, <3>1, <3>2, <3>3
  <2>6. \A x : ~Holds(rows, x) => ~Holds(view.messages, x) /\ Quiet(c, 0, MessageFrame(x))
    BY <2>4, JoinKinds DEF Seen, Unseen
  <2> HIDE DEF c
  <2>7. QueueRight'
    <3> SUFFICES ASSUME told.queue
                 PROVE  /\ QueueWillBe(view, d, 0, queue)
                        /\ \/ heard \/ load.stage = "applied"
                           \/ Settles(d, 0, QueueFrames, QueueFrame(queue))
      BY <1>2, <2>3, <2>5 DEF QueueRight
    <3>1. /\ QueueWillBe(view, c, 0, queue)
          /\ heard \/ load.stage = "applied" \/ Settles(c, 0, QueueFrames, QueueFrame(queue))
      BY <2>4 DEF Seen, Right, QueueRight
    <3> QED BY <2>2, <2>4, <3>1, JoinKinds DEF QueueWillBe
  <2>8. StatusRight'
    <3> SUFFICES ASSUME told.status
                 PROVE  /\ StatusWillBe(view, d, 0, status)
                        /\ status = "idle" => BubbleGoes(view, d, 0)
      BY <1>2, <2>3, <2>5 DEF StatusRight
    <3>1. StatusWillBe(view, c, 0, status) /\ (status = "idle" => BubbleGoes(view, c, 0))
      BY <2>4 DEF Seen, Right, StatusRight
    <3> QED BY <2>2, <2>4, <3>1, JoinKinds DEF StatusWillBe, BubbleGoes
  <2>9. ~Holds(rows, m)
    <3>1. Len(rows) < Len(history) /\ history[Len(rows) + 1] = m
      BY <1>1, <1>2, <1>3, <1>6, KeptTypes, ChainTail DEF Kept, InHand, w, m
    <3>2. Len(rows) + 1 \in DOMAIN history
      BY <1>1, <3>1, KeptTypes, LenProperties
    <3>3. \A i \in DOMAIN rows : i \in DOMAIN history /\ rows[i] = history[i] /\ i # Len(rows) + 1
      <4>1. /\ DOMAIN rows = 1..Len(rows) /\ DOMAIN history = 1..Len(history)
            /\ Len(rows) \in Nat /\ Len(history) \in Nat
        BY <1>1, KeptTypes, LenProperties
      <4>2. Len(rows) <= Len(history) /\ \A i \in DOMAIN rows : rows[i] = history[i]
        BY <1>1 DEF Kept, InOrder
      <4> QED BY <4>1, <4>2
    <3> QED BY <3>1, <3>2, <3>3 DEF Seen, Numbered, Holds
  <2>10. MessagesRight'
    <3>1. ASSUME NEW x \in told'.messages PROVE MessageOnce(view, d, 0, x)
      <4>1. CASE Loaded /\ x = m
        <5>1. ~Holds(view.messages, x) /\ Quiet(c, 0, MessageFrame(x))
          BY <2>6, <2>9, <4>1
        <5>2. Single(<<w>>, 0, MessageFrame(x))
          BY <2>2, <2>4, <4>1
        <5> QED BY <2>4, <5>1, <5>2, JoinKinds DEF MessageOnce
      <4>2. CASE x \in told.messages /\ x # m
        <5>1. MessageOnce(view, c, 0, x)
          BY <2>4, <4>2 DEF Seen, Right, MessagesRight
        <5>2. Quiet(<<w>>, 0, MessageFrame(x))
          BY <2>2, <2>4, <4>2
        <5> QED BY <2>4, <5>1, <5>2, JoinKinds DEF MessageOnce
      <4>3. Loaded
        BY <2>3, <3>1 DEF Seen, Hearing, Loaded, Listens
      <4> QED BY <2>3, <3>1, <4>1, <4>2, <4>3
    <3>2. ASSUME NEW x \in told.texts PROVE TextFirst(view, d, 0, x)
      <4>1. TextFirst(view, c, 0, x)
        BY <2>4, <3>2 DEF Seen, Right, MessagesRight
      <4>2. Quiet(<<w>>, 0, ChunksOf(x))
        BY <2>2, <2>4
      <4> QED BY <2>4, <4>1, <4>2, TextJoin
    <3> QED BY <1>2, <2>3, <2>5, <3>1, <3>2 DEF MessagesRight
  <2>11. ShownTypes' /\ Hearing'
    BY <1>2, <2>3, <2>5 DEF Seen, ShownTypes, Hearing, Loaded, Listens
  <2>12. Unseen'
    <3>1. ASSUME NEW x, ~Holds(rows', x)
          PROVE  ~Holds(rows, x) /\ x # m
      BY <1>3, <2>1, <3>1, ShowsMessage
    <3>2. ASSUME NEW x, ~Holds(rows', x) PROVE Quiet(notifies', 0, MessageFrame(x))
      <4>1. Quiet(notifies, 0, MessageFrame(x)) /\ Quiet(<<w>>, 0, MessageFrame(x))
        BY <2>2, <2>4, <3>1, <3>2 DEF Seen, Unseen
      <4> QED BY <2>4, <4>1, JoinKinds
    <3> QED BY <1>2, <3>1, <3>2 DEF Seen, Unseen
  <2> QED BY <1>1, <1>4, <2>7, <2>8, <2>10, <2>11, <2>12 DEF Seen, Right
<1> QED BY <1>5, <1>6

-----------------------------------------------------------------------------
\* The steps of the channel and of the client.

\* The first frame goes over to another sequence, or is gone.
LEMMA FirstFrame ==
  ASSUME NEW a \in Seq(Frame), NEW b \in Seq(Frame), b # <<>>
  PROVE  /\ Head(b) \in Frame /\ b[1] = Head(b) /\ 1 \in DOMAIN b
         /\ Append(a, Head(b)) \in Seq(Frame) /\ Tail(b) \in Seq(Frame)
         /\ Append(a, Head(b)) \o Tail(b) = a \o b
         /\ b \o a # <<>> /\ (b \o a)[1] = Head(b) /\ Tail(b \o a) = Tail(b) \o a
         /\ \A K : Quiet(b, 0, K) => Quiet(Tail(b), 0, K) /\ Head(b) \notin K
<1> DEFINE e == Head(b)
           t == Tail(b)
<1>1. e \in Frame /\ t \in Seq(Frame) /\ b = <<e>> \o t /\ <<e>> \in Seq(Frame)
  BY HeadTailProperties, ConcatProperties
<1>2. Len(b) \in Nat /\ Len(b) > 0 /\ DOMAIN b = 1..Len(b) /\ b[1] = e
  BY EmptySeq, LenProperties
<1> HIDE DEF e, t
<1>3. Append(a, e) \in Seq(Frame) /\ Append(a, e) = a \o <<e>>
  BY <1>1, OneFrame, JoinFrames
<1>4. (a \o <<e>>) \o t = a \o (<<e>> \o t)
  BY <1>1, Regroup
<1>5. Append(a, e) \o t = a \o b
  BY <1>1, <1>3, <1>4
<1>6. b \o a \in Seq(Frame) /\ 1 \in DOMAIN (b \o a) /\ (b \o a)[1] = e
  BY <1>2, JoinFrames
<1>7. b \o a # <<>>
  BY <1>6
<1>8. Tail(b \o a) = t \o a
  BY <1>2, ConcatProperties DEF t
<1>9. ASSUME NEW K, Quiet(b, 0, K) PROVE Quiet(t, 0, K) /\ e \notin K
  <2>1. e \notin K /\ Quiet(b, 1, K)
    BY <1>2, <1>9, Behind
  <2> QED BY <2>1, Shifted DEF t
<1> QED BY <1>1, <1>2, <1>3, <1>5, <1>6, <1>7, <1>8, <1>9 DEF e, t

\* A text stays before its message when the first frame has gone.
LEMMA TextShifted ==
  ASSUME NEW v, NEW es \in Seq(Frame), es # <<>>, NEW m, TextFirst(v, es, 1, m)
  PROVE  TextFirst(v, Tail(es), 0, m)
<1> DEFINE t == Tail(es)
<1>1. /\ Len(es) \in Nat /\ Len(es) > 0 /\ DOMAIN es = 1..Len(es) /\ t \in Seq(Frame)
      /\ Len(t) = Len(es) - 1 /\ DOMAIN t = 1..Len(t)
      /\ \A i \in 1..Len(t) : t[i] = es[i + 1]
  BY EmptySeq, LenProperties, HeadTailProperties
<1>2. Quiet(es, 1, ChunksOf(m)) => Quiet(t, 0, ChunksOf(m))
  BY Shifted
<1> HIDE DEF t
<1>3. ASSUME NEW k \in DOMAIN t, t[k] \in MessageFrame(m) PROVE Quiet(t, k, ChunksOf(m))
  <2>1. k + 1 \in DOMAIN es /\ k + 1 > 1 /\ es[k + 1] = t[k]
    BY <1>1
  <2>2. Quiet(es, k + 1, ChunksOf(m))
    BY <1>3, <2>1 DEF TextFirst
  <2>3. ASSUME NEW j \in DOMAIN t, j > k
        PROVE  j + 1 \in DOMAIN es /\ j + 1 > k + 1 /\ t[j] = es[j + 1]
    BY <1>1, <2>3
  <2> QED BY <2>2, <2>3 DEF Quiet
<1> QED BY <1>2, <1>3 DEF TextFirst, t

\* Nothing was told: whatever is shown is right.
LEMMA NothingTold ==
  ASSUME Hearing, link # "open"
  PROVE  ~told.queue /\ ~told.status /\ told.messages = {} /\ told.texts = {}
  BY DEF Hearing

\* Who was told nothing is shown nothing wrong.
LEMMA RightOfNothing ==
  ASSUME told' \in [queue : BOOLEAN, status : BOOLEAN, messages : SUBSET Said, texts : SUBSET Said],
         ~told'.queue, ~told'.status, told'.messages = {}, told'.texts = {}
  PROVE  Right'
  BY DEF Right, QueueRight, StatusRight, MessagesRight

\* A step of the client leaves the session's part as it is.
LEMMA ElsewhereSeen ==
  ASSUME Seen, ElsewhereUnchanged
  PROVE  /\ Kept' /\ Numbered' /\ Writes'
         /\ UNCHANGED <<notifies, rows, row, queue, status>>
<1>1. /\ UNCHANGED <<saves, notifies, row, rows, sent, up, queue, running, said, buffer, status,
                     history, removal, removals, revived, missed, crashes>>
  BY DEF ElsewhereUnchanged, agent, turn, elsewhere
<1>2. Kept' /\ Numbered'
  BY <1>1, KeptTypes, SameKeeps, SameNumbered DEF Seen
<1> QED BY <1>1, <1>2 DEF Seen, Writes, NextMessage

\* A message on its way has its row: it is never dropped.
LEMMA DeliverSeen == ASSUME Seen, EventsAssumption, Deliver PROVE Seen'
<1> DEFINE e == Head(notifies)
<1>1. /\ notifies # <<>> /\ notifies' = Tail(notifies)
      /\ socket' = IF link = "open" /\ Readable(e) THEN Append(socket, e) ELSE socket
      /\ UNCHANGED <<sent, up, queue, running, said, buffer, status, history, saves, row, rows,
                     removal, removals, revived, missed, crashes, link, upgraded, load, view, heard, told>>
  BY DEF Deliver, agent, turn, elsewhere
<1>2. /\ socket \in Seq(Frame) /\ notifies \in Seq(Frame) /\ told.queue \in BOOLEAN
      /\ told' \in [queue : BOOLEAN, status : BOOLEAN, messages : SUBSET Said, texts : SUBSET Said]
  BY <1>1 DEF Seen, ShownTypes
<1>3. Kept' /\ Numbered'
  BY <1>1, KeptTypes, SameKeeps, SameNumbered DEF Seen
<1>4. Writes' /\ Hearing'
  BY <1>1 DEF Seen, Writes, NextMessage, Hearing
<1>5. /\ e \in Frame /\ notifies[1] = e /\ 1 \in DOMAIN notifies
      /\ Append(socket, e) \in Seq(Frame) /\ Tail(notifies) \in Seq(Frame)
      /\ Append(socket, e) \o Tail(notifies) = socket \o notifies
      /\ \A K : Quiet(notifies, 0, K) => Quiet(Tail(notifies), 0, K) /\ e \notin K
  BY <1>1, <1>2, FirstFrame
<1> HIDE DEF e
<1>6. socket' \in Seq(Frame) /\ notifies' \in Seq(Frame)
  BY <1>1, <1>2, <1>5
<1>7. ShownTypes'
  BY <1>1, <1>6 DEF Seen, ShownTypes
<1>8. Unseen'
  <2>1. ASSUME NEW m, ~Holds(rows, m)
        PROVE  Quiet(socket', 0, MessageFrame(m)) /\ Quiet(notifies', 0, MessageFrame(m))
    <3>1. Quiet(socket, 0, MessageFrame(m)) /\ Quiet(notifies, 0, MessageFrame(m))
      BY <2>1 DEF Seen, Unseen
    <3>2. Quiet(notifies', 0, MessageFrame(m)) /\ e \notin MessageFrame(m)
      BY <1>1, <1>5, <3>1
    <3>3. Quiet(Append(socket, e), 0, MessageFrame(m))
      <4>1. /\ Append(socket, e) = socket \o <<e>> /\ <<e>> \in Seq(Frame)
            /\ Quiet(<<e>>, 0, MessageFrame(m))
        BY <1>2, <1>5, <3>2, OneFrame
      <4>2. Quiet(socket \o <<e>>, 0, MessageFrame(m))
        BY <1>2, <3>1, <4>1, JoinKinds
      <4> QED BY Zenon, <4>1, <4>2
    <3> QED BY <1>1, <3>1, <3>2, <3>3
  <2> QED BY <1>1, <2>1 DEF Seen, Unseen
<1>9. Right'
  <2>1. CASE link = "open"
    <3>1. ASSUME IsSaid(e) PROVE Contains(rows, e.message)
      <4>1. e \in MessageFrame(e.message)
        BY <1>5, <3>1 DEF MessageFrame
      <4>2. Holds(rows, e.message)
        BY <1>5, <4>1 DEF Seen, Unseen
      <4>3. rows \in Seq(Said)
        BY KeptTypes DEF Seen
      <4> QED BY <4>2, <4>3, LenProperties DEF Holds, Contains
    <3>2. socket' = Append(socket, e)
      BY <1>1, <2>1, <3>1 DEF Readable, IsSaid
    <3>3. Coming' = Coming
      BY <1>1, <1>5, <3>2 DEF Coming
    <3> QED BY <1>1, <3>3 DEF Seen, Right, QueueRight, StatusRight, MessagesRight
  <2>2. CASE link # "open"
    BY <1>1, <1>2, <2>2, NothingTold, RightOfNothing DEF Seen
  <2> QED BY <2>1, <2>2
<1> QED BY <1>3, <1>4, <1>7, <1>8, <1>9 DEF Seen

\* The first frame of b is lost, behind those of a.
LEMMA LostFrame ==
  ASSUME NEW a \in Seq(Frame), NEW b \in Seq(Frame), b # <<>>
  PROVE  /\ Head(b) \in Frame /\ Tail(b) \in Seq(Frame)
         /\ \A K : Quiet(a \o b, 0, K) => Quiet(a \o Tail(b), 0, K) /\ Quiet(Tail(b), 0, K)
         /\ \A K : Quiet(b, 0, K) => Quiet(Tail(b), 0, K)
         /\ \A K : Single(a \o b, 0, K) /\ Head(b) \notin K => Single(a \o Tail(b), 0, K)
         /\ \A K, G : Settles(a \o b, 0, K, G) /\ Head(b) \notin G =>
              Settles(a \o Tail(b), 0, K, G)
         /\ \A K, L, G : Settles(a \o b, 0, K, G) /\ Settles(a \o b, 0, L, G)
                         /\ ~Quiet(Tail(b), 0, L) => Settles(a \o Tail(b), 0, K, G)
         /\ \A v, m : TextFirst(v, a \o b, 0, m) => TextFirst(v, a \o Tail(b), 0, m)
<1> DEFINE t == Tail(b)
           c == a \o b
           d == a \o t
           n == Len(a)
           At(i) == IF i <= n THEN i ELSE i + 1
<1>1. /\ n \in Nat /\ Len(b) \in Nat /\ Len(b) > 0 /\ DOMAIN a = 1..n /\ DOMAIN b = 1..Len(b)
      /\ t \in Seq(Frame) /\ Len(t) = Len(b) - 1 /\ DOMAIN t = 1..Len(t)
      /\ \A i \in 1..Len(t) : t[i] = b[i + 1]
      /\ Head(b) = b[1] /\ b[1] \in Frame
  BY EmptySeq, LenProperties, HeadTailProperties, ElementOfSeq
<1> HIDE DEF t
<1>2. /\ Len(c) = n + Len(b) /\ Len(d) = n + Len(t) /\ DOMAIN c = 1..Len(c) /\ DOMAIN d = 1..Len(d)
      /\ \A i \in 1..(n + Len(b)) : c[i] = IF i <= n THEN a[i] ELSE b[i - n]
      /\ \A i \in 1..(n + Len(t)) : d[i] = IF i <= n THEN a[i] ELSE t[i - n]
  BY <1>1, ConcatProperties, LenProperties
<1> HIDE DEF c, d, n
<1>3. ASSUME NEW i \in DOMAIN d
      PROVE  /\ At(i) \in DOMAIN c /\ d[i] = c[At(i)] /\ At(i) # n + 1 /\ At(i) > 0 /\ i > 0
             /\ At(i) \in Nat /\ i \in Nat
  <2>1. i \in 1..(n + Len(t))
    BY <1>2
  <2>2. CASE i <= n
    BY <1>1, <1>2, <2>1, <2>2
  <2>3. CASE i > n
    <3>1. /\ i - n \in 1..Len(t) /\ (i + 1) - n = (i - n) + 1 /\ i + 1 \in 1..(n + Len(b))
          /\ ~(i <= n) /\ ~(i + 1 <= n) /\ i + 1 # n + 1 /\ i + 1 > 0 /\ i \in Nat
      BY <1>1, <2>1, <2>3
    <3>2. c[i + 1] = b[(i + 1) - n] /\ d[i] = t[i - n] /\ t[i - n] = b[(i - n) + 1]
      BY <1>1, <1>2, <2>1, <3>1
    <3> QED BY <1>2, <3>1, <3>2
  <2> QED BY <1>1, <2>1, <2>2, <2>3
<1>4. ASSUME NEW k \in DOMAIN c, k # n + 1 PROVE \E i \in DOMAIN d : At(i) = k
  <2>1. k \in 1..(n + Len(b))
    BY <1>2
  <2>2. CASE k <= n
    BY <1>1, <1>2, <2>1, <2>2
  <2>3. CASE k > n
    <3>1. k - 1 \in 1..(n + Len(t)) /\ ~(k - 1 <= n) /\ (k - 1) + 1 = k
      BY <1>1, <1>4, <2>1, <2>3
    <3> QED BY <1>2, <3>1
  <2> QED BY <1>1, <2>1, <2>2, <2>3
<1>5. ASSUME NEW i \in DOMAIN d, NEW j \in DOMAIN d
      PROVE  (j > i <=> At(j) > At(i)) /\ (At(i) = At(j) => i = j)
  BY <1>1, <1>3
<1>6. ASSUME NEW i \in DOMAIN t
      PROVE  n + 1 + i \in DOMAIN c /\ c[n + 1 + i] = t[i] /\ n + 1 + i > n + 1
  <2>1. /\ n + 1 + i \in 1..(n + Len(b)) /\ ~(n + 1 + i <= n) /\ (n + 1 + i) - n = i + 1
        /\ n + 1 + i > n + 1
    BY <1>1
  <2> QED BY <1>1, <1>2, <2>1
<1> HIDE DEF At
<1>7. ASSUME NEW K, Quiet(c, 0, K) PROVE Quiet(d, 0, K) /\ Quiet(t, 0, K)
  <2>1. Quiet(d, 0, K)
    BY <1>3, <1>7 DEF Quiet
  <2>2. \A i \in DOMAIN t : n + 1 + i > 0
    BY <1>1
  <2> QED BY <1>6, <1>7, <2>1, <2>2 DEF Quiet
<1>8. ASSUME NEW K, NEW i \in DOMAIN d, Quiet(c, At(i), K) PROVE Quiet(d, i, K)
  BY <1>3, <1>5, <1>8 DEF Quiet
<1>9. ASSUME NEW K, NEW G, NEW k \in DOMAIN c, k # n + 1, c[k] \in G, Quiet(c, k, K)
      PROVE  Settles(d, 0, K, G)
  <2>1. PICK i \in DOMAIN d : At(i) = k
    BY <1>4, <1>9
  <2>2. d[i] \in G /\ i > 0 /\ Quiet(d, i, K)
    BY <1>3, <1>8, <1>9, <2>1
  <2> QED BY <2>2 DEF Settles
<1>10. c[n + 1] = Head(b)
  <2>1. n + 1 \in 1..(n + Len(b)) /\ ~(n + 1 <= n) /\ (n + 1) - n = 1
    BY <1>1
  <2> QED BY <1>1, <1>2, <2>1
<1>11. ASSUME NEW K, NEW G, Settles(c, 0, K, G), Head(b) \notin G PROVE Settles(d, 0, K, G)
  BY <1>9, <1>10, <1>11 DEF Settles
<1>12. ASSUME NEW K, NEW L, NEW G, Settles(c, 0, K, G), Settles(c, 0, L, G), ~Quiet(t, 0, L)
       PROVE  Settles(d, 0, K, G)
  <2>1. PICK k \in DOMAIN c : c[k] \in G /\ Quiet(c, k, K)
    BY <1>12 DEF Settles
  <2>2. PICK l \in DOMAIN c : c[l] \in G /\ Quiet(c, l, L)
    BY <1>12 DEF Settles
  <2>3. PICK i \in DOMAIN t : t[i] \in L
    BY <1>12 DEF Quiet
  <2>4. k \in Nat /\ l \in Nat /\ n + 1 + i \in Nat /\ n + 1 + i > n + 1
    BY <1>1, <1>2
  <2>5. ~(n + 1 + i > l)
    BY <1>6, <2>2, <2>3 DEF Quiet
  <2>6. l > n + 1
    BY <1>1, <2>4, <2>5
  <2>7. CASE k = n + 1
    <3>1. \A j \in DOMAIN c : j > l => j > k
      BY <1>1, <1>2, <2>4, <2>6, <2>7
    <3>2. Quiet(c, l, K)
      BY <2>1, <3>1 DEF Quiet
    <3>3. l # n + 1
      BY <1>1, <2>4, <2>6
    <3> QED BY <1>9, <2>2, <3>2, <3>3
  <2>8. CASE k # n + 1
    BY <1>9, <2>1, <2>8
  <2> QED BY <2>7, <2>8
<1>13. ASSUME NEW K, Single(c, 0, K), Head(b) \notin K PROVE Single(d, 0, K)
  <2>1. PICK k \in DOMAIN c : /\ k > 0 /\ c[k] \in K
                              /\ \A j \in DOMAIN c : j > 0 /\ j # k => c[j] \notin K
    BY <1>13 DEF Single
  <2>2. PICK i \in DOMAIN d : At(i) = k
    BY <1>4, <1>10, <1>13, <2>1
  <2>3. d[i] \in K /\ i > 0
    BY <1>3, <2>1, <2>2
  <2>4. ASSUME NEW j \in DOMAIN d, j # i PROVE d[j] \notin K
    <3>1. At(j) # k
      BY <1>5, <2>2, <2>4
    <3> QED BY <1>3, <2>1, <3>1
  <2> QED BY <2>3, <2>4 DEF Single
<1>14. ASSUME NEW v, NEW m, TextFirst(v, c, 0, m) PROVE TextFirst(v, d, 0, m)
  <2>1. Quiet(c, 0, ChunksOf(m)) => Quiet(d, 0, ChunksOf(m))
    BY <1>7
  <2>2. ASSUME NEW i \in DOMAIN d, d[i] \in MessageFrame(m) PROVE Quiet(d, i, ChunksOf(m))
    <3>1. Quiet(c, At(i), ChunksOf(m))
      BY <1>3, <1>14, <2>2 DEF TextFirst
    <3> QED BY <1>8, <3>1
  <2> QED BY <1>14, <2>1, <2>2 DEF TextFirst
<1>15. ASSUME NEW K, Quiet(b, 0, K) PROVE Quiet(t, 0, K)
  <2>1. \A i \in DOMAIN t : i + 1 \in DOMAIN b /\ i + 1 > 0 /\ t[i] = b[i + 1]
    BY <1>1
  <2> QED BY <1>15, <2>1 DEF Quiet
<1> QED BY <1>1, <1>7, <1>11, <1>12, <1>13, <1>14, <1>15 DEF t, c, d

\* An event is lost: what was told is still right when a later one repeats it.
LEMMA LoseSeen == ASSUME Seen, EventsAssumption, Lose PROVE Seen'
<1> DEFINE e == Head(notifies)
           t == Tail(notifies)
           c == socket \o notifies
           d == socket \o t
<1>1. /\ notifies # <<>> /\ notifies' = t /\ Untell(e, t)
      /\ UNCHANGED <<sent, up, queue, running, said, buffer, status, history, saves, row, rows,
                     removal, removals, revived, missed, crashes, socket, link, upgraded, load,
                     view, heard>>
  BY DEF Lose, agent, turn, client
<1>2. /\ socket \in Seq(Frame) /\ notifies \in Seq(Frame)
      /\ told \in [queue : BOOLEAN, status : BOOLEAN, messages : SUBSET Said, texts : SUBSET Said]
  BY DEF Seen, ShownTypes
<1>3. Kept' /\ Numbered'
  BY <1>1, KeptTypes, SameKeeps, SameNumbered DEF Seen
<1>4. /\ e \in Frame /\ t \in Seq(Frame)
      /\ \A K : Quiet(c, 0, K) => Quiet(d, 0, K) /\ Quiet(t, 0, K)
      /\ \A K : Quiet(notifies, 0, K) => Quiet(t, 0, K)
      /\ \A K : Single(c, 0, K) /\ e \notin K => Single(d, 0, K)
      /\ \A K, G : Settles(c, 0, K, G) /\ e \notin G => Settles(d, 0, K, G)
      /\ \A K, L, G : Settles(c, 0, K, G) /\ Settles(c, 0, L, G) /\ ~Quiet(t, 0, L) =>
           Settles(d, 0, K, G)
      /\ \A v, m : TextFirst(v, c, 0, m) => TextFirst(v, d, 0, m)
  BY <1>1, <1>2, LostFrame
<1>5. Coming = c /\ Coming' = d
  BY <1>1 DEF Coming
<1> HIDE DEF c, d, e, t
<1>6. \A i \in DOMAIN t : t[i] \in Frame /\ i > 0
  BY <1>4, LenProperties, ElementOfSeq
<1>7. /\ told' \in [queue : BOOLEAN, status : BOOLEAN, messages : SUBSET Said,
                    texts : SUBSET Said]
      /\ told'.queue => told.queue /\ (IsQueue(e) => ~Quiet(t, 0, QueueFrames))
      /\ told'.status => told.status /\ (IsStatus(e) => ~Quiet(t, 0, StatusFrames))
      /\ told'.texts = told.texts
      /\ \A m \in told'.messages : m \in told.messages /\ e \notin MessageFrame(m)
  <2> DEFINE Again(kind) == \E i \in DOMAIN t : t[i].kind = kind
  <2>1. told' = [told EXCEPT !.queue = @ /\ (e.kind = "queue" => Again("queue")),
                             !.status = @ /\ (e.kind = "status" => Again("status")),
                             !.messages = IF e.kind = "message" THEN @ \ {e.message} ELSE @]
    BY <1>1 DEF Untell
  <2>2. Again("queue") => ~Quiet(t, 0, QueueFrames)
    BY <1>6 DEF Quiet, QueueFrames, IsQueue
  <2>3. Again("status") => ~Quiet(t, 0, StatusFrames)
    BY <1>6 DEF Quiet, StatusFrames, IsStatus
  <2> HIDE DEF Again
  <2>4. /\ told'.queue = (told.queue /\ (e.kind = "queue" => Again("queue")))
        /\ told'.status = (told.status /\ (e.kind = "status" => Again("status")))
        /\ told'.texts = told.texts
        /\ told'.messages = IF e.kind = "message" THEN told.messages \ {e.message}
                                                   ELSE told.messages
    BY <1>2, <2>1
  <2>5. told' \in [queue : BOOLEAN, status : BOOLEAN, messages : SUBSET Said, texts : SUBSET Said]
    BY <1>2, <2>1, <2>4
  <2>6. \A m \in told'.messages : m \in told.messages /\ e \notin MessageFrame(m)
    BY <2>4 DEF MessageFrame, IsSaid
  <2> QED BY <2>2, <2>3, <2>4, <2>5, <2>6 DEF IsQueue, IsStatus
<1>8. ShownTypes' /\ Hearing' /\ Writes'
  <2>1. ShownTypes'
    BY <1>1, <1>4, <1>7 DEF Seen, ShownTypes
  <2>2. Hearing'
    BY <1>1, <1>7 DEF Seen, Hearing
  <2>3. Writes'
    BY <1>1 DEF Seen, Writes, NextMessage
  <2> QED BY <2>1, <2>2, <2>3
<1>9. Unseen'
  BY <1>1, <1>4 DEF Seen, Unseen
<1>10. QueueRight'
  <2> SUFFICES ASSUME told'.queue
               PROVE  /\ QueueWillBe(view, d, 0, queue)
                      /\ \/ heard \/ load.stage = "applied"
                         \/ Settles(d, 0, QueueFrames, QueueFrame(queue))
    BY <1>1, <1>5 DEF QueueRight
  <2>1. /\ QueueWillBe(view, c, 0, queue)
        /\ heard \/ load.stage = "applied" \/ Settles(c, 0, QueueFrames, QueueFrame(queue))
    BY <1>5, <1>7 DEF Seen, Right, QueueRight
  <2>2. Settles(c, 0, QueueFrames, QueueFrame(queue)) =>
          Settles(d, 0, QueueFrames, QueueFrame(queue))
    BY <1>4, <1>7 DEF QueueFrame
  <2> QED BY <1>4, <2>1, <2>2 DEF QueueWillBe
<1>11. StatusRight'
  <2> SUFFICES ASSUME told'.status
               PROVE  /\ StatusWillBe(view, d, 0, status)
                      /\ status = "idle" => BubbleGoes(view, d, 0)
    BY <1>1, <1>5 DEF StatusRight
  <2>1. StatusWillBe(view, c, 0, status) /\ (status = "idle" => BubbleGoes(view, c, 0))
    BY <1>5, <1>7 DEF Seen, Right, StatusRight
  <2>2. Settles(c, 0, StatusFrames, StatusFrame(status)) =>
          Settles(d, 0, StatusFrames, StatusFrame(status))
    BY <1>4, <1>7 DEF StatusFrame
  <2>3. ASSUME status = "idle", Settles(c, 0, Chunks, StatusFrame("idle"))
        PROVE  Settles(d, 0, Chunks, StatusFrame("idle"))
    <3>1. CASE IsStatus(e)
      <4>1. ~Quiet(t, 0, StatusFrames)
        BY <1>7, <3>1
      <4>2. Settles(c, 0, StatusFrames, StatusFrame("idle"))
        BY <1>4, <2>1, <2>3, <4>1 DEF StatusWillBe
      <4> QED BY <1>4, <2>3, <4>1, <4>2
    <3>2. CASE ~IsStatus(e)
      BY <1>4, <2>3, <3>2 DEF StatusFrame
    <3> QED BY <3>1, <3>2
  <2> QED BY <1>4, <2>1, <2>2, <2>3 DEF StatusWillBe, BubbleGoes
<1>12. MessagesRight'
  <2>1. ASSUME NEW m \in told'.messages PROVE MessageOnce(view, d, 0, m)
    <3>1. MessageOnce(view, c, 0, m) /\ e \notin MessageFrame(m)
      BY <1>5, <1>7, <2>1 DEF Seen, Right, MessagesRight
    <3> QED BY <1>4, <3>1 DEF MessageOnce
  <2>2. ASSUME NEW m \in told'.texts PROVE TextFirst(view, d, 0, m)
    <3>1. TextFirst(view, c, 0, m)
      BY <1>5, <1>7, <2>2 DEF Seen, Right, MessagesRight
    <3> QED BY <1>4, <3>1
  <2> QED BY <1>1, <1>5, <2>1, <2>2 DEF MessagesRight
<1> QED BY <1>3, <1>8, <1>9, <1>10, <1>11, <1>12 DEF Seen, Right

LEMMA RemoveReadsSeen ==
  ASSUME Seen, EventsAssumption, NEW i \in DOMAIN row.queue, RemoveReads(i) PROVE Seen'
<1>1. /\ UNCHANGED <<running, said, buffer, queue, status, history, sent, up, crashes, rows,
                     notifies, told>>
      /\ UNCHANGED client
  BY DEF RemoveReads, agent, turn
<1>2. Kept' /\ Numbered'
  BY <1>1, RemoveReadsKeeps, SameNumbered DEF Seen
<1>3. Writes'
  BY <1>1 DEF Seen, Writes, NextMessage
<1> QED BY <1>1, <1>2, <1>3, SameSeen

LEMMA RemoveWritesSeen == ASSUME Seen, EventsAssumption, RemoveWrites PROVE Seen'
<1>1. /\ UNCHANGED <<running, said, buffer, queue, status, history, sent, up, crashes, rows,
                     notifies, told>>
      /\ UNCHANGED client
  BY DEF RemoveWrites, agent, turn
<1>2. Kept' /\ Numbered'
  BY <1>1, RemoveWritesKeeps, SameNumbered DEF Seen
<1>3. Writes'
  BY <1>1 DEF Seen, Writes, NextMessage
<1> QED BY <1>1, <1>2, <1>3, SameSeen

LEMMA RemoveFailsSeen == ASSUME Seen, EventsAssumption, RemoveFails PROVE Seen'
<1>1. /\ UNCHANGED <<running, said, buffer, queue, status, history, sent, up, crashes, rows,
                     notifies, told>>
      /\ UNCHANGED client
  BY DEF RemoveFails, agent, turn
<1>2. Kept' /\ Numbered'
  BY <1>1, RemoveFailsKeeps, SameNumbered DEF Seen
<1>3. Writes'
  BY <1>1 DEF Seen, Writes, NextMessage
<1> QED BY <1>1, <1>2, <1>3, SameSeen

\* A message whose save failed is told to nobody.
LEMMA SaveFailsSeen == ASSUME Seen, EventsAssumption, SaveFails PROVE Seen'
<1>1. /\ UNCHANGED <<running, said, buffer, queue, status, crashes, rows, notifies, told>>
      /\ UNCHANGED client
  BY DEF SaveFails, turn
<1>2. Kept' /\ Numbered'
  BY SaveFailsKeeps, SaveFailsNumbered DEF Seen
<1>3. Writes'
  BY <1>1 DEF Seen, Writes, NextMessage
<1> QED BY <1>1, <1>2, <1>3, SameSeen

LEMMA UpgradeSeen == ASSUME Seen, EventsAssumption, Upgrade PROVE Seen'
<1>1. /\ link = "off" /\ Watched /\ link' = "row" /\ upgraded' = row.status
      /\ UNCHANGED <<socket, load, view, heard, told>> /\ ElsewhereUnchanged
  BY DEF Upgrade
<1>2. /\ Kept' /\ Numbered' /\ Writes'
      /\ UNCHANGED <<notifies, rows, row, queue, status>>
  BY <1>1, ElsewhereSeen
<1>3. ~told.queue /\ ~told.status /\ told.messages = {} /\ told.texts = {}
  BY <1>1, NothingTold DEF Seen
<1>4. row.status \in Statuses
  BY KeptTypes DEF Seen, Statuses
<1>5. ShownTypes'
  BY <1>1, <1>2, <1>4 DEF Seen, ShownTypes
<1>6. Hearing'
  BY <1>1, <1>2, <1>3 DEF Seen, Hearing
<1>7. Unseen'
  BY <1>1, <1>2 DEF Seen, Unseen
<1>8. Right'
  BY <1>1, <1>3, <1>5, RightOfNothing DEF ShownTypes
<1> QED BY <1>2, <1>5, <1>6, <1>7, <1>8 DEF Seen

LEMMA SubscribeSeen == ASSUME Seen, EventsAssumption, Subscribe PROVE Seen'
<1>1. /\ link = "row" /\ link' = "open" /\ socket' = <<StatusEvent(upgraded)>> /\ upgraded' = "idle"
      /\ UNCHANGED <<load, view, heard, told>> /\ ElsewhereUnchanged
  BY DEF Subscribe
<1>2. /\ Kept' /\ Numbered' /\ Writes'
      /\ UNCHANGED <<notifies, rows, row, queue, status>>
  BY <1>1, ElsewhereSeen
<1>3. ~told.queue /\ ~told.status /\ told.messages = {} /\ told.texts = {}
  BY <1>1, NothingTold DEF Seen
<1>4. StatusEvent(upgraded) \in Frame /\ ~IsSaid(StatusEvent(upgraded))
  BY EventItems DEF Seen, ShownTypes, Statuses, Frame
<1>5. socket' \in Seq(Frame) /\ \A m : Quiet(socket', 0, MessageFrame(m))
  BY <1>1, <1>4 DEF Quiet, MessageFrame
<1>6. ShownTypes'
  BY <1>1, <1>2, <1>5 DEF Seen, ShownTypes, Statuses
<1>7. Hearing'
  BY <1>1, <1>2, <1>3 DEF Seen, Hearing
<1>8. Unseen'
  BY <1>1, <1>2, <1>5 DEF Seen, Unseen
<1>9. Right'
  BY <1>1, <1>3, <1>6, RightOfNothing DEF ShownTypes
<1> QED BY <1>2, <1>6, <1>7, <1>8, <1>9 DEF Seen

LEMMA DropSeen == ASSUME Seen, EventsAssumption, Drop PROVE Seen'
<1>1. /\ link' = "off" /\ socket' = <<>> /\ told' = Silence
      /\ UNCHANGED <<upgraded, load, view, heard>>
      /\ UNCHANGED <<saves, notifies, row, rows, sent, up, queue, running, said, buffer, status,
                     history, removal, removals, revived, missed, crashes>>
  BY DEF Drop, agent, turn
<1>2. Kept' /\ Numbered'
  BY <1>1, KeptTypes, SameKeeps, SameNumbered DEF Seen
<1>3. /\ told' \in [queue : BOOLEAN, status : BOOLEAN, messages : SUBSET Said, texts : SUBSET Said]
      /\ ~told'.queue /\ ~told'.status /\ told'.messages = {} /\ told'.texts = {}
  BY <1>1 DEF Silence
<1>4. socket' \in Seq(Frame) /\ \A m : Quiet(socket', 0, MessageFrame(m))
  BY <1>1 DEF Quiet
<1>5. ShownTypes' /\ Hearing' /\ Writes' /\ Unseen'
  BY <1>1, <1>3, <1>4 DEF Seen, ShownTypes, Hearing, Writes, NextMessage, Unseen
<1>6. Right'
  BY <1>3, RightOfNothing
<1> QED BY <1>2, <1>5, <1>6 DEF Seen

\* Only the queue was told before the snapshot.
LEMMA BeforeLoad ==
  ASSUME Seen, load.stage # "applied", load' \in [stage : {"none", "sent", "applied"},
           row : [queue : Seq(Nat), status : Statuses], rows : Seq(Said)],
         view' \in Screen, UNCHANGED <<socket, link, upgraded, told>>, ElsewhereUnchanged,
         \A m : ~Holds(rows, m) => ~Holds(view'.messages, m) /\ ~Holds(load'.rows, m),
         heard' \/ load'.stage = "applied" \/ ~heard,
         heard => view'.queue = view.queue, load'.stage # "applied" => UNCHANGED <<view, heard>>
  PROVE  Seen'
<1>1. /\ Kept' /\ Numbered' /\ Writes'
      /\ UNCHANGED <<notifies, rows, row, queue, status>>
  BY ElsewhereSeen
<1>2. ~told.status /\ told.messages = {} /\ told.texts = {}
  BY DEF Seen, Hearing
<1>3. ShownTypes' /\ Hearing' /\ Unseen'
  BY <1>1, <1>2 DEF Seen, ShownTypes, Hearing, Unseen
<1>4. StatusRight' /\ MessagesRight'
  BY <1>2 DEF StatusRight, MessagesRight
<1>5. Coming' = Coming
  BY <1>1 DEF Coming
<1>6. QueueRight'
  <2> SUFFICES ASSUME told.queue
               PROVE  /\ QueueWillBe(view', Coming, 0, queue)
                      /\ \/ heard' \/ load'.stage = "applied"
                         \/ Settles(Coming, 0, QueueFrames, QueueFrame(queue))
    BY <1>1, <1>5 DEF QueueRight
  <2>1. /\ QueueWillBe(view, Coming, 0, queue)
        /\ heard \/ Settles(Coming, 0, QueueFrames, QueueFrame(queue))
    BY DEF Seen, Right, QueueRight
  <2> QED BY <2>1 DEF QueueWillBe
<1> QED BY <1>1, <1>3, <1>4, <1>6 DEF Seen, Right

LEMMA LoadRowSeen == ASSUME Seen, EventsAssumption, LoadRow PROVE Seen'
<1>1. /\ load.stage = "none" /\ load' = [stage |-> "sent", row |-> row, rows |-> rows]
      /\ UNCHANGED <<socket, link, upgraded, view, heard, told>> /\ ElsewhereUnchanged
  BY DEF LoadRow
<1>2. /\ load' \in [stage : {"none", "sent", "applied"},
                   row : [queue : Seq(Nat), status : Statuses], rows : Seq(Said)]
      /\ load'.stage = "sent" /\ load'.rows = rows
  BY <1>1, KeptTypes DEF Seen, Statuses
<1>3. view' \in Screen
  BY <1>1 DEF Seen, ShownTypes
<1>4. \A m : ~Holds(rows, m) => ~Holds(view'.messages, m) /\ ~Holds(load'.rows, m)
  BY <1>1, <1>2 DEF Seen, Unseen
<1> QED BY <1>1, <1>2, <1>3, <1>4, BeforeLoad

LEMMA LoadReturnsSeen == ASSUME Seen, EventsAssumption, LoadReturns PROVE Seen'
<1>1. /\ load.stage = "sent" /\ load' = [NoLoad EXCEPT !.stage = "applied"]
      /\ view' = [status |-> load.row.status, messages |-> load.rows, bubble |-> {},
                  queue |-> IF heard THEN view.queue ELSE load.row.queue]
      /\ UNCHANGED <<socket, link, upgraded, told>> /\ ElsewhereUnchanged
  BY DEF LoadReturns
<1>2. /\ load' \in [stage : {"none", "sent", "applied"},
                   row : [queue : Seq(Nat), status : Statuses], rows : Seq(Said)]
      /\ load'.stage = "applied" /\ load'.rows = <<>>
  <2>1. load' = [stage |-> "applied", row |-> [queue |-> <<>>, status |-> "idle"], rows |-> <<>>]
    BY <1>1 DEF NoLoad
  <2>2. <<>> \in Seq(Nat) /\ <<>> \in Seq(Said)
    OBVIOUS
  <2> QED BY <2>1, <2>2 DEF Statuses
<1>3. /\ load.row.status \in Statuses /\ load.row.queue \in Seq(Nat) /\ load.rows \in Seq(Said)
      /\ view.queue \in Seq(Nat) \union {Unknown}
  BY DEF Seen, ShownTypes, Screen
<1>4. view' \in Screen /\ view'.messages = load.rows /\ (heard => view'.queue = view.queue)
  BY <1>1, <1>3 DEF Screen
<1>5. \A m : ~Holds(rows, m) => ~Holds(view'.messages, m) /\ ~Holds(load'.rows, m)
  <2>1. \A m : ~Holds(load'.rows, m)
    BY <1>2 DEF Holds
  <2>2. \A m : ~Holds(rows, m) => ~Holds(load.rows, m)
    BY DEF Seen, Unseen
  <2> QED BY <1>4, <2>1, <2>2
<1> QED BY <1>1, <1>2, <1>4, <1>5, BeforeLoad

\* The next frame reaches the screen.
LEMMA ReceiveSeen == ASSUME Seen, EventsAssumption, Receive PROVE Seen'
<1> DEFINE e == Head(socket)
           c == socket \o notifies
           d == Tail(socket) \o notifies
<1>1. /\ socket # <<>> /\ socket' = Tail(socket) /\ view' = Reduce(view, e)
      /\ heard' = (heard \/ (e.kind = "queue" /\ load.stage # "applied"))
      /\ UNCHANGED <<link, upgraded, load, told>> /\ ElsewhereUnchanged
  BY DEF Receive
<1>2. /\ Kept' /\ Numbered' /\ Writes'
      /\ UNCHANGED <<notifies, rows, row, queue, status>>
  BY <1>1, ElsewhereSeen
<1>3. socket \in Seq(Frame) /\ notifies \in Seq(Frame) /\ view \in Screen /\ heard' \in BOOLEAN
  BY <1>1 DEF Seen, ShownTypes
<1>4. /\ e \in Frame /\ Tail(socket) \in Seq(Frame) /\ c # <<>> /\ c[1] = e /\ Tail(c) = d
      /\ \A K : Quiet(socket, 0, K) => Quiet(Tail(socket), 0, K) /\ e \notin K
  BY <1>1, <1>3, FirstFrame
<1>5. c \in Seq(Frame) /\ Coming = c /\ Coming' = d /\ 0 < Len(c)
  <2>1. c \in Seq(Frame)
    BY <1>3, JoinFrames
  <2> HIDE DEF c, d
  <2>2. 0 < Len(c)
    BY <1>4, <2>1, EmptySeq, LenProperties
  <2> QED BY <1>1, <1>2, <2>1, <2>2 DEF Coming, c, d
<1> HIDE DEF c, d, e
<1>6. /\ view' \in Screen
      /\ \A q : QueueWillBe(view, c, 0, q) => QueueWillBe(view', c, 1, q)
      /\ \A s : StatusWillBe(view, c, 0, s) => StatusWillBe(view', c, 1, s)
      /\ BubbleGoes(view, c, 0) => BubbleGoes(view', c, 1)
      /\ \A m : MessageOnce(view, c, 0, m) => MessageOnce(view', c, 1, m)
      /\ \A m : TextFirst(view, c, 0, m) => TextFirst(view', c, 1, m)
  <2>1. view' = Reduce(view, c[0 + 1]) /\ 0 + 1 = 1
    BY <1>1, <1>4
  <2> QED BY <1>3, <1>5, <2>1, NextFrame
<1>7. /\ \A K : Quiet(c, 1, K) => Quiet(d, 0, K)
      /\ \A K, G : Settles(c, 1, K, G) => Settles(d, 0, K, G)
      /\ \A K : Single(c, 1, K) => Single(d, 0, K)
  BY <1>4, <1>5, Shifted
<1>8. ShownTypes'
  BY <1>1, <1>2, <1>3, <1>4, <1>6 DEF Seen, ShownTypes
<1>9. Hearing'
  BY <1>1, <1>2 DEF Seen, Hearing
<1>10. Unseen'
  <2> SUFFICES ASSUME NEW m, ~Holds(rows, m)
               PROVE  ~Holds(view'.messages, m) /\ Quiet(Tail(socket), 0, MessageFrame(m))
    BY <1>1, <1>2 DEF Seen, Unseen
  <2>1. /\ ~Holds(view.messages, m) /\ Quiet(Tail(socket), 0, MessageFrame(m))
        /\ e \notin MessageFrame(m)
    BY <1>4 DEF Seen, Unseen
  <2>2. CASE IsSaid(e)
    <3>1. /\ e.message # m /\ e.message \in Said /\ view.messages \in Seq(Said)
          /\ view'.messages = Append(view.messages, e.message)
      BY <1>1, <1>3, <1>4, <2>1, <2>2, Reduced DEF MessageFrame, Screen
    <3> QED BY <2>1, <3>1, ShowsMessage
  <2>3. CASE ~IsSaid(e)
    BY <1>1, <1>3, <1>4, <2>1, <2>3, Reduced
  <2> QED BY <2>2, <2>3, <2>1
<1>11. QueueRight'
  <2> SUFFICES ASSUME told.queue
               PROVE  /\ QueueWillBe(view', d, 0, queue)
                      /\ \/ heard' \/ load.stage = "applied"
                         \/ Settles(d, 0, QueueFrames, QueueFrame(queue))
    BY <1>1, <1>2, <1>5 DEF QueueRight
  <2>1. /\ QueueWillBe(view, c, 0, queue)
        /\ heard \/ load.stage = "applied" \/ Settles(c, 0, QueueFrames, QueueFrame(queue))
    BY <1>5 DEF Seen, Right, QueueRight
  <2>2. QueueWillBe(view', d, 0, queue)
    BY <1>6, <1>7, <2>1 DEF QueueWillBe
  <2>3. ASSUME ~heard', load.stage # "applied" PROVE Settles(d, 0, QueueFrames, QueueFrame(queue))
    <3>1. ~heard /\ ~IsQueue(e)
      BY <1>1, <2>3 DEF IsQueue
    <3>2. Settles(c, 0, QueueFrames, QueueFrame(queue)) /\ e \notin QueueFrame(queue)
      BY <2>1, <2>3, <3>1 DEF QueueFrame
    <3>3. Settles(c, 1, QueueFrames, QueueFrame(queue))
      BY <1>4, <1>5, <3>2, Behind
    <3> QED BY <1>7, <3>3
  <2> QED BY <2>2, <2>3
<1>12. StatusRight'
  <2> SUFFICES ASSUME told.status
               PROVE  /\ StatusWillBe(view', d, 0, status)
                      /\ status = "idle" => BubbleGoes(view', d, 0)
    BY <1>1, <1>2, <1>5 DEF StatusRight
  <2>1. StatusWillBe(view, c, 0, status) /\ (status = "idle" => BubbleGoes(view, c, 0))
    BY <1>5 DEF Seen, Right, StatusRight
  <2>2. StatusWillBe(view', d, 0, status)
    BY <1>6, <1>7, <2>1 DEF StatusWillBe
  <2>3. status = "idle" => BubbleGoes(view', d, 0)
    BY <1>6, <1>7, <2>1 DEF BubbleGoes
  <2> QED BY <2>2, <2>3
<1>13. MessagesRight'
  <2>1. ASSUME NEW m \in told.messages PROVE MessageOnce(view', d, 0, m)
    <3>1. MessageOnce(view, c, 0, m)
      BY <1>5, <2>1 DEF Seen, Right, MessagesRight
    <3>2. MessageOnce(view', c, 1, m)
      BY <1>6, <3>1
    <3> QED BY <1>7, <3>2 DEF MessageOnce
  <2>2. ASSUME NEW m \in told.texts PROVE TextFirst(view', d, 0, m)
    <3>1. TextFirst(view, c, 0, m)
      BY <1>5, <2>2 DEF Seen, Right, MessagesRight
    <3>2. TextFirst(view', c, 1, m)
      BY <1>6, <3>1
    <3> QED BY <1>4, <1>5, <3>2, TextShifted
  <2> QED BY <1>1, <1>5, <2>1, <2>2 DEF MessagesRight
<1> QED BY <1>2, <1>8, <1>9, <1>10, <1>11, <1>12, <1>13 DEF Seen, Right

LEMMA InitSeen == ASSUME EventsAssumption, Init PROVE Seen
<1>1. Kept /\ Numbered
  BY InitKept, InitNumbered
<1>2. /\ sent = 0 /\ up /\ queue = <<>> /\ running = 0 /\ said = 0 /\ buffer = {}
      /\ status = "idle" /\ history = <<>> /\ saves = <<>> /\ notifies = <<>> /\ removals = 0
      /\ revived = {} /\ rows = <<>> /\ socket = <<>> /\ link = "off" /\ upgraded = "idle"
      /\ load = NoLoad
      /\ view = [status |-> "idle", queue |-> Unknown, messages |-> <<>>, bubble |-> {}]
      /\ told = Silence
  BY DEF Init
<1>3. /\ view \in Screen /\ view.messages = <<>>
      /\ load \in [stage : {"none", "sent", "applied"}, row : [queue : Seq(Nat), status : Statuses],
                   rows : Seq(Said)]
      /\ load.stage = "none" /\ load.rows = <<>>
      /\ told \in [queue : BOOLEAN, status : BOOLEAN, messages : SUBSET Said, texts : SUBSET Said]
      /\ ~told.queue /\ ~told.status /\ told.messages = {} /\ told.texts = {}
  BY <1>2 DEF Screen, Statuses, NoLoad, Silence
<1>4. ShownTypes
  BY <1>2, <1>3 DEF ShownTypes, Statuses
<1>5. Hearing
  BY <1>2, <1>3 DEF Hearing
<1>6. Writes
  BY <1>2 DEF Writes
<1>7. Unseen
  BY <1>2, <1>3 DEF Unseen, Holds, Quiet
<1>8. Right
  BY <1>3 DEF Right, QueueRight, StatusRight, MessagesRight
<1> QED BY <1>1, <1>4, <1>5, <1>6, <1>7, <1>8 DEF Seen

\* Every step keeps it.
LEMMA StepSeen == ASSUME Seen, EventsAssumption, [Next]_vars PROVE Seen'
<1>1. CASE Submit
  BY <1>1, SubmitSeen
<1>2. CASE Restore
  BY <1>2, RestoreSeen
<1>3. ASSUME NEW i \in DOMAIN queue, Withdraw(i) PROVE Seen'
  BY <1>3, WithdrawSeen
<1>4. CASE Stream
  BY <1>4, StreamSeen
<1>5. CASE Flush
  BY <1>5, FlushSeen
<1>6. CASE Say
  BY <1>6, SaySeen
<1>7. ASSUME NEW failed \in BOOLEAN, EndTurn(failed) PROVE Seen'
  BY <1>7, EndTurnSeen
<1>8. CASE Crash
  BY <1>8, CrashSeen
<1>9. CASE Save
  BY <1>9, SaveSeen
<1>10. CASE SaveFails
  BY <1>10, SaveFailsSeen
<1>11. CASE Deliver
  BY <1>11, DeliverSeen
<1>12. CASE Lose
  BY <1>12, LoseSeen
<1>13. ASSUME NEW i \in DOMAIN row.queue, RemoveReads(i) PROVE Seen'
  BY <1>13, RemoveReadsSeen
<1>14. CASE RemoveWrites
  BY <1>14, RemoveWritesSeen
<1>15. CASE RemoveFails
  BY <1>15, RemoveFailsSeen
<1>16. CASE Upgrade
  BY <1>16, UpgradeSeen
<1>17. CASE Subscribe
  BY <1>17, SubscribeSeen
<1>18. CASE Drop
  BY <1>18, DropSeen
<1>19. CASE LoadRow
  BY <1>19, LoadRowSeen
<1>20. CASE LoadReturns
  BY <1>20, LoadReturnsSeen
<1>21. CASE Receive
  BY <1>21, ReceiveSeen
<1>22. CASE UNCHANGED vars
  <2>1. /\ UNCHANGED <<notifies, told, rows, queue, status>> /\ UNCHANGED client
        /\ UNCHANGED <<sent, up, running, said, buffer, history, saves, removal, removals,
                       revived, missed, crashes, row>>
    BY <1>22 DEF vars, agent, turn, elsewhere
  <2>2. Kept' /\ Numbered'
    BY <2>1, KeptTypes, SameKeeps, SameNumbered DEF Seen
  <2>3. Writes'
    BY <2>1 DEF Seen, Writes, NextMessage
  <2> QED BY <2>1, <2>2, <2>3, SameSeen
<1> QED BY <1>1, <1>2, <1>3, <1>4, <1>5, <1>6, <1>7, <1>8, <1>9, <1>10, <1>11, <1>12, <1>13,
           <1>14, <1>15, <1>16, <1>17, <1>18, <1>19, <1>20, <1>21, <1>22 DEF Next

\* AgentEventBus, publishChain, deliverChain, flushStream, agentReducer: for any number of
\* prompts, messages, crashes, breaks of the connection, failing writes and lost events, what
\* was emitted since the client listens is on its screen or on its way there: the queue and the
\* status of the session, each message exactly once, no bubble when the agent rests, and none
\* below its own message.  An event that was lost is excused until the next of its kind, a
\* message that was lost for good.
THEOREM ClientFollows == ASSUME EventsAssumption PROVE Spec => []ViewFollows
<1>1. Init => Seen
  BY InitSeen
<1>2. Seen /\ [Next]_vars => Seen'
  BY StepSeen
<1>3. Seen => ViewFollows
  BY SeenFollows
<1> QED BY <1>1, <1>2, <1>3, PTL DEF Spec
=============================================================================
