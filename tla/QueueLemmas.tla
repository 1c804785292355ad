---------------------------- MODULE QueueLemmas -----------------------------
(***************************************************************************)
(* What happens to the messages of several queues in a row when one of     *)
(* them is appended to or taken from: lemmas about sequences, for          *)
(* BackpressureProofs.  Join and Queue are names of their own, so that a   *)
(* proof can use their laws without their definitions.                     *)
(***************************************************************************)
EXTENDS Integers, Sequences, SequenceTheorems, TLAPS

Join(s, t) == s \o t

Queue(S) == Seq(S)

\* The first k elements, the others, and what k can be.
Take(s, k) == SubSeq(s, 1, k)

Drop(s, k) == SubSeq(s, k + 1, Len(s))

Cuts(s) == 0 .. Len(s)

\* The first of one sequence becomes the last of the one before it.
LEMMA MoveOne ==
    ASSUME NEW S, NEW a \in Seq(S), NEW b \in Seq(S), b # <<>>
    PROVE  /\ Append(a, Head(b)) \o Tail(b) = a \o b
           /\ Append(a, Head(b)) \in Seq(S) /\ Tail(b) \in Seq(S)
           /\ Head(b) \in S
           /\ Len(Append(a, Head(b))) = Len(a) + 1
           /\ Len(Tail(b)) = Len(b) - 1
<1>1. Head(b) \in S /\ Tail(b) \in Seq(S) /\ Len(Tail(b)) = Len(b) - 1
  BY HeadTailProperties
<1>2. b = <<Head(b)>> \o Tail(b)
  OBVIOUS
<1>3. Append(a, Head(b)) = a \o <<Head(b)>>
  BY <1>1, AppendIsConcat
<1>4. <<Head(b)>> \in Seq(S)
  BY <1>1
<1>5. (a \o <<Head(b)>>) \o Tail(b) = a \o (<<Head(b)>> \o Tail(b))
  BY <1>1, <1>4, ConcatAssociative
<1>. QED
  BY <1>1, <1>2, <1>3, <1>5, AppendProperties

\* What is taken of the first of two sequences is taken of both.
LEMMA DropOfConcat ==
    ASSUME NEW S, NEW s \in Seq(S), NEW t \in Seq(S), NEW k \in 0 .. Len(s)
    PROVE  SubSeq(s, k + 1, Len(s)) \o t = SubSeq(s \o t, k + 1, Len(s \o t))
<1> DEFINE l == SubSeq(s, k + 1, Len(s)) \o t
           r == SubSeq(s \o t, k + 1, Len(s \o t))
<1>1. /\ s \o t \in Seq(S) /\ Len(s \o t) = Len(s) + Len(t)
      /\ \A i \in 1 .. Len(s) + Len(t) :
            (s \o t)[i] = IF i <= Len(s) THEN s[i] ELSE t[i - Len(s)]
  BY ConcatProperties
<1>2. /\ SubSeq(s, k + 1, Len(s)) \in Seq(S)
      /\ Len(SubSeq(s, k + 1, Len(s))) = Len(s) - k
      /\ \A i \in 1 .. Len(s) - k : SubSeq(s, k + 1, Len(s))[i] = s[k + i]
  BY SubSeqProperties
<1>3. /\ r \in Seq(S) /\ Len(r) = Len(s) + Len(t) - k
      /\ \A i \in 1 .. Len(s) + Len(t) - k : r[i] = (s \o t)[k + i]
  BY <1>1, SubSeqProperties
<1>4. /\ l \in Seq(S) /\ Len(l) = Len(s) - k + Len(t)
      /\ \A i \in 1 .. Len(s) - k + Len(t) :
            l[i] = IF i <= Len(s) - k THEN s[k + i] ELSE t[i - (Len(s) - k)]
  BY <1>2, ConcatProperties
<1>5. Len(s) \in Nat /\ Len(t) \in Nat /\ Len(l) = Len(r)
  BY <1>3, <1>4
<1>. HIDE DEF l, r
<1>6. ASSUME NEW i \in 1 .. Len(l) PROVE l[i] = r[i]
  <2>1. k + i \in 1 .. Len(s) + Len(t)
    BY <1>4, <1>5
  <2>2. r[i] = (s \o t)[k + i]
    BY <1>3, <1>4, <1>5
  <2>3. r[i] = IF k + i <= Len(s) THEN s[k + i] ELSE t[k + i - Len(s)]
    BY <1>1, <2>1, <2>2
  <2>4. k + i <= Len(s) <=> i <= Len(s) - k
    BY <1>5
  <2>5. k + i - Len(s) = i - (Len(s) - k)
    BY <1>5
  <2>. QED
    BY <1>4, <1>5, <2>3, <2>4, <2>5
<1>. QED
  BY <1>3, <1>4, <1>5, <1>6, SeqEqual DEF l, r

\* The first of two sequences is a prefix of both together.
LEMMA PrefixOfConcat ==
    ASSUME NEW S, NEW s \in Seq(S), NEW t \in Seq(S)
    PROVE  SubSeq(s \o t, 1, Len(s)) = s /\ Len(s) \in 0 .. Len(s \o t)
<1>1. /\ s \o t \in Seq(S) /\ Len(s \o t) = Len(s) + Len(t)
      /\ \A i \in 1 .. Len(s) : (s \o t)[i] = s[i]
  BY ConcatProperties
<1>2. /\ SubSeq(s \o t, 1, Len(s)) \in Seq(S)
      /\ Len(SubSeq(s \o t, 1, Len(s))) = Len(s)
      /\ \A i \in 1 .. Len(s) : SubSeq(s \o t, 1, Len(s))[i] = (s \o t)[i]
  BY <1>1, SubSeqProperties
<1>. QED
  BY <1>1, <1>2, SeqEqual

\* What is appended to the second of two sequences is appended to both.
LEMMA ConcatAppend ==
    ASSUME NEW S, NEW s \in Seq(S), NEW t \in Seq(S), NEW x \in S
    PROVE  s \o Append(t, x) = Append(s \o t, x)
<1>1. <<x>> \in Seq(S) /\ s \o t \in Seq(S)
  BY ConcatProperties
<1>2. s \o Append(t, x) = s \o (t \o <<x>>)
  BY AppendIsConcat
<1>3. Append(s \o t, x) = (s \o t) \o <<x>>
  BY <1>1, AppendIsConcat
<1>. QED
  BY <1>1, <1>2, <1>3, ConcatAssociative

\* The laws of Queue, Take, Drop and Cuts.
LEMMA QueueOfSeq == ASSUME NEW S PROVE Queue(S) = Seq(S)
BY DEF Queue

LEMMA QueueElements ==
    ASSUME NEW S, NEW s,
           s \in Queue(S), s # <<>>
    PROVE  /\ Head(s) \in S /\ Tail(s) \in Queue(S)
           /\ Len(Tail(s)) = Len(s) - 1 /\ Len(s) \in Nat \ {0}
           /\ Tail(s) = Drop(s, 1) /\ 1 \in Cuts(s)
<1>. USE DEF Queue, Drop, Cuts
<1>1. Head(s) \in S /\ Tail(s) \in Seq(S) /\ Len(Tail(s)) = Len(s) - 1
  BY HeadTailProperties
<1>2. Tail(s) = SubSeq(s, 1 + 1, Len(s))
  BY TailIsSubSeq
<1>3. Len(s) \in Nat \ {0}
  OBVIOUS
<1>. QED
  BY <1>1, <1>2, <1>3

LEMMA QueueLength ==
    ASSUME NEW S, NEW s,
           s \in Queue(S)
    PROVE  Len(s) \in Nat
BY DEF Queue

LEMMA QueueAppend ==
    ASSUME NEW S, NEW s, NEW x,
           s \in Queue(S), x \in S
    PROVE  /\ Append(s, x) \in Queue(S) /\ Len(Append(s, x)) = Len(s) + 1
BY AppendProperties DEF Queue

LEMMA QueueSingle ==
    ASSUME NEW S, NEW s,
           s \in Queue(S), s # <<>>, Len(s) <= 1
    PROVE  s = <<Head(s)>>
<1> DEFINE t == <<Head(s)>>
<1>1. s \in Seq(S) /\ Head(s) \in S
  BY QueueElements DEF Queue
<1>2. t \in Seq(S) /\ Len(t) = 1 /\ t[1] = s[1]
  BY <1>1
<1>3. Len(s) = 1
  <2> DEFINE n == Len(s)
  <2>1. n \in Nat \ {0} /\ n <= 1
    BY QueueElements
  <2>. HIDE DEF n
  <2>2. n = 1
    BY <2>1
  <2>. QED
    BY <2>2 DEF n
<1>. HIDE DEF t
<1>4. s = t
  BY <1>1, <1>2, <1>3, SeqEqual
<1>. QED
  BY <1>4 DEF t

LEMMA JoinType ==
    ASSUME NEW S, NEW s, NEW t,
           s \in Queue(S), t \in Queue(S)
    PROVE  /\ Join(s, t) \in Queue(S)
           /\ Len(Join(s, t)) = Len(s) + Len(t)
BY ConcatProperties DEF Join, Queue

LEMMA JoinEmpty ==
    ASSUME NEW S, NEW s,
           s \in Queue(S)
    PROVE  Join(s, <<>>) = s /\ Join(<<>>, s) = s /\ <<>> \in Queue(S)
BY ConcatEmptySeq DEF Join, Queue

LEMMA JoinAssociative ==
    ASSUME NEW S, NEW s, NEW t, NEW r,
           s \in Queue(S), t \in Queue(S), r \in Queue(S)
    PROVE  Join(Join(s, t), r) = Join(s, Join(t, r))
BY ConcatAssociative DEF Join, Queue

\* What happens between two neighbours does not concern what precedes them.
LEMMA JoinNeighbours ==
    ASSUME NEW S, NEW p, NEW a, NEW b, NEW c, NEW d,
           p \in Queue(S), a \in Queue(S), b \in Queue(S), c \in Queue(S),
           d \in Queue(S), Join(a, b) = Join(c, d)
    PROVE  Join(Join(p, a), b) = Join(Join(p, c), d)
BY JoinAssociative

\* The first of one sequence becomes the last of the one before it.
LEMMA JoinMove ==
    ASSUME NEW S, NEW a, NEW b,
           a \in Queue(S), b \in Queue(S), b # <<>>
    PROVE  /\ Join(Append(a, Head(b)), Tail(b)) = Join(a, b)
           /\ Append(a, Head(b)) \in Queue(S) /\ Tail(b) \in Queue(S)
BY MoveOne DEF Join, Queue

\* A sequence is its first k elements and the others.
LEMMA JoinSplit ==
    ASSUME NEW S, NEW s, NEW k,
           s \in Queue(S), k \in Cuts(s)
    PROVE  /\ Take(s, k) \in Queue(S)
           /\ Drop(s, k) \in Queue(S)
           /\ Join(Take(s, k), Drop(s, k)) = s
<1>. USE DEF Queue, Take, Drop, Cuts
<1>1. Len(s) \in Nat /\ 1 \in 1 .. Len(s) + 1 /\ k \in Cuts(s)
      /\ k \in 1 - 1 .. Len(s) /\ Len(s) \in k .. Len(s)
  OBVIOUS
<1>2. Take(s, k) \in Queue(S) /\ Drop(s, k) \in Queue(S)
  BY <1>1, SubSeqProperties
<1>3. Take(s, k) \o Drop(s, k) = SubSeq(s, 1, Len(s))
  BY <1>1, ConcatAdjacentSubSeq
<1>. QED
  BY <1>2, <1>3, SubSeqFull DEF Join

\* What is appended to the second of two sequences is appended to both.
LEMMA JoinAppend ==
    ASSUME NEW S, NEW s, NEW t, NEW x,
           s \in Queue(S), t \in Queue(S), x \in S
    PROVE  Join(s, Append(t, x)) = Append(Join(s, t), x)
BY ConcatAppend DEF Join, Queue

\* What is taken of the first of two sequences is taken of both.
LEMMA JoinDrop ==
    ASSUME NEW S, NEW s, NEW t, NEW k,
           s \in Queue(S), t \in Queue(S), k \in Cuts(s)
    PROVE  /\ Join(Drop(s, k), t)
                 = Drop(Join(s, t), k)
           /\ k \in Cuts(Join(s, t))
<1>. USE DEF Queue, Take, Drop, Cuts
<1>1. Drop(s, k) \o t = SubSeq(s \o t, k + 1, Len(s \o t))
  BY DropOfConcat
<1>2. Len(s) \in Nat /\ Len(t) \in Nat
  OBVIOUS
<1>3. Len(s \o t) = Len(s) + Len(t)
  BY ConcatProperties
<1>4. k \in 0 .. Len(s \o t)
  BY <1>2, <1>3
<1>. QED
  BY <1>1, <1>4 DEF Join

\* The first of two sequences is a prefix of both together.
LEMMA JoinPrefix ==
    ASSUME NEW S, NEW s, NEW t,
           s \in Queue(S), t \in Queue(S)
    PROVE  SubSeq(Join(s, t), 1, Len(s)) = s /\ Len(s) \in 0 .. Len(Join(s, t))
BY PrefixOfConcat DEF Join, Queue

\* The first of a sequence is the first of all that begins with it.
LEMMA JoinFirst ==
    ASSUME NEW S, NEW s, NEW t,
           s \in Queue(S), t \in Queue(S), s # <<>>
    PROVE  /\ Join(s, t) # <<>>
           /\ Head(Join(s, t)) = Head(s)
           /\ Tail(Join(s, t)) = Join(Tail(s), t)
<1>. USE DEF Queue
<1>1. /\ s \o t \in Queue(S) /\ Len(s \o t) = Len(s) + Len(t) /\ s \o t # <<>>
      /\ Len(s) \in Nat \ {0} /\ 1 \in 0 .. Len(s)
  BY ConcatProperties
<1>2. Head(s \o t) = Head(s)
  BY <1>1, ConcatProperties
<1>3. SubSeq(s, 1 + 1, Len(s)) \o t = SubSeq(s \o t, 1 + 1, Len(s \o t))
  BY <1>1, DropOfConcat
<1>4. Tail(s) = SubSeq(s, 1 + 1, Len(s))
  BY TailIsSubSeq
<1>5. Tail(s \o t) = SubSeq(s \o t, 1 + 1, Len(s \o t))
  BY <1>1, TailIsSubSeq
<1>. QED
  BY <1>1, <1>2, <1>3, <1>4, <1>5 DEF Join

\* The queues of one direction of a connection, the receiver's first.
Connection(i, s, b, o) == Join(Join(Join(i, s), b), o)

\* All that a command passes on its round, from the last queue to the first.
Line(u, c, m, p, v, q) == Join(Join(Join(Join(Join(u, c), m), p), v), q)

LEMMA ConnectionType ==
    ASSUME NEW S, NEW i, NEW s, NEW b, NEW o,
           i \in Queue(S), s \in Queue(S), b \in Queue(S), o \in Queue(S)
    PROVE  /\ Connection(i, s, b, o) \in Queue(S)
           /\ Join(i, s) \in Queue(S) /\ Join(Join(i, s), b) \in Queue(S)
BY JoinType DEF Connection

\* The writer takes the first k messages of its channel.
LEMMA ConnectionBatch ==
    ASSUME NEW S, NEW i, NEW s, NEW o, NEW k,
           i \in Queue(S), s \in Queue(S), o \in Queue(S), k \in Cuts(o)
    PROVE  Connection(i, s, Take(o, k), Drop(o, k))
              = Connection(i, s, <<>>, o)
<1> DEFINE x == Take(o, k)
           y == Drop(o, k)
           e == <<>>
<1>1. x \in Queue(S) /\ y \in Queue(S) /\ Join(x, y) = o
  BY JoinSplit
<1>2. Join(i, s) \in Queue(S) /\ e \in Queue(S) /\ Join(e, o) = o
  BY JoinType, JoinEmpty
<1>. HIDE DEF x, y, e
<1>3. Join(Join(Join(i, s), x), y) = Join(Join(Join(i, s), e), o)
  BY <1>1, <1>2, JoinNeighbours
<1>. QED
  BY <1>3 DEF x, y, e, Connection

\* A message is written to the socket.
LEMMA ConnectionWrite ==
    ASSUME NEW S, NEW i, NEW s, NEW b, NEW o,
           i \in Queue(S), s \in Queue(S), b \in Queue(S), o \in Queue(S),
           b # <<>>
    PROVE  Connection(i, Append(s, Head(b)), Tail(b), o) = Connection(i, s, b, o)
<1> DEFINE x == Append(s, Head(b))
           y == Tail(b)
<1>1. x \in Queue(S) /\ y \in Queue(S) /\ Join(x, y) = Join(s, b)
  BY JoinMove
<1>. HIDE DEF x, y
<1>2. Join(Join(i, x), y) = Join(Join(i, s), b)
  BY <1>1, JoinNeighbours
<1>. QED
  BY <1>2 DEF x, y, Connection

\* A message is read from the socket.
LEMMA ConnectionRead ==
    ASSUME NEW S, NEW i, NEW s, NEW b, NEW o,
           i \in Queue(S), s \in Queue(S), b \in Queue(S), o \in Queue(S),
           s # <<>>
    PROVE  Connection(Append(i, Head(s)), Tail(s), b, o) = Connection(i, s, b, o)
BY JoinMove DEF Connection

\* A message is sent.
LEMMA ConnectionSend ==
    ASSUME NEW S, NEW i, NEW s, NEW b, NEW o, NEW x,
           i \in Queue(S), s \in Queue(S), b \in Queue(S), o \in Queue(S),
           x \in S
    PROVE  Connection(i, s, b, Append(o, x)) = Append(Connection(i, s, b, o), x)
<1> DEFINE p == Join(Join(i, s), b)
<1>1. p \in Queue(S)
  BY JoinType
<1>. HIDE DEF p
<1>2. Join(p, Append(o, x)) = Append(Join(p, o), x)
  BY <1>1, JoinAppend
<1>. QED
  BY <1>2 DEF p, Connection

\* The receiver takes the first k messages that have come in.
LEMMA ConnectionTake ==
    ASSUME NEW S, NEW i, NEW s, NEW b, NEW o, NEW k,
           i \in Queue(S), s \in Queue(S), b \in Queue(S), o \in Queue(S),
           k \in Cuts(i)
    PROVE  Connection(Drop(i, k), s, b, o)
              = Drop(Connection(i, s, b, o), k)
<1> DEFINE f == Join(i, s)
           g == Join(f, b)
           h == Join(g, o)
<1>1. f \in Queue(S)
  BY JoinType
<1>2. /\ Join(Drop(i, k), s) = Drop(f, k)
      /\ k \in Cuts(f)
  BY JoinDrop
<1>. HIDE DEF f
<1>3. g \in Queue(S)
  BY <1>1, JoinType
<1>4. /\ Join(Drop(f, k), b) = Drop(g, k)
      /\ k \in Cuts(g)
  BY <1>1, <1>2, JoinDrop
<1>. HIDE DEF g
<1>5. Join(Drop(g, k), o) = Drop(h, k)
  BY <1>3, <1>4, JoinDrop
<1>6. Connection(i, s, b, o) = h
  BY DEF Connection, f, g
<1>. HIDE DEF h
<1>7. Connection(Drop(i, k), s, b, o) = Drop(h, k)
  BY <1>2, <1>4, <1>5 DEF Connection
<1>. QED
  BY <1>6, <1>7

\* What has come in is a prefix of what is under way.
LEMMA ConnectionPrefix ==
    ASSUME NEW S, NEW i, NEW s, NEW b, NEW o,
           i \in Queue(S), s \in Queue(S), b \in Queue(S), o \in Queue(S)
    PROVE  /\ SubSeq(Connection(i, s, b, o), 1, Len(i)) = i
           /\ Len(i) \in 0 .. Len(Connection(i, s, b, o))
<1> DEFINE t == Join(Join(s, b), o)
<1>1. t \in Queue(S) /\ Join(s, b) \in Queue(S)
  BY JoinType
<1>2. Connection(i, s, b, o) = Join(i, t)
  BY <1>1, JoinAssociative, JoinType DEF Connection
<1>. HIDE DEF t
<1>. QED
  BY <1>1, <1>2, JoinPrefix

\* What the receiver takes, followed by what is left, is what was under way.
LEMMA ConnectionTaken ==
    ASSUME NEW S, NEW i, NEW s, NEW b, NEW o, NEW k,
           i \in Queue(S), s \in Queue(S), b \in Queue(S), o \in Queue(S),
           k \in Cuts(i)
    PROVE  Join(Take(i, k), Connection(Drop(i, k), s, b, o))
              = Connection(i, s, b, o)
<1> DEFINE x == Take(i, k)
           y == Drop(i, k)
<1>1. x \in Queue(S) /\ y \in Queue(S) /\ Join(x, y) = i
  BY JoinSplit
<1>. HIDE DEF x, y
<1>2. Join(y, s) \in Queue(S) /\ Join(Join(y, s), b) \in Queue(S)
  BY <1>1, JoinType
<1>3. Join(x, Join(y, s)) = Join(i, s)
  BY <1>1, JoinAssociative
<1>4. Join(x, Join(Join(y, s), b)) = Join(Join(i, s), b)
  BY <1>1, <1>2, <1>3, JoinAssociative
<1>5. Join(x, Join(Join(Join(y, s), b), o)) = Join(Join(Join(i, s), b), o)
  BY <1>1, <1>2, <1>4, JoinAssociative
<1>. QED
  BY <1>5 DEF x, y, Connection

\* The first message that has come in is the first that is under way.
LEMMA ConnectionFirst ==
    ASSUME NEW S, NEW i, NEW s, NEW b, NEW o,
           i \in Queue(S), s \in Queue(S), b \in Queue(S), o \in Queue(S),
           i # <<>>
    PROVE  /\ Connection(i, s, b, o) # <<>>
           /\ Head(Connection(i, s, b, o)) = Head(i)
           /\ Tail(Connection(i, s, b, o)) = Connection(Tail(i), s, b, o)
<1> DEFINE f == Join(i, s)
           g == Join(f, b)
           h == Join(g, o)
<1>1. f \in Queue(S) /\ f # <<>> /\ Head(f) = Head(i) /\ Tail(f) = Join(Tail(i), s)
  BY JoinType, JoinFirst
<1>. HIDE DEF f
<1>2. g \in Queue(S) /\ g # <<>> /\ Head(g) = Head(f) /\ Tail(g) = Join(Tail(f), b)
  BY <1>1, JoinType, JoinFirst
<1>. HIDE DEF g
<1>3. h # <<>> /\ Head(h) = Head(g) /\ Tail(h) = Join(Tail(g), o)
  BY <1>2, JoinType, JoinFirst
<1>4. Connection(i, s, b, o) = h
  BY DEF Connection, f, g
<1>. HIDE DEF h
<1>5. Tail(h) = Connection(Tail(i), s, b, o)
  BY <1>1, <1>2, <1>3 DEF Connection
<1>. QED
  BY <1>1, <1>2, <1>3, <1>4, <1>5

LEMMA LineType ==
    ASSUME NEW S, NEW u, NEW c, NEW m, NEW p, NEW v, NEW q,
           u \in Queue(S), c \in Queue(S), m \in Queue(S), p \in Queue(S),
           v \in Queue(S), q \in Queue(S)
    PROVE  /\ Line(u, c, m, p, v, q) \in Queue(S)
           /\ Join(u, c) \in Queue(S)
           /\ Join(Join(u, c), m) \in Queue(S)
           /\ Join(Join(Join(u, c), m), p) \in Queue(S)
           /\ Join(Join(Join(Join(u, c), m), p), v) \in Queue(S)
BY JoinType DEF Line

\* The shim has a new command to send.
LEMMA LineNew ==
    ASSUME NEW S, NEW u, NEW c, NEW m, NEW p, NEW v, NEW x,
           u \in Queue(S), c \in Queue(S), m \in Queue(S), p \in Queue(S),
           v \in Queue(S), x \in S
    PROVE  Line(u, c, m, p, v, <<x>>) = Append(Line(u, c, m, p, v, <<>>), x)
<1> DEFINE l == Join(Join(Join(Join(u, c), m), p), v)
           e == <<>>
<1>1. l \in Queue(S)
  BY JoinType
<1>2. e \in Queue(S) /\ <<x>> = Append(e, x)
  BY DEF Queue
<1>. HIDE DEF l, e
<1>3. Join(l, Append(e, x)) = Append(Join(l, e), x)
  BY <1>1, <1>2, JoinAppend
<1>. QED
  BY <1>2, <1>3 DEF l, e, Line

\* The shim's command enters the channel.
LEMMA LineSend ==
    ASSUME NEW S, NEW u, NEW c, NEW m, NEW p, NEW v, NEW x,
           u \in Queue(S), c \in Queue(S), m \in Queue(S), p \in Queue(S),
           v \in Queue(S), x \in S
    PROVE  Line(u, c, m, p, Append(v, x), <<>>) = Line(u, c, m, p, v, <<x>>)
<1> DEFINE l == Join(Join(Join(u, c), m), p)
           e == <<>>
           a == Append(v, x)
           o == <<x>>
<1>1. l \in Queue(S)
  BY JoinType
<1>2. e \in Queue(S) /\ o \in Queue(S) /\ a \in Queue(S)
  BY DEF Queue
<1>3. Join(v, o) = a
  BY AppendIsConcat DEF Join, Queue
<1>. HIDE DEF l, e, a, o
<1>4. Join(a, e) = Join(v, o)
  <2>1. Join(a, e) = a
    BY <1>2, JoinEmpty DEF e
  <2>. QED
    BY <1>3, <2>1
<1>5. Join(Join(l, a), e) = Join(Join(l, v), o)
  BY <1>1, <1>2, <1>4, JoinNeighbours
<1>. QED
  BY <1>5 DEF l, e, a, o, Line

\* The server proposes the commands x of what is under way to it.
LEMMA LinePropose ==
    ASSUME NEW S, NEW u, NEW c, NEW m, NEW p, NEW v, NEW q, NEW x, NEW w,
           u \in Queue(S), c \in Queue(S), m \in Queue(S), p \in Queue(S),
           v \in Queue(S), q \in Queue(S), x \in Queue(S), w \in Queue(S),
           Join(x, w) = v
    PROVE  Line(u, c, m, Join(p, x), w, q) = Line(u, c, m, p, v, q)
<1> DEFINE l == Join(Join(u, c), m)
           a == Join(p, x)
<1>1. l \in Queue(S) /\ a \in Queue(S)
  BY JoinType
<1>2. Join(a, w) = Join(p, v)
  BY JoinAssociative
<1>. HIDE DEF l, a
<1>3. Join(Join(l, a), w) = Join(Join(l, p), v)
  BY <1>1, <1>2, JoinNeighbours
<1>. QED
  BY <1>3 DEF l, a, Line

\* A proposal is decided.
LEMMA LineDecide ==
    ASSUME NEW S, NEW u, NEW c, NEW m, NEW p, NEW v, NEW q,
           u \in Queue(S), c \in Queue(S), m \in Queue(S), p \in Queue(S),
           v \in Queue(S), q \in Queue(S), p # <<>>
    PROVE  Line(u, c, Append(m, Head(p)), Tail(p), v, q) = Line(u, c, m, p, v, q)
<1> DEFINE x == Append(m, Head(p))
           y == Tail(p)
           l == Join(u, c)
<1>1. x \in Queue(S) /\ y \in Queue(S) /\ Join(x, y) = Join(m, p) /\ l \in Queue(S)
  BY JoinMove, JoinType
<1>. HIDE DEF x, y, l
<1>2. Join(Join(l, x), y) = Join(Join(l, m), p)
  BY <1>1, JoinNeighbours
<1>. QED
  BY <1>2 DEF x, y, l, Line

\* The server takes the first k decided commands.
LEMMA LineTakeDecided ==
    ASSUME NEW S, NEW u, NEW m, NEW p, NEW v, NEW q, NEW k,
           u \in Queue(S), m \in Queue(S), p \in Queue(S), v \in Queue(S),
           q \in Queue(S), k \in Cuts(m)
    PROVE  Line(u, Take(m, k), Drop(m, k), p, v, q)
              = Line(u, <<>>, m, p, v, q)
<1> DEFINE x == Take(m, k)
           y == Drop(m, k)
           e == <<>>
<1>1. x \in Queue(S) /\ y \in Queue(S) /\ Join(x, y) = m
  BY JoinSplit
<1>2. e \in Queue(S) /\ Join(e, m) = m
  BY JoinEmpty
<1>. HIDE DEF x, y, e
<1>3. Join(Join(u, x), y) = Join(Join(u, e), m)
  BY <1>1, <1>2, JoinNeighbours
<1>. QED
  BY <1>3 DEF x, y, e, Line

\* The server answers a command.
LEMMA LineAnswer ==
    ASSUME NEW S, NEW u, NEW c, NEW m, NEW p, NEW v, NEW q,
           u \in Queue(S), c \in Queue(S), m \in Queue(S), p \in Queue(S),
           v \in Queue(S), q \in Queue(S), c # <<>>
    PROVE  Line(Append(u, Head(c)), Tail(c), m, p, v, q) = Line(u, c, m, p, v, q)
BY JoinMove DEF Line

\* The shim takes an answer.
LEMMA LineTakeAnswer ==
    ASSUME NEW S, NEW u, NEW c, NEW m, NEW p, NEW v, NEW q,
           u \in Queue(S), c \in Queue(S), m \in Queue(S), p \in Queue(S),
           v \in Queue(S), q \in Queue(S), u # <<>>
    PROVE  /\ Line(u, c, m, p, v, q) # <<>>
           /\ Head(Line(u, c, m, p, v, q)) = Head(u)
           /\ Tail(Line(u, c, m, p, v, q)) = Line(Tail(u), c, m, p, v, q)
<1> DEFINE a == Join(u, c)
           b == Join(a, m)
           f == Join(b, p)
           g == Join(f, v)
           h == Join(g, q)
<1>1. a \in Queue(S) /\ a # <<>> /\ Head(a) = Head(u) /\ Tail(a) = Join(Tail(u), c)
  BY JoinType, JoinFirst
<1>. HIDE DEF a
<1>2. b \in Queue(S) /\ b # <<>> /\ Head(b) = Head(a) /\ Tail(b) = Join(Tail(a), m)
  BY <1>1, JoinType, JoinFirst
<1>. HIDE DEF b
<1>3. f \in Queue(S) /\ f # <<>> /\ Head(f) = Head(b) /\ Tail(f) = Join(Tail(b), p)
  BY <1>2, JoinType, JoinFirst
<1>. HIDE DEF f
<1>4. g \in Queue(S) /\ g # <<>> /\ Head(g) = Head(f) /\ Tail(g) = Join(Tail(f), v)
  BY <1>3, JoinType, JoinFirst
<1>. HIDE DEF g
<1>5. h # <<>> /\ Head(h) = Head(g) /\ Tail(h) = Join(Tail(g), q)
  BY <1>4, JoinType, JoinFirst
<1>6. Line(u, c, m, p, v, q) = h
  BY DEF Line, a, b, f, g
<1>. HIDE DEF h
<1>7. Tail(h) = Line(Tail(u), c, m, p, v, q)
  BY <1>1, <1>2, <1>3, <1>4, <1>5 DEF Line
<1>. QED
  BY <1>1, <1>2, <1>3, <1>4, <1>5, <1>6, <1>7

=============================================================================
