----------------------------- MODULE EdgeProofs -----------------------------
(***************************************************************************)
(* The edge, for every instance.  Each part has its inductive invariant:   *)
(* the pipelines of a UDP ingress (UdpIngress), the streams of the raw     *)
(* relays and the denials that reach them (RawRelay), the idle clock of a  *)
(* relay (Relay), the connections of a TCP ingress (TcpIngress), the       *)
(* listeners' drain (Serving) and ACME's challenges and certificates       *)
(* (Acme).  The types and the accounts of the whole follow.                *)
(***************************************************************************)
EXTENDS MCEdge, FiniteSetTheorems, TLAPS

-----------------------------------------------------------------------------
(* A pipeline as data: the writer's batch w, the queue q, the batch b.     *)

Batches == Seq(Datagram)

\* An empty batch and an empty queue hold no datagram.
LEMMA NumbersEmpty == Numbers(<<>>) = {} /\ InQueue(<<>>) = {}
BY DEF Numbers, InQueue

\* A datagram's number is a natural number.
LEMMA NumbersType == ASSUME NEW b \in Batches PROVE Numbers(b) \subseteq Nat
<1>1. \A i \in DOMAIN b : b[i] \in Datagram
  BY DEF Batches
<1>2. \A d \in Datagram : d.no \in Nat
  BY UdpAssumption DEF Datagram
<1>3. QED
  BY <1>1, <1>2 DEF Numbers

\* Batch::push adds one datagram, at the end.
LEMMA NumbersAppend ==
  ASSUME NEW b \in Batches, NEW d \in Datagram
  PROVE  /\ Append(b, d) \in Batches /\ Append(b, d) # <<>>
         /\ Numbers(Append(b, d)) = Numbers(b) \union {d.no}
<1>1. /\ Append(b, d) \in Batches /\ DOMAIN Append(b, d) = DOMAIN b \union {Len(b) + 1}
      /\ Append(b, d)[Len(b) + 1] = d
      /\ \A i \in DOMAIN b : Append(b, d)[i] = b[i]
  BY DEF Batches
<1>2. Append(b, d) # <<>>
  BY <1>1 DEF Batches
<1>3. QED
  BY <1>1, <1>2 DEF Numbers

\* The sender adds a batch at the end of the queue.
LEMMA QueueAppend ==
  ASSUME NEW q \in Seq(Batches), NEW b \in Batches
  PROVE  /\ Append(q, b) \in Seq(Batches) /\ Len(Append(q, b)) = Len(q) + 1
         /\ DOMAIN Append(q, b) = DOMAIN q \union {Len(q) + 1}
         /\ \A j \in DOMAIN q : j < Len(q) + 1
         /\ Append(q, b)[Len(q) + 1] = b
         /\ \A j \in DOMAIN q : Append(q, b)[j] = q[j]
         /\ InQueue(Append(q, b)) = InQueue(q) \union Numbers(b)
<1>1. /\ Append(q, b) \in Seq(Batches) /\ Len(Append(q, b)) = Len(q) + 1
      /\ DOMAIN Append(q, b) = DOMAIN q \union {Len(q) + 1}
      /\ \A j \in DOMAIN q : j < Len(q) + 1
      /\ Append(q, b)[Len(q) + 1] = b
      /\ \A j \in DOMAIN q : Append(q, b)[j] = q[j]
  OBVIOUS
<1>2. InQueue(Append(q, b)) = InQueue(q) \union Numbers(b)
  BY <1>1 DEF InQueue
<1>3. QED
  BY <1>1, <1>2

\* The receiver takes the first batch; the others move up by one.
LEMMA QueueTail ==
  ASSUME NEW q \in Seq(Batches), q # <<>>
  PROVE  /\ Head(q) \in Batches /\ Tail(q) \in Seq(Batches) /\ Len(Tail(q)) = Len(q) - 1
         /\ 1 \in DOMAIN q /\ Head(q) = q[1]
         /\ \A j \in DOMAIN Tail(q) : j \in Nat /\ j + 1 \in DOMAIN q /\ 1 < j + 1 /\ Tail(q)[j] = q[j + 1]
         /\ InQueue(q) = Numbers(Head(q)) \union InQueue(Tail(q))
<1>1. /\ Head(q) \in Batches /\ Tail(q) \in Seq(Batches) /\ Len(Tail(q)) = Len(q) - 1
      /\ 1 \in DOMAIN q /\ Head(q) = q[1]
      /\ \A j \in DOMAIN Tail(q) : j \in Nat /\ j + 1 \in DOMAIN q /\ 1 < j + 1 /\ Tail(q)[j] = q[j + 1]
  OBVIOUS
<1>2. \A j \in DOMAIN q : j = 1 \/ (j - 1 \in DOMAIN Tail(q) /\ q[j] = Tail(q)[j - 1])
  OBVIOUS
<1>3. InQueue(q) \subseteq Numbers(Head(q)) \union InQueue(Tail(q))
  BY <1>1, <1>2, ZenonT(60) DEF InQueue
<1>4. Numbers(Head(q)) \union InQueue(Tail(q)) \subseteq InQueue(q)
  BY <1>1 DEF InQueue
<1>5. QED
  BY <1>1, <1>3, <1>4

\* A batch in order has as many numbers as datagrams.
LEMMA BatchSize ==
  ASSUME NEW b \in Batches, Rising(b)
  PROVE  IsFiniteSet(Numbers(b)) /\ Cardinality(Numbers(b)) = Len(b)
<1> DEFINE f == [i \in 1 .. Len(b) |-> b[i].no]
<1>1. Len(b) \in Nat /\ DOMAIN b = 1 .. Len(b)
  BY DEF Batches
<1>2. IsFiniteSet(1 .. Len(b)) /\ Cardinality(1 .. Len(b)) = Len(b)
  <2>1. PICK n \in Nat : n = Len(b)
    BY <1>1
  <2>2. IsFiniteSet(1 .. n) /\ Cardinality(1 .. n) = IF 1 > n THEN 0 ELSE n - 1 + 1
    BY FS_Interval
  <2>3. QED
    BY <2>1, <2>2
<1>3. f \in Surjection(1 .. Len(b), Numbers(b))
  BY <1>1 DEF Surjection, Numbers
<1>4. f \in Injection(1 .. Len(b), Numbers(b))
  <2>1. ASSUME NEW i \in 1 .. Len(b), NEW j \in 1 .. Len(b), i # j PROVE b[i].no # b[j].no
    <3>1. i < j \/ j < i
      BY <2>1
    <3>2. b[i].no \in Nat /\ b[j].no \in Nat
      BY <1>1, NumbersType DEF Numbers
    <3>3. QED
      BY <1>1, <3>1, <3>2 DEF Rising
  <2>2. QED
    BY <1>3, <2>1 DEF Injection, Surjection, IsInjective
<1>5. QED
  BY <1>2, <1>3, <1>4, FS_Surjection

\* A datagram that is pushed is the last one received.
LEMMA LinePush ==
  ASSUME NEW w \in Batches, NEW q \in Seq(Batches), NEW b \in Batches, NEW sent \in Nat, NEW seen \in Nat,
         Ordered(w, q, b, sent, seen), NEW d \in Datagram, d.no = seen + 1
  PROVE  /\ Line(w, q, Append(b, d)) = Line(w, q, b) \union {seen + 1}
         /\ seen + 1 \notin Line(w, q, b)
         /\ sent < seen + 1 => Ordered(w, q, Append(b, d), sent, seen + 1)
<1> DEFINE c == Append(b, d)
<1>1. /\ c \in Batches /\ Numbers(c) = Numbers(b) \union {seen + 1}
      /\ DOMAIN c = DOMAIN b \union {Len(b) + 1} /\ c[Len(b) + 1] = d
      /\ \A i \in DOMAIN b : c[i] = b[i] /\ i < Len(b) + 1 /\ i \in Nat
      /\ Len(b) \in Nat
  BY NumbersAppend DEF Batches
<1> HIDE DEF c
<1>2. Line(w, q, b) \subseteq Nat
  <2>1. \A j \in DOMAIN q : q[j] \in Batches
    OBVIOUS
  <2>2. QED
    BY <2>1, NumbersType DEF Line, InQueue
<1>3. \A x \in Line(w, q, b) : x < seen + 1 /\ x \in Nat
  BY <1>2 DEF Ordered
<1>4. Line(w, q, c) = Line(w, q, b) \union {seen + 1} /\ seen + 1 \notin Line(w, q, b)
  BY <1>1, <1>3 DEF Line
<1>5. Rising(c)
  <2>1. \A i \in DOMAIN b : b[i].no \in Numbers(b)
    BY DEF Numbers
  <2>2. \A i \in DOMAIN b : b[i].no < seen + 1
    BY <1>3, <2>1 DEF Line
  <2>3. Rising(b)
    BY DEF Ordered
  <2>4. QED
    BY <1>1, <2>2, <2>3 DEF Rising
<1>6. \A x \in Numbers(w) : x < seen + 1
  BY <1>3 DEF Line
<1>7. \A j \in DOMAIN q : \A x \in Numbers(q[j]) : x < seen + 1
  BY <1>3 DEF Line, InQueue
<1>8. Before(w, c) /\ \A j \in DOMAIN q : Before(q[j], c)
  BY <1>1, <1>6, <1>7 DEF Ordered, Before
<1>9. ASSUME sent < seen + 1 PROVE \A x \in Line(w, q, c) : sent < x /\ x <= seen + 1
  BY <1>3, <1>4, <1>9 DEF Ordered
<1>10. QED
  BY <1>4, <1>5, <1>8, <1>9 DEF Ordered, c

\* A batch that is handed to the queue keeps its place.
LEMMA LineEnqueue ==
  ASSUME NEW w \in Batches, NEW q \in Seq(Batches), NEW b \in Batches, NEW sent, NEW seen,
         Ordered(w, q, b, sent, seen)
  PROVE  /\ Line(w, Append(q, b), <<>>) = Line(w, q, b)
         /\ Ordered(w, Append(q, b), <<>>, sent, seen)
<1> DEFINE p == Append(q, b)
<1>1. /\ DOMAIN p = DOMAIN q \union {Len(q) + 1} /\ p[Len(q) + 1] = b
      /\ \A j \in DOMAIN q : p[j] = q[j] /\ j < Len(q) + 1 /\ j \in Nat
      /\ InQueue(p) = InQueue(q) \union Numbers(b) /\ Len(q) \in Nat
  BY QueueAppend
<1> HIDE DEF p
<1>2. Numbers(<<>>) = {} /\ Rising(<<>>)
  BY NumbersEmpty DEF Rising
<1>3. Line(w, p, <<>>) = Line(w, q, b)
  BY <1>1, <1>2 DEF Line
<1>4. \A i, j \in DOMAIN p : i < j => Before(p[i], p[j])
  BY <1>1 DEF Ordered
<1>5. \A j \in DOMAIN p : Rising(p[j]) /\ Before(w, p[j])
  BY <1>1 DEF Ordered
<1>6. \A c : Before(c, <<>>)
  BY <1>2 DEF Before
<1>7. QED
  BY <1>2, <1>3, <1>4, <1>5, <1>6 DEF Ordered, p

\* A batch that is shed leaves the others in order.
LEMMA LineShed ==
  ASSUME NEW w \in Batches, NEW q \in Seq(Batches), NEW b \in Batches, NEW sent \in Nat, NEW seen \in Nat,
         Ordered(w, q, b, sent, seen)
  PROVE  /\ Numbers(b) \subseteq Line(w, q, b)
         /\ Line(w, q, <<>>) = Line(w, q, b) \ Numbers(b)
         /\ Ordered(w, q, <<>>, sent, seen)
<1>1. Numbers(<<>>) = {} /\ Rising(<<>>)
  BY NumbersEmpty DEF Rising
<1>2. \A c : Before(c, <<>>)
  BY <1>1 DEF Before
<1>3. \A x \in Numbers(w) \union InQueue(q) : x \notin Numbers(b)
  <2>1. Numbers(b) \subseteq Nat
    BY NumbersType
  <2>2. ASSUME NEW x \in Numbers(w) PROVE x \notin Numbers(b)
    BY <2>1 DEF Ordered, Before
  <2>3. ASSUME NEW j \in DOMAIN q, NEW x \in Numbers(q[j]) PROVE x \notin Numbers(b)
    BY <2>1 DEF Ordered, Before
  <2>4. QED
    BY <2>2, <2>3 DEF InQueue
<1>4. Line(w, q, <<>>) = Line(w, q, b) \ Numbers(b)
  BY <1>1, <1>3 DEF Line
<1>5. QED
  BY <1>1, <1>2, <1>4 DEF Ordered, Line

\* The head of the queue, in the hands of an idle writer or shed by it.
LEMMA LineTake ==
  ASSUME NEW q \in Seq(Batches), NEW b \in Batches, NEW sent \in Nat, NEW seen \in Nat,
         Ordered(<<>>, q, b, sent, seen), q # <<>>
  PROVE  /\ Line(Head(q), Tail(q), b) = Line(<<>>, q, b)
         /\ Ordered(Head(q), Tail(q), b, sent, seen)
<1> DEFINE h == Head(q)
           t == Tail(q)
<1>1. /\ h = q[1] /\ 1 \in DOMAIN q
      /\ \A j \in DOMAIN t : j \in Nat /\ j + 1 \in DOMAIN q /\ 1 < j + 1 /\ t[j] = q[j + 1]
      /\ InQueue(q) = Numbers(h) \union InQueue(t)
  BY QueueTail
<1> HIDE DEF h, t
<1>2. Line(h, t, b) = Line(<<>>, q, b)
  BY <1>1, NumbersEmpty DEF Line
<1>3. \A i, j \in DOMAIN t : i < j => Before(t[i], t[j])
  <2>1. ASSUME NEW i \in DOMAIN t, NEW j \in DOMAIN t, i < j PROVE Before(t[i], t[j])
    <3>1. i + 1 < j + 1
      BY <1>1, <2>1
    <3>2. QED
      BY <1>1, <3>1 DEF Ordered
  <2>2. QED
    BY <2>1
<1>4. \A j \in DOMAIN t : Rising(t[j]) /\ Before(h, t[j]) /\ Before(t[j], b)
  BY <1>1 DEF Ordered
<1>5. Rising(h) /\ Rising(b) /\ Before(h, b)
  BY <1>1 DEF Ordered
<1>6. QED
  BY <1>2, <1>3, <1>4, <1>5 DEF Ordered, h, t

\* A batch that the writer is done with, relayed or not: what is left is in
\* order, and above it.
LEMMA LineDone ==
  ASSUME NEW w \in Batches, NEW q \in Seq(Batches), NEW b \in Batches, NEW sent \in Nat, NEW seen \in Nat,
         Ordered(w, q, b, sent, seen)
  PROVE  /\ Numbers(w) \subseteq Line(w, q, b)
         /\ Line(<<>>, q, b) = Line(w, q, b) \ Numbers(w)
         /\ Ordered(<<>>, q, b, sent, seen)
         /\ \A x \in Numbers(w) : Ordered(<<>>, q, b, x, seen)
<1>1. Numbers(<<>>) = {} /\ Rising(<<>>)
  BY NumbersEmpty DEF Rising
<1>2. \A c : Before(<<>>, c)
  BY <1>1 DEF Before
<1>3. Numbers(w) \subseteq Nat
  BY NumbersType
<1>4. \A x \in Numbers(w) : \A y \in InQueue(q) \union Numbers(b) : x < y
  BY DEF Ordered, Before, InQueue
<1>5. Line(<<>>, q, b) = Line(w, q, b) \ Numbers(w)
  BY <1>1, <1>3, <1>4 DEF Line
<1>6. Ordered(<<>>, q, b, sent, seen)
  BY <1>1, <1>2, <1>5 DEF Ordered
<1>7. ASSUME NEW x \in Numbers(w) PROVE \A y \in Line(<<>>, q, b) : x < y
  BY <1>1, <1>4 DEF Line
<1>8. \A x \in Numbers(w) : Ordered(<<>>, q, b, x, seen)
  BY <1>6, <1>7 DEF Ordered
<1>9. QED
  BY <1>5, <1>6, <1>8 DEF Line

\* A writer that returns leaves its queue.
LEMMA LineLeft ==
  ASSUME NEW q \in Seq(Batches), NEW b \in Batches, NEW sent \in Nat, NEW seen \in Nat,
         Ordered(<<>>, q, b, sent, seen)
  PROVE  /\ InQueue(q) \subseteq Line(<<>>, q, b)
         /\ Line(<<>>, <<>>, b) = Line(<<>>, q, b) \ InQueue(q)
         /\ Ordered(<<>>, <<>>, b, sent, seen)
<1>1. Numbers(<<>>) = {} /\ InQueue(<<>>) = {} /\ DOMAIN <<>> = {}
  BY NumbersEmpty
<1>2. Numbers(b) \subseteq Nat
  BY NumbersType
<1>3. \A x \in InQueue(q) : x \notin Numbers(b)
  BY <1>2 DEF Ordered, Before, InQueue
<1>4. Line(<<>>, <<>>, b) = Line(<<>>, q, b) \ InQueue(q)
  BY <1>1, <1>3 DEF Line
<1>5. QED
  BY <1>1, <1>4 DEF Ordered, Line

-----------------------------------------------------------------------------
(* All pipelines together.                                                 *)

\* What the members' sets hold together, and that no two of them meet.
All(f) == UNION {f[m] : m \in Members}
Apart(f) == \A m, n \in Members : m # n => f[m] \intersect f[n] = {}

\* All together go from f to g by losing n datagrams.
Spends(f, g, n) ==
    /\ Cardinality(All(f)) \in Nat /\ Cardinality(All(g)) \in Nat /\ n \in Nat
    /\ Cardinality(All(f)) = Cardinality(All(g)) + n

\* When every member m loses N[m], all together lose as many as N holds.
LEMMA Losses ==
  ASSUME NEW f, NEW g, NEW N, Apart(f), IsFiniteSet(All(f)),
         \A m \in Members : N[m] \subseteq f[m] /\ g[m] = f[m] \ N[m]
  PROVE  /\ Apart(g) /\ IsFiniteSet(All(g)) /\ IsFiniteSet(All(N))
         /\ Spends(f, g, Cardinality(All(N)))
<1>1. Apart(g)
  BY DEF Apart
<1>2. All(N) \subseteq All(f)
  BY DEF All
<1>3. All(g) = All(f) \ All(N)
  <2>1. ASSUME NEW m \in Members, NEW x \in g[m] PROVE x \in All(f) \ All(N)
    <3>1. x \in f[m] /\ x \notin N[m]
      BY <2>1
    <3>2. \A n \in Members : x \notin N[n]
      BY <3>1 DEF Apart
    <3>3. QED
      BY <3>1, <3>2 DEF All
  <2>2. ASSUME NEW m \in Members, NEW x \in f[m], x \notin All(N) PROVE x \in All(g)
    BY <2>2 DEF All
  <2>3. QED
    BY <2>1, <2>2 DEF All
<1>4. All(f) \intersect All(N) = All(N) /\ IsFiniteSet(All(N)) /\ IsFiniteSet(All(g))
  BY <1>2, <1>3, FS_Subset
<1>5. Cardinality(All(g)) = Cardinality(All(f)) - Cardinality(All(N))
  <2>1. Cardinality(All(f) \ All(N)) = Cardinality(All(f)) - Cardinality(All(f) \intersect All(N))
    BY FS_Difference
  <2>2. QED
    BY <1>3, <1>4, <2>1
<1>6. Cardinality(All(f)) \in Nat /\ Cardinality(All(g)) \in Nat /\ Cardinality(All(N)) \in Nat
  BY <1>4, FS_CardinalityType
<1>7. Cardinality(All(f)) = Cardinality(All(g)) + Cardinality(All(N))
  BY <1>5, <1>6
<1>8. QED
  BY <1>1, <1>4, <1>6, <1>7 DEF Spends

\* When member m alone loses the set X, all together lose X.
Loses(f, g, m, X) ==
    /\ X \subseteq f[m] /\ g[m] = f[m] \ X
    /\ \A n \in Members : n # m => g[n] = f[n]
\* Then the total falls by the number of X.
LEMMA OneLoses ==
  ASSUME NEW f, NEW g, NEW m \in Members, NEW X, Apart(f), IsFiniteSet(All(f)), Loses(f, g, m, X)
  PROVE  /\ Apart(g) /\ IsFiniteSet(All(g)) /\ IsFiniteSet(X)
         /\ Spends(f, g, Cardinality(X))
<1> DEFINE N == [n \in Members |-> IF n = m THEN X ELSE {}]
<1>1. \A n \in Members : N[n] \subseteq f[n] /\ g[n] = f[n] \ N[n]
  BY DEF Loses
<1>2. All(N) = X
  BY DEF All
<1> HIDE DEF N
<1>3. QED
  BY <1>1, <1>2, Losses

\* The datagrams of the batches of the members of D, counted by their places
\* (batch.len() of each) or by their numbers.
LEMMA SlotCount ==
  ASSUME NEW bs \in [Members -> Batches], NEW D \in SUBSET Members,
         \A m \in D : Rising(bs[m]),
         \A m, n \in D : m # n => Numbers(bs[m]) \intersect Numbers(bs[n]) = {},
         IsFiniteSet(UNION {Numbers(bs[m]) : m \in D})
  PROVE  Cardinality(UNION {{m} \X DOMAIN bs[m] : m \in D}) = Cardinality(UNION {Numbers(bs[m]) : m \in D})
<1> DEFINE S == UNION {{m} \X DOMAIN bs[m] : m \in D}
           T == UNION {Numbers(bs[m]) : m \in D}
           f == [x \in S |-> bs[x[1]][x[2]].no]
<1>1. \A x \in S : /\ x[1] \in D /\ x[2] \in DOMAIN bs[x[1]] /\ x = <<x[1], x[2]>>
  OBVIOUS
<1>2. \A m \in D : \A i \in DOMAIN bs[m] : <<m, i>> \in S
  OBVIOUS
<1>3. \A m \in D : \A i \in DOMAIN bs[m] : bs[m][i].no \in Numbers(bs[m]) /\ bs[m][i].no \in T
  BY DEF Numbers
<1>4. f \in [S -> T]
  BY <1>1, <1>3
<1>5. \A t \in T : \E x \in S : f[x] = t
  <2>1. ASSUME NEW t \in T PROVE \E x \in S : f[x] = t
    <3>1. PICK m \in D : t \in Numbers(bs[m])
      OBVIOUS
    <3>2. PICK i \in DOMAIN bs[m] : t = bs[m][i].no
      BY <3>1 DEF Numbers
    <3>3. f[<<m, i>>] = t
      BY <1>2, <3>2
    <3>4. QED
      BY <1>2, <3>3
  <2>2. QED
    BY <2>1
<1>6. \A x, y \in S : f[x] = f[y] => x = y
  <2>1. ASSUME NEW m \in D, NEW i \in DOMAIN bs[m], NEW j \in DOMAIN bs[m], bs[m][i].no = bs[m][j].no
        PROVE  i = j
    <3>1. i \in Nat /\ j \in Nat /\ bs[m] \in Batches
      BY DEF Batches
    <3>2. bs[m][i].no \in Nat
      BY <1>3, <3>1, NumbersType
    <3>3. QED
      BY <2>1, <3>1, <3>2 DEF Rising
  <2>2. ASSUME NEW x \in S, NEW y \in S, f[x] = f[y] PROVE x = y
    <3>1. bs[x[1]][x[2]].no = bs[y[1]][y[2]].no
      BY <2>2
    <3>2. x[1] = y[1]
      <4>1. /\ x[1] \in D /\ y[1] \in D
            /\ bs[x[1]][x[2]].no \in Numbers(bs[x[1]])
            /\ bs[y[1]][y[2]].no \in Numbers(bs[y[1]])
        BY <1>1, <1>3
      <4>2. QED
        BY <3>1, <4>1
    <3>3. x[2] = y[2]
      BY <1>1, <2>1, <3>1, <3>2
    <3>4. QED
      BY <1>1, <3>2, <3>3
  <2>3. QED
    BY <2>2
<1> HIDE DEF S, T, f
<1>7. f \in Injection(S, T) /\ f \in Surjection(S, T)
  BY <1>4, <1>5, <1>6 DEF Injection, Surjection, IsInjective
<1>8. Cardinality(S) = Cardinality(T)
  BY <1>7, FS_Injection DEF T
<1>9. QED
  BY <1>8 DEF S, T

-----------------------------------------------------------------------------
(* The inductive invariant.                                                *)

Writers == [at : {"idle", "dial", "write", "stopped"}, batch : Batches, stream : BOOLEAN, cooldown : BOOLEAN]

UdpTypes ==
    /\ shutdown \in BOOLEAN /\ worker \in BOOLEAN
    /\ limits \in {t \in Tunables : validate_ingress_caps(t)} /\ reloads \in 0 .. MaxReloads
    /\ batches \in [Members -> Batches] /\ queues \in [Members -> Seq(Batches)]
    /\ writers \in [Members -> Writers] /\ lastSent \in [Members -> Nat]
    /\ lingered \subseteq {m \in Members : batches[m] # <<>>}
    /\ received \in 0 .. MaxDatagrams
    /\ relayed \in Nat /\ dropped \in Nat /\ forgotten \in Nat

\* A queue has a place for every batch in it and no batch is empty; a writer
\* has a batch exactly while it dials or writes, and a stream when it writes.
QueueShape(q) == Len(q) <= QueueDepth /\ \A j \in DOMAIN q : q[j] # <<>>
WriterShape(w) == (w.at \in {"dial", "write"} <=> w.batch # <<>>) /\ (w.at = "write" => w.stream)
UdpShape == \A m \in Members : QueueShape(queues[m]) /\ WriterShape(writers[m]) /\ lastSent[m] <= received

Pipes == [m \in Members |-> InPipe(m)]
PipeCount == Cardinality(All(Pipes))

\* In terms of the pipelines: the order, that they do not meet, and the sum.
UdpInv ==
    /\ UdpTypes /\ UdpShape /\ UdpInOrder
    /\ Apart(Pipes) /\ IsFiniteSet(All(Pipes))
    /\ received = relayed + dropped + PipeCount + forgotten
    /\ forgotten > 0 => shutdown

\* Members' numbers are among those received, so there are finitely many.
LEMMA PipesFinite ==
  ASSUME NEW f, NEW seen \in Nat, \A m \in Members : \A x \in f[m] : x \in Nat /\ x <= seen
  PROVE  IsFiniteSet(All(f))
<1>1. All(f) \in SUBSET Nat /\ \A x \in All(f) : x <= seen
  BY DEF All
<1>2. QED
  BY <1>1, FS_BoundedSetOfNaturals

\* The numbers of a pipeline are natural numbers.
LEMMA LineType ==
  ASSUME NEW w \in Batches, NEW q \in Seq(Batches), NEW b \in Batches PROVE Line(w, q, b) \subseteq Nat
<1>1. \A j \in DOMAIN q : q[j] \in Batches
  OBVIOUS
<1>2. QED
  BY <1>1, NumbersType DEF Line, InQueue

\* enqueue_batch for the members of due, from batches bs that may have grown
\* by a datagram: the order stays, and what leaves the pipelines is counted.
LEMMA EnqueueStep ==
  ASSUME UdpTypes, UdpShape, NEW bs \in [Members -> Batches],
         NEW due \in SUBSET {m \in Members : bs[m] # <<>>}, NEW seen \in Nat,
         NEW f, f = [m \in Members |-> Line(writers[m].batch, queues[m], bs[m])],
         NEW g, g = [m \in Members |-> Line(writers[m].batch, queues'[m], batches'[m])],
         \A m \in Members : Ordered(writers[m].batch, queues[m], bs[m], lastSent[m], seen),
         Apart(f), enqueue_batch(bs, due)
  PROVE  /\ batches' = [m \in Members |-> IF m \in due THEN <<>> ELSE bs[m]]
         /\ batches' \in [Members -> Batches] /\ queues' \in [Members -> Seq(Batches)]
         /\ \A m \in Members : /\ QueueShape(queues'[m])
                               /\ Ordered(writers[m].batch, queues'[m], batches'[m], lastSent[m], seen)
         /\ Apart(g) /\ IsFiniteSet(All(g)) /\ Cardinality(All(f)) \in Nat /\ Cardinality(All(g)) \in Nat
         /\ dropped' \in Nat /\ dropped' + Cardinality(All(g)) = dropped + Cardinality(All(f))
<1> DEFINE closed == {m \in due : writers[m].at = "stopped"}
           full == {m \in due \ closed : Len(queues[m]) = QueueDepth}
           shed == full \union closed
           Lost == UNION {{m} \X DOMAIN bs[m] : m \in shed}
<1>1. /\ queues' = [m \in Members |-> IF m \in due \ shed THEN Append(queues[m], bs[m]) ELSE queues[m]]
      /\ batches' = [m \in Members |-> IF m \in due THEN <<>> ELSE bs[m]]
      /\ dropped' = dropped + Cardinality(Lost)
  BY DEF enqueue_batch, record_drop
<1>2. /\ shed \subseteq due /\ due \subseteq Members
      /\ \A m \in due \ shed : Len(queues[m]) # QueueDepth
      /\ \A m \in due : bs[m] # <<>>
  OBVIOUS
<1> HIDE DEF shed, full, closed
<1>11. PICK N : N = [m \in Members |-> IF m \in shed THEN Numbers(bs[m]) ELSE {}]
  OBVIOUS
<1>3. /\ queues \in [Members -> Seq(Batches)] /\ QueueDepth \in Nat
      /\ \A m \in Members : writers[m].batch \in Batches /\ lastSent[m] \in Nat /\ bs[m] \in Batches
      /\ \A m \in Members : QueueShape(queues[m])
      /\ <<>> \in Batches
  <2>1. <<>> \in Batches
    BY DEF Batches
  <2>2. \A m \in Members : writers[m].batch \in Batches
    BY DEF UdpTypes, Writers
  <2>3. QED
    BY <2>1, <2>2, UdpAssumption DEF UdpTypes, UdpShape
<1>4. ASSUME NEW m \in Members
      PROVE  /\ queues'[m] \in Seq(Batches) /\ QueueShape(queues'[m])
             /\ Ordered(writers[m].batch, queues'[m], batches'[m], lastSent[m], seen)
             /\ N[m] \subseteq f[m] /\ g[m] = f[m] \ N[m]
  <2>1. CASE m \notin due
    <3>1. queues'[m] = queues[m] /\ batches'[m] = bs[m] /\ N[m] = {}
      BY <1>1, <1>2, <1>11, <2>1
    <3>2. QED
      BY <1>3, <3>1
  <2>2. CASE m \in shed
    <3>1. queues'[m] = queues[m] /\ batches'[m] = <<>> /\ N[m] = Numbers(bs[m])
      BY <1>1, <1>2, <1>11, <2>2
    <3>2. QED
      BY <1>3, <3>1, LineShed
  <2>3. CASE m \in due \ shed
    <3>1. queues'[m] = Append(queues[m], bs[m]) /\ batches'[m] = <<>> /\ N[m] = {}
      BY <1>1, <1>2, <1>11, <2>3
    <3>2. Len(queues[m]) < QueueDepth /\ Len(queues[m]) \in Nat
      BY <1>2, <1>3, <2>3 DEF QueueShape
    <3>3. QueueShape(queues'[m]) /\ queues'[m] \in Seq(Batches)
      BY <1>2, <1>3, <2>3, <3>1, <3>2, QueueAppend DEF QueueShape
    <3>4. /\ Line(writers[m].batch, Append(queues[m], bs[m]), <<>>) = Line(writers[m].batch, queues[m], bs[m])
          /\ Ordered(writers[m].batch, Append(queues[m], bs[m]), <<>>, lastSent[m], seen)
      BY <1>3, LineEnqueue
    <3>5. QED
      BY <3>1, <3>3, <3>4
  <2>4. QED
    BY <2>1, <2>2, <2>3
<1>5. IsFiniteSet(All(f))
  <2>1. \A m \in Members : \A x \in f[m] : x \in Nat /\ x <= seen
    BY <1>3, LineType DEF Ordered
  <2>2. QED
    BY <2>1, PipesFinite
<1>6. /\ Apart(g) /\ IsFiniteSet(All(g)) /\ IsFiniteSet(All(N))
      /\ Cardinality(All(f)) \in Nat /\ Cardinality(All(g)) \in Nat /\ Cardinality(All(N)) \in Nat
      /\ Cardinality(All(f)) = Cardinality(All(g)) + Cardinality(All(N))
  <2>1. \A m \in Members : N[m] \subseteq f[m] /\ g[m] = f[m] \ N[m]
    BY <1>4
  <2>2. Apart(f)
    OBVIOUS
  <2>3. Apart(g) /\ IsFiniteSet(All(g)) /\ IsFiniteSet(All(N))
    BY <1>5, <2>1, <2>2, Losses
  <2>4. Spends(f, g, Cardinality(All(N)))
    BY <1>5, <2>1, <2>2, Losses
  <2>5. QED
    BY <2>3, <2>4 DEF Spends
<1>7. All(N) = UNION {Numbers(bs[m]) : m \in shed}
  BY <1>2, <1>11 DEF All
<1>8. Cardinality(Lost) = Cardinality(All(N))
  <2>1. \A m \in shed : Rising(bs[m])
    BY <1>2 DEF Ordered
  <2>2. \A m, n \in shed : m # n => Numbers(bs[m]) \intersect Numbers(bs[n]) = {}
    BY <1>2 DEF Apart, Line
  <2>3. shed \in SUBSET Members /\ IsFiniteSet(UNION {Numbers(bs[m]) : m \in shed})
    BY <1>2, <1>6, <1>7
  <2>4. Cardinality(Lost) = Cardinality(UNION {Numbers(bs[m]) : m \in shed})
    BY <2>1, <2>2, <2>3, SlotCount
  <2>5. QED
    BY <1>7, <2>4
<1>9. batches' \in [Members -> Batches] /\ queues' \in [Members -> Seq(Batches)]
  <2>1. batches' \in [Members -> Batches]
    BY <1>1, <1>3
  <2>2. \A m \in Members : queues'[m] \in Seq(Batches)
    BY <1>4
  <2>3. QED
    BY <1>1, <2>1, <2>2
<1>10. dropped' \in Nat /\ dropped' + Cardinality(All(g)) = dropped + Cardinality(All(f))
  <2> HIDE DEF Lost
  <2>1. dropped \in Nat
    BY DEF UdpTypes
  <2>2. QED
    BY <1>1, <1>6, <1>8, <2>1
<1> HIDE DEF Lost
<1>12. QED
  BY <1>1, <1>4, <1>6, <1>9, <1>10

-----------------------------------------------------------------------------
(* The recv loop.                                                          *)

\* What a step does to the pipelines and their accounts.
Kept ==
    /\ UdpInOrder /\ Apart(Pipes) /\ IsFiniteSet(All(Pipes))
    /\ received = relayed + dropped + PipeCount + forgotten

\* A step of the recv loop that hands batches over, from batches bs and seen
\* datagrams received.
LEMMA FlushStep ==
  ASSUME UdpInv, NEW bs \in [Members -> Batches],
         NEW due \in SUBSET {m \in Members : bs[m] # <<>>}, NEW seen \in Nat, received' = seen,
         NEW f, f = [m \in Members |-> Line(writers[m].batch, queues[m], bs[m])],
         \A m \in Members : Ordered(writers[m].batch, queues[m], bs[m], lastSent[m], seen),
         Apart(f), seen = relayed + dropped + Cardinality(All(f)) + forgotten,
         enqueue_batch(bs, due), UNCHANGED <<writers, relayed, forgotten, lastSent>>
  PROVE  /\ batches' = [m \in Members |-> IF m \in due THEN <<>> ELSE bs[m]]
         /\ batches' \in [Members -> Batches] /\ queues' \in [Members -> Seq(Batches)]
         /\ \A m \in Members : QueueShape(queues'[m])
         /\ dropped' \in Nat /\ Kept'
<1>1. PICK g : g = [m \in Members |-> Line(writers[m].batch, queues'[m], batches'[m])]
  OBVIOUS
<1>2. UdpTypes /\ UdpShape /\ relayed \in Nat /\ dropped \in Nat /\ forgotten \in Nat
  BY DEF UdpInv, UdpTypes
<1>3. /\ batches' = [m \in Members |-> IF m \in due THEN <<>> ELSE bs[m]]
      /\ batches' \in [Members -> Batches] /\ queues' \in [Members -> Seq(Batches)]
      /\ \A m \in Members : /\ QueueShape(queues'[m])
                            /\ Ordered(writers[m].batch, queues'[m], batches'[m], lastSent[m], seen)
      /\ Apart(g) /\ IsFiniteSet(All(g)) /\ Cardinality(All(f)) \in Nat /\ Cardinality(All(g)) \in Nat
      /\ dropped' \in Nat /\ dropped' + Cardinality(All(g)) = dropped + Cardinality(All(f))
  <2>1. batches' = [m \in Members |-> IF m \in due THEN <<>> ELSE bs[m]]
    BY DEF enqueue_batch
  <2>2. batches' \in [Members -> Batches] /\ queues' \in [Members -> Seq(Batches)]
    BY <1>1, <1>2, EnqueueStep
  <2>3. \A m \in Members : QueueShape(queues'[m])
    BY <1>1, <1>2, EnqueueStep
  <2>4. \A m \in Members : Ordered(writers[m].batch, queues'[m], batches'[m], lastSent[m], seen)
    BY <1>1, <1>2, EnqueueStep
  <2>5. Apart(g) /\ IsFiniteSet(All(g)) /\ Cardinality(All(f)) \in Nat /\ Cardinality(All(g)) \in Nat
    BY <1>1, <1>2, EnqueueStep
  <2>6. dropped' \in Nat /\ dropped' + Cardinality(All(g)) = dropped + Cardinality(All(f))
    BY <1>1, <1>2, EnqueueStep
  <2>7. QED
    BY <2>1, <2>2, <2>3, <2>4, <2>5, <2>6
<1>4. Pipes' = g
  BY <1>1 DEF Pipes, InPipe
<1>5. PipeCount' = Cardinality(All(g)) /\ Apart(Pipes)' /\ IsFiniteSet(All(Pipes))'
  <2>1. All(Pipes)' = All(g) /\ (Apart(Pipes)' <=> Apart(g))
    BY <1>4 DEF All, Apart
  <2>2. QED
    BY <1>3, <2>1 DEF PipeCount
<1>7. received' = relayed' + dropped' + PipeCount' + forgotten'
  <2>1. PICK x \in Nat, y \in Nat, z \in Nat : x = Cardinality(All(f)) /\ y = Cardinality(All(g)) /\ z = dropped'
    BY <1>3
  <2>2. seen = relayed + dropped + x + forgotten /\ z + y = dropped + x
    BY <1>3, <2>1
  <2>3. seen = relayed + z + y + forgotten
    BY <1>2, <2>2
  <2>4. QED
    BY <1>5, <2>1, <2>3
<1>8. UdpInOrder'
  BY <1>3 DEF UdpInOrder
<1>9. QED
  BY <1>3, <1>5, <1>7, <1>8 DEF Kept

\* More datagrams received do not disturb those that are there.
LEMMA OrderedLater ==
  ASSUME NEW w \in Batches, NEW q \in Seq(Batches), NEW b \in Batches, NEW sent, NEW seen \in Nat,
         Ordered(w, q, b, sent, seen)
  PROVE  Ordered(w, q, b, sent, seen + 1)
<1>1. Line(w, q, b) \subseteq Nat
  BY LineType
<1>2. \A x \in Line(w, q, b) : x <= seen + 1
  BY <1>1 DEF Ordered
<1>3. QED
  BY <1>2 DEF Ordered

\* What the invariant says of every member.
LEMMA MemberTypes ==
  ASSUME UdpInv, NEW m \in Members
  PROVE  /\ writers[m].batch \in Batches /\ queues[m] \in Seq(Batches) /\ batches[m] \in Batches
         /\ lastSent[m] \in Nat /\ received \in Nat /\ lastSent[m] <= received
         /\ writers[m] \in Writers
         /\ Ordered(writers[m].batch, queues[m], batches[m], lastSent[m], received)
<1>1. writers[m] \in Writers /\ lastSent[m] <= received
  BY DEF UdpInv, UdpTypes, UdpShape
<1>2. writers[m].batch \in Batches
  BY <1>1 DEF Writers
<1>3. queues[m] \in Seq(Batches) /\ batches[m] \in Batches /\ lastSent[m] \in Nat
  BY DEF UdpInv, UdpTypes
<1>4. received \in Nat
  BY UdpAssumption DEF UdpInv, UdpTypes
<1>5. QED
  BY <1>1, <1>2, <1>3, <1>4 DEF UdpInv, UdpInOrder

\* A datagram is refused, or pushed and its batch handed over if it is full.
LEMMA HandleStep == UdpInv /\ handle_datagram => UdpInv'
<1> SUFFICES ASSUME UdpInv, handle_datagram PROVE UdpInv'
  OBVIOUS
<1>0. /\ received \in Nat /\ relayed \in Nat /\ dropped \in Nat /\ forgotten \in Nat
      /\ received < MaxDatagrams /\ MaxDatagrams \in Nat
      /\ received' = received + 1 /\ received + 1 \in 1 .. MaxDatagrams
      /\ UNCHANGED <<shutdown, limits, reloads, worker, writers, relayed, forgotten, lastSent>>
  BY UdpAssumption, SMTT(30) DEF UdpInv, UdpTypes, handle_datagram
<1>1. PipeCount \in Nat
  BY FS_CardinalityType DEF PipeCount, UdpInv
<1>2. \A m \in Members : lastSent'[m] <= received'
  BY <1>0, MemberTypes
<1>3. CASE Refuse
  <2>1. UNCHANGED <<batches, lingered, queues>> /\ dropped' = dropped + 1
    BY <1>3 DEF Refuse, record_drop
  <2>2. UdpTypes' /\ UdpShape'
    BY <1>0, <1>2, <2>1 DEF UdpInv, UdpTypes, UdpShape
  <2>3. Pipes' = Pipes
    BY <1>0, <2>1 DEF Pipes, InPipe
  <2>4. PipeCount' = PipeCount /\ Apart(Pipes)' /\ IsFiniteSet(All(Pipes))'
    BY <2>3 DEF PipeCount, Apart, All, UdpInv
  <2>5. received' = relayed' + dropped' + PipeCount' + forgotten'
    BY <1>0, <1>1, <2>1, <2>4 DEF UdpInv
  <2>6. UdpInOrder'
    <3>1. \A m \in Members : Ordered(writers[m].batch, queues[m], batches[m], lastSent[m], received + 1)
      BY MemberTypes, OrderedLater
    <3>2. QED
      BY <1>0, <2>1, <3>1 DEF UdpInOrder
  <2>7. QED
    BY <1>0, <2>2, <2>4, <2>5, <2>6 DEF UdpInv
<1>4. ASSUME NEW size \in Payloads, NEW m \in Members, Push(size, m) PROVE UdpInv'
  <2>1. PICK d : d = [no |-> received + 1, size |-> size]
    OBVIOUS
  <2>2. PICK bs : bs = [batches EXCEPT ![m] = Append(batches[m], d)]
    OBVIOUS
  <2>3. PICK due : due = IF fill_flush(bs[m]) THEN {m} ELSE {}
    OBVIOUS
  <2>4. enqueue_batch(bs, due) /\ lingered' = lingered \ due
    BY <1>4, <2>1, <2>2, <2>3 DEF Push
  <2>5. d \in Datagram /\ d.no = received + 1
    BY <1>0, <2>1 DEF Datagram
  <2>6. /\ batches \in [Members -> Batches] /\ Append(batches[m], d) \in Batches /\ Append(batches[m], d) # <<>>
    BY <2>5, NumbersAppend DEF UdpInv, UdpTypes
  <2>7. /\ bs \in [Members -> Batches] /\ bs[m] = Append(batches[m], d)
        /\ \A n \in Members : n # m => bs[n] = batches[n]
    BY <2>2, <2>6
  <2>8. due \in SUBSET {n \in Members : bs[n] # <<>>}
    BY <2>3, <2>6, <2>7
  <2>9. PICK f : f = [n \in Members |-> Line(writers[n].batch, queues[n], bs[n])]
    OBVIOUS
  <2>10. /\ f[m] = InPipe(m) \union {received + 1} /\ received + 1 \notin InPipe(m)
         /\ Ordered(writers[m].batch, queues[m], bs[m], lastSent[m], received + 1)
    <3>1. lastSent[m] < received + 1
      BY <1>0, MemberTypes
    <3>2. /\ writers[m].batch \in Batches /\ queues[m] \in Seq(Batches) /\ batches[m] \in Batches
          /\ lastSent[m] \in Nat /\ received \in Nat
          /\ Ordered(writers[m].batch, queues[m], batches[m], lastSent[m], received)
      BY MemberTypes
    <3>3. /\ Line(writers[m].batch, queues[m], Append(batches[m], d))
               = Line(writers[m].batch, queues[m], batches[m]) \union {received + 1}
          /\ received + 1 \notin Line(writers[m].batch, queues[m], batches[m])
          /\ Ordered(writers[m].batch, queues[m], Append(batches[m], d), lastSent[m], received + 1)
      BY <2>5, <3>1, <3>2, LinePush
    <3>4. QED
      BY <2>7, <2>9, <3>3 DEF InPipe
  <2>11. ASSUME NEW n \in Members, n # m
         PROVE  /\ f[n] = InPipe(n) /\ received + 1 \notin InPipe(n)
                /\ Ordered(writers[n].batch, queues[n], bs[n], lastSent[n], received + 1)
    <3>1. bs[n] = batches[n] /\ f[n] = InPipe(n)
      BY <2>7, <2>9, <2>11 DEF InPipe
    <3>2. Ordered(writers[n].batch, queues[n], bs[n], lastSent[n], received + 1)
      BY <3>1, MemberTypes, OrderedLater
    <3>3. \A x \in InPipe(n) : x <= received
      BY MemberTypes DEF Ordered, InPipe
    <3>4. QED
      BY <1>0, <3>1, <3>2, <3>3
  <2>12. Apart(f)
    BY <2>10, <2>11 DEF Apart, UdpInv, Pipes
  <2>13. Cardinality(All(f)) = PipeCount + 1
    <3>1. All(f) = All(Pipes) \union {received + 1}
      BY <2>10, <2>11 DEF All, Pipes
    <3>2. received + 1 \notin All(Pipes)
      BY <2>10, <2>11 DEF All, Pipes
    <3>3. Cardinality(All(Pipes) \union {received + 1}) = Cardinality(All(Pipes)) + 1
      BY <3>2, FS_AddElement DEF UdpInv
    <3>4. QED
      BY <3>1, <3>3 DEF PipeCount
  <2>14. received + 1 = relayed + dropped + Cardinality(All(f)) + forgotten
    BY <1>0, <1>1, <2>13 DEF UdpInv
  <2>15. \A n \in Members : Ordered(writers[n].batch, queues[n], bs[n], lastSent[n], received + 1)
    BY <2>10, <2>11
  <2>16. /\ batches' = [n \in Members |-> IF n \in due THEN <<>> ELSE bs[n]]
         /\ batches' \in [Members -> Batches] /\ queues' \in [Members -> Seq(Batches)]
         /\ \A n \in Members : QueueShape(queues'[n])
         /\ dropped' \in Nat /\ Kept'
    BY <1>0, <2>4, <2>7, <2>8, <2>9, <2>12, <2>14, <2>15, FlushStep
  <2>17. lingered' \subseteq {n \in Members : batches'[n] # <<>>}
    BY <2>4, <2>6, <2>7, <2>16 DEF UdpInv, UdpTypes
  <2>18. UdpTypes'
    <3>1. /\ shutdown \in BOOLEAN /\ worker \in BOOLEAN
          /\ limits \in {t \in Tunables : validate_ingress_caps(t)} /\ reloads \in 0 .. MaxReloads
          /\ writers \in [Members -> Writers] /\ lastSent \in [Members -> Nat]
      BY DEF UdpInv, UdpTypes
    <3>2. received' \in 0 .. MaxDatagrams
      BY <1>0
    <3>3. QED
      BY <1>0, <2>16, <2>17, <3>1, <3>2 DEF UdpTypes
  <2>19. UdpShape'
    BY <1>0, <1>2, <2>16 DEF UdpInv, UdpShape
  <2>20. QED
    BY <1>0, <2>16, <2>18, <2>19 DEF UdpInv, Kept
<1>5. QED
  BY <1>3, <1>4 DEF handle_datagram

\* A flush, on a tick or at the shutdown: the batches of due are handed over.
LEMMA FlushAll ==
  ASSUME UdpInv, NEW due \in SUBSET {m \in Members : batches[m] # <<>>}, enqueue_batch(batches, due),
         lingered' \subseteq {m \in Members : batches'[m] # <<>>}, worker' \in BOOLEAN,
         UNCHANGED <<shutdown, limits, reloads, writers, received, relayed, forgotten, lastSent>>
  PROVE  UdpInv'
<1>1. PICK bs, f : bs = batches /\ f = Pipes
  OBVIOUS
<1>2. PICK seen : seen = received
  OBVIOUS
<1>3. /\ bs \in [Members -> Batches] /\ seen \in Nat /\ received' = seen
      /\ due \in SUBSET {m \in Members : bs[m] # <<>>}
      /\ enqueue_batch(bs, due)
  BY <1>1, <1>2, UdpAssumption, SMTT(30) DEF UdpInv, UdpTypes
<1>4. f = [m \in Members |-> Line(writers[m].batch, queues[m], bs[m])]
  BY <1>1 DEF Pipes, InPipe
<1>5. \A m \in Members : Ordered(writers[m].batch, queues[m], bs[m], lastSent[m], seen)
  BY <1>1, <1>2 DEF UdpInv, UdpInOrder
<1>6. Apart(f) /\ seen = relayed + dropped + Cardinality(All(f)) + forgotten
  BY <1>1, <1>2 DEF UdpInv, PipeCount
<1>7. /\ batches' \in [Members -> Batches] /\ queues' \in [Members -> Seq(Batches)]
      /\ \A n \in Members : QueueShape(queues'[n])
      /\ dropped' \in Nat /\ Kept'
  BY <1>3, <1>4, <1>5, <1>6, FlushStep
<1>8. UdpTypes'
  <2>1. /\ shutdown \in BOOLEAN
        /\ limits \in {t \in Tunables : validate_ingress_caps(t)} /\ reloads \in 0 .. MaxReloads
        /\ writers \in [Members -> Writers] /\ lastSent \in [Members -> Nat]
        /\ received \in 0 .. MaxDatagrams /\ relayed \in Nat /\ forgotten \in Nat
    BY DEF UdpInv, UdpTypes
  <2>2. QED
    BY <1>7, <2>1 DEF UdpTypes
<1>9. UdpShape'
  BY <1>7 DEF UdpInv, UdpShape
<1>10. forgotten' > 0 => shutdown'
  BY DEF UdpInv
<1>11. QED
  BY <1>7, <1>8, <1>9, <1>10 DEF UdpInv, Kept

\* The steps that touch no pipeline: a reload, the shutdown, the end of a
\* backoff, and no step at all.
LEMMA QuietStep ==
  ASSUME UdpInv, UNCHANGED <<batches, queues, countVars>>,
         \A m \in Members : writers'[m].batch = writers[m].batch /\ WriterShape(writers'[m]),
         writers' \in [Members -> Writers], shutdown => shutdown', shutdown' \in BOOLEAN,
         worker' \in BOOLEAN, lingered' \subseteq lingered,
         limits' \in {t \in Tunables : validate_ingress_caps(t)}, reloads' \in 0 .. MaxReloads
  PROVE  UdpInv'
<1>1. Pipes' = Pipes
  BY DEF Pipes, InPipe
<1>2. PipeCount' = PipeCount /\ Apart(Pipes)' /\ IsFiniteSet(All(Pipes))'
  BY <1>1 DEF PipeCount, Apart, All, UdpInv
<1>3. UdpTypes'
  BY DEF UdpInv, UdpTypes, countVars
<1>4. UdpShape' /\ UdpInOrder'
  BY DEF UdpInv, UdpShape, UdpInOrder, countVars
<1>5. /\ received' = relayed' + dropped' + PipeCount' + forgotten'
      /\ forgotten' > 0 => shutdown'
  BY <1>2 DEF UdpInv, countVars
<1>6. QED
  BY <1>2, <1>3, <1>4, <1>5 DEF UdpInv

-----------------------------------------------------------------------------
(* A writer.                                                               *)

\* A step of member m's writer that takes the datagrams of X from its pipeline
\* and counts each of them once, as relayed, dropped or forgotten.
LEMMA MemberStep ==
  ASSUME UdpInv, NEW m \in Members, NEW w \in Writers, NEW q \in Seq(Batches), NEW s \in Nat, NEW X,
         UNCHANGED <<shutdown, limits, reloads, worker, batches, lingered, received>>,
         writers' = [writers EXCEPT ![m] = w], queues' = [queues EXCEPT ![m] = q],
         lastSent' = [lastSent EXCEPT ![m] = s],
         WriterShape(w), QueueShape(q), s <= received,
         Ordered(w.batch, q, batches[m], s, received),
         X \subseteq InPipe(m), Line(w.batch, q, batches[m]) = InPipe(m) \ X,
         relayed' \in Nat, dropped' \in Nat, forgotten' \in Nat,
         relayed' + dropped' + forgotten' = relayed + dropped + forgotten + Cardinality(X),
         forgotten' > 0 => shutdown
  PROVE  UdpInv'
<1>1. PICK f, g : f = Pipes /\ g = Pipes'
  OBVIOUS
<1>2. /\ writers \in [Members -> Writers] /\ queues \in [Members -> Seq(Batches)]
      /\ lastSent \in [Members -> Nat]
  BY DEF UdpInv, UdpTypes
<1>3. writers'[m] = w /\ queues'[m] = q /\ lastSent'[m] = s
  BY <1>2
<1>4. \A n \in Members : n # m => writers'[n] = writers[n] /\ queues'[n] = queues[n] /\ lastSent'[n] = lastSent[n]
  BY <1>2
<1>5. g[m] = f[m] \ X /\ X \subseteq f[m]
  BY <1>1, <1>3 DEF Pipes, InPipe
<1>6. Loses(f, g, m, X)
  BY <1>1, <1>4, <1>5 DEF Pipes, InPipe, Loses
<1>7. Apart(f) /\ IsFiniteSet(All(f))
  BY <1>1 DEF UdpInv
<1>8. Apart(g) /\ IsFiniteSet(All(g))
  BY <1>6, <1>7, OneLoses
<1>9. /\ Cardinality(All(f)) \in Nat /\ Cardinality(All(g)) \in Nat /\ Cardinality(X) \in Nat
      /\ Cardinality(All(f)) = Cardinality(All(g)) + Cardinality(X)
  <2>1. Spends(f, g, Cardinality(X))
    BY <1>6, <1>7, OneLoses
  <2>2. QED
    BY <2>1 DEF Spends
<1>10. PipeCount = Cardinality(All(f)) /\ PipeCount' = Cardinality(All(g)) /\ Apart(Pipes)' /\ IsFiniteSet(All(Pipes))'
  <2>1. All(Pipes)' = All(g) /\ (Apart(Pipes)' <=> Apart(g)) /\ All(Pipes) = All(f)
    BY <1>1 DEF All, Apart
  <2>2. QED
    BY <1>8, <2>1 DEF PipeCount
<1>11. received' = relayed' + dropped' + PipeCount' + forgotten'
  <2>1. PICK x \in Nat, y \in Nat, z \in Nat : x = Cardinality(All(f)) /\ y = Cardinality(All(g)) /\ z = Cardinality(X)
    BY <1>9
  <2>2. x = y + z /\ received = relayed + dropped + x + forgotten
    BY <1>9, <1>10, <2>1 DEF UdpInv
  <2>3. received \in Nat /\ relayed \in Nat /\ dropped \in Nat /\ forgotten \in Nat
    BY UdpAssumption DEF UdpInv, UdpTypes
  <2>4. received = relayed' + dropped' + y + forgotten'
    <3>1. PICK r \in Nat, d \in Nat, o \in Nat : r = relayed' /\ d = dropped' /\ o = forgotten'
      OBVIOUS
    <3>2. r + d + o = relayed + dropped + forgotten + z
      BY <2>1, <3>1
    <3>3. received = r + d + y + o
      BY <2>2, <2>3, <3>2
    <3>4. QED
      BY <3>1, <3>3
  <2>5. QED
    BY <1>10, <2>1, <2>4
<1>12. UdpTypes'
  <2>1. writers' \in [Members -> Writers] /\ queues' \in [Members -> Seq(Batches)] /\ lastSent' \in [Members -> Nat]
    BY <1>2
  <2>2. QED
    BY <2>1 DEF UdpInv, UdpTypes
<1>13. UdpShape' /\ UdpInOrder'
  BY <1>3, <1>4 DEF UdpInv, UdpShape, UdpInOrder
<1>14. QED
  BY <1>10, <1>11, <1>12, <1>13 DEF UdpInv

\* BackendWriter::run takes a batch, and sheds it or passes it on.
LEMMA TakeStep == ASSUME UdpInv, NEW m \in Members, Take(m) PROVE UdpInv'
<1>1. PICK h, t, s, v : h = Head(queues[m]) /\ t = Tail(queues[m]) /\ s = lastSent[m] /\ v = writers[m]
  OBVIOUS
<1>2. /\ v \in Writers /\ v.batch \in Batches /\ queues[m] \in Seq(Batches) /\ batches[m] \in Batches
      /\ s \in Nat /\ received \in Nat /\ s <= received
      /\ Ordered(v.batch, queues[m], batches[m], s, received)
  BY <1>1, MemberTypes
<1>3. /\ v.at = "idle" /\ queues[m] # <<>> /\ queues' = [queues EXCEPT ![m] = t]
      /\ UNCHANGED <<shutdown, limits, reloads, worker, batches, lingered, received, relayed, forgotten, lastSent>>
  BY <1>1 DEF Take
<1>4. v.batch = <<>> /\ WriterShape(v) /\ QueueShape(queues[m])
  BY <1>1, <1>3 DEF UdpInv, UdpShape, WriterShape
<1>5. /\ h \in Batches /\ t \in Seq(Batches) /\ Len(t) = Len(queues[m]) - 1 /\ h = queues[m][1] /\ h # <<>>
      /\ \A j \in DOMAIN t : j + 1 \in DOMAIN queues[m] /\ t[j] = queues[m][j + 1]
  BY <1>1, <1>2, <1>3, <1>4, QueueTail DEF QueueShape
<1>6. QueueShape(t)
  <2>1. Len(queues[m]) \in Nat /\ Len(queues[m]) <= QueueDepth /\ QueueDepth \in Nat
    BY <1>2, <1>4, UdpAssumption DEF QueueShape
  <2>2. QED
    BY <1>4, <1>5, <2>1 DEF QueueShape
<1>7. /\ Line(h, t, batches[m]) = InPipe(m)
      /\ Ordered(h, t, batches[m], s, received)
  <2>1. Ordered(<<>>, queues[m], batches[m], s, received)
    BY <1>2, <1>4
  <2>2. /\ Line(h, t, batches[m]) = Line(<<>>, queues[m], batches[m])
        /\ Ordered(h, t, batches[m], s, received)
    BY <1>1, <1>2, <1>3, <2>1, LineTake
  <2>3. QED
    BY <1>1, <1>4, <2>2 DEF InPipe
<1>8. lastSent' = [lastSent EXCEPT ![m] = s]
  BY <1>1, <1>3 DEF UdpInv, UdpTypes
<1>9. relayed \in Nat /\ dropped \in Nat /\ forgotten \in Nat /\ (forgotten > 0 => shutdown)
  BY DEF UdpInv, UdpTypes
<1>10. CASE dropped' = dropped + Len(h) /\ UNCHANGED writers
  <2>1. /\ Line(<<>>, t, batches[m]) = Line(h, t, batches[m]) \ Numbers(h)
        /\ Numbers(h) \subseteq Line(h, t, batches[m])
        /\ Ordered(<<>>, t, batches[m], s, received)
    BY <1>2, <1>5, <1>7, LineDone
  <2>2. Cardinality(Numbers(h)) = Len(h) /\ Len(h) \in Nat
    BY <1>5, <1>7, BatchSize DEF Ordered, Batches
  <2>3. writers' = [writers EXCEPT ![m] = v]
    BY <1>1, <1>10 DEF UdpInv, UdpTypes
  <2>4. PICK X : X = Numbers(h)
    OBVIOUS
  <2>5. X \subseteq InPipe(m) /\ Line(v.batch, t, batches[m]) = InPipe(m) \ X
    BY <1>4, <1>7, <2>1, <2>4
  <2>6. /\ relayed' \in Nat /\ dropped' \in Nat /\ forgotten' \in Nat
        /\ relayed' + dropped' + forgotten' = relayed + dropped + forgotten + Cardinality(X)
        /\ forgotten' > 0 => shutdown
    BY <1>3, <1>9, <1>10, <2>2, <2>4
  <2>7. Ordered(v.batch, t, batches[m], s, received)
    BY <1>4, <2>1
  <2>8. QED
    BY <1>2, <1>3, <1>4, <1>5, <1>6, <1>8, <2>3, <2>5, <2>6, <2>7, MemberStep
<1>11. ASSUME writers' = [writers EXCEPT ![m] =
                            [v EXCEPT !.at = IF v.stream THEN "write" ELSE "dial", !.batch = h]],
              UNCHANGED dropped
       PROVE  UdpInv'
  <2>1. PICK w : w = [v EXCEPT !.at = IF v.stream THEN "write" ELSE "dial", !.batch = h]
    OBVIOUS
  <2>2. w \in Writers /\ w.batch = h /\ WriterShape(w) /\ writers' = [writers EXCEPT ![m] = w]
    BY <1>2, <1>5, <1>11, <2>1 DEF Writers, WriterShape
  <2>3. PICK X : X = {}
    OBVIOUS
  <2>4. X \subseteq InPipe(m) /\ Line(w.batch, t, batches[m]) = InPipe(m) \ X
    BY <1>7, <2>2, <2>3
  <2>5. /\ relayed' \in Nat /\ dropped' \in Nat /\ forgotten' \in Nat
        /\ relayed' + dropped' + forgotten' = relayed + dropped + forgotten + Cardinality(X)
        /\ forgotten' > 0 => shutdown
    BY <1>3, <1>9, <1>11, <2>3, FS_EmptySet
  <2>6. Ordered(w.batch, t, batches[m], s, received)
    BY <1>7, <2>2
  <2>7. QED
    BY <1>2, <1>3, <1>5, <1>6, <1>8, <2>2, <2>4, <2>5, <2>6, MemberStep
<1>12. QED
  BY <1>1, <1>10, <1>11 DEF Take, record_drop

\* on_failure: the batch in the writer's hands is dropped, and counted.
LEMMA FailureStep ==
  ASSUME UdpInv, NEW m \in Members, on_failure(m),
         UNCHANGED <<shutdown, limits, reloads, worker, batches, lingered, queues, received, forgotten>>
  PROVE  UdpInv'
<1>1. PICK w, q, s, b : /\ w = [IdleWriter EXCEPT !.cooldown = TRUE] /\ q = queues[m] /\ s = lastSent[m]
                        /\ b = writers[m].batch
  OBVIOUS
<1>2. /\ b \in Batches /\ q \in Seq(Batches) /\ batches[m] \in Batches
      /\ s \in Nat /\ received \in Nat /\ s <= received
      /\ Ordered(b, q, batches[m], s, received)
  BY <1>1, MemberTypes
<1>3. w \in Writers /\ w.batch = <<>> /\ WriterShape(w)
  <2>1. <<>> \in Batches
    BY DEF Batches
  <2>2. QED
    BY <1>1, <2>1 DEF Writers, WriterShape, IdleWriter
<1>4. /\ writers' = [writers EXCEPT ![m] = w] /\ queues' = [queues EXCEPT ![m] = q]
      /\ lastSent' = [lastSent EXCEPT ![m] = s]
  BY <1>1 DEF UdpInv, UdpTypes, on_failure
<1>5. QueueShape(q)
  BY <1>1 DEF UdpInv, UdpShape
<1>6. /\ Numbers(b) \subseteq Line(b, q, batches[m])
      /\ Line(<<>>, q, batches[m]) = Line(b, q, batches[m]) \ Numbers(b)
      /\ Ordered(<<>>, q, batches[m], s, received)
  BY <1>2, LineDone
<1>7. Cardinality(Numbers(b)) = Len(b) /\ Len(b) \in Nat
  BY <1>2, BatchSize DEF Ordered, Batches
<1>8. PICK X : X = Numbers(b)
  OBVIOUS
<1>9. X \subseteq InPipe(m) /\ Line(w.batch, q, batches[m]) = InPipe(m) \ X
  BY <1>1, <1>3, <1>6, <1>8 DEF InPipe
<1>10. relayed \in Nat /\ dropped \in Nat /\ forgotten \in Nat /\ (forgotten > 0 => shutdown)
  BY DEF UdpInv, UdpTypes
<1>11. relayed' = relayed /\ dropped' = dropped + Len(b) /\ forgotten' = forgotten
  BY <1>1 DEF on_failure, record_drop
<1>12. /\ relayed' \in Nat /\ dropped' \in Nat /\ forgotten' \in Nat
       /\ relayed' + dropped' + forgotten' = relayed + dropped + forgotten + Cardinality(X)
       /\ forgotten' > 0 => shutdown
  BY <1>7, <1>8, <1>10, <1>11
<1>13. Ordered(w.batch, q, batches[m], s, received)
  BY <1>3, <1>6
<1>14. QED
  BY <1>2, <1>3, <1>4, <1>5, <1>9, <1>12, <1>13, MemberStep

\* A dial that succeeds, and one that does not.
LEMMA DialStep == ASSUME UdpInv, NEW m \in Members, dial(m) PROVE UdpInv'
<1>1. writers \in [Members -> Writers] /\ writers[m].at = "dial" /\ WriterShape(writers[m])
  BY DEF UdpInv, UdpTypes, UdpShape, dial
<1>2. CASE on_failure(m)
  BY <1>2, FailureStep DEF dial
<1>3. ASSUME writers' = [writers EXCEPT ![m] = [@ EXCEPT !.at = "write", !.stream = TRUE, !.cooldown = FALSE]],
             UNCHANGED <<dropped, relayed, lastSent>>
      PROVE  UdpInv'
  <2>1. /\ UNCHANGED <<batches, queues, countVars>>
        /\ UNCHANGED <<shutdown, limits, reloads, worker, lingered>>
    BY <1>3 DEF dial, countVars
  <2>2. /\ writers' \in [Members -> Writers]
        /\ writers'[m].batch = writers[m].batch /\ WriterShape(writers'[m])
        /\ \A n \in Members : n # m => writers'[n] = writers[n]
    BY <1>1, <1>3 DEF Writers, WriterShape
  <2>3. \A n \in Members : writers'[n].batch = writers[n].batch /\ WriterShape(writers'[n])
    BY <2>2 DEF UdpInv, UdpShape
  <2>4. /\ shutdown \in BOOLEAN /\ worker \in BOOLEAN
        /\ limits \in {t \in Tunables : validate_ingress_caps(t)} /\ reloads \in 0 .. MaxReloads
    BY DEF UdpInv, UdpTypes
  <2>5. QED
    BY <2>1, <2>2, <2>3, <2>4, QuietStep
<1>4. QED
  BY <1>2, <1>3 DEF dial

\* The end of a backoff.
LEMMA CooldownStep == ASSUME UdpInv, NEW m \in Members, CooldownOver(m) PROVE UdpInv'
<1>1. writers \in [Members -> Writers]
  BY DEF UdpInv, UdpTypes
<1>2. /\ UNCHANGED <<batches, queues, countVars>>
      /\ UNCHANGED <<shutdown, limits, reloads, worker, lingered>>
      /\ writers' = [writers EXCEPT ![m].cooldown = FALSE]
  BY DEF CooldownOver
<1>3. /\ writers' \in [Members -> Writers]
      /\ \A n \in Members : /\ writers'[n].batch = writers[n].batch
                            /\ writers'[n].at = writers[n].at /\ writers'[n].stream = writers[n].stream
  BY <1>1, <1>2 DEF Writers
<1>4. \A n \in Members : writers'[n].batch = writers[n].batch /\ WriterShape(writers'[n])
  BY <1>3 DEF UdpInv, UdpShape, WriterShape
<1>5. /\ shutdown \in BOOLEAN /\ worker \in BOOLEAN
      /\ limits \in {t \in Tunables : validate_ingress_caps(t)} /\ reloads \in 0 .. MaxReloads
  BY DEF UdpInv, UdpTypes
<1>6. QED
  BY <1>2, <1>3, <1>4, <1>5, QuietStep

\* A batch is written: relayed, and its last datagram is the last one sent.
LEMMA WriteStep == ASSUME UdpInv, NEW m \in Members, write_batch(m) PROVE UdpInv'
<1>1. CASE on_failure(m)
  BY <1>1, FailureStep DEF write_batch
<1>2. ASSUME relayed' = relayed + Len(writers[m].batch),
             lastSent' = [lastSent EXCEPT ![m] = Last(writers[m].batch).no],
             writers' = [writers EXCEPT ![m] = [@ EXCEPT !.at = "idle", !.batch = <<>>]],
             UNCHANGED dropped
      PROVE  UdpInv'
  <2>1. PICK w, q, s, b : /\ w = [writers[m] EXCEPT !.at = "idle", !.batch = <<>>] /\ q = queues[m]
                          /\ s = Last(writers[m].batch).no /\ b = writers[m].batch
    OBVIOUS
  <2>2. /\ b \in Batches /\ q \in Seq(Batches) /\ batches[m] \in Batches /\ writers[m] \in Writers
        /\ lastSent[m] \in Nat /\ received \in Nat
        /\ Ordered(b, q, batches[m], lastSent[m], received)
    BY <2>1, MemberTypes
  <2>3. b # <<>> /\ UNCHANGED <<shutdown, limits, reloads, worker, batches, lingered, queues, received, forgotten>>
    BY <2>1 DEF UdpInv, UdpShape, WriterShape, write_batch
  <2>4. s \in Numbers(b) /\ s \in Nat
    <3>1. Len(b) \in DOMAIN b /\ s = b[Len(b)].no
      BY <2>1, <2>2, <2>3 DEF Last, Batches
    <3>2. QED
      BY <2>2, <3>1, NumbersType DEF Numbers
  <2>5. /\ Numbers(b) \subseteq Line(b, q, batches[m])
        /\ Line(<<>>, q, batches[m]) = Line(b, q, batches[m]) \ Numbers(b)
    BY <2>2, LineDone
  <2>6. Ordered(<<>>, q, batches[m], s, received)
    BY <2>2, <2>4, LineDone
  <2>7. s <= received
    BY <2>2, <2>4, <2>5 DEF Ordered
  <2>8. w \in Writers /\ w.batch = <<>> /\ WriterShape(w)
    <3>1. <<>> \in Batches
      BY DEF Batches
    <3>2. QED
      BY <2>1, <2>2, <3>1 DEF Writers, WriterShape
  <2>9. /\ writers' = [writers EXCEPT ![m] = w] /\ queues' = [queues EXCEPT ![m] = q]
        /\ lastSent' = [lastSent EXCEPT ![m] = s]
    BY <1>2, <2>1, <2>3 DEF UdpInv, UdpTypes
  <2>10. QueueShape(q)
    BY <2>1 DEF UdpInv, UdpShape
  <2>11. Cardinality(Numbers(b)) = Len(b) /\ Len(b) \in Nat
    BY <2>2, BatchSize DEF Ordered, Batches
  <2>12. PICK X : X = Numbers(b)
    OBVIOUS
  <2>13. X \subseteq InPipe(m) /\ Line(w.batch, q, batches[m]) = InPipe(m) \ X
    BY <2>1, <2>5, <2>8, <2>12 DEF InPipe
  <2>14. relayed \in Nat /\ dropped \in Nat /\ forgotten \in Nat /\ (forgotten > 0 => shutdown)
    BY DEF UdpInv, UdpTypes
  <2>15. relayed' = relayed + Len(b) /\ dropped' = dropped /\ forgotten' = forgotten
    BY <1>2, <2>1, <2>3
  <2>16. /\ relayed' \in Nat /\ dropped' \in Nat /\ forgotten' \in Nat
         /\ relayed' + dropped' + forgotten' = relayed + dropped + forgotten + Cardinality(X)
         /\ forgotten' > 0 => shutdown
    BY <2>11, <2>12, <2>14, <2>15
  <2>17. Ordered(w.batch, q, batches[m], s, received)
    BY <2>6, <2>8
  <2>18. QED
    BY <2>2, <2>3, <2>4, <2>7, <2>8, <2>9, <2>10, <2>13, <2>16, <2>17, MemberStep
<1>3. QED
  BY <1>1, <1>2 DEF write_batch

\* A writer that returns forgets what is in its queue.
LEMMA ReturnStep == ASSUME UdpInv, NEW m \in Members, Return(m) PROVE UdpInv'
<1>1. PICK w, q, s, X : /\ w = [IdleWriter EXCEPT !.at = "stopped"] /\ q = <<>> /\ s = lastSent[m]
                        /\ X = InQueue(queues[m])
  OBVIOUS
<1>2. /\ queues[m] \in Seq(Batches) /\ batches[m] \in Batches
      /\ s \in Nat /\ received \in Nat /\ s <= received
      /\ Ordered(writers[m].batch, queues[m], batches[m], s, received)
  BY <1>1, MemberTypes
<1>3. /\ UNCHANGED <<shutdown, limits, reloads, worker, batches, lingered, received, relayed, dropped, lastSent>>
      /\ forgotten' = forgotten + Cardinality(X)
  BY <1>1 DEF Return
<1>4. writers[m].batch = <<>>
  <2>1. WriterShape(writers[m]) /\ writers[m].at = "idle"
    BY DEF UdpInv, UdpShape, Return
  <2>2. QED
    BY <2>1 DEF WriterShape
<1>5. w \in Writers /\ w.batch = <<>> /\ WriterShape(w) /\ q \in Seq(Batches) /\ QueueShape(q)
  <2>1. <<>> \in Batches /\ q \in Seq(Batches) /\ QueueShape(q)
    BY <1>1, UdpAssumption DEF Batches, QueueShape
  <2>2. QED
    BY <1>1, <2>1 DEF Writers, WriterShape, IdleWriter
<1>6. /\ writers' = [writers EXCEPT ![m] = w] /\ queues' = [queues EXCEPT ![m] = q]
      /\ lastSent' = [lastSent EXCEPT ![m] = s]
  BY <1>1, <1>3 DEF UdpInv, UdpTypes, Return
<1>7. /\ X \subseteq InPipe(m) /\ Line(w.batch, q, batches[m]) = InPipe(m) \ X
      /\ Ordered(w.batch, q, batches[m], s, received)
  <2>1. Ordered(<<>>, queues[m], batches[m], s, received)
    BY <1>2, <1>4
  <2>2. /\ InQueue(queues[m]) \subseteq Line(<<>>, queues[m], batches[m])
        /\ Line(<<>>, <<>>, batches[m]) = Line(<<>>, queues[m], batches[m]) \ InQueue(queues[m])
        /\ Ordered(<<>>, <<>>, batches[m], s, received)
    BY <1>2, <2>1, LineLeft
  <2>3. QED
    BY <1>1, <1>4, <1>5, <2>2 DEF InPipe
<1>8. Cardinality(X) \in Nat
  <2>1. InPipe(m) \subseteq All(Pipes)
    BY DEF All, Pipes
  <2>2. QED
    BY <1>7, <2>1, FS_Subset, FS_CardinalityType DEF UdpInv
<1>9. relayed \in Nat /\ dropped \in Nat /\ forgotten \in Nat /\ (forgotten > 0 => shutdown)
  BY DEF UdpInv, UdpTypes
<1>10. forgotten' > 0 => shutdown
  <2>1. CASE queues[m] = <<>>
    <3>1. X = {}
      BY <1>1, <2>1, NumbersEmpty
    <3>2. Cardinality(X) = 0
      BY <3>1, FS_EmptySet
    <3>3. QED
      BY <1>3, <1>9, <3>2
  <2>2. CASE shutdown
    BY <2>2
  <2>3. QED
    BY <2>1, <2>2 DEF Return
<1>11. /\ relayed' \in Nat /\ dropped' \in Nat /\ forgotten' \in Nat
       /\ relayed' + dropped' + forgotten' = relayed + dropped + forgotten + Cardinality(X)
  BY <1>3, <1>8, <1>9
<1>12. QED
  BY <1>2, <1>3, <1>5, <1>6, <1>7, <1>10, <1>11, MemberStep

-----------------------------------------------------------------------------
(* The theorems.                                                           *)

\* A step that leaves the ingress alone but for the token, which another
\* service may see cancelled.
LEMMA UdpRest ==
  ASSUME UdpInv, UNCHANGED <<limits, reloads, worker, batches, lingered, queues, writers, countVars>>,
         shutdown' = shutdown \/ Cancel
  PROVE  UdpInv'
<1>1. /\ shutdown' \in BOOLEAN /\ worker \in BOOLEAN /\ writers \in [Members -> Writers] /\ (shutdown => shutdown')
      /\ limits \in {t \in Tunables : validate_ingress_caps(t)} /\ reloads \in 0 .. MaxReloads
  BY DEF UdpInv, UdpTypes, Cancel
<1>2. \A n \in Members : writers'[n].batch = writers[n].batch /\ WriterShape(writers'[n])
  BY DEF UdpInv, UdpShape
<1>3. QED
  BY <1>1, <1>2, QuietStep

\* Every step of the ingress keeps the invariant.
LEMMA UdpInvStep == UdpInv /\ [UdpNext]_udpVars => UdpInv'
<1> SUFFICES ASSUME UdpInv, [UdpNext]_udpVars PROVE UdpInv'
  OBVIOUS
<1>1. CASE handle_datagram
  BY <1>1, HandleStep
<1>2. CASE flush_expired
  <2>1. PICK due \in SUBSET {m \in Members : batches[m] # <<>>} :
           enqueue_batch(batches, due) /\ lingered' = {m \in Members : batches'[m] # <<>>}
    BY <1>2 DEF flush_expired
  <2>2. /\ UNCHANGED <<shutdown, limits, reloads, worker, writers, received, relayed, forgotten, lastSent>>
        /\ worker \in BOOLEAN
    BY <1>2 DEF flush_expired, UdpInv, UdpTypes
  <2>3. QED
    BY <2>1, <2>2, FlushAll
<1>3. CASE flush_all
  <2>1. PICK due \in SUBSET {m \in Members : batches[m] # <<>>} : due = {m \in Members : batches[m] # <<>>}
    OBVIOUS
  <2>2. /\ UNCHANGED <<shutdown, limits, reloads, writers, received, relayed, forgotten, lastSent>>
        /\ enqueue_batch(batches, due) /\ worker' \in BOOLEAN
        /\ lingered' \subseteq {m \in Members : batches'[m] # <<>>}
    BY <1>3, <2>1 DEF flush_all
  <2>3. QED
    BY <2>2, FlushAll
<1>4. CASE apply_reload
  <2>1. /\ UNCHANGED <<batches, queues, countVars>> /\ UNCHANGED <<shutdown, worker, writers>>
        /\ lingered' \subseteq lingered
        /\ limits' \in {t \in Tunables : validate_ingress_caps(t)}
    BY <1>4 DEF apply_reload
  <2>2. reloads' \in 0 .. MaxReloads
    BY <1>4, UdpAssumption DEF apply_reload, UdpInv, UdpTypes
  <2>3. shutdown \in BOOLEAN /\ worker \in BOOLEAN /\ writers \in [Members -> Writers]
    BY DEF UdpInv, UdpTypes
  <2>4. \A n \in Members : writers'[n].batch = writers[n].batch /\ WriterShape(writers'[n])
    BY <2>1 DEF UdpInv, UdpShape
  <2>5. QED
    BY <2>1, <2>2, <2>3, <2>4, QuietStep
<1>5. ASSUME NEW m \in Members, WriterStep(m) \/ CooldownOver(m) PROVE UdpInv'
  BY <1>5, TakeStep, DialStep, WriteStep, ReturnStep, CooldownStep DEF WriterStep
<1>6. CASE UdpShutdown
  BY <1>6, UdpRest DEF UdpShutdown
<1>7. CASE UNCHANGED udpVars
  BY <1>7, UdpRest DEF udpVars, countVars
<1>8. QED
  BY <1>1, <1>2, <1>3, <1>4, <1>5, <1>6, <1>7 DEF UdpNext

\* A worker that was just spawned has empty pipelines.
LEMMA UdpInitially == UdpInit => UdpInv
<1> SUFFICES ASSUME UdpInit PROVE UdpInv
  OBVIOUS
<1>1. <<>> \in Batches /\ <<>> \in Seq(Batches)
  BY DEF Batches
<1>2. IdleWriter \in Writers /\ WriterShape(IdleWriter) /\ IdleWriter.batch = <<>>
  BY <1>1 DEF IdleWriter, Writers, WriterShape
<1>3. UdpTypes
  <2>1. batches \in [Members -> Batches] /\ queues \in [Members -> Seq(Batches)]
    BY <1>1 DEF UdpInit
  <2>2. writers \in [Members -> Writers] /\ lastSent \in [Members -> Nat]
    BY <1>2 DEF UdpInit
  <2>3. reloads \in 0 .. MaxReloads /\ received \in 0 .. MaxDatagrams
    BY UdpAssumption DEF UdpInit
  <2>4. QED
    BY <2>1, <2>2, <2>3 DEF UdpInit, UdpTypes
<1>4. QueueShape(<<>>)
  BY UdpAssumption DEF QueueShape
<1>5. UdpShape
  BY <1>2, <1>4 DEF UdpInit, UdpShape
<1>6. \A m \in Members : InPipe(m) = {}
  BY <1>2, NumbersEmpty DEF UdpInit, InPipe, Line
<1>7. UdpInOrder
  <2>1. Numbers(<<>>) = {} /\ InQueue(<<>>) = {} /\ DOMAIN <<>> = {}
    BY NumbersEmpty
  <2>2. Ordered(<<>>, <<>>, <<>>, 0, 0)
    BY <2>1 DEF Ordered, Rising, Before, Line
  <2>3. QED
    BY <1>2, <2>2 DEF UdpInit, UdpInOrder
<1>8. All(Pipes) = {} /\ Apart(Pipes)
  BY <1>6 DEF All, Apart, Pipes
<1>9. IsFiniteSet(All(Pipes)) /\ PipeCount = 0
  BY <1>8, FS_EmptySet DEF PipeCount
<1>10. QED
  BY <1>3, <1>5, <1>7, <1>8, <1>9 DEF UdpInit, UdpInv

\* What the invariant says of types and accounts.
LEMMA UdpInvIs == UdpInv => UdpTypeOK /\ UdpAccounted /\ UdpInOrder
<1> SUFFICES ASSUME UdpInv PROVE UdpTypeOK /\ UdpAccounted
  BY DEF UdpInv
<1>1. PipeCount \in Nat
  BY FS_CardinalityType DEF PipeCount, UdpInv
<1>2. relayed \in 0 .. MaxDatagrams /\ dropped \in 0 .. MaxDatagrams /\ forgotten \in 0 .. MaxDatagrams
  BY <1>1, UdpAssumption, SMTT(30) DEF UdpInv, UdpTypes
<1>3. ASSUME NEW m \in Members
      PROVE  /\ \A i \in 1 .. Len(batches[m]) : batches[m][i] \in Datagram
             /\ Len(queues[m]) <= QueueDepth
             /\ \A i \in 1 .. Len(queues[m]) : queues[m][i] # <<>>
             /\ writers[m].at \in {"idle", "dial", "write", "stopped"}
             /\ (writers[m].at \in {"dial", "write"}) <=> (writers[m].batch # <<>>)
             /\ (writers[m].at = "write" => writers[m].stream)
  <2>1. /\ batches[m] \in Batches /\ queues[m] \in Seq(Batches) /\ writers[m] \in Writers
        /\ QueueShape(queues[m]) /\ WriterShape(writers[m])
    BY MemberTypes DEF UdpInv, UdpShape
  <2>2. \A i \in 1 .. Len(batches[m]) : batches[m][i] \in Datagram
    BY <2>1 DEF Batches
  <2>3. Len(queues[m]) <= QueueDepth /\ \A i \in 1 .. Len(queues[m]) : queues[m][i] # <<>>
    BY <2>1 DEF QueueShape
  <2>4. writers[m].at \in {"idle", "dial", "write", "stopped"}
    BY <2>1 DEF Writers
  <2>5. QED
    BY <2>1, <2>2, <2>3, <2>4 DEF WriterShape
<1>4. UdpTypeOK
  <2>1. /\ limits \in {t \in Tunables : validate_ingress_caps(t)}
        /\ reloads \in 0 .. MaxReloads /\ worker \in BOOLEAN
        /\ lingered \subseteq {m \in Members : batches[m] # <<>>}
        /\ received \in 0 .. MaxDatagrams
    BY DEF UdpInv, UdpTypes
  <2>2. QED
    BY <1>2, <1>3, <2>1 DEF UdpTypeOK
<1>5. UdpAccounted
  <2>1. All(Pipes) = UNION {InPipe(m) : m \in Members}
    BY DEF All, Pipes
  <2>2. \A m, n \in Members : m # n => InPipe(m) \intersect InPipe(n) = {}
    BY DEF UdpInv, Apart, Pipes
  <2>3. received = relayed + dropped + Cardinality(UNION {InPipe(m) : m \in Members}) + forgotten
    BY <2>1 DEF UdpInv, PipeCount
  <2>4. QED
    BY <2>2, <2>3 DEF UdpInv, UdpAccounted
<1>6. QED
  BY <1>4, <1>5

\* udp.rs, "the per-peer ordering the design guarantees": whatever the
\* batching, the queueing, the redials and the losses, the datagrams that reach
\* a member do so in the order of their arrival.
THEOREM UdpKeepsOrder == UdpSpec => []UdpInOrder
<1>1. UdpInv => UdpInOrder
  BY DEF UdpInv
<1>2. QED
  BY <1>1, UdpInitially, UdpInvStep, PTL DEF UdpSpec

\* metrics.rs: `received == relayed + sum of dropped`, with what is still in the
\* pipelines; only the shutdown makes datagrams leave them uncounted.  With it,
\* the types: no queue grows past its depth.
THEOREM UdpAccountsAddUp == UdpSpec => [](UdpTypeOK /\ UdpAccounted)
<1>1. QED
  BY UdpInvIs, UdpInitially, UdpInvStep, PTL DEF UdpSpec

-----------------------------------------------------------------------------
(* Raw relays.                                                             *)

\* What DenialOwed rests on: a receiver has not seen more than was sent, so
\* the next publication is always news to a watcher that waits.
RawInv ==
    /\ shutdown \in BOOLEAN
    /\ denies \in [Kinds -> SUBSET (Devices \union {NoIdentity})]
    /\ version \in [Kinds -> 0 .. MaxPublishes]
    /\ raw \in [RawStreams -> Stages]
    /\ token \subseteq RawStreams
    /\ watcher \in [RawStreams -> [Kinds -> Watchers]]
    /\ \A s \in RawStreams, k \in Kinds : watcher[s][k].seen <= version[k]

\* A watcher of a running relay ends only when it cancels the token or finds
\* it cancelled: without this the next publication would meet nobody.
OffIsCancelled ==
    \A s \in RawStreams : \A k \in Kinds :
      raw[s] = "relay" /\ watcher[s][k].at = "off" => Cancelled(s)

\* Initially no relay runs.
LEMMA RawInitially == RawInit => RawInv /\ OffIsCancelled /\ DenialOwed
<1> SUFFICES ASSUME RawInit PROVE RawInv /\ OffIsCancelled /\ DenialOwed
  OBVIOUS
<1> USE RawAssumption DEF RawInit
<1>1. 0 \in 0 .. MaxPublishes
  OBVIOUS
<1>2. watcher \in [RawStreams -> [Kinds -> Watchers]]
  BY <1>1 DEF Watchers
<1>3. \A s \in RawStreams, k \in Kinds : watcher[s][k].seen <= version[k]
  OBVIOUS
<1>4. RawInv
  BY <1>1, <1>2, <1>3 DEF RawInv, Stages
<1>5. OffIsCancelled /\ DenialOwed
  BY DEF OffIsCancelled, DenialOwed
<1>6. QED
  BY <1>4, <1>5

\* Every step of the streams, of their watchers and of a reload keeps the
\* types, and a receiver is never ahead of its channel.
LEMMA RawInvStep == RawInv /\ [RawNext]_rawVars => RawInv'
<1> SUFFICES ASSUME RawInv, [RawNext]_rawVars PROVE RawInv'
  OBVIOUS
<1> USE RawAssumption DEF RawInv, Stages, Watchers
<1>1. ASSUME NEW k \in Kinds, Publish(k) PROVE RawInv'
  BY <1>1 DEF Publish
<1>2. ASSUME NEW s \in RawStreams, Receive(s) PROVE RawInv'
  BY <1>2 DEF Receive
<1>3. ASSUME NEW s \in RawStreams, Admit(s) PROVE RawInv'
  BY <1>3 DEF Admit, TurnAway
<1>4. ASSUME NEW s \in RawStreams, Header(s) PROVE RawInv'
  BY <1>4 DEF Header, TurnAway
<1>5. ASSUME NEW s \in RawStreams, DialBackend(s) PROVE RawInv'
  <2>1. CASE raw'[s] = "ended" /\ UNCHANGED watcher
    BY <1>5, <2>1 DEF DialBackend, TurnAway
  <2>2. CASE watcher' = [watcher EXCEPT ![s] = [k \in Kinds |-> [at |-> "check", seen |-> 0]]]
    <3>1. watcher' \in [RawStreams -> [Kinds -> Watchers]]
      BY <2>2
    <3>2. \A q \in RawStreams, k \in Kinds : watcher'[q][k].seen <= version[k]
      BY <2>2
    <3>3. QED
      BY <1>5, <3>1, <3>2 DEF DialBackend, TurnAway
  <2>3. QED
    BY <1>5, <2>1, <2>2 DEF DialBackend, TurnAway
<1>6. ASSUME NEW s \in RawStreams, EndRawRelay(s) PROVE RawInv'
  BY <1>6 DEF EndRawRelay, TurnAway
<1>7. ASSUME NEW s \in RawStreams, NEW k \in Kinds, Look(s, k) PROVE RawInv'
  <2>1. \E x \in {"off", "wait"} : watcher' = [watcher EXCEPT ![s][k].at = x]
    BY <1>7 DEF Look
  <2>2. watcher' \in [RawStreams -> [Kinds -> Watchers]]
    BY <2>1
  <2>3. \A q \in RawStreams, j \in Kinds : watcher'[q][j].seen = watcher[q][j].seen
    BY <2>1
  <2>4. QED
    BY <1>7, <2>2, <2>3 DEF Look
<1>8. ASSUME NEW s \in RawStreams, NEW k \in Kinds, Changed(s, k) PROVE RawInv'
  <2>1. CASE watcher' = [watcher EXCEPT ![s][k].at = "off"]
    <3>1. watcher' \in [RawStreams -> [Kinds -> Watchers]]
      BY <2>1
    <3>2. \A q \in RawStreams, j \in Kinds : watcher'[q][j].seen = watcher[q][j].seen
      BY <2>1
    <3>3. QED
      BY <1>8, <3>1, <3>2 DEF Changed
  <2>2. CASE watcher' = [watcher EXCEPT ![s][k] = [at |-> "check", seen |-> version[k]]]
    <3>1. watcher' \in [RawStreams -> [Kinds -> Watchers]]
      BY <2>2
    <3>2. \A q \in RawStreams, j \in Kinds : watcher'[q][j].seen <= version[j]
      BY <2>2
    <3>3. QED
      BY <1>8, <3>1, <3>2 DEF Changed
  <2>3. QED
    BY <1>8, <2>1, <2>2 DEF Changed
<1>9. CASE StopHandler \/ RawShutdown \/ UNCHANGED rawVars
  BY <1>9 DEF StopHandler, RawShutdown, Cancel, rawVars
<1>10. QED
  BY <1>1, <1>2, <1>3, <1>4, <1>5, <1>6, <1>7, <1>8, <1>9 DEF RawNext

\* Every step keeps it: the token and the shutdown flag are never reset.
LEMMA OffIsCancelledStep ==
  RawInv /\ OffIsCancelled /\ [RawNext]_rawVars => OffIsCancelled'
<1> SUFFICES ASSUME RawInv, OffIsCancelled, [RawNext]_rawVars,
                    NEW t \in RawStreams, NEW j \in Kinds,
                    raw'[t] = "relay", watcher'[t][j].at = "off"
             PROVE  Cancelled(t)'
  BY DEF OffIsCancelled
<1> USE RawAssumption DEF RawInv, OffIsCancelled, Cancelled, Stages, Watchers
<1>1. ASSUME NEW k \in Kinds, Publish(k) PROVE Cancelled(t)'
  BY <1>1 DEF Publish
<1>2. ASSUME NEW s \in RawStreams, Receive(s) \/ Admit(s) \/ Header(s) PROVE Cancelled(t)'
  BY <1>2 DEF Receive, Admit, Header, TurnAway
<1>3. ASSUME NEW s \in RawStreams, DialBackend(s) PROVE Cancelled(t)'
  BY <1>3 DEF DialBackend, TurnAway
<1>4. ASSUME NEW s \in RawStreams, EndRawRelay(s) PROVE Cancelled(t)'
  BY <1>4 DEF EndRawRelay, TurnAway
<1>5. ASSUME NEW s \in RawStreams, NEW k \in Kinds, Look(s, k) PROVE Cancelled(t)'
  <2>1. CASE s = t /\ k = j
    BY <1>5, <2>1 DEF Look
  <2>2. CASE ~(s = t /\ k = j)
    <3>1. watcher'[t][j] = watcher[t][j]
      BY <1>5, <2>2 DEF Look
    <3>2. QED
      BY <1>5, <3>1 DEF Look
  <2>3. QED
    BY <2>1, <2>2
<1>6. ASSUME NEW s \in RawStreams, NEW k \in Kinds, Changed(s, k) PROVE Cancelled(t)'
  <2>1. CASE s = t /\ k = j
    BY <1>6, <2>1 DEF Changed
  <2>2. CASE ~(s = t /\ k = j)
    <3>1. watcher'[t][j] = watcher[t][j]
      BY <1>6, <2>2 DEF Changed
    <3>2. QED
      BY <1>6, <3>1 DEF Changed
  <2>3. QED
    BY <2>1, <2>2
<1>7. CASE StopHandler \/ RawShutdown \/ UNCHANGED rawVars
  BY <1>7 DEF StopHandler, RawShutdown, Cancel, rawVars
<1>8. QED
  BY <1>1, <1>2, <1>3, <1>4, <1>5, <1>6, <1>7 DEF RawNext

\* No step loses a denial: a publication makes every waiting watcher late, a
\* look acts on what it reads, and a wait that ends leads to a look.
LEMMA DenialOwedStep ==
  RawInv /\ OffIsCancelled /\ DenialOwed /\ [RawNext]_rawVars => DenialOwed'
<1> DEFINE Owed(t, j) == \/ shutdown \/ t \in token
                         \/ watcher[t][j].at = "check"
                         \/ watcher[t][j].at = "wait" /\ version[j] > watcher[t][j].seen
           Hit(t, j) == raw[t] = "relay" /\ DeviceOf[t] \in denies[j]
<1> SUFFICES ASSUME RawInv, OffIsCancelled, DenialOwed, [RawNext]_rawVars,
                    NEW t \in RawStreams, NEW j \in Kinds, Hit(t, j)'
             PROVE  Owed(t, j)'
  BY DEF DenialOwed, Cancelled
<1>0. Hit(t, j) => Owed(t, j)
  BY DEF DenialOwed, Cancelled
<1> USE RawAssumption DEF RawInv, Stages, Watchers
<1>1. ASSUME NEW k \in Kinds, Publish(k) PROVE Owed(t, j)'
  <2>1. CASE j = k
    <3>1. version'[j] = version[j] + 1 /\ watcher[t][j].seen <= version[j]
      BY <1>1, <2>1 DEF Publish
    <3>2. version[j] \in Nat /\ watcher[t][j].seen \in Nat
      OBVIOUS
    <3>3. version'[j] > watcher[t][j].seen
      BY <3>1, <3>2
    <3>4. watcher[t][j].at \in {"off", "check", "wait"}
      OBVIOUS
    <3>5. raw[t] = "relay" /\ UNCHANGED <<raw, shutdown, token, watcher>>
      BY <1>1 DEF Publish
    <3>6. watcher[t][j].at = "off" => shutdown \/ t \in token
      BY <3>5 DEF OffIsCancelled, Cancelled
    <3>7. QED
      BY <3>3, <3>4, <3>5, <3>6
  <2>2. CASE j # k
    BY <1>0, <1>1, <2>2 DEF Publish
  <2>3. QED
    BY <2>1, <2>2
<1>2. ASSUME NEW s \in RawStreams, Receive(s) PROVE Owed(t, j)'
  BY <1>0, <1>2 DEF Receive
<1>3. ASSUME NEW s \in RawStreams, Admit(s) PROVE Owed(t, j)'
  BY <1>0, <1>3 DEF Admit, TurnAway
<1>4. ASSUME NEW s \in RawStreams, Header(s) PROVE Owed(t, j)'
  BY <1>0, <1>4 DEF Header, TurnAway
<1>5. ASSUME NEW s \in RawStreams, DialBackend(s) PROVE Owed(t, j)'
  BY <1>0, <1>5, SMTT(30) DEF DialBackend, TurnAway
<1>6. ASSUME NEW s \in RawStreams, EndRawRelay(s) PROVE Owed(t, j)'
  BY <1>0, <1>6 DEF EndRawRelay, TurnAway
<1>7. ASSUME NEW s \in RawStreams, NEW k \in Kinds, Look(s, k) PROVE Owed(t, j)'
  <2>1. CASE s = t /\ k = j
    BY <1>7, <2>1 DEF Look
  <2>2. CASE ~(s = t /\ k = j)
    <3>1. watcher'[t][j] = watcher[t][j]
      BY <1>7, <2>2 DEF Look
    <3>2. QED
      BY <1>0, <1>7, <3>1 DEF Look
  <2>3. QED
    BY <2>1, <2>2
<1>8. ASSUME NEW s \in RawStreams, NEW k \in Kinds, Changed(s, k) PROVE Owed(t, j)'
  <2>1. CASE s = t /\ k = j
    BY <1>8, <2>1 DEF Changed, Cancelled
  <2>2. CASE ~(s = t /\ k = j)
    <3>1. watcher'[t][j] = watcher[t][j]
      BY <1>8, <2>2 DEF Changed
    <3>2. QED
      BY <1>0, <1>8, <3>1 DEF Changed
  <2>3. QED
    BY <2>1, <2>2
<1>9. CASE StopHandler \/ RawShutdown \/ UNCHANGED rawVars
  BY <1>0, <1>9 DEF StopHandler, RawShutdown, Cancel, rawVars
<1>10. QED
  BY <1>1, <1>2, <1>3, <1>4, <1>5, <1>6, <1>7, <1>8, <1>9 DEF RawNext

\* For any number of streams, devices and publications, a denial published
\* after the admission reaches the relay's watcher (cancel_on_revocation and
\* cancel_on_acl_denial of raw_relay/lifetime.rs).
THEOREM RawDenialNeverLost == RawSpec => []DenialOwed
<1>1. RawInit => RawInv /\ OffIsCancelled /\ DenialOwed
  BY RawInitially
<1>2. RawInv /\ OffIsCancelled /\ DenialOwed /\ [RawNext]_rawVars
        => RawInv' /\ OffIsCancelled' /\ DenialOwed'
  BY RawInvStep, OffIsCancelledStep, DenialOwedStep
<1>3. QED
  BY <1>1, <1>2, PTL DEF RawSpec

-----------------------------------------------------------------------------
\* The activity lies between the arming and the present, the present is not
\* past the deadline, and an idle end came at the deadline of the activity.
RelayInv ==
    /\ now \in Nat /\ last \in Nat /\ armed \in Nat
    /\ armed <= last /\ last <= now /\ now <= armed + IdleTimeout
    /\ ending = "IdleTimeout" => last = armed /\ now = armed + IdleTimeout

\* Every step keeps it: the watchdog arms again from the activity, which is
\* never after the deadline it has reached.
LEMMA RelayInvStep == RelayInv /\ [RelayNext]_relayVars => RelayInv'
<1> SUFFICES ASSUME RelayInv, [RelayNext]_relayVars PROVE RelayInv'
  OBVIOUS
<1> USE RelayAssumption DEF RelayInv, deadline
<1>1. ASSUME NEW side \in {"a", "b"}, Copy(side) PROVE RelayInv'
  BY <1>1 DEF Copy
<1>2. ASSUME NEW side \in {"a", "b"}, Eof(side) PROVE RelayInv'
  BY <1>2 DEF Eof
<1>3. CASE RelayError \/ RelayCancelled
  BY <1>3 DEF RelayError, RelayCancelled
<1>4. CASE idle_watchdog
  BY <1>4 DEF idle_watchdog
<1>5. CASE Millisecond
  BY <1>5 DEF Millisecond
<1>6. CASE RelayShutdown \/ UNCHANGED relayVars
  BY <1>6 DEF RelayShutdown, Cancel, relayVars
<1>7. QED
  BY <1>1, <1>2, <1>3, <1>4, <1>5, <1>6 DEF RelayNext

\* For every idle timeout and however long the relay runs, the watchdog of
\* proxy/relay.rs ends it after exactly that time without activity.
THEOREM RelayIdleExact == RelaySpec => []IdleIsExact
<1>1. RelayInit => RelayInv
  BY RelayAssumption DEF RelayInit, RelayInv
<1>2. RelayInv => IdleIsExact
  BY RelayAssumption DEF RelayInv, IdleIsExact
<1>3. QED
  BY <1>1, <1>2, RelayInvStep, PTL DEF RelaySpec

-----------------------------------------------------------------------------
(* The ACME client.                                                        *)

\* What the task holds when it comes to persist: the state it was given, with
\* the certificate that was just issued.
PersistsFresh == pc = "persist" => state.cert = "fresh"

\* A failed attempt changes the process, the certificate and the count alone.
LEMMA FailsTypes ==
  ASSUME AcmeTypeOK, Fails
  PROVE  /\ phase' \in {"down", "starting", "serving", "stopping"}
         /\ pc' \in {"sleep", "failed"}
         /\ cert' \in Certs /\ failures' \in 0 .. MaxFailures
<1> USE AcmeAssumption DEF AcmeTypeOK
<1>1. CASE Initial /\ serve_stale_or_fail
  BY <1>1 DEF serve_stale_or_fail, Certs
<1>2. CASE ~Initial /\ failures' = (IF failures = MaxFailures THEN failures ELSE failures + 1)
           /\ pc' = "sleep" /\ UNCHANGED <<cert, phase>>
  BY <1>2
<1>3. QED
  BY <1>1, <1>2 DEF Fails

\* Every step of the client, of its process and of the calendar keeps the types.
LEMMA AcmeTypeStep == AcmeTypeOK /\ [AcmeNext]_acmeVars => AcmeTypeOK'
<1> SUFFICES ASSUME AcmeTypeOK, [AcmeNext]_acmeVars PROVE AcmeTypeOK'
  OBVIOUS
<1> USE AcmeAssumption DEF AcmeTypeOK, orderVars
<1>0. custody' \in Custodies
  BY DEF AcmeNext, acmeVars
<1>1. CASE Age
  <2>1. \A c \in Certs : Older(c) \in Certs
    BY DEF Older, Certs
  <2>2. store' \in Blobs /\ env' \in Blobs
    BY <1>1, <2>1 DEF Age, Blobs
  <2>3. QED
    BY <1>0, <1>1, <2>1, <2>2 DEF Age
<1>2. CASE Launch
  <2>1. \A c \in load_cached_cert : c \in Certs
    BY DEF load_cached_cert, Blobs, Certs
  <2>2. cached' \in Certs /\ cert' \in Certs /\ pc' \in {"sleep", "account"}
    BY <1>2, <2>1 DEF Launch, Certs
  <2>3. QED
    BY <1>0, <1>2, <2>2 DEF Launch
<1>3. CASE Listen \/ Shutdown
  BY <1>0, <1>3 DEF Listen, Shutdown
<1>4. CASE Exit
  BY <1>0, <1>4 DEF Exit, Certs
<1>5. CASE Wake
  BY <1>0, <1>5 DEF Wake
<1>6. Load \in Blobs /\ [Load EXCEPT !.account = TRUE] \in Blobs
  BY DEF Load, Blobs
<1>7. CASE Restore
  BY <1>0, <1>6, <1>7 DEF Restore
<1>8. CASE Create
  BY <1>0, <1>6, <1>8 DEF Create
<1>9. CASE new_order
  BY <1>0, <1>9 DEF new_order
<1>10. ASSUME NEW d \in Domains, AlreadyValid(d) \/ Challenge(d) \/ Validate(d) PROVE AcmeTypeOK'
  BY <1>0, <1>10 DEF AlreadyValid, Challenge, Validate
<1>11. ASSUME NEW d \in Domains, ReadyFails(d) PROVE AcmeTypeOK'
  BY <1>0, <1>11, FailsTypes DEF ReadyFails
<1>12. CASE AccountFails \/ OrderFails \/ AuthorizationFails \/ FinalizeFails \/ PersistFails
  BY <1>0, <1>12, FailsTypes DEF AccountFails, OrderFails, AuthorizationFails, FinalizeFails, PersistFails, EarlyReturn
<1>13. CASE AuthorizationRefused \/ PollFails \/ PollRefused
  BY <1>0, <1>13, FailsTypes DEF AuthorizationRefused, PollFails, PollRefused, FailCleared
<1>14. CASE AllAsked \/ PollReady
  BY <1>0, <1>14 DEF AllAsked, PollReady
<1>15. CASE Download
  <2>1. state' \in Blobs
    BY <1>15 DEF Download, Blobs, Certs
  <2>2. QED
    BY <1>0, <1>15, <2>1 DEF Download
<1>16. CASE Persist
  BY <1>0, <1>16 DEF Persist, Certs
<1>17. CASE Unusable
  BY <1>0, <1>17, FailsTypes DEF Unusable
<1>18. CASE UNCHANGED acmeVars
  BY <1>0, <1>18 DEF acmeVars
<1>19. QED
  BY <1>1, <1>2, <1>3, <1>4, <1>5, <1>7, <1>8, <1>9, <1>10, <1>11, <1>12, <1>13, <1>14, <1>15, <1>16, <1>17, <1>18
  DEF AcmeNext, Task

\* From the order on the state in a task's hands has an account, and when it is
\* saved at the end the new certificate too.
AcmeBlobs ==
    /\ PersistsFresh
    /\ pc \in {"order", "authorize", "poll", "finalize", "persist"} => state.account

\* Every step keeps that: a state is taken up with an account, restored or new.
LEMMA AcmeBlobsStep == AcmeTypeOK /\ AcmeBlobs /\ [AcmeNext]_acmeVars => AcmeBlobs'
<1> SUFFICES ASSUME AcmeTypeOK, AcmeBlobs, [AcmeNext]_acmeVars PROVE AcmeBlobs'
  OBVIOUS
<1> USE DEF AcmeBlobs, PersistsFresh, orderVars
<1>1. CASE Age \/ Launch \/ Listen \/ Shutdown \/ Exit
  BY <1>1 DEF Age, Launch, Listen, Shutdown, Exit
<1>2. CASE Wake \/ Restore \/ new_order
  BY <1>2 DEF Wake, Restore, new_order
<1>3. CASE Create
  <2>1. Load \in Blobs
    BY DEF Load, AcmeTypeOK
  <2>2. QED
    BY <1>3, <2>1 DEF Create, Blobs
<1>4. ASSUME NEW d \in Domains, AlreadyValid(d) \/ Challenge(d) \/ Validate(d) PROVE AcmeBlobs'
  BY <1>4 DEF AlreadyValid, Challenge, Validate
<1>5. Fails => pc' \in {"sleep", "failed"}
  BY FailsTypes
<1>6. ASSUME NEW d \in Domains, ReadyFails(d) PROVE AcmeBlobs'
  BY <1>5, <1>6 DEF ReadyFails
<1>7. CASE AccountFails \/ OrderFails \/ AuthorizationFails \/ FinalizeFails \/ PersistFails \/ Unusable
  BY <1>5, <1>7 DEF AccountFails, OrderFails, AuthorizationFails, FinalizeFails, PersistFails, EarlyReturn, Unusable
<1>8. CASE AuthorizationRefused \/ PollFails \/ PollRefused
  BY <1>5, <1>8 DEF AuthorizationRefused, PollFails, PollRefused, FailCleared
<1>9. CASE AllAsked \/ PollReady
  BY <1>9 DEF AllAsked, PollReady
<1>10. CASE Download
  BY <1>10 DEF Download, AcmeTypeOK, Blobs
<1>11. CASE Persist \/ UNCHANGED acmeVars
  BY <1>11 DEF Persist, acmeVars
<1>12. QED
  BY <1>1, <1>2, <1>3, <1>4, <1>6, <1>7, <1>8, <1>9, <1>10, <1>11 DEF AcmeNext, Task

\* Initially the process is down and its store empty.
LEMMA AcmeInitially == AcmeInit => AcmeTypeOK /\ AcmeBlobs
BY AcmeAssumption DEF AcmeInit, AcmeTypeOK, AcmeBlobs, PersistsFresh, Empty, Blobs, Certs

\* For any set of domains and either custody: whatever calls to the CA or to
\* the store fail and whenever the process is restarted, the store never loses
\* its account, and its certificate only to an account that is created again
\* because the barrel's launch environment knows of none (get_or_create_account,
\* finalize_and_cache of tls/acme.rs, load of tls/secret_state.rs).
THEOREM AcmeStoreKeepsCert == AcmeSpec => StoreKeepsCert
<1> DEFINE Keeps == /\ store.account => store'.account
                    /\ store.cert # "none" /\ store'.cert = "none"
                         => custody = "barrel" /\ ~env.account /\ pc = "account"
<1>1. AcmeTypeOK /\ AcmeBlobs /\ [AcmeNext]_acmeVars => AcmeTypeOK' /\ AcmeBlobs'
  BY AcmeTypeStep, AcmeBlobsStep
<1>2. ASSUME AcmeTypeOK, AcmeBlobs, [AcmeNext]_acmeVars PROVE Keeps \/ UNCHANGED store
  <2>1. CASE Age
    BY <1>2, <2>1 DEF Age, Older, AcmeTypeOK, Blobs, Certs
  <2>2. CASE Create
    BY <1>2, <2>2, AcmeAssumption DEF Create, Load, AcmeTypeOK, Blobs
  <2>3. CASE Persist \/ Unusable
    BY <1>2, <2>3 DEF Persist, Unusable, AcmeBlobs, PersistsFresh
  <2>4. ASSUME NEW d \in Domains, AlreadyValid(d) \/ Challenge(d) \/ Validate(d) \/ ReadyFails(d)
        PROVE UNCHANGED store
    BY <2>4 DEF AlreadyValid, Challenge, Validate, ReadyFails
  <2>5. CASE Launch \/ Listen \/ Shutdown \/ Exit \/ Wake \/ Restore \/ new_order \/ AllAsked \/ PollReady \/ Download
    BY <2>5 DEF Launch, Listen, Shutdown, Exit, Wake, Restore, new_order, AllAsked, PollReady, Download
  <2>6. CASE AccountFails \/ OrderFails \/ AuthorizationFails \/ FinalizeFails \/ PersistFails
             \/ AuthorizationRefused \/ PollFails \/ PollRefused
    BY <2>6 DEF AccountFails, OrderFails, AuthorizationFails, FinalizeFails, PersistFails,
                AuthorizationRefused, PollFails, PollRefused, EarlyReturn, FailCleared
  <2>7. QED
    BY <1>2, <2>1, <2>2, <2>3, <2>4, <2>5, <2>6 DEF AcmeNext, Task, acmeVars
<1>3. AcmeTypeOK /\ AcmeBlobs /\ [AcmeNext]_acmeVars => [Keeps]_store
  BY <1>2
<1>4. QED
  BY <1>1, <1>3, AcmeInitially, PTL DEF AcmeSpec, StoreKeepsCert

-----------------------------------------------------------------------------
(* The listeners and the shutdown.                                         *)

\* The types, and channels that hold streams.
ServeInv ==
    /\ ServeTypeOK
    /\ shutdown \in BOOLEAN
    /\ channel \in [Channels -> Seq(Streams)]

\* The types without the two bounds, which have steps of their own.
ServeBase ==
    /\ transport \in Transports
    /\ stage \in {"wiring", "ready", "serving", "closing", "exited", "failed"}
    /\ outcome \in {"none", "Graceful", "ForcedTimeout"}
    /\ readiness \in {"starting", "ready", "draining"}
    /\ acceptor \in {"off", "on", "backoff", "stopped"} /\ tunnels \in BOOLEAN
    /\ receivers \subseteq Channels
    /\ conns \in [Conns -> {"none", "handshake", "open", "closed"}]
    /\ streams \in [Streams -> {"none", "reading", "http", "raw", "queued", "request", "tunnelled", "relay", "ended"}]
    /\ overdue \in BOOLEAN /\ cut \in BOOLEAN
    /\ shutdown \in BOOLEAN
Handshakes == {c \in Conns : conns[c] = "handshake"}

\* Every step of startup, listeners, streams and shutdown keeps the types.
LEMMA ServeBaseStep == ServeInv /\ [ServeNext]_serveVars => ServeBase'
<1> SUFFICES ASSUME ServeInv, [ServeNext]_serveVars PROVE ServeBase'
  OBVIOUS
<1> USE ServingAssumption DEF ServeBase, ServeInv, ServeTypeOK, lifeVars, Channels
<1>1. CASE Wire \/ serve_transport
  BY <1>1 DEF Wire, serve_transport
<1>2. ASSUME NEW c \in Conns, Incoming(c) \/ establish_connection(c) \/ accept_tcp(c) \/ end_handshake(c)
      PROVE  ServeBase'
  <2>1. PICK x \in {"handshake", "open", "closed"} : conns' = [conns EXCEPT ![c] = x]
    BY <1>2 DEF Incoming, establish_connection, accept_tcp, end_handshake
  <2>2. UNCHANGED <<lifeVars, streams, cut>>
    BY <1>2 DEF Incoming, establish_connection, accept_tcp, end_handshake
  <2>3. QED
    BY <2>1, <2>2
<1>3. ASSUME NEW c \in Conns, run_handshake(c) PROVE ServeBase'
  BY <1>3 DEF run_handshake
<1>4. CASE accept_error \/ backoff_over
  BY <1>4 DEF accept_error, backoff_over
<1>5. ASSUME NEW s \in Streams, accept_bi(s) \/ ReadType(s) \/ acquire_stream(s) \/ EndStream(s) PROVE ServeBase'
  <2>1. PICK x \in {"reading", "http", "raw", "tunnelled", "ended"} : streams' = [streams EXCEPT ![s] = x]
    BY <1>5 DEF accept_bi, ReadType, acquire_stream, EndStream
  <2>2. UNCHANGED <<lifeVars, conns, cut>>
    BY <1>5 DEF accept_bi, ReadType, acquire_stream, EndStream
  <2>3. QED
    BY <2>1, <2>2
<1>6. ASSUME NEW s \in Streams, NEW k \in Channels, SendTo(s, k) PROVE ServeBase'
  <2>1. PICK x \in {"queued", "ended"} : streams' = [streams EXCEPT ![s] = x]
    BY <1>6 DEF SendTo
  <2>2. UNCHANGED <<lifeVars, conns, cut>>
    BY <1>6 DEF SendTo
  <2>3. QED
    BY <2>1, <2>2
<1>7. ASSUME NEW k \in Channels, Dequeue(k) PROVE ServeBase'
  BY <1>7 DEF Dequeue
<1>8. ASSUME NEW k \in Channels, CloseReceiver(k) PROVE ServeBase'
  BY <1>8 DEF CloseReceiver
<1>9. CASE shutdown_signal
  BY <1>9 DEF shutdown_signal, Cancel
<1>10. CASE set_draining \/ DrainTimeout
  BY <1>10 DEF set_draining, DrainTimeout
<1>11. CASE StopAcceptor
  <2>1. conns' \in [Conns -> {"none", "handshake", "open", "closed"}]
    BY <1>11 DEF StopAcceptor
  <2>2. streams' \in [Streams -> {"none", "reading", "http", "raw", "queued", "request", "tunnelled", "relay", "ended"}]
    BY <1>11 DEF StopAcceptor
  <2>3. cut' \in BOOLEAN
    BY <1>11 DEF StopAcceptor
  <2>4. acceptor' = "stopped" /\ UNCHANGED <<shutdown, transport, stage, outcome, readiness, tunnels, receivers, overdue>>
    BY <1>11 DEF StopAcceptor
  <2>5. QED
    BY <2>1, <2>2, <2>3, <2>4
<1>12. CASE StopTunnels
  BY <1>12 DEF StopTunnels
<1>13. CASE serve_bounded
  BY <1>13 DEF serve_bounded
<1>14. CASE drain_connections
  BY <1>14 DEF drain_connections, InFlight
<1>15. CASE UNCHANGED serveVars
  BY <1>15 DEF serveVars
<1>16. QED
  BY <1>1, <1>2, <1>3, <1>4, <1>5, <1>6, <1>7, <1>8, <1>9, <1>10, <1>11, <1>12, <1>13, <1>14, <1>15
  DEF ServeNext

\* A channel never holds more than its capacity: send() waits for room.
LEMMA ChannelStep ==
  ServeInv /\ [ServeNext]_serveVars
    => /\ channel' \in [Channels -> Seq(Streams)]
       /\ \A k \in Channels : Len(channel'[k]) <= Capacity
<1> SUFFICES ASSUME ServeInv, [ServeNext]_serveVars
             PROVE  /\ channel' \in [Channels -> Seq(Streams)]
                    /\ \A k \in Channels : Len(channel'[k]) <= Capacity
  OBVIOUS
<1>0. /\ channel \in [Channels -> Seq(Streams)] /\ Capacity \in Nat
      /\ \A k \in Channels : Len(channel[k]) <= Capacity
  BY ServingAssumption DEF ServeInv, ServeTypeOK
<1>1. ASSUME NEW s \in Streams, NEW k \in Channels, SendTo(s, k), ~UNCHANGED channel
      PROVE  /\ channel' \in [Channels -> Seq(Streams)]
             /\ \A j \in Channels : Len(channel'[j]) <= Capacity
  <2>1. Len(channel[k]) < Capacity /\ channel' = [channel EXCEPT ![k] = Append(channel[k], s)]
    BY <1>1 DEF SendTo
  <2>2. Append(channel[k], s) \in Seq(Streams) /\ Len(Append(channel[k], s)) = Len(channel[k]) + 1
    BY <1>0
  <2>3. Len(channel[k]) \in Nat
    BY <1>0
  <2>4. QED
    BY <1>0, <2>1, <2>2, <2>3
<1>2. ASSUME NEW k \in Channels, Dequeue(k)
      PROVE  /\ channel' \in [Channels -> Seq(Streams)]
             /\ \A j \in Channels : Len(channel'[j]) <= Capacity
  <2>1. channel[k] # <<>> /\ channel' = [channel EXCEPT ![k] = Tail(channel[k])]
    BY <1>2 DEF Dequeue
  <2>2. Tail(channel[k]) \in Seq(Streams) /\ Len(Tail(channel[k])) = Len(channel[k]) - 1
    BY <1>0, <2>1
  <2>3. Len(channel[k]) \in Nat
    BY <1>0
  <2>4. QED
    BY <1>0, <2>1, <2>2, <2>3
<1>3. ASSUME NEW k \in Channels, CloseReceiver(k)
      PROVE  /\ channel' \in [Channels -> Seq(Streams)]
             /\ \A j \in Channels : Len(channel'[j]) <= Capacity
  <2>1. channel' = [channel EXCEPT ![k] = <<>>]
    BY <1>3 DEF CloseReceiver
  <2>2. <<>> \in Seq(Streams) /\ Len(<<>>) = 0
    OBVIOUS
  <2>3. QED
    BY <1>0, <2>1, <2>2
<1>4. CASE drain_connections
  <2>1. channel' = [k \in Channels |-> <<>>]
    BY <1>4 DEF drain_connections
  <2>2. <<>> \in Seq(Streams) /\ Len(<<>>) = 0
    OBVIOUS
  <2>3. QED
    BY <1>0, <2>1, <2>2
<1>5. CASE UNCHANGED channel
  BY <1>0, <1>5
<1>6. ASSUME NEW c \in Conns,
             Incoming(c) \/ establish_connection(c) \/ accept_tcp(c) \/ end_handshake(c) \/ run_handshake(c)
      PROVE  UNCHANGED channel
  BY <1>6 DEF Incoming, establish_connection, accept_tcp, end_handshake, run_handshake
<1>7. ASSUME NEW s \in Streams, accept_bi(s) \/ ReadType(s) \/ acquire_stream(s) \/ EndStream(s) PROVE UNCHANGED channel
  BY <1>7 DEF accept_bi, ReadType, acquire_stream, EndStream
<1>8. CASE Wire \/ serve_transport \/ accept_error \/ backoff_over \/ shutdown_signal \/ set_draining
           \/ StopAcceptor \/ StopTunnels \/ DrainTimeout \/ serve_bounded \/ UNCHANGED serveVars
  BY <1>5, <1>8 DEF Wire, serve_transport, accept_error, backoff_over, shutdown_signal, set_draining,
                    StopAcceptor, StopTunnels, DrainTimeout, serve_bounded, serveVars
<1>9. QED
  BY <1>1, <1>2, <1>3, <1>4, <1>5, <1>6, <1>7, <1>8 DEF ServeNext

\* A subset of a finite set is no larger.
LEMMA NoMore ==
  ASSUME NEW A, NEW B, IsFiniteSet(A), B \subseteq A, NEW n \in Nat, Cardinality(A) <= n
  PROVE  Cardinality(B) <= n
<1>1. IsFiniteSet(B) /\ Cardinality(B) <= Cardinality(A)
  BY FS_Subset
<1>2. Cardinality(A) \in Nat /\ Cardinality(B) \in Nat
  BY <1>1, FS_CardinalityType
<1>3. QED
  BY <1>1, <1>2

\* The QUIC listener ignores a connection at the cap of pending handshakes.
LEMMA HandshakeStep ==
  ServeInv /\ [ServeNext]_serveVars
    => Cardinality({c \in Conns : conns'[c] = "handshake"}) <= MaxHandshakes \/ transport' = "tcp"
<1> SUFFICES ASSUME ServeInv, [ServeNext]_serveVars, transport' # "tcp"
             PROVE  Cardinality(Handshakes') <= MaxHandshakes
  BY DEF Handshakes
<1>0. /\ conns \in [Conns -> {"none", "handshake", "open", "closed"}]
      /\ MaxHandshakes \in Nat
      /\ transport = "tcp" \/ Cardinality(Handshakes) <= MaxHandshakes
  BY ServingAssumption DEF ServeInv, ServeTypeOK, Handshakes
<1>1. IsFiniteSet(Handshakes)
  <2>1. IsFiniteSet(Conns)
    BY ServingAssumption, FS_Subset
  <2>2. QED
    BY <2>1, FS_Subset DEF Handshakes
<1>2. CASE Handshakes' \subseteq Handshakes /\ transport # "tcp"
  BY <1>0, <1>1, <1>2, NoMore
<1>3. ASSUME NEW c \in Conns, Incoming(c) PROVE Cardinality(Handshakes') <= MaxHandshakes
  <2>1. transport # "tcp" /\ conns[c] = "none"
    BY <1>3 DEF Incoming
  <2>2. CASE Cardinality(Handshakes) = MaxHandshakes
    <3>1. conns' = [conns EXCEPT ![c] = "closed"]
      BY <1>3, <2>2 DEF Incoming, Handshakes
    <3>2. Handshakes' \subseteq Handshakes
      BY <1>0, <3>1 DEF Handshakes
    <3>3. QED
      BY <1>2, <2>1, <3>2
  <2>3. CASE Cardinality(Handshakes) # MaxHandshakes
    <3>1. conns' = [conns EXCEPT ![c] = "handshake"]
      BY <1>3, <2>3 DEF Incoming, Handshakes
    <3>2. Handshakes' = Handshakes \cup {c} /\ c \notin Handshakes
      BY <1>0, <2>1, <3>1 DEF Handshakes
    <3>3. Cardinality(Handshakes') = Cardinality(Handshakes) + 1 /\ Cardinality(Handshakes) \in Nat
      BY <1>1, <3>2, FS_AddElement, FS_CardinalityType
    <3>4. QED
      BY <1>0, <2>1, <2>3, <3>3
  <2>4. QED
    BY <2>2, <2>3
<1>4. ASSUME NEW c \in Conns, establish_connection(c) PROVE Handshakes' \subseteq Handshakes /\ transport # "tcp"
  BY <1>0, <1>4 DEF establish_connection, Handshakes
<1>5. ASSUME NEW c \in Conns, accept_tcp(c) \/ end_handshake(c) \/ run_handshake(c) PROVE FALSE
  BY <1>5 DEF accept_tcp, end_handshake, run_handshake, lifeVars
<1>6. CASE StopAcceptor
  BY <1>0, <1>2, <1>6 DEF StopAcceptor, Handshakes
<1>7. CASE drain_connections
  BY <1>0, <1>2, <1>7 DEF drain_connections, Handshakes
<1>8. CASE UNCHANGED <<conns, transport>>
  BY <1>2, <1>8 DEF Handshakes
<1>9. ASSUME NEW s \in Streams,
             accept_bi(s) \/ ReadType(s) \/ acquire_stream(s) \/ EndStream(s) \/ \E k \in Channels : SendTo(s, k)
      PROVE  UNCHANGED <<conns, transport>>
  BY <1>9 DEF accept_bi, ReadType, acquire_stream, EndStream, SendTo, lifeVars
<1>10. ASSUME NEW k \in Channels, Dequeue(k) \/ CloseReceiver(k) PROVE UNCHANGED <<conns, transport>>
  BY <1>10 DEF Dequeue, CloseReceiver, lifeVars
<1>11. CASE Wire \/ serve_transport \/ accept_error \/ backoff_over \/ shutdown_signal \/ set_draining
            \/ StopTunnels \/ DrainTimeout \/ serve_bounded \/ UNCHANGED serveVars
  BY <1>8, <1>11 DEF Wire, serve_transport, accept_error, backoff_over, shutdown_signal, set_draining,
                     StopTunnels, DrainTimeout, serve_bounded, serveVars
<1>12. QED
  BY <1>2, <1>3, <1>4, <1>5, <1>6, <1>7, <1>8, <1>9, <1>10, <1>11 DEF ServeNext

\* The three together: the listeners' invariant is inductive.
LEMMA ServeInvStep == ServeInv /\ [ServeNext]_serveVars => ServeInv'
<1> SUFFICES ASSUME ServeInv, [ServeNext]_serveVars PROVE ServeInv'
  OBVIOUS
<1>1. ServeBase'
  BY ServeBaseStep
<1>2. channel' \in [Channels -> Seq(Streams)] /\ \A k \in Channels : Len(channel'[k]) <= Capacity
  BY ChannelStep
<1>3. Cardinality({c \in Conns : conns'[c] = "handshake"}) <= MaxHandshakes \/ transport' = "tcp"
  BY HandshakeStep
<1>4. QED
  BY <1>1, <1>2, <1>3 DEF ServeInv, ServeTypeOK, ServeBase

\* Initially nothing is bound and nobody connected.
LEMMA ServeInitially == ServeInit => ServeInv
<1> SUFFICES ASSUME ServeInit PROVE ServeInv
  OBVIOUS
<1> USE ServingAssumption DEF ServeInit
<1>1. {c \in Conns : conns[c] = "handshake"} = {}
  OBVIOUS
<1>2. Cardinality({c \in Conns : conns[c] = "handshake"}) <= MaxHandshakes
  <2>1. Cardinality({c \in Conns : conns[c] = "handshake"}) = 0
    BY <1>1, FS_EmptySet
  <2>2. QED
    BY <2>1
<1>3. channel \in [Channels -> Seq(Streams)] /\ \A k \in Channels : Len(channel[k]) <= Capacity
  OBVIOUS
<1>4. QED
  BY <1>2, <1>3 DEF ServeInv, ServeTypeOK

-----------------------------------------------------------------------------
(* Permits and counters.                                                   *)

\* The tasks whose stage is one of Q.
Within(f, S, Q) == {s \in S : f[s] \in Q}

\* When one task goes on to stage x, the number of those within Q changes by
\* what that one does.
LEMMA Moves ==
  ASSUME NEW S, IsFiniteSet(S), NEW c \in S, NEW Q, NEW x,
         NEW f, NEW g, g[c] = x, \A s \in S : s # c => g[s] = f[s]
  PROVE  /\ Cardinality(Within(f, S, Q)) \in Nat /\ Cardinality(Within(g, S, Q)) \in Nat
         /\ (f[c] \in Q <=> x \in Q) => Within(g, S, Q) = Within(f, S, Q)
         /\ f[c] \in Q /\ x \notin Q => Cardinality(Within(f, S, Q)) = Cardinality(Within(g, S, Q)) + 1
         /\ f[c] \notin Q /\ x \in Q => Cardinality(Within(g, S, Q)) = Cardinality(Within(f, S, Q)) + 1
<1>1. IsFiniteSet(Within(f, S, Q)) /\ IsFiniteSet(Within(g, S, Q))
  BY FS_Subset DEF Within
<1>2. Cardinality(Within(f, S, Q)) \in Nat /\ Cardinality(Within(g, S, Q)) \in Nat
  BY <1>1, FS_CardinalityType
<1>3. (f[c] \in Q <=> x \in Q) => Within(g, S, Q) = Within(f, S, Q)
  BY DEF Within
<1>4. ASSUME f[c] \in Q, x \notin Q
      PROVE  Within(f, S, Q) = Within(g, S, Q) \cup {c} /\ c \notin Within(g, S, Q)
  BY <1>4 DEF Within
<1>5. ASSUME f[c] \notin Q, x \in Q
      PROVE  Within(g, S, Q) = Within(f, S, Q) \cup {c} /\ c \notin Within(f, S, Q)
  BY <1>5 DEF Within
<1>6. QED
  BY <1>1, <1>2, <1>3, <1>4, <1>5, FS_AddElement

\* The TCP ingress: the types with the permits and the gauge, the accounts,
\* and the counters' types.
TcpInv == TcpTypeOK /\ TcpAccounted /\ accepted \in Nat /\ completed \in Nat

Busy == Cardinality(Within(client, Clients, Tasks))
Relaying == Cardinality(Within(client, Clients, {"relay"}))

\* What a task's step does to the permits that are out and to the gauge.
LEMMA StageMoves ==
  ASSUME TcpTypeOK, NEW c \in Clients, NEW x \in {"none", "ended"} \union Tasks, Stage(c, x)
  PROVE  /\ client' \in [Clients -> {"none", "ended"} \union Tasks]
         /\ Busy \in Nat /\ Busy' \in Nat /\ Relaying \in Nat /\ Relaying' \in Nat
         /\ client[c] \in Tasks /\ x \in Tasks => Busy' = Busy
         /\ client[c] \notin Tasks /\ x \notin Tasks => Busy' = Busy
         /\ client[c] \in Tasks /\ x \notin Tasks => Busy = Busy' + 1
         /\ client[c] \notin Tasks /\ x \in Tasks => Busy' = Busy + 1
         /\ client[c] # "relay" /\ x # "relay" => Relaying' = Relaying
         /\ client[c] = "relay" /\ x # "relay" => Relaying = Relaying' + 1
         /\ client[c] # "relay" /\ x = "relay" => Relaying' = Relaying + 1
<1>1. PICK f, g : f = client /\ g = client'
  OBVIOUS
<1>2. /\ IsFiniteSet(Clients) /\ g[c] = x
      /\ \A s \in Clients : s # c => g[s] = f[s]
  BY <1>1, TcpAssumption DEF TcpTypeOK, Stage
<1>3. /\ Busy = Cardinality(Within(f, Clients, Tasks)) /\ Busy' = Cardinality(Within(g, Clients, Tasks))
      /\ Relaying = Cardinality(Within(f, Clients, {"relay"}))
      /\ Relaying' = Cardinality(Within(g, Clients, {"relay"}))
  BY <1>1 DEF Busy, Relaying, Within
<1>4. /\ Busy \in Nat /\ Busy' \in Nat
      /\ (f[c] \in Tasks <=> x \in Tasks) => Busy' = Busy
      /\ f[c] \in Tasks /\ x \notin Tasks => Busy = Busy' + 1
      /\ f[c] \notin Tasks /\ x \in Tasks => Busy' = Busy + 1
  BY <1>2, <1>3, Moves
<1>5. /\ Relaying \in Nat /\ Relaying' \in Nat
      /\ (f[c] \in {"relay"} <=> x \in {"relay"}) => Relaying' = Relaying
      /\ f[c] \in {"relay"} /\ x \notin {"relay"} => Relaying = Relaying' + 1
      /\ f[c] \notin {"relay"} /\ x \in {"relay"} => Relaying' = Relaying + 1
  BY <1>2, <1>3, Moves
<1>6. client' \in [Clients -> {"none", "ended"} \union Tasks]
  BY DEF TcpTypeOK, Stage
<1>7. QED
  BY <1>1, <1>4, <1>5, <1>6

\* A drop is one more refusal, for its reason alone.
LEMMA DropCounts ==
  ASSUME refused \in [TcpReasons -> Nat], NEW r \in TcpReasons, Drop(r)
  PROVE  /\ refused' \in [TcpReasons -> Nat]
         /\ Refusals \in Nat /\ Refusals' = Refusals + 1
         /\ refused'["protocol"] = refused["protocol"] + (IF r = "protocol" THEN 1 ELSE 0)
BY DEF Drop, Refusals, TcpReasons

\* The counters and permits in terms of the tasks, as numbers.
LEMMA TcpInvIs ==
  TcpInv <=> /\ accepting \in BOOLEAN
             /\ client \in [Clients -> {"none", "ended"} \union Tasks]
             /\ slots = MaxConnections - Busy /\ slots >= 0 /\ gauge = Relaying
             /\ refused \in [TcpReasons -> Nat]
             /\ verdicts \in [{"success", "failure"} -> Nat]
             /\ accepted = completed + Refusals + Busy
             /\ verdicts["success"] = completed /\ verdicts["failure"] = refused["protocol"]
             /\ accepted \in Nat /\ completed \in Nat
<1>1. Busy = Cardinality({c \in Clients : client[c] \in Tasks})
  BY DEF Busy, Within
<1>2. {c \in Clients : client[c] = "relay"} = Within(client, Clients, {"relay"})
  BY DEF Within
<1>3. Relaying = Cardinality({c \in Clients : client[c] = "relay"})
  BY <1>2 DEF Relaying
<1>4. QED
  BY <1>1, <1>3 DEF TcpInv, TcpTypeOK, TcpAccounted

\* Every step of the accept loop and of the tasks keeps the accounts: a
\* permit, the gauge and a counter move together with the task they are for.
LEMMA TcpInvStep == TcpInv /\ [TcpNext]_tcpVars => TcpInv'
<1> SUFFICES ASSUME TcpInv, [TcpNext]_tcpVars PROVE TcpInv'
  OBVIOUS
<1> DEFINE Sums == /\ slots = MaxConnections - Busy /\ slots >= 0 /\ gauge = Relaying
                   /\ accepted = completed + Refusals + Busy
                   /\ verdicts["success"] = completed /\ verdicts["failure"] = refused["protocol"]
                   /\ accepted \in Nat /\ completed \in Nat
           Types == /\ accepting \in BOOLEAN
                    /\ client \in [Clients -> {"none", "ended"} \union Tasks]
                    /\ refused \in [TcpReasons -> Nat]
                    /\ verdicts \in [{"success", "failure"} -> Nat]
<1>0. Sums /\ Types /\ TcpTypeOK /\ MaxConnections \in Nat
  BY TcpInvIs, TcpAssumption DEF TcpInv
<1>1. SUFFICES Sums' /\ Types'
  <2>1. CASE Sums' /\ Types'
    <3>1. /\ (accepting \in BOOLEAN)'
          /\ (client \in [Clients -> {"none", "ended"} \union Tasks])'
          /\ (slots = MaxConnections - Busy /\ slots >= 0 /\ gauge = Relaying)'
          /\ (refused \in [TcpReasons -> Nat])'
          /\ (verdicts \in [{"success", "failure"} -> Nat])'
          /\ (accepted = completed + Refusals + Busy)'
          /\ (verdicts["success"] = completed /\ verdicts["failure"] = refused["protocol"])'
          /\ (accepted \in Nat /\ completed \in Nat)'
      BY <2>1
    <3>2. QED
      BY <3>1, TcpInvIs, PTL
  <2>2. QED
    BY <2>1
<1>2. Busy \in Nat /\ Relaying \in Nat /\ Refusals \in Nat
  <2>1. IsFiniteSet(Within(client, Clients, Tasks)) /\ IsFiniteSet(Within(client, Clients, {"relay"}))
    BY TcpAssumption, FS_Subset DEF Within
  <2>2. Refusals \in Nat
    BY <1>0 DEF Refusals, TcpReasons
  <2>3. QED
    BY <2>1, <2>2, FS_CardinalityType DEF Busy, Relaying
<1>3. ASSUME NEW v \in {"success", "failure"}, Tell(v)
      PROVE  /\ verdicts' \in [{"success", "failure"} -> Nat]
             /\ verdicts'["success"] = verdicts["success"] + (IF v = "success" THEN 1 ELSE 0)
             /\ verdicts'["failure"] = verdicts["failure"] + (IF v = "failure" THEN 1 ELSE 0)
  BY <1>0, <1>3 DEF Tell
<1>4. UNCHANGED refused => Refusals' = Refusals
  BY DEF Refusals
<1>5. UNCHANGED client => Busy' = Busy /\ Relaying' = Relaying
  BY DEF Busy, Relaying, Within
<1>6. /\ \A r \in {"acl", "rate_limit", "capacity", "no_backend", "circuit_open", "protocol"} : r \in TcpReasons
      /\ \A t \in {"select", "open", "relay"} : t \in Tasks
      /\ "none" \notin Tasks /\ "ended" \notin Tasks
  BY DEF TcpReasons, Tasks
<1>13. ASSUME NEW c \in Clients, EndTask(c), Busy = Busy' + 1, Busy' \in Nat
       PROVE  slots' = MaxConnections - Busy' /\ slots' >= 0
  <2>1. slots' = slots + 1 /\ slots = MaxConnections - Busy /\ slots >= 0
    BY <1>0, <1>13 DEF EndTask
  <2>2. slots \in Int
    BY <1>0, <1>2, <2>1
  <2>3. slots' >= 0
    BY <2>1, <2>2
  <2>4. MaxConnections - Busy' = MaxConnections - Busy + 1
    BY <1>0, <1>2, <1>13
  <2>5. QED
    BY <2>1, <2>3, <2>4
<1>14. ASSUME Busy = Busy' + 1, Busy' \in Nat
       PROVE  /\ Refusals' = Refusals + 1 => completed + Refusals' + Busy' = completed + Refusals + Busy
              /\ (completed + 1) + Refusals + Busy' = completed + Refusals + Busy
  BY <1>0, <1>2, <1>14
<1>15. ASSUME Relaying = Relaying' + 1, Relaying' \in Nat PROVE Relaying - 1 = Relaying'
  <2>1. \A a, b \in Nat : a = b + 1 => a - 1 = b
    OBVIOUS
  <2>2. QED
    BY <1>2, <1>15, <2>1
<1>7. ASSUME NEW c \in Clients, Accept(c) PROVE Sums' /\ Types'
  <2>1. CASE slots > 0 /\ slots' = slots - 1 /\ Stage(c, "select") /\ UNCHANGED refused
    <3>1. /\ Busy' = Busy + 1 /\ Relaying' = Relaying
          /\ client' \in [Clients -> {"none", "ended"} \union Tasks]
      BY <1>0, <1>6, <1>7, <2>1, StageMoves DEF Accept
    <3>2. QED
      BY <1>0, <1>2, <1>4, <1>7, <2>1, <3>1 DEF Accept
  <2>2. ASSUME NEW r \in {"acl", "rate_limit", "capacity"}, Drop(r), Stage(c, "ended"), UNCHANGED slots
        PROVE  Sums' /\ Types'
    <3>1. /\ Busy' = Busy /\ Relaying' = Relaying
          /\ client' \in [Clients -> {"none", "ended"} \union Tasks]
      BY <1>0, <1>6, <1>7, <2>2, StageMoves DEF Accept
    <3>2. /\ refused' \in [TcpReasons -> Nat] /\ Refusals' = Refusals + 1
          /\ refused'["protocol"] = refused["protocol"]
      BY <1>0, <1>6, <2>2, DropCounts
    <3>3. QED
      BY <1>0, <1>2, <1>7, <2>2, <3>1, <3>2 DEF Accept
  <2>3. QED
    BY <1>7, <2>1, <2>2 DEF Accept, admit
<1>8. ASSUME NEW c \in Clients, Select(c) PROVE Sums' /\ Types'
  <2>1. CASE Stage(c, "open") /\ UNCHANGED <<refused, slots>>
    <3>1. /\ Busy' = Busy /\ Relaying' = Relaying
          /\ client' \in [Clients -> {"none", "ended"} \union Tasks]
      BY <1>0, <1>6, <1>8, <2>1, StageMoves DEF Select
    <3>2. QED
      BY <1>0, <1>2, <1>4, <1>8, <2>1, <3>1 DEF Select
  <2>2. ASSUME NEW r \in {"no_backend", "circuit_open"}, Drop(r), EndTask(c) PROVE Sums' /\ Types'
    <3>1. /\ Busy = Busy' + 1 /\ Busy' \in Nat /\ Relaying' = Relaying
          /\ client' \in [Clients -> {"none", "ended"} \union Tasks]
      BY <1>0, <1>6, <1>8, <2>2, StageMoves DEF Select, EndTask
    <3>2. /\ refused' \in [TcpReasons -> Nat] /\ Refusals' = Refusals + 1
          /\ refused'["protocol"] = refused["protocol"]
      BY <1>0, <1>6, <2>2, DropCounts
    <3>3. QED
      BY <1>0, <1>2, <1>8, <1>13, <1>14, <2>2, <3>1, <3>2 DEF Select
  <2>3. QED
    BY <1>8, <2>1, <2>2 DEF Select
<1>9. ASSUME NEW c \in Clients, OpenStream(c) PROVE Sums' /\ Types'
  <2>1. CASE gauge' = gauge + 1 /\ Stage(c, "relay") /\ UNCHANGED <<verdicts, refused, slots>>
    <3>1. /\ Busy' = Busy /\ Relaying' = Relaying + 1
          /\ client' \in [Clients -> {"none", "ended"} \union Tasks]
      BY <1>0, <1>6, <1>9, <2>1, StageMoves DEF OpenStream
    <3>2. QED
      BY <1>0, <1>2, <1>4, <1>9, <2>1, <3>1 DEF OpenStream
  <2>2. CASE Tell("failure") /\ Drop("protocol") /\ EndTask(c) /\ UNCHANGED gauge
    <3>1. /\ Busy = Busy' + 1 /\ Busy' \in Nat /\ Relaying' = Relaying
          /\ client' \in [Clients -> {"none", "ended"} \union Tasks]
      BY <1>0, <1>6, <1>9, <2>2, StageMoves DEF OpenStream, EndTask
    <3>2. /\ refused' \in [TcpReasons -> Nat] /\ Refusals' = Refusals + 1
          /\ refused'["protocol"] = refused["protocol"] + 1
      BY <1>0, <1>6, <2>2, DropCounts
    <3>3. (slots = MaxConnections - Busy /\ slots >= 0)'
      BY <1>13, <2>2, <3>1
    <3>4. completed + Refusals' + Busy' = accepted
      BY <1>0, <1>14, <3>1, <3>2
    <3>5. client' \in [Clients -> {"none", "ended"} \union Tasks] /\ Relaying' = Relaying
      BY <3>1
    <3>6. Sums'
      BY <1>0, <1>3, <1>9, <2>2, <3>2, <3>3, <3>4, <3>5 DEF OpenStream
    <3>7. Types'
      BY <1>0, <1>3, <1>9, <2>2, <3>2, <3>5 DEF OpenStream
    <3>8. QED
      BY <3>6, <3>7
  <2>3. QED
    BY <1>9, <2>1, <2>2 DEF OpenStream
<1>10. ASSUME NEW c \in Clients, EndRelay(c) PROVE Sums' /\ Types'
  <2>1. /\ Busy = Busy' + 1 /\ Busy' \in Nat /\ Relaying = Relaying' + 1 /\ Relaying' \in Nat
        /\ client' \in [Clients -> {"none", "ended"} \union Tasks]
    BY <1>0, <1>6, <1>10, StageMoves DEF EndRelay, EndTask
  <2>5. /\ (slots = MaxConnections - Busy /\ slots >= 0)'
        /\ Relaying - 1 = Relaying' /\ client' \in [Clients -> {"none", "ended"} \union Tasks]
    BY <1>10, <1>13, <1>15, <2>1 DEF EndRelay
  <2>2. CASE Tell("success") /\ completed' = completed + 1 /\ UNCHANGED refused
    <3>1. completed' + Refusals' + Busy' = accepted
      BY <1>0, <1>4, <1>14, <2>1, <2>2
    <3>2. Sums'
      BY <1>0, <1>3, <1>10, <2>2, <2>5, <3>1 DEF EndRelay
    <3>3. Types'
      BY <1>0, <1>3, <1>10, <2>2, <2>5 DEF EndRelay
    <3>4. QED
      BY <3>2, <3>3
  <2>3. CASE Tell("failure") /\ Drop("protocol") /\ UNCHANGED completed
    <3>1. /\ refused' \in [TcpReasons -> Nat] /\ Refusals' = Refusals + 1
          /\ refused'["protocol"] = refused["protocol"] + 1
      BY <1>0, <1>6, <2>3, DropCounts
    <3>2. completed + Refusals' + Busy' = accepted
      BY <1>0, <1>14, <2>1, <3>1
    <3>3. Sums'
      BY <1>0, <1>3, <1>10, <2>3, <2>5, <3>1, <3>2 DEF EndRelay
    <3>4. Types'
      BY <1>0, <1>3, <1>10, <2>3, <2>5, <3>1 DEF EndRelay
    <3>5. QED
      BY <3>3, <3>4
  <2>4. QED
    BY <1>10, <2>2, <2>3 DEF EndRelay
<1>11. CASE StopAccepting \/ TcpShutdown \/ UNCHANGED tcpVars
  BY <1>0, <1>4, <1>5, <1>11 DEF StopAccepting, TcpShutdown, tcpVars
<1>12. QED
  BY <1>7, <1>8, <1>9, <1>10, <1>11 DEF TcpNext, TaskStep

\* Initially nothing is accepted and every permit is free.
LEMMA TcpInitially == TcpInit => TcpInv
<1> SUFFICES ASSUME TcpInit PROVE TcpInv
  OBVIOUS
<1> USE TcpAssumption DEF TcpInit
<1>1. {c \in Clients : client[c] \in Tasks} = {} /\ {c \in Clients : client[c] = "relay"} = {}
  BY DEF Tasks
<1>2. /\ Cardinality({c \in Clients : client[c] \in Tasks}) = 0
      /\ Cardinality({c \in Clients : client[c] = "relay"}) = 0
  BY <1>1, FS_EmptySet
<1>3. Refusals = 0
  BY DEF Refusals, TcpReasons
<1>4. QED
  BY <1>2, <1>3 DEF TcpInv, TcpTypeOK, TcpAccounted, TcpReasons

\* For any number of clients and any cap the counters of the TCP ingress and
\* of the circuit add up at every moment, and the permits and the gauge are
\* those of the tasks that run (run_accept_loop, handle_connection).
THEOREM TcpAccountsAddUp == TcpSpec => [](TcpTypeOK /\ TcpAccounted)
<1>1. TcpInv => TcpTypeOK /\ TcpAccounted
  BY DEF TcpInv
<1>2. QED
  BY <1>1, TcpInitially, TcpInvStep, PTL DEF TcpSpec

\* The permits of the raw relays: free and held are all that there are.
RawPermits ==
    /\ handling \in BOOLEAN
    /\ relaySlots \in Nat /\ relaySlots + Holding(InTask) = MaxRelays
    /\ connSlots \in Nat /\ connSlots + Holding({"dial", "relay"}) = MaxBackend

\* What a stream's step does to the permits that are out.
LEMMA RawMoves ==
  ASSUME RawInv, NEW s \in RawStreams, NEW x \in Stages, raw' = [raw EXCEPT ![s] = x], NEW Q
  PROVE  /\ Holding(Q) \in Nat /\ Holding(Q)' \in Nat
         /\ (raw[s] \in Q <=> x \in Q) => Holding(Q)' = Holding(Q)
         /\ raw[s] \in Q /\ x \notin Q => Holding(Q) = Holding(Q)' + 1
         /\ raw[s] \notin Q /\ x \in Q => Holding(Q)' = Holding(Q) + 1
<1>1. PICK f, g : f = raw /\ g = raw'
  OBVIOUS
<1>2. /\ IsFiniteSet(RawStreams) /\ g[s] = x
      /\ \A t \in RawStreams : t # s => g[t] = f[t]
  BY <1>1, RawAssumption DEF RawInv
<1>3. /\ Holding(Q) = Cardinality(Within(f, RawStreams, Q))
      /\ Holding(Q)' = Cardinality(Within(g, RawStreams, Q))
  BY <1>1 DEF Holding, Within
<1>4. /\ Holding(Q) \in Nat /\ Holding(Q)' \in Nat
      /\ (f[s] \in Q <=> x \in Q) => Holding(Q)' = Holding(Q)
      /\ f[s] \in Q /\ x \notin Q => Holding(Q) = Holding(Q)' + 1
      /\ f[s] \notin Q /\ x \in Q => Holding(Q)' = Holding(Q) + 1
  BY <1>2, <1>3, Moves
<1>5. QED
  BY <1>1, <1>4

\* Every way in takes its permits and every way out gives them back.
LEMMA RawPermitsStep == RawInv /\ RawPermits /\ [RawNext]_rawVars => RawPermits'
<1> SUFFICES ASSUME RawInv, RawPermits, [RawNext]_rawVars PROVE RawPermits'
  OBVIOUS
<1> DEFINE T == Holding(InTask)
           C == Holding({"dial", "relay"})
<1>0. ASSUME handling' \in BOOLEAN,
             relaySlots' \in Nat, relaySlots' + T' = relaySlots + T,
             connSlots' \in Nat, connSlots' + C' = connSlots + C
      PROVE  RawPermits'
  BY <1>0 DEF RawPermits
<1>1. ASSUME NEW s \in RawStreams, NEW x \in Stages, raw' = [raw EXCEPT ![s] = x]
      PROVE  /\ T \in Nat /\ T' \in Nat /\ C \in Nat /\ C' \in Nat
             /\ (raw[s] \in InTask <=> x \in InTask) => T' = T
             /\ raw[s] \in InTask /\ x \notin InTask => T = T' + 1
             /\ raw[s] \notin InTask /\ x \in InTask => T' = T + 1
             /\ (raw[s] \in {"dial", "relay"} <=> x \in {"dial", "relay"}) => C' = C
             /\ raw[s] \in {"dial", "relay"} /\ x \notin {"dial", "relay"} => C = C' + 1
             /\ raw[s] \notin {"dial", "relay"} /\ x \in {"dial", "relay"} => C' = C + 1
  BY <1>1, RawMoves
<1> HIDE DEF T, C
<1>2. relaySlots \in Nat /\ connSlots \in Nat /\ handling \in BOOLEAN
  BY DEF RawPermits
<1>3. UNCHANGED raw => T' = T /\ C' = C
  BY DEF T, C, Holding
<1> USE DEF Stages, InTask
<1>4. ASSUME NEW s \in RawStreams, Receive(s) PROVE RawPermits'
  <2>1. CASE relaySlots = 0 /\ raw' = [raw EXCEPT ![s] = "ended"] /\ UNCHANGED relaySlots
    <3>1. T' = T /\ C' = C
      BY <1>1, <1>4, <2>1 DEF Receive
    <3>2. QED
      BY <1>0, <1>2, <1>4, <2>1, <3>1 DEF Receive
  <2>2. CASE relaySlots > 0 /\ raw' = [raw EXCEPT ![s] = "admit"] /\ relaySlots' = relaySlots - 1
    <3>1. T' = T + 1 /\ C' = C /\ T \in Nat
      BY <1>1, <1>4, <2>2 DEF Receive
    <3>2. relaySlots' \in Nat /\ relaySlots' + T' = relaySlots + T
      BY <1>2, <2>2, <3>1
    <3>3. QED
      BY <1>0, <1>2, <1>4, <3>1, <3>2 DEF Receive
  <2>3. QED
    BY <1>4, <2>1, <2>2 DEF Receive
<1>5. ASSUME NEW s \in RawStreams, raw[s] \in {"admit", "header"}, TurnAway(s), UNCHANGED <<connSlots, handling>>
      PROVE  RawPermits'
  <2>1. T = T' + 1 /\ C' = C /\ T' \in Nat
    BY <1>1, <1>5 DEF TurnAway
  <2>2. relaySlots' \in Nat /\ relaySlots' + T' = relaySlots + T
    BY <1>2, <1>5, <2>1 DEF TurnAway
  <2>3. QED
    BY <1>0, <1>2, <1>5, <2>1, <2>2
<1>6. ASSUME NEW s \in RawStreams, raw[s] \in {"dial", "relay"}, TurnAway(s),
             connSlots' = connSlots + 1, UNCHANGED handling
      PROVE  RawPermits'
  <2>1. T = T' + 1 /\ C = C' + 1 /\ T' \in Nat /\ C' \in Nat
    BY <1>1, <1>6 DEF TurnAway
  <2>2. relaySlots' \in Nat /\ relaySlots' + T' = relaySlots + T
    BY <1>2, <1>6, <2>1 DEF TurnAway
  <2>3. connSlots' \in Nat /\ connSlots' + C' = connSlots + C
    BY <1>2, <1>6, <2>1
  <2>4. QED
    BY <1>0, <1>2, <1>6, <2>2, <2>3
<1>7. ASSUME NEW s \in RawStreams, Admit(s) PROVE RawPermits'
  <2>1. CASE raw' = [raw EXCEPT ![s] = "header"] /\ UNCHANGED relaySlots
    <3>1. T' = T /\ C' = C
      BY <1>1, <1>7, <2>1 DEF Admit
    <3>2. QED
      BY <1>0, <1>2, <1>7, <2>1, <3>1 DEF Admit
  <2>2. QED
    BY <1>5, <1>7, <2>1 DEF Admit
<1>8. ASSUME NEW s \in RawStreams, Header(s) PROVE RawPermits'
  <2>1. CASE connSlots > 0 /\ connSlots' = connSlots - 1 /\ raw' = [raw EXCEPT ![s] = "dial"] /\ UNCHANGED relaySlots
    <3>1. T' = T /\ C' = C + 1 /\ C \in Nat
      BY <1>1, <1>8, <2>1 DEF Header
    <3>2. connSlots' \in Nat /\ connSlots' + C' = connSlots + C
      BY <1>2, <2>1, <3>1
    <3>3. QED
      BY <1>0, <1>2, <1>8, <2>1, <3>1, <3>2 DEF Header
  <2>2. QED
    BY <1>5, <1>8, <2>1 DEF Header
<1>9. ASSUME NEW s \in RawStreams, DialBackend(s) PROVE RawPermits'
  <2>1. CASE raw' = [raw EXCEPT ![s] = "relay"] /\ UNCHANGED <<relaySlots, connSlots>>
    <3>1. T' = T /\ C' = C
      BY <1>1, <1>9, <2>1 DEF DialBackend
    <3>2. QED
      BY <1>0, <1>2, <1>9, <2>1, <3>1 DEF DialBackend
  <2>2. QED
    BY <1>6, <1>9, <2>1 DEF DialBackend
<1>10. ASSUME NEW s \in RawStreams, EndRawRelay(s) PROVE RawPermits'
  BY <1>6, <1>10 DEF EndRawRelay
<1>11. ASSUME NEW s \in RawStreams, NEW k \in Kinds, Look(s, k) \/ Changed(s, k) PROVE RawPermits'
  BY <1>0, <1>2, <1>3, <1>11 DEF Look, Changed
<1>12. ASSUME NEW k \in Kinds, Publish(k) PROVE RawPermits'
  BY <1>0, <1>2, <1>3, <1>12 DEF Publish
<1>13. CASE StopHandler \/ RawShutdown \/ UNCHANGED rawVars
  BY <1>0, <1>2, <1>3, <1>13 DEF StopHandler, RawShutdown, rawVars
<1>14. QED
  BY <1>4, <1>7, <1>8, <1>9, <1>10, <1>11, <1>12, <1>13 DEF RawNext

\* Initially every permit is free.
LEMMA RawPermitsInitially == RawInit => RawPermits
<1> SUFFICES ASSUME RawInit PROVE RawPermits
  OBVIOUS
<1> USE RawAssumption DEF RawInit
<1>1. /\ {s \in RawStreams : raw[s] \in InTask} = {}
      /\ {s \in RawStreams : raw[s] \in {"dial", "relay"}} = {}
  BY DEF InTask
<1>2. Holding(InTask) = 0 /\ Holding({"dial", "relay"}) = 0
  BY <1>1, FS_EmptySet DEF Holding
<1>3. QED
  BY <1>2 DEF RawPermits

\* The permits and what they stand for, in the form of the type invariant.
LEMMA RawTypesFollow == RawInv /\ RawPermits => RawTypeOK
<1> SUFFICES ASSUME RawInv, RawPermits PROVE RawTypeOK
  OBVIOUS
<1>1. \A Q : Holding(Q) \in Nat
  <2>1. ASSUME NEW Q PROVE Holding(Q) \in Nat
    <3>1. IsFiniteSet({s \in RawStreams : raw[s] \in Q})
      BY RawAssumption, FS_Subset
    <3>2. QED
      BY <3>1, FS_CardinalityType DEF Holding
  <2>2. QED
    BY <2>1
<1>2. Holding(InTask) \in Nat /\ Holding({"dial", "relay"}) \in Nat
  BY <1>1
<1>3. relaySlots \in 0 .. MaxRelays /\ connSlots \in 0 .. MaxBackend
  BY <1>2, RawAssumption DEF RawPermits
<1>4. QED
  BY <1>3 DEF RawTypeOK, RawInv, RawPermits

\* For any caps and any number of streams the relay and connection permits
\* are those of the tasks that run: none is lost and none given back twice
\* (run_raw_relay_handler, handle_raw_stream).
THEOREM RawPermitsKept == RawSpec => []RawTypeOK
<1>1. RawInv /\ RawPermits /\ [RawNext]_rawVars => RawInv' /\ RawPermits'
  BY RawInvStep, RawPermitsStep
<1>2. RawInit => RawInv /\ RawPermits
  BY RawInitially, RawPermitsInitially
<1>3. QED
  BY <1>1, <1>2, RawTypesFollow, PTL DEF RawSpec

\* Every step of a relay keeps its types.
LEMMA RelayTypeStep == RelayInv /\ RelayTypeOK /\ [RelayNext]_relayVars => RelayTypeOK'
<1> SUFFICES ASSUME RelayInv, RelayTypeOK, [RelayNext]_relayVars PROVE RelayTypeOK'
  OBVIOUS
<1> USE RelayAssumption DEF RelayInv, RelayTypeOK, deadline
<1>1. ASSUME NEW side \in {"a", "b"}, Copy(side) PROVE RelayTypeOK'
  BY <1>1 DEF Copy
<1>2. ASSUME NEW side \in {"a", "b"}, Eof(side) PROVE RelayTypeOK'
  BY <1>2 DEF Eof
<1>3. CASE RelayError \/ RelayCancelled
  BY <1>3 DEF RelayError, RelayCancelled
<1>4. CASE idle_watchdog
  BY <1>4 DEF idle_watchdog
<1>5. CASE Millisecond
  BY <1>5 DEF Millisecond
<1>6. CASE RelayShutdown \/ UNCHANGED relayVars
  BY <1>6 DEF RelayShutdown, Cancel, relayVars
<1>7. QED
  BY <1>1, <1>2, <1>3, <1>4, <1>5, <1>6 DEF RelayNext

\* Initially the relay runs and nothing was copied.
LEMMA RelayInitially == RelayInit => RelayInv /\ RelayTypeOK
BY RelayAssumption DEF RelayInit, RelayInv, RelayTypeOK

-----------------------------------------------------------------------------
(* The services together (MCEdge): each keeps its own invariant, and what  *)
(* they share, the token, is only ever cancelled.                          *)

\* No service's step withdraws the cancellation.
LEMMA TokenStep ==
  UdpNext \/ TcpNext \/ RawNext \/ RelayNext \/ ServeNext => shutdown' = shutdown \/ Cancel
<1>1. UdpNext => shutdown' = shutdown \/ Cancel
  BY DEF UdpNext, handle_datagram, flush_expired, apply_reload, flush_all, WriterStep, Take, dial, write_batch,
         Return, CooldownOver, UdpShutdown
<1>2. TcpNext => shutdown' = shutdown \/ Cancel
  BY DEF TcpNext, Accept, TaskStep, Select, OpenStream, EndRelay, StopAccepting, TcpShutdown
<1>3. RawNext => shutdown' = shutdown \/ Cancel
  BY DEF RawNext, Publish, Receive, Admit, Header, DialBackend, EndRawRelay, Look, Changed, StopHandler, RawShutdown
<1>4. RelayNext => shutdown' = shutdown \/ Cancel
  BY DEF RelayNext, Copy, Eof, RelayError, idle_watchdog, RelayCancelled, Millisecond, RelayShutdown
<1>5. ServeNext => shutdown' = shutdown \/ Cancel
  <2>1. (\E c \in Conns : Incoming(c) \/ establish_connection(c) \/ accept_tcp(c) \/ end_handshake(c) \/ run_handshake(c))
          => shutdown' = shutdown
    BY DEF Incoming, establish_connection, accept_tcp, end_handshake, run_handshake, lifeVars
  <2>2. (\E s \in Streams : accept_bi(s) \/ ReadType(s) \/ acquire_stream(s) \/ EndStream(s) \/ \E k \in Channels : SendTo(s, k))
          => shutdown' = shutdown
    BY DEF accept_bi, ReadType, acquire_stream, EndStream, SendTo, lifeVars
  <2>3. (\E k \in Channels : Dequeue(k) \/ CloseReceiver(k)) => shutdown' = shutdown
    BY DEF Dequeue, CloseReceiver, lifeVars
  <2>4. Wire \/ serve_transport \/ accept_error \/ backoff_over \/ set_draining \/ StopAcceptor \/ StopTunnels
          \/ DrainTimeout \/ serve_bounded \/ drain_connections => shutdown' = shutdown
    BY DEF Wire, serve_transport, accept_error, backoff_over, set_draining, StopAcceptor, StopTunnels, DrainTimeout,
           serve_bounded, drain_connections
  <2>5. shutdown_signal => Cancel
    BY DEF shutdown_signal
  <2>6. QED
    BY <2>1, <2>2, <2>3, <2>4, <2>5 DEF ServeNext
<1>6. QED
  BY <1>1, <1>2, <1>3, <1>4, <1>5

\* A service at rest keeps its invariant while another sees the token cancelled.
LEMMA TcpRest == ASSUME TcpInv, UNCHANGED tcpOwn PROVE TcpInv'
BY DEF TcpInv, TcpTypeOK, TcpAccounted, Refusals, tcpOwn
\* The raw relays, likewise.
LEMMA RawRest ==
  ASSUME RawInv, RawPermits, UNCHANGED rawOwn, shutdown' = shutdown \/ Cancel PROVE RawInv' /\ RawPermits'
<1>1. shutdown' \in BOOLEAN
  BY DEF RawInv, Cancel
<1>2. Holding(InTask)' = Holding(InTask) /\ Holding({"dial", "relay"})' = Holding({"dial", "relay"})
  BY DEF Holding, rawOwn
<1>3. QED
  BY <1>1, <1>2 DEF RawInv, RawPermits, rawOwn
\* A relayed stream, likewise.
LEMMA RelayRest == ASSUME RelayInv, RelayTypeOK, UNCHANGED relayOwn PROVE RelayInv' /\ RelayTypeOK'
BY DEF RelayInv, RelayTypeOK, relayOwn
\* The TCP and the QUIC listener, likewise.
LEMMA ServeRest == ASSUME ServeInv, UNCHANGED serveOwn, shutdown' = shutdown \/ Cancel PROVE ServeInv'
<1>1. shutdown' \in BOOLEAN
  BY DEF ServeInv, Cancel
<1>2. QED
  BY <1>1 DEF ServeInv, ServeTypeOK, serveOwn
\* The certificate task, likewise.
LEMMA AcmeRest == ASSUME AcmeTypeOK, UNCHANGED acmeVars PROVE AcmeTypeOK'
BY DEF AcmeTypeOK, acmeVars

\* The invariant of the edge: that of each of its services.
EdgeInv == UdpInv /\ TcpInv /\ RawInv /\ RawPermits /\ RelayInv /\ RelayTypeOK /\ ServeInv /\ AcmeTypeOK

\* Every step of one service keeps the invariants of all.
LEMMA EdgeInvStep == EdgeInv /\ [Next]_vars => EdgeInv'
<1> SUFFICES ASSUME EdgeInv, [Next]_vars PROVE EdgeInv'
  OBVIOUS
<1> USE DEF EdgeInv
<1>0. UNCHANGED udpOwn => UNCHANGED <<limits, reloads, worker, batches, lingered, queues, writers, countVars>>
  BY DEF udpOwn
<1>1. CASE UdpNext /\ UNCHANGED <<tcpOwn, rawOwn, relayOwn, serveOwn, acmeVars>>
  BY <1>1, UdpInvStep, TokenStep, TcpRest, RawRest, RelayRest, ServeRest, AcmeRest
<1>2. CASE TcpNext /\ UNCHANGED <<udpOwn, rawOwn, relayOwn, serveOwn, acmeVars>>
  BY <1>0, <1>2, TcpInvStep, TokenStep, UdpRest, RawRest, RelayRest, ServeRest, AcmeRest
<1>3. CASE RawNext /\ UNCHANGED <<udpOwn, tcpOwn, relayOwn, serveOwn, acmeVars>>
  BY <1>0, <1>3, RawInvStep, RawPermitsStep, TokenStep, UdpRest, TcpRest, RelayRest, ServeRest, AcmeRest
<1>4. CASE RelayNext /\ UNCHANGED <<udpOwn, tcpOwn, rawOwn, serveOwn, acmeVars>>
  BY <1>0, <1>4, RelayInvStep, RelayTypeStep, TokenStep, UdpRest, TcpRest, RawRest, ServeRest, AcmeRest
<1>5. CASE ServeNext /\ UNCHANGED <<udpOwn, tcpOwn, rawOwn, relayOwn, acmeVars>>
  BY <1>0, <1>5, ServeInvStep, TokenStep, UdpRest, TcpRest, RawRest, RelayRest, AcmeRest
<1>6. CASE AcmeNext /\ UNCHANGED <<shutdown, udpOwn, tcpOwn, rawOwn, relayOwn, serveOwn>>
  BY <1>0, <1>6, AcmeTypeStep, UdpRest, TcpRest, RawRest, RelayRest, ServeRest
<1>7. CASE UNCHANGED vars
  <2>1. UNCHANGED <<shutdown, udpOwn, tcpOwn, rawOwn, relayOwn, serveOwn, acmeVars>>
    BY <1>7 DEF vars, udpVars, tcpVars, rawVars, relayVars, serveVars, countVars,
                udpOwn, tcpOwn, rawOwn, relayOwn, serveOwn
  <2>2. QED
    BY <1>0, <2>1, UdpRest, TcpRest, RawRest, RelayRest, ServeRest, AcmeRest
<1>8. QED
  BY <1>1, <1>2, <1>3, <1>4, <1>5, <1>6, <1>7 DEF Next

\* The edge starts with every service in its initial state.
LEMMA EdgeInitially == Init => EdgeInv
BY UdpInitially, TcpInitially, RawInitially, RawPermitsInitially, RelayInitially, ServeInitially, AcmeInitially
   DEF Init, EdgeInv

\* The types of every service of the edge, with the permits that its tasks
\* hold, the depth of every queue and the cap on handshakes, for any number of
\* members, clients, streams and connections.
THEOREM EdgeTypeCorrect == Spec => []TypeOK
<1>1. EdgeInv => TypeOK
  BY UdpInvIs, RawTypesFollow DEF EdgeInv, TypeOK, TcpInv, ServeInv
<1>2. QED
  BY <1>1, EdgeInitially, EdgeInvStep, PTL DEF Spec

\* Both ingresses' counters add up at every moment (ingress/udp/metrics.rs,
\* ingress/tcp.rs).
THEOREM EdgeAccountsAddUp == Spec => []Accounted
<1>1. EdgeInv => Accounted
  BY UdpInvIs DEF EdgeInv, Accounted, TcpInv
<1>2. QED
  BY <1>1, EdgeInitially, EdgeInvStep, PTL DEF Spec
=============================================================================
