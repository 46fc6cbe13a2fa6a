------------------------- MODULE HostedRequestsProofs -------------------------
(***************************************************************************)
(* Proofs about the requests of a program in either mode: RequestGate, for *)
(* any number of requests and entry objects, and HostedRequests, for any   *)
(* number of requests and chapters and any limits of the registry.         *)
(***************************************************************************)
EXTENDS HostedRequests, SumTheorems, SequenceTheorems

-----------------------------------------------------------------------------
(* The gate of the local mode                                               *)

\* q has every member of S in it, once, and nobody else.
Lines(q, S) ==
    /\ q \in Seq(Requests)
    /\ \A i, j \in 1..Len(q) : q[i] = q[j] => i = j
    /\ \A r \in Requests : r \in S <=> \E i \in 1..Len(q) : q[i] = r

\* s stands before r in q.
Before(q, s, r) == \E i, j \in 1..Len(q) : i < j /\ q[i] = s /\ q[j] = r

\* What the row of a request says of the entry: it holds the lock, is one of the
\* readers, holds the position lock.
Holds(c)       == c.kind = "mutation" /\ c.pc \in {"draining", "drained", "in"}
Counted(c)     == c.kind # "mutation" /\ c.pc \in {"posqueued", "in"}
HoldsPlace(c)  == c.kind = "position" /\ c.pc = "in"

In(Q, pc)   == {r \in Requests : Q[r].pc = pc}
Readers(Q)  == {r \in Requests : Counted(Q[r])}
Referers(Q) == {r \in Requests : Q[r].pc # "idle"}

\* The entry E and the rows Q tell the same story: who waits and in which line,
\* who holds which lock, how many read and refer; the event is set exactly when
\* nobody reads, nobody awaits it then, and a mutation past it has no readers.
Match(E, Q) ==
    /\ Lines(E.queue, In(Q, "queued"))
    /\ Lines(E.posq, In(Q, "posqueued"))
    /\ \A r \in Requests : E.lock = r <=> Holds(Q[r])
    /\ \A r \in Requests : E.pos = r <=> HoldsPlace(Q[r])
    /\ E.readers = Cardinality(Readers(Q))
    /\ E.refs = Cardinality(Referers(Q))
    /\ E.done <=> E.readers = 0
    /\ \A r \in Requests : Q[r].pc = "posqueued" => Q[r].kind = "position"
    /\ \A r \in Requests : Q[r].pc \in {"draining", "drained"} => Q[r].kind = "mutation"
    /\ \A r \in Requests : Q[r].pc = "draining" => ~E.done
    /\ \A r \in Requests : Holds(Q[r]) /\ Q[r].pc # "draining" => E.readers = 0

\* Who is ahead of r holds the lock, or stands before r in the line.
AheadOf(r, s, E, Q) ==
    /\ Q[r].pc = "queued"
    /\ r # s
    /\ Q[s].kind = "mutation"
    /\ Holds(Q[s]) \/ (Q[s].pc = "queued" /\ Before(E.queue, s, r))

GateInv ==
    /\ \A r \in Requests : Active(r) => rq[r].e = registry
    /\ registry # 0 => (\E r \in Requests : Active(r)) /\ Match(entry[registry], rq)
    /\ \A r \in Requests : \A s \in ahead[r] : AheadOf(r, s, entry[rq[r].e], rq)

IInv == TypeOK /\ GateInv

\* A request between two awaits of one action: referred to, and nowhere else.
Asking == "asking"

EntryType == [lock : Holder, queue : Seq(Requests), pos : Holder, posq : Seq(Requests),
              refs : Nat, readers : Nat, done : BOOLEAN]
RowType   == [pc : PCs \cup {Asking}, kind : Kinds, e : Entries]

-----------------------------------------------------------------------------
(* Queues *)

\* A waiter that leaves a queue closes the gap it leaves.
LEMMA Leaving ==
    ASSUME NEW q \in Seq(Requests), NEW r, NEW k \in 1..Len(q), q[k] = r,
           \A i, j \in 1..Len(q) : q[i] = q[j] => i = j
    PROVE  /\ RemoveFirst(q, r) \in Seq(Requests)
           /\ Len(RemoveFirst(q, r)) = Len(q) - 1
           /\ \A i \in 1..(Len(q) - 1) :
                  RemoveFirst(q, r)[i] = IF i < k THEN q[i] ELSE q[i + 1]
<1> DEFINE I == {i \in 1..Len(q) : q[i] = r}
<1>1. I = {k}
  OBVIOUS
<1>2. SelectInSeq(q, LAMBDA v : v = r) = k
  BY <1>1 DEF SelectInSeq, Min
<1>3. RemoveFirst(q, r) = SubSeq(q, 1, k - 1) \o SubSeq(q, k + 1, Len(q))
  BY <1>2 DEF RemoveFirst, RemoveAt
<1> DEFINE a == SubSeq(q, 1, k - 1)
           b == SubSeq(q, k + 1, Len(q))
<1>4. /\ a \in Seq(Requests) /\ Len(a) = k - 1
      /\ \A i \in 1..(k - 1) : a[i] = q[i]
  BY SubSeqProperties
<1>5. /\ b \in Seq(Requests) /\ Len(b) = Len(q) - k
      /\ \A i \in 1..(Len(q) - k) : b[i] = q[k + i]
  BY SubSeqProperties
<1> HIDE DEF a, b
<1>6. /\ a \o b \in Seq(Requests) /\ Len(a \o b) = Len(a) + Len(b)
      /\ \A i \in 1..(Len(a) + Len(b)) : (a \o b)[i] = IF i <= Len(a) THEN a[i] ELSE b[i - Len(a)]
  <2>1. a \in Seq(Requests) /\ b \in Seq(Requests)
    BY <1>4, <1>5
  <2> QED
    BY <2>1, ConcatProperties
<1>7. Len(q) \in Nat /\ k \in Nat
  OBVIOUS
<1>8. RemoveFirst(q, r) = a \o b
  BY <1>3 DEF a, b
<1>9. ASSUME NEW i \in 1..(Len(q) - 1)
      PROVE  (a \o b)[i] = IF i < k THEN q[i] ELSE q[i + 1]
  <2>1. CASE i < k
    BY <2>1, <1>4, <1>5, <1>6, <1>7
  <2>2. CASE i >= k
    <3>1. i - Len(a) \in 1..(Len(q) - k) /\ k + (i - Len(a)) = i + 1 /\ ~(i <= Len(a))
      BY <2>2, <1>4, <1>7
    <3>2. i \in 1..(Len(a) + Len(b))
      BY <1>4, <1>5, <1>7
    <3>3. (a \o b)[i] = b[i - Len(a)]
      BY <1>6, <3>1, <3>2
    <3>4. b[i - Len(a)] = q[i + 1]
      BY <1>5, <3>1
    <3> QED
      BY <2>2, <3>3, <3>4, <1>7
  <2>3. i < k \/ i >= k
    BY <1>7
  <2> QED
    BY <2>1, <2>2, <2>3
<1>10. Len(a \o b) = Len(q) - 1
  BY <1>4, <1>5, <1>6, <1>7
<1> QED
  BY <1>6, <1>8, <1>9, <1>10

\* Nobody leaves a queue it is not in.
LEMMA Absent ==
    ASSUME NEW q, NEW r, ~ \E i \in 1..Len(q) : q[i] = r
    PROVE  RemoveFirst(q, r) = q
BY DEF RemoveFirst

\* RemoveFirst takes r out of the queue, if it was in it, and leaves the others
\* in their order.
LEMMA LinesRemove ==
    ASSUME NEW q, NEW S, NEW r, Lines(q, S)
    PROVE  /\ Lines(RemoveFirst(q, r), S \ {r})
           /\ \A s, t : s # r /\ t # r /\ Before(q, s, t) => Before(RemoveFirst(q, r), s, t)
<1> DEFINE p == RemoveFirst(q, r)
<1>1. CASE \E i \in 1..Len(q) : q[i] = r
  <2>1. PICK k \in 1..Len(q) : q[k] = r
    BY <1>1
  <2>3. Len(q) \in Nat /\ q \in Seq(Requests) /\ \A i, j \in 1..Len(q) : q[i] = q[j] => i = j
    BY DEF Lines
  <2>2. /\ p \in Seq(Requests) /\ Len(p) = Len(q) - 1
        /\ \A i \in 1..(Len(q) - 1) : p[i] = IF i < k THEN q[i] ELSE q[i + 1]
    BY <2>1, <2>3, Leaving
  <2>4. \A s : s # r => \A i \in 1..Len(q) : q[i] = s =>
            /\ i # k
            /\ p[IF i < k THEN i ELSE i - 1] = s
            /\ (IF i < k THEN i ELSE i - 1) \in 1..Len(p)
    BY <2>1, <2>2, <2>3
  <2> HIDE DEF p
  <2>5. \A i, j \in 1..Len(p) : p[i] = p[j] => i = j
    BY <2>2, <2>3
  <2>6. \A s \in Requests : s \in S \ {r} <=> \E i \in 1..Len(p) : p[i] = s
    <3> SUFFICES ASSUME NEW s \in Requests
                 PROVE  s \in S \ {r} <=> \E i \in 1..Len(p) : p[i] = s
      OBVIOUS
    <3>1. s \in S <=> \E i \in 1..Len(q) : q[i] = s
      BY DEF Lines
    <3>2. ASSUME s \in S \ {r} PROVE \E i \in 1..Len(p) : p[i] = s
      BY <3>1, <3>2, <2>4
    <3>3. ASSUME NEW i \in 1..Len(p), p[i] = s PROVE s \in S \ {r}
      BY <3>1, <3>3, <2>1, <2>2, <2>3
    <3> QED
      BY <3>2, <3>3
  <2>7. \A s, t : s # r /\ t # r /\ Before(q, s, t) => Before(p, s, t)
    <3> SUFFICES ASSUME NEW s, NEW t, s # r, t # r,
                        NEW i \in 1..Len(q), NEW j \in 1..Len(q), i < j, q[i] = s, q[j] = t
                 PROVE  Before(p, s, t)
      BY DEF Before
    <3> DEFINE m(x) == IF x < k THEN x ELSE x - 1
    <3>1. /\ m(i) \in 1..Len(p) /\ p[m(i)] = s /\ i # k
          /\ m(j) \in 1..Len(p) /\ p[m(j)] = t /\ j # k
      BY <2>4
    <3>2. m(i) < m(j)
      BY <2>3, <3>1
    <3> QED
      BY <3>1, <3>2 DEF Before
  <2> QED
    BY <2>2, <2>5, <2>6, <2>7 DEF Lines, p
<1>2. CASE ~ \E i \in 1..Len(q) : q[i] = r
  BY <1>2, Absent DEF Lines
<1> QED
  BY <1>1, <1>2

\* A request joins at the end.
LEMMA LinesAppend ==
    ASSUME NEW q, NEW S, NEW r \in Requests, r \notin S, Lines(q, S)
    PROVE  /\ Lines(Append(q, r), S \cup {r})
           /\ \A s, t : Before(q, s, t) => Before(Append(q, r), s, t)
           /\ \A s \in Requests : s \in S => Before(Append(q, r), s, r)
<1> DEFINE p == Append(q, r)
<1>1. /\ p \in Seq(Requests) /\ Len(p) = Len(q) + 1 /\ Len(q) \in Nat
      /\ \A i \in 1..Len(q) : p[i] = q[i]
      /\ p[Len(q) + 1] = r
  BY AppendProperties DEF Lines
<1> HIDE DEF p
<1>2. \A i \in 1..Len(q) : q[i] # r /\ q[i] \in Requests
  BY DEF Lines
<1>3. \A i, j \in 1..Len(p) : p[i] = p[j] => i = j
  BY <1>1, <1>2 DEF Lines
<1>4. \A s \in Requests : s \in S \cup {r} <=> \E i \in 1..Len(p) : p[i] = s
  BY <1>1 DEF Lines
<1>5. \A s, t : Before(q, s, t) => Before(p, s, t)
  BY <1>1 DEF Before
<1>6. \A s \in Requests : s \in S => Before(p, s, r)
  BY <1>1 DEF Before, Lines
<1> QED
  BY <1>1, <1>3, <1>4, <1>5, <1>6 DEF Lines, p

\* The head of the line goes: nobody stood before it.
LEMMA LinesTail ==
    ASSUME NEW q, NEW S, NEW r \in S, Lines(q, S), r \in Requests, Head(q) = r
    PROVE  /\ Lines(Tail(q), S \ {r})
           /\ \A s, t : s # r /\ Before(q, s, t) => Before(Tail(q), s, t)
           /\ \A s : ~ Before(q, s, r)
<1> DEFINE p == Tail(q)
<1>1. q # <<>> /\ Len(q) \in Nat \ {0} /\ q \in Seq(Requests)
  BY DEF Lines
<1>2. /\ p \in Seq(Requests) /\ Len(p) = Len(q) - 1
      /\ \A i \in 1..Len(p) : p[i] = q[i + 1]
      /\ q[1] = r
  BY <1>1, HeadTailProperties
<1> HIDE DEF p
<1>3. \A i, j \in 1..Len(p) : p[i] = p[j] => i = j
  BY <1>1, <1>2 DEF Lines
<1>4. \A s \in Requests : s \in S \ {r} <=> \E i \in 1..Len(p) : p[i] = s
  <2> SUFFICES ASSUME NEW s \in Requests
               PROVE  s \in S \ {r} <=> \E i \in 1..Len(p) : p[i] = s
    OBVIOUS
  <2>1. s \in S <=> \E i \in 1..Len(q) : q[i] = s
    BY DEF Lines
  <2>2. ASSUME NEW i \in 1..Len(q), q[i] = s, s # r PROVE i - 1 \in 1..Len(p) /\ p[i - 1] = s
    BY <1>1, <1>2, <2>2
  <2>3. ASSUME NEW i \in 1..Len(p), p[i] = s PROVE s \in S \ {r}
    BY <1>1, <1>2, <2>1, <2>3 DEF Lines
  <2> QED
    BY <2>1, <2>2, <2>3
<1>5. ASSUME NEW s, NEW t, s # r, Before(q, s, t) PROVE Before(p, s, t)
  <2>1. PICK i, j \in 1..Len(q) : i < j /\ q[i] = s /\ q[j] = t
    BY <1>5 DEF Before
  <2>2. i - 1 \in 1..Len(p) /\ j - 1 \in 1..Len(p) /\ i - 1 < j - 1
    BY <1>1, <1>2, <1>5, <2>1
  <2>3. p[i - 1] = s /\ p[j - 1] = t
    BY <1>1, <1>2, <2>1, <2>2
  <2> QED
    BY <2>2, <2>3 DEF Before
<1>6. \A s : ~ Before(q, s, r)
  BY <1>1, <1>2 DEF Before, Lines
<1> QED
  BY <1>2, <1>3, <1>4, <1>5, <1>6 DEF Lines, p

-----------------------------------------------------------------------------
(* Counting *)

\* Sets of requests have a cardinality, at most that of all requests.
LEMMA Counts ==
    ASSUME NEW S \in SUBSET Requests
    PROVE  /\ IsFiniteSet(S)
           /\ Cardinality(S) \in 0..Cardinality(Requests)
           /\ Cardinality(S) = 0 <=> S = {}
           /\ \A r \in Requests : Cardinality(S \cup {r}) =
                  IF r \in S THEN Cardinality(S) ELSE Cardinality(S) + 1
           /\ \A r \in Requests : Cardinality(S \ {r}) =
                  IF r \in S THEN Cardinality(S) - 1 ELSE Cardinality(S)
<1>1. IsFiniteSet(S) /\ Cardinality(S) <= Cardinality(Requests)
  BY RequestsAssumption, FS_Subset
<1>2. Cardinality(S) \in Nat /\ Cardinality(Requests) \in Nat
  BY <1>1, RequestsAssumption, FS_CardinalityType
<1>3. Cardinality(S) = 0 <=> S = {}
  BY <1>1, FS_EmptySet
<1> QED
  BY <1>1, <1>2, <1>3, FS_AddElement, FS_RemoveElement

-----------------------------------------------------------------------------
(* The steps of a coroutine keep entry and rows in agreement *)

\* A request that is only referred to joins the line ...
LEMMA QueueKeeps ==
    ASSUME NEW E \in EntryType, NEW Q \in [Requests -> RowType], NEW r \in Requests,
           Q[r].pc = Asking, Match(E, Q)
    PROVE  Match([E EXCEPT !.queue = Append(@, r)], [Q EXCEPT ![r].pc = "queued"])
<1> DEFINE F == [E EXCEPT !.queue = Append(@, r)]
           P == [Q EXCEPT ![r].pc = "queued"]
<1>1. /\ F.queue = Append(E.queue, r) /\ F.posq = E.posq /\ F.lock = E.lock /\ F.pos = E.pos
      /\ F.readers = E.readers /\ F.refs = E.refs /\ F.done = E.done
  BY DEF EntryType
<1>2. /\ P[r].pc = "queued" /\ P[r].kind = Q[r].kind
      /\ \A s \in Requests : s # r => P[s] = Q[s]
  BY DEF RowType
<1> HIDE DEF F, P
<1>3. In(P, "queued") = In(Q, "queued") \cup {r} /\ r \notin In(Q, "queued")
  BY <1>2 DEF In, Asking
<1>4. In(P, "posqueued") = In(Q, "posqueued")
  BY <1>2 DEF In, Asking
<1>5. Readers(P) = Readers(Q) /\ Referers(P) = Referers(Q)
  BY <1>2 DEF Readers, Referers, Counted, Asking
<1>6. Lines(F.queue, In(P, "queued"))
  BY <1>1, <1>3, LinesAppend DEF Match
<1>7. \A s \in Requests : /\ Holds(P[s]) <=> Holds(Q[s])
                          /\ HoldsPlace(P[s]) <=> HoldsPlace(Q[s])
                          /\ P[s].pc \in {"posqueued", "draining", "drained"} => P[s] = Q[s]
                          /\ Holds(P[s]) => P[s] = Q[s]
  BY <1>2 DEF Holds, HoldsPlace, Asking
<1>8. Match(F, P)
  BY <1>1, <1>4, <1>5, <1>6, <1>7 DEF Match
<1> QED
  BY <1>8 DEF F, P

\* ... or is admitted, when nobody holds the lock.
LEMMA AdmitKeeps ==
    ASSUME NEW E \in EntryType, NEW Q \in [Requests -> RowType], NEW r \in Requests,
           Q[r].pc = Asking, Match(E, Q), E.lock = "nobody"
    PROVE  LET at == Admitted(E, r, Q[r].kind)
           IN  /\ Match(at.E, [Q EXCEPT ![r].pc = at.pc])
               /\ at.E \in EntryType
               /\ at.pc \in {"in", "posqueued", "draining"}
               /\ at.E.queue = E.queue
<1> DEFINE at == Admitted(E, r, Q[r].kind)
           F  == at.E
           P  == [Q EXCEPT ![r].pc = at.pc]
<1>0. Readers(Q) \in SUBSET Requests /\ Q[r].kind \in Kinds /\ "nobody" \notin Requests
  BY NobodyAssumption DEF Readers, RowType
<1>2. /\ P[r].pc = at.pc /\ P[r].kind = Q[r].kind
      /\ \A s \in Requests : s # r => P[s] = Q[s]
  BY DEF RowType
<1>3. r \notin In(Q, "queued") /\ r \notin In(Q, "posqueued") /\ r \notin Readers(Q) /\ r \in Referers(Q)
  BY DEF In, Readers, Referers, Counted, Asking
<1>4. \A s \in Requests : ~Holds(Q[s])
  BY <1>0 DEF Match
<1>5. CASE Q[r].kind = "mutation"
  <2>1. /\ at.pc = IF E.done THEN "in" ELSE "draining"
        /\ F = [E EXCEPT !.lock = r]
    BY <1>5 DEF Admitted
  <2>2. /\ F.queue = E.queue /\ F.posq = E.posq /\ F.lock = r /\ F.pos = E.pos
        /\ F.readers = E.readers /\ F.refs = E.refs /\ F.done = E.done /\ F \in EntryType
    BY <2>1 DEF EntryType, Holder
  <2> HIDE DEF F, P, at
  <2>3. In(P, "queued") = In(Q, "queued") /\ In(P, "posqueued") = In(Q, "posqueued")
    BY <1>2, <1>3, <2>1 DEF In
  <2>4. Readers(P) = Readers(Q) /\ Referers(P) = Referers(Q)
    BY <1>2, <1>3, <1>5, <2>1 DEF Readers, Referers, Counted
  <2>5. \A s \in Requests : Holds(P[s]) <=> s = r
    BY <1>2, <1>4, <1>5, <2>1 DEF Holds
  <2>6. \A s \in Requests : HoldsPlace(P[s]) <=> HoldsPlace(Q[s])
    BY <1>2, <1>5 DEF HoldsPlace
  <2> QED
    BY <1>2, <1>5, <2>1, <2>2, <2>3, <2>4, <2>5, <2>6 DEF Match, F, P, at
<1>6. CASE Q[r].kind = "read"
  <2>1. at.pc = "in" /\ F = [E EXCEPT !.readers = @ + 1, !.done = FALSE]
    BY <1>6 DEF Admitted, JoinReaders
  <2>2. /\ F.queue = E.queue /\ F.posq = E.posq /\ F.lock = E.lock /\ F.pos = E.pos
        /\ F.readers = E.readers + 1 /\ F.refs = E.refs /\ F.done = FALSE
    BY <2>1 DEF EntryType
  <2> HIDE DEF F, P, at
  <2>3. In(P, "queued") = In(Q, "queued") /\ In(P, "posqueued") = In(Q, "posqueued")
    BY <1>2, <1>3, <2>1 DEF In
  <2>4. Readers(P) = Readers(Q) \cup {r} /\ Referers(P) = Referers(Q)
    BY <1>2, <1>3, <1>6, <2>1 DEF Readers, Referers, Counted
  <2>5. Cardinality(Readers(P)) = E.readers + 1
    BY <1>0, <1>3, <2>4, Counts DEF Match
  <2>6. \A s \in Requests : ~Holds(P[s])
    BY <1>2, <1>4, <1>6, <2>1 DEF Holds
  <2>7. \A s \in Requests : HoldsPlace(P[s]) <=> HoldsPlace(Q[s])
    BY <1>2, <1>6 DEF HoldsPlace, Asking
  <2>8. F.readers # 0 /\ F \in EntryType
    <3>1. E.readers \in Nat /\ E.readers + 1 \in Nat /\ E.readers + 1 # 0
      BY DEF EntryType
    <3>2. F \in EntryType
      BY <2>1, <3>1 DEF EntryType, Holder
    <3> QED
      BY <2>2, <3>1, <3>2
  <2>9. \A s \in Requests : P[s].pc # "draining"
    BY <1>2, <1>4, <2>1 DEF Holds, Match
  <2> QED
    BY <1>2, <1>4, <2>1, <2>2, <2>3, <2>4, <2>5, <2>6, <2>7, <2>8, <2>9 DEF Match, F, P, at
<1>7. CASE Q[r].kind = "position" /\ TakesAtOnce(E.pos, E.posq)
  <2>1. at.pc = "in" /\ F = [[E EXCEPT !.readers = @ + 1, !.done = FALSE] EXCEPT !.pos = r] /\ E.pos = "nobody"
    BY <1>7 DEF Admitted, JoinReaders, TakesAtOnce
  <2>2. /\ F.queue = E.queue /\ F.posq = E.posq /\ F.lock = E.lock /\ F.pos = r
        /\ F.readers = E.readers + 1 /\ F.refs = E.refs /\ F.done = FALSE
    BY <2>1 DEF EntryType, Holder
  <2> HIDE DEF F, P, at
  <2>3. In(P, "queued") = In(Q, "queued") /\ In(P, "posqueued") = In(Q, "posqueued")
    BY <1>2, <1>3, <2>1 DEF In
  <2>4. Readers(P) = Readers(Q) \cup {r} /\ Referers(P) = Referers(Q)
    BY <1>2, <1>3, <1>7, <2>1 DEF Readers, Referers, Counted
  <2>5. Cardinality(Readers(P)) = E.readers + 1
    BY <1>0, <1>3, <2>4, Counts DEF Match
  <2>6. \A s \in Requests : ~Holds(P[s])
    BY <1>2, <1>4, <1>7, <2>1 DEF Holds
  <2>7. \A s \in Requests : HoldsPlace(P[s]) <=> s = r
    BY <1>0, <1>2, <1>7, <2>1 DEF HoldsPlace, Match
  <2>8. F.readers # 0 /\ F \in EntryType
    <3>1. E.readers \in Nat /\ E.readers + 1 \in Nat /\ E.readers + 1 # 0
      BY DEF EntryType
    <3>2. F \in EntryType
      BY <2>1, <3>1 DEF EntryType, Holder
    <3> QED
      BY <2>2, <3>1, <3>2
  <2>9. \A s \in Requests : P[s].pc # "draining"
    BY <1>2, <1>4, <2>1 DEF Holds, Match
  <2> QED
    BY <1>2, <1>4, <2>1, <2>2, <2>3, <2>4, <2>5, <2>6, <2>7, <2>8, <2>9 DEF Match, F, P, at
<1>8. CASE Q[r].kind = "position" /\ ~TakesAtOnce(E.pos, E.posq)
  <2>1. /\ at.pc = "posqueued"
        /\ F = [[E EXCEPT !.readers = @ + 1, !.done = FALSE] EXCEPT !.posq = Append(@, r)]
    BY <1>8 DEF Admitted, JoinReaders
  <2>2. /\ F.queue = E.queue /\ F.posq = Append(E.posq, r) /\ F.lock = E.lock /\ F.pos = E.pos
        /\ F.readers = E.readers + 1 /\ F.refs = E.refs /\ F.done = FALSE
    BY <2>1 DEF EntryType
  <2> HIDE DEF F, P, at
  <2>3. In(P, "queued") = In(Q, "queued") /\ In(P, "posqueued") = In(Q, "posqueued") \cup {r}
    BY <1>2, <1>3, <2>1 DEF In
  <2>4. Readers(P) = Readers(Q) \cup {r} /\ Referers(P) = Referers(Q)
    BY <1>2, <1>3, <1>8, <2>1 DEF Readers, Referers, Counted
  <2>5. Cardinality(Readers(P)) = E.readers + 1
    BY <1>0, <1>3, <2>4, Counts DEF Match
  <2>6. \A s \in Requests : ~Holds(P[s])
    BY <1>2, <1>4, <1>8, <2>1 DEF Holds
  <2>7. \A s \in Requests : HoldsPlace(P[s]) <=> HoldsPlace(Q[s])
    BY <1>2, <1>8, <2>1 DEF HoldsPlace, Asking
  <2>8. F.readers # 0 /\ F \in EntryType
    <3>1. E.readers \in Nat /\ E.readers + 1 \in Nat /\ E.readers + 1 # 0
      BY DEF EntryType
    <3>3. Append(E.posq, r) \in Seq(Requests)
      BY DEF EntryType
    <3>2. F \in EntryType
      BY <2>1, <3>1, <3>3 DEF EntryType, Holder
    <3> QED
      BY <2>2, <3>1, <3>2
  <2>9. \A s \in Requests : P[s].pc # "draining"
    BY <1>2, <1>4, <2>1 DEF Holds, Match
  <2>10. Lines(F.posq, In(P, "posqueued"))
    BY <1>3, <2>2, <2>3, LinesAppend DEF Match
  <2> QED
    BY <1>2, <1>4, <1>8, <2>1, <2>2, <2>3, <2>4, <2>5, <2>6, <2>7, <2>8, <2>9, <2>10 DEF Match, F, P, at
<1> QED
  BY <1>0, <1>5, <1>6, <1>7, <1>8 DEF Kinds

\* The first of the line that awaits the lock of the position reports takes it.
LEMMA PlaceKeeps ==
    ASSUME NEW E \in EntryType, NEW Q \in [Requests -> RowType], NEW r \in Requests,
           Q[r].pc = "posqueued", Match(E, Q), E.pos = "nobody", Head(E.posq) = r
    PROVE  /\ Match([E EXCEPT !.pos = r, !.posq = Tail(@)], [Q EXCEPT ![r].pc = "in"])
           /\ [E EXCEPT !.pos = r, !.posq = Tail(@)] \in EntryType
<1> DEFINE F == [E EXCEPT !.pos = r, !.posq = Tail(@)]
           P == [Q EXCEPT ![r].pc = "in"]
<1>1. /\ F.queue = E.queue /\ F.posq = Tail(E.posq) /\ F.lock = E.lock /\ F.pos = r
      /\ F.readers = E.readers /\ F.refs = E.refs /\ F.done = E.done
  BY DEF EntryType
<1>2. /\ P[r].pc = "in" /\ P[r].kind = Q[r].kind /\ Q[r].kind = "position"
      /\ \A s \in Requests : s # r => P[s] = Q[s]
  BY DEF RowType, Match
<1>3. Lines(Tail(E.posq), In(Q, "posqueued") \ {r})
  BY LinesTail DEF Match, In
<1>4. F \in EntryType
  BY <1>3 DEF EntryType, Holder, Lines
<1> HIDE DEF F, P
<1>5. In(P, "posqueued") = In(Q, "posqueued") \ {r} /\ In(P, "queued") = In(Q, "queued")
  BY <1>2 DEF In
<1>6. Readers(P) = Readers(Q) /\ Referers(P) = Referers(Q)
  BY <1>2 DEF Readers, Referers, Counted
<1>7. \A s \in Requests : /\ Holds(P[s]) <=> Holds(Q[s])
                          /\ HoldsPlace(P[s]) <=> s = r
                          /\ P[s].pc \in {"posqueued", "draining", "drained"} => P[s] = Q[s]
                          /\ Holds(P[s]) => P[s] = Q[s]
  BY <1>2, NobodyAssumption DEF Holds, HoldsPlace, Match
<1>8. Lines(F.queue, In(P, "queued")) /\ Lines(F.posq, In(P, "posqueued"))
  BY <1>1, <1>3, <1>5 DEF Match
<1>9. F.readers = Cardinality(Readers(P)) /\ F.refs = Cardinality(Referers(P)) /\ (F.done <=> F.readers = 0)
  BY <1>1, <1>6 DEF Match
<1>10. \A s \in Requests : (F.lock = s <=> Holds(P[s])) /\ (F.pos = s <=> HoldsPlace(P[s]))
  BY <1>1, <1>7 DEF Match
<1>11. \A s \in Requests : /\ P[s].pc = "posqueued" => P[s].kind = "position"
                           /\ P[s].pc \in {"draining", "drained"} => P[s].kind = "mutation"
                           /\ P[s].pc = "draining" => ~F.done
                           /\ Holds(P[s]) /\ P[s].pc # "draining" => F.readers = 0
  BY <1>1, <1>7 DEF Match
<1>12. Match(F, P)
  BY <1>8, <1>9, <1>10, <1>11 DEF Match
<1> QED
  BY <1>4, <1>12 DEF F, P

\* A mutation that was woken goes in.
LEMMA EnterKeeps ==
    ASSUME NEW E \in EntryType, NEW Q \in [Requests -> RowType], NEW r \in Requests,
           Q[r].pc = "drained", Match(E, Q)
    PROVE  Match(E, [Q EXCEPT ![r].pc = "in"])
<1> DEFINE P == [Q EXCEPT ![r].pc = "in"]
<1>1. /\ P[r].pc = "in" /\ P[r].kind = Q[r].kind /\ Q[r].kind = "mutation"
      /\ \A s \in Requests : s # r => P[s] = Q[s]
  BY DEF RowType, Match
<1> HIDE DEF P
<1>2. In(P, "posqueued") = In(Q, "posqueued") /\ In(P, "queued") = In(Q, "queued")
  BY <1>1 DEF In
<1>3. Readers(P) = Readers(Q) /\ Referers(P) = Referers(Q)
  BY <1>1 DEF Readers, Referers, Counted
<1>4. \A s \in Requests : /\ Holds(P[s]) <=> Holds(Q[s])
                          /\ HoldsPlace(P[s]) <=> HoldsPlace(Q[s])
                          /\ P[s].pc \in {"posqueued", "draining", "drained"} => P[s] = Q[s]
                          /\ Holds(P[s]) /\ P[s].pc # "draining" => Holds(Q[s]) /\ Q[s].pc # "draining"
  BY <1>1 DEF Holds, HoldsPlace
<1>5. Match(E, P)
  BY <1>2, <1>3, <1>4 DEF Match
<1> QED
  BY <1>5 DEF P

\* What a request that goes leaves of the entry it leaves.
LEMMA GivenBackFields ==
    ASSUME NEW E \in EntryType, NEW r \in Requests,
           E.refs # 0, Shared(r) => E.readers # 0,
           RemoveFirst(E.queue, r) \in Seq(Requests), RemoveFirst(E.posq, r) \in Seq(Requests)
    PROVE  LET F == [GivenBack(E, r) EXCEPT !.refs = @ - 1]
           IN  /\ F.lock = IF E.lock = r THEN "nobody" ELSE E.lock
               /\ F.queue = RemoveFirst(E.queue, r)
               /\ F.pos = IF E.pos = r THEN "nobody" ELSE E.pos
               /\ F.posq = RemoveFirst(E.posq, r)
               /\ F.refs = E.refs - 1
               /\ Shared(r) => F.readers = E.readers - 1 /\ F.done = (E.readers = 1)
               /\ ~Shared(r) => F.readers = E.readers /\ F.done = E.done
               /\ F \in EntryType
<1> DEFINE G == [E EXCEPT !.lock  = IF @ = r THEN "nobody" ELSE @,
                          !.queue = RemoveFirst(@, r),
                          !.pos   = IF @ = r THEN "nobody" ELSE @,
                          !.posq  = RemoveFirst(@, r)]
<1>1. /\ G.lock = IF E.lock = r THEN "nobody" ELSE E.lock
      /\ G.queue = RemoveFirst(E.queue, r)
      /\ G.pos = IF E.pos = r THEN "nobody" ELSE E.pos
      /\ G.posq = RemoveFirst(E.posq, r)
      /\ G.refs = E.refs /\ G.readers = E.readers /\ G.done = E.done
  BY DEF EntryType
<1>2. GivenBack(E, r) = IF Shared(r) THEN LeaveReaders(G) ELSE G
  BY DEF GivenBack
<1>3. G \in EntryType
  BY DEF EntryType, Holder
<1> HIDE DEF G
<1> DEFINE H == IF Shared(r) THEN LeaveReaders(G) ELSE G
           F == [H EXCEPT !.refs = @ - 1]
<1>4. /\ H.lock = G.lock /\ H.queue = G.queue /\ H.pos = G.pos /\ H.posq = G.posq /\ H.refs = G.refs
      /\ Shared(r) => H.readers = G.readers - 1 /\ H.done = (G.readers = 1)
      /\ ~Shared(r) => H.readers = G.readers /\ H.done = G.done
  BY <1>3 DEF LeaveReaders, EntryType
<1>5. H \in EntryType
  <2>1. Shared(r) => G.readers - 1 \in Nat
    BY <1>1, <1>3 DEF EntryType
  <2> QED
    BY <1>3, <2>1 DEF LeaveReaders, EntryType
<1> HIDE DEF H
<1>6. /\ F.lock = H.lock /\ F.queue = H.queue /\ F.pos = H.pos /\ F.posq = H.posq
      /\ F.refs = H.refs - 1 /\ F.readers = H.readers /\ F.done = H.done
  BY <1>5 DEF EntryType
<1>7. F \in EntryType
  <2>1. H.refs - 1 \in Nat
    BY <1>1, <1>4, <1>5 DEF EntryType
  <2> QED
    BY <1>5, <2>1 DEF EntryType
<1> QED
  BY <1>1, <1>2, <1>4, <1>6, <1>7 DEF H

\* A request that goes leaves entry and rows in agreement: it is taken out of every
\* place it held, and the mutation that awaits the last reader is woken.
LEMMA LeaveKeeps ==
    ASSUME TypeOK, NEW E \in EntryType, NEW r \in Requests, Active(r), Match(E, rq)
    PROVE  LET F == [GivenBack(E, r) EXCEPT !.refs = @ - 1]
           IN  /\ Match(F, [Woken(F) EXCEPT ![r] = Idle])
               /\ F \in EntryType
               /\ F.queue = RemoveFirst(E.queue, r)
               /\ F.refs = 0 <=> Referers(rq) = {r}
<1> DEFINE F == [GivenBack(E, r) EXCEPT !.refs = @ - 1]
           P == [Woken(F) EXCEPT ![r] = Idle]
<1>1. /\ Lines(RemoveFirst(E.queue, r), In(rq, "queued") \ {r})
      /\ Lines(RemoveFirst(E.posq, r), In(rq, "posqueued") \ {r})
  BY LinesRemove DEF Match
<1>2. Shared(r) <=> r \in Readers(rq)
  <2>1. rq[r].pc \in PCs /\ rq[r].kind \in Kinds /\ rq[r].pc # "idle"
    BY DEF TypeOK, Active
  <2> QED
    BY <2>1 DEF Shared, Readers, Counted, Match, PCs, Kinds
<1>3. r \in Referers(rq) /\ Referers(rq) \in SUBSET Requests /\ Readers(rq) \in SUBSET Requests
  BY DEF Referers, Readers, Active
<1>4. /\ E.refs = Cardinality(Referers(rq)) /\ E.readers = Cardinality(Readers(rq))
      /\ E.refs # 0 /\ (Shared(r) => E.readers # 0)
  BY <1>2, <1>3, Counts DEF Match
<1>5. /\ F.lock = IF E.lock = r THEN "nobody" ELSE E.lock
      /\ F.queue = RemoveFirst(E.queue, r)
      /\ F.pos = IF E.pos = r THEN "nobody" ELSE E.pos
      /\ F.posq = RemoveFirst(E.posq, r)
      /\ F.refs = E.refs - 1
      /\ Shared(r) => F.readers = E.readers - 1 /\ F.done = (E.readers = 1)
      /\ ~Shared(r) => F.readers = E.readers /\ F.done = E.done
      /\ F \in EntryType
  BY <1>1, <1>4, GivenBackFields DEF Lines
<1> HIDE DEF F
<1>6. /\ P[r] = Idle
      /\ \A s \in Requests : s # r =>
             P[s] = IF F.done /\ F.lock = s /\ rq[s].pc = "draining" THEN [rq[s] EXCEPT !.pc = "drained"] ELSE rq[s]
  BY DEF Woken
<1>7. \A s \in Requests : s # r =>
          /\ P[s].kind = rq[s].kind
          /\ P[s].pc = IF F.done /\ F.lock = s /\ rq[s].pc = "draining" THEN "drained" ELSE rq[s].pc
  <2> SUFFICES ASSUME NEW s \in Requests, s # r
               PROVE  /\ P[s].kind = rq[s].kind
                      /\ P[s].pc = IF F.done /\ F.lock = s /\ rq[s].pc = "draining"
                                   THEN "drained" ELSE rq[s].pc
    OBVIOUS
  <2>1. rq[s] \in [pc : PCs, kind : Kinds, e : Entries]
    BY DEF TypeOK
  <2>2. P[s] = IF F.done /\ F.lock = s /\ rq[s].pc = "draining" THEN [rq[s] EXCEPT !.pc = "drained"] ELSE rq[s]
    BY <1>6
  <2> HIDE DEF P
  <2> QED
    BY <2>1, <2>2
<1>8. P[r].pc = "idle" /\ P[r].kind = "read"
  BY <1>6 DEF Idle
<1> HIDE DEF P
<1>9. In(P, "queued") = In(rq, "queued") \ {r} /\ In(P, "posqueued") = In(rq, "posqueued") \ {r}
  BY <1>7, <1>8 DEF In
<1>10. Readers(P) = Readers(rq) \ {r} /\ Referers(P) = Referers(rq) \ {r}
  BY <1>7, <1>8 DEF Readers, Referers, Counted
<1>11. /\ Cardinality(Referers(P)) = F.refs
       /\ Cardinality(Readers(P)) = F.readers
  BY <1>2, <1>3, <1>4, <1>5, <1>10, Counts
<1>12. F.done <=> F.readers = 0
  BY <1>4, <1>5 DEF Match, EntryType
<1>13. \A s \in Requests : (F.lock = s <=> Holds(P[s])) /\ (F.pos = s <=> HoldsPlace(P[s]))
  BY <1>5, <1>7, <1>8, NobodyAssumption DEF Holds, HoldsPlace, Match
<1>14. \A s \in Requests : /\ P[s].pc = "posqueued" => P[s].kind = "position"
                           /\ P[s].pc \in {"draining", "drained"} => P[s].kind = "mutation"
  BY <1>7, <1>8 DEF Match
<1>15. \A s \in Requests : P[s].pc = "draining" => ~F.done
  BY <1>7, <1>8, <1>13, <1>14 DEF Holds
<1>16. \A s \in Requests : Holds(P[s]) /\ P[s].pc # "draining" => F.readers = 0
  <2> SUFFICES ASSUME NEW s \in Requests, Holds(P[s]), P[s].pc # "draining"
               PROVE  F.readers = 0
    OBVIOUS
  <2>1. s # r
    BY <1>8 DEF Holds
  <2>2. CASE rq[s].pc = "draining"
    BY <2>1, <2>2, <1>7, <1>12
  <2>3. CASE rq[s].pc # "draining"
    <3>1. E.readers = 0
      BY <2>1, <2>3, <1>7 DEF Holds, Match
    <3> QED
      BY <3>1, <1>4, <1>5
  <2> QED
    BY <2>2, <2>3
<1>17. Lines(F.queue, In(P, "queued")) /\ Lines(F.posq, In(P, "posqueued"))
  BY <1>1, <1>5, <1>9
<1>18. Match(F, P)
  BY <1>11, <1>12, <1>13, <1>14, <1>15, <1>16, <1>17 DEF Match
<1>19. F.refs = 0 <=> Referers(rq) = {r}
  <2>1. F.refs = Cardinality(Referers(rq) \ {r}) /\ Referers(rq) \ {r} \in SUBSET Requests
    BY <1>10, <1>11, <1>3
  <2>2. F.refs = 0 <=> Referers(rq) \ {r} = {}
    BY <2>1, Counts
  <2> QED
    BY <2>2, <1>3
<1> QED
  BY <1>5, <1>18, <1>19 DEF P, F

-----------------------------------------------------------------------------
(* The invariant *)

\* What typing says of one entry and of the rows.
LEMMA Typed ==
    ASSUME TypeOK
    PROVE  /\ \A e \in Entries : entry[e] \in EntryType
           /\ rq \in [Requests -> RowType]
           /\ \A r \in Requests : rq[r].pc # Asking
<1>1. Cardinality(Requests) \in Nat
  BY RequestsAssumption, FS_CardinalityType
<1>2. \A e \in Entries : entry[e] \in EntryType
  BY <1>1 DEF TypeOK, EntryType
<1>3. \A r \in Requests : rq[r] \in RowType /\ rq[r].pc # Asking
  BY DEF TypeOK, RowType, PCs, Asking
<1> QED
  BY <1>2, <1>3 DEF TypeOK

\* An entry that agrees with the rows keeps within its bounds.
LEMMA Bounded ==
    ASSUME NEW E \in EntryType, NEW Q, Match(E, Q)
    PROVE  E \in [lock : Holder, queue : Seq(Requests), pos : Holder, posq : Seq(Requests),
                  refs : 0..Cardinality(Requests), readers : 0..Cardinality(Requests), done : BOOLEAN]
<1>1. Readers(Q) \in SUBSET Requests /\ Referers(Q) \in SUBSET Requests
  BY DEF Readers, Referers
<1>2. E.readers \in 0..Cardinality(Requests) /\ E.refs \in 0..Cardinality(Requests)
  BY <1>1, Counts DEF Match
<1> QED
  BY <1>2 DEF EntryType

\* Types hold after a step that writes one entry and one row.
LEMMA TypeStep ==
    ASSUME TypeOK, NEW e \in Entries, NEW F \in EntryType, entry' = [entry EXCEPT ![e] = F],
           rq' \in [Requests -> RowType], \A r \in Requests : rq'[r].pc # Asking,
           registry' \in 0..MaxEntries, ahead' \in [Requests -> SUBSET Requests],
           Match(F, rq')
    PROVE  TypeOK'
<1>1. F \in [lock : Holder, queue : Seq(Requests), pos : Holder, posq : Seq(Requests),
             refs : 0..Cardinality(Requests), readers : 0..Cardinality(Requests), done : BOOLEAN]
  BY Bounded
<1>2. entry' \in [Entries -> [lock : Holder, queue : Seq(Requests), pos : Holder,
                              posq : Seq(Requests), refs : 0..Cardinality(Requests),
                              readers : 0..Cardinality(Requests), done : BOOLEAN]]
  BY <1>1 DEF TypeOK
<1>3. \A r \in Requests : rq'[r] \in [pc : PCs, kind : Kinds, e : Entries]
  BY DEF RowType
<1>4. rq' \in [Requests -> [pc : PCs, kind : Kinds, e : Entries]]
  BY <1>3
<1> QED
  BY <1>2, <1>4 DEF TypeOK

\* A request that refers to the entry agrees with it, whether it finds one or makes it.
LEMMA ReferKeeps ==
    ASSUME IInv, NEW r \in Requests, rq[r].pc = "idle", NEW k \in Kinds, NEW e \in Entries,
           registry # 0 => e = registry,
           NEW B, B = IF registry # 0 THEN [entry[e] EXCEPT !.refs = @ + 1] ELSE [Fresh EXCEPT !.refs = 1],
           NEW Q, Q = [rq EXCEPT ![r] = [pc |-> Asking, kind |-> k, e |-> e]]
    PROVE  /\ Match(B, Q) /\ B \in EntryType /\ Q \in [Requests -> RowType]
           /\ registry # 0 => B.queue = entry[e].queue /\ B.lock = entry[e].lock
           /\ registry = 0 => B.queue = <<>> /\ B.lock = "nobody"
<1>1. /\ Q[r].pc = Asking /\ Q[r].kind = k
      /\ \A s \in Requests : s # r => Q[s] = rq[s]
  BY DEF IInv, TypeOK
<1>2. Q \in [Requests -> RowType]
  BY Typed DEF IInv, RowType
<1> USE DEF Asking
<1>3. In(Q, "queued") = In(rq, "queued") /\ In(Q, "posqueued") = In(rq, "posqueued")
  BY <1>1 DEF In
<1>4. Readers(Q) = Readers(rq) /\ Referers(Q) = Referers(rq) \cup {r} /\ r \notin Referers(rq)
  BY <1>1 DEF Readers, Referers, Counted
<1>5. \A s \in Requests : /\ Holds(Q[s]) <=> Holds(rq[s])
                          /\ HoldsPlace(Q[s]) <=> HoldsPlace(rq[s])
                          /\ Q[s].pc \in {"posqueued", "draining", "drained"} => Q[s] = rq[s]
                          /\ Holds(Q[s]) => Q[s] = rq[s]
  BY <1>1 DEF Holds, HoldsPlace
<1>6. Referers(rq) \in SUBSET Requests
  BY DEF Referers
<1>7. CASE registry # 0
  <2>1. Match(entry[e], rq) /\ entry[e] \in EntryType
    BY <1>7, Typed DEF IInv, GateInv
  <2>2. /\ B.queue = entry[e].queue /\ B.posq = entry[e].posq /\ B.lock = entry[e].lock
        /\ B.pos = entry[e].pos /\ B.readers = entry[e].readers /\ B.refs = entry[e].refs + 1
        /\ B.done = entry[e].done
    BY <1>7, <2>1 DEF EntryType
  <2>3. B \in EntryType
    <3>1. entry[e].refs + 1 \in Nat
      BY <2>1 DEF EntryType
    <3> QED
      BY <1>7, <2>1, <3>1 DEF EntryType
  <2>4. Cardinality(Referers(Q)) = B.refs
    <3>1. entry[e].refs = Cardinality(Referers(rq))
      BY <2>1 DEF Match
    <3>2. Cardinality(Referers(rq) \cup {r}) = Cardinality(Referers(rq)) + 1
      BY <1>4, <1>6, Counts
    <3> QED
      BY <1>4, <2>2, <3>1, <3>2
  <2>5. /\ Lines(B.queue, In(Q, "queued")) /\ Lines(B.posq, In(Q, "posqueued"))
        /\ B.readers = Cardinality(Readers(Q)) /\ (B.done <=> B.readers = 0)
    BY <1>3, <1>4, <2>1, <2>2 DEF Match
  <2>6. \A s \in Requests : (B.lock = s <=> Holds(Q[s])) /\ (B.pos = s <=> HoldsPlace(Q[s]))
    BY <1>5, <2>1, <2>2 DEF Match
  <2>7. \A s \in Requests : /\ Q[s].pc = "posqueued" => Q[s].kind = "position"
                            /\ Q[s].pc \in {"draining", "drained"} => Q[s].kind = "mutation"
                            /\ Q[s].pc = "draining" => ~B.done
                            /\ Holds(Q[s]) /\ Q[s].pc # "draining" => B.readers = 0
    BY <1>5, <2>1, <2>2 DEF Match
  <2>8. Match(B, Q)
    BY <2>4, <2>5, <2>6, <2>7 DEF Match
  <2> QED
    BY <1>2, <1>7, <2>2, <2>3, <2>8
<1>8. CASE registry = 0
  <2>1. \A s \in Requests : rq[s].pc = "idle"
    BY <1>8, Typed DEF IInv, GateInv, Active, TypeOK, Entries
  <2>2. /\ B.queue = <<>> /\ B.posq = <<>> /\ B.lock = "nobody" /\ B.pos = "nobody"
        /\ B.readers = 0 /\ B.refs = 1 /\ B.done = TRUE
    BY <1>8 DEF Fresh
  <2>9. B \in EntryType
    <3>1. Fresh \in EntryType /\ Fresh.refs = 0
      BY DEF Fresh, EntryType, Holder
    <3>2. B = [Fresh EXCEPT !.refs = 1]
      BY <1>8
    <3> QED
      BY <3>1, <3>2 DEF EntryType
  <2>3. In(rq, "queued") = {} /\ In(rq, "posqueued") = {} /\ Readers(rq) = {} /\ Referers(rq) = {}
    BY <2>1 DEF In, Readers, Referers, Counted
  <2>4. Lines(<<>>, {})
    BY DEF Lines
  <2>5. Cardinality(Referers(Q)) = 1 /\ Cardinality(Readers(Q)) = 0
    <3>1. Referers(Q) = {r} /\ Readers(Q) = {}
      BY <1>4, <2>3
    <3>2. Cardinality({r}) = 1 /\ Cardinality({}) = 0
      BY FS_EmptySet, FS_Singleton
    <3> QED
      BY <3>1, <3>2
  <2>6. \A s \in Requests : ~Holds(Q[s]) /\ ~HoldsPlace(Q[s])
    BY <1>5, <2>1 DEF Holds, HoldsPlace
  <2>7. \A s \in Requests : Q[s].pc \in {"idle", Asking}
    BY <1>1, <2>1
  <2>8. Match(B, Q)
    <3>1. /\ Lines(B.queue, In(Q, "queued")) /\ Lines(B.posq, In(Q, "posqueued"))
          /\ B.readers = Cardinality(Readers(Q)) /\ B.refs = Cardinality(Referers(Q))
          /\ B.done <=> B.readers = 0
      BY <1>3, <2>2, <2>3, <2>4, <2>5
    <3>2. \A s \in Requests : (B.lock = s <=> Holds(Q[s])) /\ (B.pos = s <=> HoldsPlace(Q[s]))
      BY <2>2, <2>6, NobodyAssumption
    <3>3. \A s \in Requests : /\ Q[s].pc \notin {"posqueued", "draining", "drained"}
                              /\ ~Holds(Q[s])
      BY <2>6, <2>7
    <3> QED
      BY <3>1, <3>2, <3>3 DEF Match
  <2> QED
    BY <1>2, <1>8, <2>2, <2>8, <2>9
<1> QED
  BY <1>7, <1>8

\* Who waits as a mutation holds the lock or stands in the line.
LEMMA WaitersPlaced ==
    ASSUME NEW s \in Requests, NEW E, Waiting(s), Match(E, rq)
    PROVE  /\ rq[s].kind = "mutation"
           /\ (Holds(rq[s]) /\ E.lock = s) \/ s \in In(rq, "queued")
BY DEF Waiting, Match, Holds, In

\* A request that arrives enters, or takes its place in the queue.
LEMMA ArriveKeeps ==
    ASSUME IInv, NEW r \in Requests, NEW k \in Kinds, Arrive(r, k)
    PROVE  IInv'
<1> DEFINE unused == {x \in Entries : \A s \in Requests : rq[s].pc # "idle" => rq[s].e # x}
           e  == IF registry # 0 THEN registry ELSE CHOOSE x \in unused : TRUE
           B  == IF registry # 0 THEN [entry[e] EXCEPT !.refs = @ + 1] ELSE [Fresh EXCEPT !.refs = 1]
           at == IF TakesAtOnce(B.lock, B.queue) THEN Admitted(B, r, k)
                 ELSE [pc |-> "queued", E |-> [B EXCEPT !.queue = Append(@, r)]]
           Q  == [rq EXCEPT ![r] = [pc |-> Asking, kind |-> k, e |-> e]]
           P  == [Q EXCEPT ![r].pc = at.pc]
<1>1. /\ rq[r].pc = "idle"
      /\ registry' = e
      /\ entry' = [entry EXCEPT ![e] = at.E]
      /\ rq' = [rq EXCEPT ![r] = [pc |-> at.pc, kind |-> k, e |-> e]]
      /\ ahead' = [ahead EXCEPT ![r] = {s \in Requests : Waiting(s)}]
      /\ registry # 0 \/ unused # {}
  BY DEF Arrive
<1>2. TypeOK /\ GateInv
  BY DEF IInv
<1>3. e \in Entries /\ e # 0 /\ (registry # 0 => e = registry)
  <2>1. CASE registry # 0
    BY <1>2, <2>1 DEF TypeOK, Entries
  <2>2. CASE registry = 0
    <3>1. e \in unused
      BY <1>1, <2>2
    <3> QED
      BY <3>1, <2>2 DEF Entries
  <2> QED
    BY <2>1, <2>2
<1> HIDE DEF e
<1>4. /\ Match(B, Q) /\ B \in EntryType /\ Q \in [Requests -> RowType]
      /\ registry # 0 => B.queue = entry[e].queue /\ B.lock = entry[e].lock
      /\ registry = 0 => B.queue = <<>> /\ B.lock = "nobody"
  BY <1>1, <1>3, ReferKeeps
<1>5. Q[r].pc = Asking /\ Q[r].kind = k /\ Q[r].e = e /\ \A s \in Requests : s # r => Q[s] = rq[s]
  BY <1>2 DEF TypeOK
<1>6. rq' = P
  BY <1>1, <1>2 DEF TypeOK
<1>7. P[r].pc = at.pc /\ P[r].e = e /\ P[r].kind = k /\ \A s \in Requests : s # r => P[s] = rq[s]
  BY <1>4, <1>5 DEF RowType
<1> HIDE DEF B, Q
<1>8. \A s \in Requests : Waiting(s) =>
          /\ s # r /\ rq[s].kind = "mutation" /\ registry # 0
          /\ (Holds(rq[s]) /\ B.lock = s) \/ (rq[s].pc = "queued" /\ \E i \in 1..Len(B.queue) : B.queue[i] = s)
  <2> SUFFICES ASSUME NEW s \in Requests, Waiting(s)
               PROVE  /\ s # r /\ rq[s].kind = "mutation" /\ registry # 0
                      /\ \/ Holds(rq[s]) /\ B.lock = s
                         \/ rq[s].pc = "queued" /\ \E i \in 1..Len(B.queue) : B.queue[i] = s
    OBVIOUS
  <2>1. s # r /\ Active(s)
    BY <1>1 DEF Waiting, Active
  <2>2. registry # 0
    BY <1>2, <2>1 DEF GateInv, TypeOK, Entries
  <2>3. Match(entry[e], rq)
    BY <1>2, <1>3, <2>2 DEF GateInv
  <2>4. Lines(entry[e].queue, In(rq, "queued"))
    BY <2>3 DEF Match
  <2> QED
    BY <1>4, <2>1, <2>2, <2>3, <2>4, WaitersPlaced DEF Lines, In
<1> DEFINE Good(a, p) ==
        /\ Match(a.E, p) /\ a.E \in EntryType /\ a.pc \in PCs \ {"idle"}
        /\ \A s, t : Before(B.queue, s, t) => Before(a.E.queue, s, t)
        /\ \A s \in Requests : Waiting(s) => AheadOf(r, s, a.E, p)
<1>9. ASSUME TakesAtOnce(B.lock, B.queue) PROVE Good(at, P)
  <2>1. at = Admitted(B, r, k)
    BY <1>9
  <2> HIDE DEF at
  <2>2. /\ Match(at.E, P) /\ at.E \in EntryType /\ at.E.queue = B.queue
        /\ at.pc \in {"in", "posqueued", "draining"}
    BY <1>4, <1>5, <1>9, <2>1, AdmitKeeps DEF TakesAtOnce
  <2>3. \A s \in Requests : ~Waiting(s)
    BY <1>8, <1>9, NobodyAssumption DEF TakesAtOnce
  <2> QED
    BY <2>2, <2>3 DEF PCs
<1>10. ASSUME ~TakesAtOnce(B.lock, B.queue) PROVE Good(at, P)
  <2>1. at.pc = "queued" /\ at.E = [B EXCEPT !.queue = Append(@, r)]
    BY <1>10
  <2> HIDE DEF at
  <2>2. Match(at.E, P)
    <3>1. Match([B EXCEPT !.queue = Append(@, r)], [Q EXCEPT ![r].pc = "queued"])
      BY <1>4, <1>5, QueueKeeps
    <3> QED
      BY <2>1, <3>1
  <2>3. r \notin In(Q, "queued") /\ Lines(B.queue, In(Q, "queued"))
    BY <1>4, <1>5 DEF In, Asking, Match
  <2>4. /\ Lines(Append(B.queue, r), In(Q, "queued") \cup {r})
        /\ \A s, t : Before(B.queue, s, t) => Before(Append(B.queue, r), s, t)
        /\ \A s \in Requests : s \in In(Q, "queued") => Before(Append(B.queue, r), s, r)
    BY <2>3, LinesAppend
  <2>5. at.E \in EntryType /\ at.E.queue = Append(B.queue, r)
    BY <1>4, <2>1, <2>4 DEF EntryType, Lines
  <2>6. ASSUME NEW s \in Requests, Waiting(s) PROVE AheadOf(r, s, at.E, P)
    BY <1>5, <1>7, <1>8, <2>1, <2>4, <2>5, <2>6 DEF AheadOf, In
  <2> QED
    BY <2>1, <2>2, <2>4, <2>5, <2>6 DEF PCs
<1>11. Good(at, P)
  BY <1>9, <1>10
<1> HIDE DEF at, P
<1>12. TypeOK'
  <2>1. rq' \in [Requests -> RowType] /\ \A s \in Requests : rq'[s].pc # Asking
    <3>1. rq' = [rq EXCEPT ![r] = [pc |-> at.pc, kind |-> k, e |-> e]]
      BY <1>1
    <3> QED
      BY <1>2, <1>3, <1>11, <3>1, Typed DEF RowType, PCs, Asking
  <2>2. ahead' \in [Requests -> SUBSET Requests]
    BY <1>1, <1>2 DEF TypeOK
  <2>3. registry' \in 0..MaxEntries
    BY <1>1, <1>3 DEF Entries
  <2>4. Match(at.E, rq') /\ at.E \in EntryType
    BY <1>6, <1>11
  <2>5. entry' = [entry EXCEPT ![e] = at.E]
    BY <1>1
  <2> HIDE DEF Good
  <2> QED
    BY <1>2, <1>3, <2>1, <2>2, <2>3, <2>4, <2>5, TypeStep
<1>13. entry'[e] = at.E /\ registry' = e
  BY <1>1, <1>2, <1>3 DEF TypeOK
<1>14. \A s \in Requests : rq'[s].pc # "idle" => rq'[s].e = e
  <2> SUFFICES ASSUME NEW s \in Requests, P[s].pc # "idle" PROVE P[s].e = e
    BY <1>6
  <2>1. CASE s = r
    BY <1>7, <2>1
  <2>2. CASE s # r
    <3>1. rq[s].e = registry /\ rq[s].e \in Entries /\ P[s] = rq[s]
      BY <1>2, <1>7, <2>2 DEF GateInv, Active, TypeOK
    <3> QED
      BY <1>3, <3>1 DEF Entries
  <2> QED
    BY <2>1, <2>2
<1>15. \E s \in Requests : rq'[s].pc # "idle"
  BY <1>6, <1>7, <1>11
<1>16. ASSUME NEW t \in Requests, NEW s \in ahead'[t]
       PROVE  AheadOf(t, s, at.E, P) /\ P[t].e = e
  <2>1. CASE t = r
    <3>1. ahead'[r] = {u \in Requests : Waiting(u)}
      BY <1>1, <1>2 DEF TypeOK
    <3>2. s \in Requests /\ Waiting(s)
      BY <1>16, <2>1, <3>1
    <3>3. AheadOf(r, s, at.E, P)
      BY <1>11, <3>2
    <3> QED
      BY <1>7, <2>1, <3>3
  <2>2. CASE t # r
    <3>1. s \in ahead[t] /\ s \in Requests
      BY <1>1, <1>2, <1>16, <2>2 DEF TypeOK
    <3>2. AheadOf(t, s, entry[rq[t].e], rq)
      BY <1>2, <3>1 DEF GateInv
    <3>3. Active(t) /\ rq[t].e = e /\ registry # 0
      <4>1. Active(t)
        BY <3>2 DEF AheadOf, Active
      <4>2. rq[t].e = registry /\ rq[t].e \in Entries
        BY <1>2, <4>1 DEF GateInv, TypeOK
      <4> QED
        BY <1>3, <4>1, <4>2 DEF Entries
    <3>4. s # r
      BY <1>1, <3>2 DEF AheadOf, Holds
    <3>5. AheadOf(t, s, at.E, P)
      BY <1>4, <1>7, <1>11, <2>2, <3>1, <3>2, <3>3, <3>4 DEF AheadOf
    <3>6. P[t].e = e
      BY <1>7, <2>2, <3>1, <3>3
    <3> QED
      BY <3>5, <3>6
  <2> QED
    BY <2>1, <2>2
<1>17. GateInv'
  BY <1>6, <1>11, <1>13, <1>14, <1>15, <1>16 DEF GateInv, Active
<1> QED
  BY <1>12, <1>17 DEF IInv

\* What a step of a request that refers to the entry has to show.
LEMMA StepKeeps ==
    ASSUME IInv, NEW r \in Requests, Active(r), NEW F \in EntryType,
           entry' = [entry EXCEPT ![rq[r].e] = F],
           rq' \in [Requests -> RowType], Match(F, rq'),
           \A s \in Requests : /\ rq'[s].pc # Asking
                               /\ rq'[s].pc # "idle" => rq[s].pc # "idle" /\ rq'[s].e = rq[s].e,
           \/ registry' = registry /\ \E s \in Requests : rq'[s].pc # "idle"
           \/ registry' = 0 /\ \A s \in Requests : rq'[s].pc = "idle",
           ahead' \in [Requests -> SUBSET Requests],
           \A t \in Requests : \A s \in ahead'[t] : AheadOf(t, s, F, rq')
    PROVE  IInv'
<1> DEFINE e == rq[r].e
<1>1. TypeOK /\ GateInv
  BY DEF IInv
<1>2. e \in Entries /\ e = registry /\ registry \in 0..MaxEntries
  BY <1>1 DEF TypeOK, GateInv
<1>3. entry'[e] = F
  BY <1>1, <1>2 DEF TypeOK
<1>4. registry' \in 0..MaxEntries
  BY <1>2, MaxEntriesAssumption
<1>5. TypeOK'
  BY <1>1, <1>2, <1>4, TypeStep
<1>6. \A s \in Requests : rq'[s].pc # "idle" => rq'[s].e = e /\ registry' = e
  BY <1>1, <1>2 DEF GateInv, Active
<1>7. \A t \in Requests : \A s \in ahead'[t] : AheadOf(t, s, entry'[rq'[t].e], rq')
  BY <1>3, <1>6 DEF AheadOf
<1>8. registry' # 0 => (\E s \in Requests : rq'[s].pc # "idle") /\ entry'[registry'] = F
  BY <1>2, <1>3
<1>9. GateInv'
  BY <1>6, <1>7, <1>8 DEF GateInv, Active
<1> QED
  BY <1>5, <1>9 DEF IInv

\* A request whose turn has come takes the lock it waited for.
LEMMA ResumeKeeps ==
    ASSUME IInv, NEW r \in Requests, Resume(r)
    PROVE  IInv'
<1> DEFINE e  == rq[r].e
           E  == entry[e]
           B  == [E EXCEPT !.queue = Tail(@)]
           k  == rq[r].kind
           at == Admitted(B, r, k)
           Q  == [rq EXCEPT ![r].pc = Asking]
           P  == [Q EXCEPT ![r].pc = at.pc]
<1>1. /\ rq[r].pc = "queued" /\ E.lock = "nobody" /\ Head(E.queue) = r
      /\ entry' = [entry EXCEPT ![e] = at.E]
      /\ rq' = [rq EXCEPT ![r].pc = at.pc]
      /\ ahead' = IF at.pc = "in" THEN Passed(r) ELSE ahead
      /\ registry' = registry
  BY DEF Resume
<1>2. TypeOK /\ GateInv /\ Active(r)
  BY <1>1 DEF IInv, Active
<1>3. e = registry /\ e \in Entries /\ registry # 0
  BY <1>2 DEF GateInv, TypeOK, Entries
<1>4. Match(E, rq) /\ E \in EntryType /\ rq \in [Requests -> RowType]
  BY <1>2, <1>3, Typed DEF GateInv
<1>5. k \in Kinds
  BY <1>2 DEF TypeOK
<1>6. /\ Lines(E.queue, In(rq, "queued")) /\ r \in In(rq, "queued")
      /\ Lines(Tail(E.queue), In(rq, "queued") \ {r})
      /\ \A s, t : s # r /\ Before(E.queue, s, t) => Before(Tail(E.queue), s, t)
      /\ \A s : ~ Before(E.queue, s, r)
  <2>1. Lines(E.queue, In(rq, "queued")) /\ r \in In(rq, "queued") /\ Head(E.queue) = r
    BY <1>1, <1>4 DEF Match, In
  <2> QED
    BY <2>1, LinesTail
<1>7. /\ B.queue = Tail(E.queue) /\ B.posq = E.posq /\ B.lock = E.lock /\ B.pos = E.pos
      /\ B.readers = E.readers /\ B.refs = E.refs /\ B.done = E.done /\ B \in EntryType
  BY <1>4, <1>6 DEF EntryType, Lines
<1>8. /\ Q[r].pc = Asking /\ Q[r].kind = k /\ Q[r].e = e /\ Q \in [Requests -> RowType]
      /\ \A s \in Requests : s # r => Q[s] = rq[s]
  BY <1>4 DEF RowType
<1>9. rq' = P
  BY <1>1, <1>4 DEF RowType
<1>10. /\ P[r].pc = at.pc /\ P[r].kind = k /\ P[r].e = e
       /\ \A s \in Requests : s # r => P[s] = rq[s]
  BY <1>8 DEF RowType
<1> HIDE DEF B, Q
<1>11. Match(B, Q)
  <2>1. In(Q, "queued") = In(rq, "queued") \ {r} /\ In(Q, "posqueued") = In(rq, "posqueued")
    BY <1>1, <1>8 DEF In, Asking
  <2>2. Readers(Q) = Readers(rq) /\ Referers(Q) = Referers(rq)
    BY <1>1, <1>8 DEF Readers, Referers, Counted, Asking
  <2>3. \A s \in Requests : /\ Holds(Q[s]) <=> Holds(rq[s])
                            /\ HoldsPlace(Q[s]) <=> HoldsPlace(rq[s])
                            /\ Q[s].pc \in {"posqueued", "draining", "drained"} => Q[s] = rq[s]
                            /\ Holds(Q[s]) => Q[s] = rq[s]
    BY <1>1, <1>8 DEF Holds, HoldsPlace, Asking
  <2>4. Lines(B.queue, In(Q, "queued")) /\ Lines(B.posq, In(Q, "posqueued"))
    BY <1>4, <1>6, <1>7, <2>1 DEF Match
  <2>5. B.readers = Cardinality(Readers(Q)) /\ B.refs = Cardinality(Referers(Q)) /\ (B.done <=> B.readers = 0)
    BY <1>4, <1>7, <2>2 DEF Match
  <2>6. \A s \in Requests : (B.lock = s <=> Holds(Q[s])) /\ (B.pos = s <=> HoldsPlace(Q[s]))
    BY <1>4, <1>7, <2>3 DEF Match
  <2>7. \A s \in Requests : /\ Q[s].pc = "posqueued" => Q[s].kind = "position"
                            /\ Q[s].pc \in {"draining", "drained"} => Q[s].kind = "mutation"
                            /\ Q[s].pc = "draining" => ~B.done
                            /\ Holds(Q[s]) /\ Q[s].pc # "draining" => B.readers = 0
    BY <1>4, <1>7, <2>3 DEF Match
  <2> QED
    BY <2>4, <2>5, <2>6, <2>7 DEF Match
<1> DEFINE F == at.E
<1>12. /\ Match(F, P) /\ F \in EntryType /\ F.queue = B.queue
       /\ at.pc \in {"in", "posqueued", "draining"}
  <2>1. at = Admitted(B, r, Q[r].kind) /\ B.lock = "nobody"
    BY <1>1, <1>7, <1>8
  <2> HIDE DEF at
  <2> QED
    BY <1>7, <1>8, <1>11, <2>1, AdmitKeeps
<1>13. at.pc \in {"in", "draining"} \/ k # "mutation"
  BY <1>12 DEF Admitted
<1> HIDE DEF at
<1>14. ASSUME NEW t \in Requests, NEW s \in ahead'[t]
       PROVE  AheadOf(t, s, F, P)
  <2>1. s \in ahead[t] /\ s \in Requests /\ (s = r => at.pc # "in")
    BY <1>1, <1>2, <1>14 DEF TypeOK, Passed
  <2>2. AheadOf(t, s, entry[rq[t].e], rq)
    BY <1>2, <2>1 DEF GateInv
  <2>3. entry[rq[t].e] = E
    BY <1>2, <1>3, <2>2 DEF AheadOf, GateInv, Active
  <2>4. ~Holds(rq[s])
    BY <1>1, <1>4, <2>1, NobodyAssumption DEF Match
  <2>5. Before(E.queue, s, t) /\ t # s /\ rq[s].kind = "mutation" /\ rq[t].pc = "queued" /\ rq[s].pc = "queued"
    BY <2>2, <2>3, <2>4 DEF AheadOf
  <2>6. t # r
    BY <1>6, <2>5
  <2>7. CASE s = r
    BY <1>10, <1>12, <1>13, <2>1, <2>5, <2>6, <2>7 DEF AheadOf, Holds
  <2>8. CASE s # r
    BY <1>6, <1>7, <1>10, <1>12, <2>1, <2>5, <2>6, <2>8 DEF AheadOf
  <2> QED
    BY <2>7, <2>8
<1>15. P \in [Requests -> RowType] /\ \A s \in Requests : P[s].pc # Asking
  <2>1. at.pc \in PCs /\ at.pc # Asking
    BY <1>12 DEF PCs, Asking
  <2> QED
    BY <1>2, <1>8, <2>1, Typed DEF RowType
<1>16. ahead' \in [Requests -> SUBSET Requests]
  BY <1>1, <1>2 DEF TypeOK, Passed
<1>17. \A s \in Requests : rq'[s].pc # "idle" => rq[s].pc # "idle" /\ rq'[s].e = rq[s].e
  BY <1>1, <1>9, <1>10
<1>18. \E s \in Requests : rq'[s].pc # "idle"
  BY <1>9, <1>10, <1>12
<1> HIDE DEF P
<1>19. entry' = [entry EXCEPT ![rq[r].e] = F]
  BY <1>1
<1> HIDE DEF F
<1>20. /\ rq' \in [Requests -> RowType] /\ Match(F, rq') /\ F \in EntryType
       /\ \A s \in Requests : rq'[s].pc # Asking
       /\ \A t \in Requests : \A s \in ahead'[t] : AheadOf(t, s, F, rq')
  BY <1>9, <1>12, <1>14, <1>15
<1> QED
  BY <1>1, <1>2, <1>16, <1>17, <1>18, <1>19, <1>20, StepKeeps

\* A position report whose turn has come takes the progress lock.
LEMMA ResumePositionKeeps ==
    ASSUME IInv, NEW r \in Requests, ResumePosition(r)
    PROVE  IInv'
<1> DEFINE E == entry[rq[r].e]
           F == [E EXCEPT !.pos = r, !.posq = Tail(@)]
<1>1. /\ rq[r].pc = "posqueued" /\ E.pos = "nobody" /\ Head(E.posq) = r
      /\ entry' = [entry EXCEPT ![rq[r].e].pos = r, ![rq[r].e].posq = Tail(@)]
      /\ rq' = [rq EXCEPT ![r].pc = "in"]
      /\ registry' = registry /\ ahead' = ahead
  BY DEF ResumePosition
<1>2. TypeOK /\ GateInv /\ Active(r)
  BY <1>1 DEF IInv, Active
<1>3. rq[r].e = registry /\ rq[r].e \in Entries /\ registry # 0
  BY <1>2 DEF GateInv, TypeOK, Entries
<1>4. Match(E, rq) /\ E \in EntryType /\ rq \in [Requests -> RowType]
  BY <1>2, <1>3, Typed DEF GateInv
<1>5. Match(F, rq') /\ F \in EntryType
  BY <1>1, <1>4, PlaceKeeps
<1>6. entry' = [entry EXCEPT ![rq[r].e] = F]
  BY <1>1, <1>2, <1>3 DEF TypeOK
<1>7. F.queue = E.queue
  BY <1>4 DEF EntryType
<1>8. /\ rq'[r].pc = "in" /\ rq'[r].kind = rq[r].kind /\ rq'[r].e = rq[r].e
      /\ rq[r].kind = "position"
      /\ \A s \in Requests : s # r => rq'[s] = rq[s]
      /\ rq' \in [Requests -> RowType]
  BY <1>1, <1>4 DEF RowType, PCs, Match
<1> HIDE DEF F
<1>9. \A t \in Requests : \A s \in ahead'[t] : AheadOf(t, s, F, rq')
  <2> SUFFICES ASSUME NEW t \in Requests, NEW s \in ahead[t] PROVE AheadOf(t, s, F, rq')
    BY <1>1
  <2>1. AheadOf(t, s, entry[rq[t].e], rq) /\ s \in Requests
    BY <1>2 DEF GateInv, TypeOK
  <2>2. entry[rq[t].e] = E
    BY <1>2, <1>3, <2>1 DEF AheadOf, GateInv, Active
  <2> QED
    BY <1>1, <1>7, <1>8, <2>1, <2>2 DEF AheadOf, Holds
<1>10. \A s \in Requests : /\ rq'[s].pc # Asking
                           /\ rq'[s].pc # "idle" => rq[s].pc # "idle" /\ rq'[s].e = rq[s].e
  BY <1>1, <1>2, <1>8, Typed DEF Asking
<1>11. ahead' \in [Requests -> SUBSET Requests]
  BY <1>1, <1>2 DEF TypeOK
<1> QED
  BY <1>1, <1>2, <1>5, <1>6, <1>8, <1>9, <1>10, <1>11, StepKeeps

\* A request enters once it has what its kind needs.
LEMMA EntersKeeps ==
    ASSUME IInv, NEW r \in Requests, Enter(r)
    PROVE  IInv'
<1> DEFINE E == entry[rq[r].e]
<1>1. /\ rq[r].pc = "drained"
      /\ rq' = [rq EXCEPT ![r].pc = "in"]
      /\ registry' = registry /\ entry' = entry /\ ahead' = Passed(r)
  BY DEF Enter
<1>2. TypeOK /\ GateInv /\ Active(r)
  BY <1>1 DEF IInv, Active
<1>3. rq[r].e = registry /\ rq[r].e \in Entries /\ registry # 0
  BY <1>2 DEF GateInv, TypeOK, Entries
<1>4. Match(E, rq) /\ E \in EntryType /\ rq \in [Requests -> RowType]
  BY <1>2, <1>3, Typed DEF GateInv
<1>5. Match(E, rq')
  BY <1>1, <1>4, EnterKeeps
<1>6. entry' = [entry EXCEPT ![rq[r].e] = E]
  BY <1>1, <1>2, <1>3 DEF TypeOK
<1>8. /\ rq'[r].pc = "in" /\ rq'[r].e = rq[r].e
      /\ \A s \in Requests : s # r => rq'[s] = rq[s]
      /\ rq' \in [Requests -> RowType]
  BY <1>1, <1>4 DEF RowType, PCs
<1>9. \A t \in Requests : \A s \in ahead'[t] : AheadOf(t, s, E, rq')
  <2> SUFFICES ASSUME NEW t \in Requests, NEW s \in ahead[t], s # r PROVE AheadOf(t, s, E, rq')
    BY <1>1 DEF Passed
  <2>1. AheadOf(t, s, entry[rq[t].e], rq) /\ s \in Requests
    BY <1>2 DEF GateInv, TypeOK
  <2>2. entry[rq[t].e] = E
    BY <1>2, <1>3, <2>1 DEF AheadOf, GateInv, Active
  <2> QED
    BY <1>1, <1>8, <2>1, <2>2 DEF AheadOf
<1>10. \A s \in Requests : /\ rq'[s].pc # Asking
                           /\ rq'[s].pc # "idle" => rq[s].pc # "idle" /\ rq'[s].e = rq[s].e
  BY <1>1, <1>2, <1>8, Typed DEF Asking
<1>11. ahead' \in [Requests -> SUBSET Requests]
  BY <1>1, <1>2 DEF TypeOK, Passed
<1> HIDE DEF E
<1> QED
  BY <1>1, <1>2, <1>4, <1>5, <1>6, <1>8, <1>9, <1>10, <1>11, StepKeeps

\* A request that leaves gives everything back.
LEMMA LeavesKeeps ==
    ASSUME IInv, NEW r \in Requests, Active(r), Leave(r)
    PROVE  IInv'
<1> DEFINE E == entry[rq[r].e]
           F == [GivenBack(E, r) EXCEPT !.refs = @ - 1]
<1>1. /\ entry' = [entry EXCEPT ![rq[r].e] = F]
      /\ registry' = IF F.refs = 0 /\ registry = rq[r].e THEN 0 ELSE registry
      /\ rq' = [Woken(F) EXCEPT ![r] = Idle]
      /\ ahead' = [Passed(r) EXCEPT ![r] = {}]
  BY DEF Leave, Forget
<1>2. TypeOK /\ GateInv
  BY DEF IInv
<1>3. rq[r].e = registry /\ rq[r].e \in Entries /\ registry # 0
  BY <1>2 DEF GateInv, TypeOK, Entries
<1>4. Match(E, rq) /\ E \in EntryType
  BY <1>2, <1>3, Typed DEF GateInv
<1>5. /\ Match(F, rq') /\ F \in EntryType
      /\ F.queue = RemoveFirst(E.queue, r) /\ (F.refs = 0 <=> Referers(rq) = {r})
  BY <1>1, <1>2, <1>4, LeaveKeeps
<1> HIDE DEF F
<1>6. /\ rq'[r] = Idle
      /\ \A s \in Requests : s # r =>
             rq'[s] = IF F.done /\ F.lock = s /\ rq[s].pc = "draining" THEN [rq[s] EXCEPT !.pc = "drained"] ELSE rq[s]
  BY <1>1 DEF Woken
<1>7. rq' \in [Requests -> RowType]
  <2>1. Idle \in RowType
    BY MaxEntriesAssumption DEF Idle, RowType, PCs, Kinds, Entries
  <2>2. \A s \in Requests : rq'[s] \in RowType
    <3> SUFFICES ASSUME NEW s \in Requests, s # r PROVE rq'[s] \in RowType
      BY <1>6, <2>1
    <3>1. rq[s] \in RowType
      BY <1>2, Typed
    <3>2. [rq[s] EXCEPT !.pc = "drained"] \in RowType
      BY <3>1 DEF RowType, PCs
    <3> QED
      BY <1>6, <3>1, <3>2
  <2>3. DOMAIN rq' = Requests /\ rq' = [s \in Requests |-> rq'[s]]
    BY <1>1 DEF Woken
  <2> QED
    BY <2>2, <2>3
<1>8. \A s \in Requests : s # r =>
          /\ rq'[s].kind = rq[s].kind /\ rq'[s].e = rq[s].e
          /\ rq'[s].pc = rq[s].pc \/ (rq[s].pc = "draining" /\ rq'[s].pc = "drained")
  <2> SUFFICES ASSUME NEW s \in Requests, s # r
               PROVE  /\ rq'[s].kind = rq[s].kind /\ rq'[s].e = rq[s].e
                      /\ rq'[s].pc = rq[s].pc \/ (rq[s].pc = "draining" /\ rq'[s].pc = "drained")
    OBVIOUS
  <2>1. rq[s] \in RowType
    BY <1>2, Typed
  <2>2. rq[s].pc = "draining" => [rq[s] EXCEPT !.pc = "drained"].pc = "drained"
    BY <2>1 DEF RowType
  <2>3. [rq[s] EXCEPT !.pc = "drained"].kind = rq[s].kind /\ [rq[s] EXCEPT !.pc = "drained"].e = rq[s].e
    BY <2>1 DEF RowType
  <2>4. CASE F.done /\ F.lock = s /\ rq[s].pc = "draining"
    BY <1>6, <2>2, <2>3, <2>4
  <2>5. CASE ~(F.done /\ F.lock = s /\ rq[s].pc = "draining")
    BY <1>6, <2>5
  <2> QED
    BY <2>4, <2>5
<1>9. rq'[r].pc = "idle"
  BY <1>6 DEF Idle
<1>10. \A s \in Requests : /\ rq'[s].pc # Asking
                           /\ rq'[s].pc # "idle" => rq[s].pc # "idle" /\ rq'[s].e = rq[s].e
  BY <1>2, <1>8, <1>9, Typed DEF Asking
<1>11. \/ registry' = registry /\ \E s \in Requests : rq'[s].pc # "idle"
       \/ registry' = 0 /\ \A s \in Requests : rq'[s].pc = "idle"
  <2>1. CASE F.refs = 0
    <3>1. \A s \in Requests : s # r => rq[s].pc = "idle"
      BY <1>5, <2>1 DEF Referers
    <3> QED
      BY <1>1, <1>3, <1>8, <1>9, <2>1, <3>1
  <2>2. CASE F.refs # 0
    <3>1. r \in Referers(rq) /\ Referers(rq) # {r}
      BY <1>5, <2>2 DEF Referers, Active
    <3>2. PICK s \in Requests : s # r /\ rq[s].pc # "idle"
      BY <3>1 DEF Referers
    <3> QED
      BY <1>1, <1>8, <2>2, <3>2
  <2> QED
    BY <2>1, <2>2
<1>12. \A s, t : s # r /\ t # r /\ Before(E.queue, s, t) => Before(F.queue, s, t)
  <2>1. Lines(E.queue, In(rq, "queued"))
    BY <1>4 DEF Match
  <2> HIDE DEF E
  <2> QED
    BY <1>5, <2>1, LinesRemove
<1>13. \A t \in Requests : \A s \in ahead'[t] : AheadOf(t, s, F, rq')
  <2> SUFFICES ASSUME NEW t \in Requests, NEW s \in ahead'[t] PROVE AheadOf(t, s, F, rq')
    OBVIOUS
  <2>1. s \in ahead[t] /\ s # r /\ t # r /\ s \in Requests
    BY <1>1, <1>2 DEF Passed, TypeOK
  <2>2. AheadOf(t, s, entry[rq[t].e], rq)
    BY <1>2, <2>1 DEF GateInv
  <2>3. entry[rq[t].e] = E
    BY <1>2, <1>3, <2>2 DEF AheadOf, GateInv, Active
  <2> QED
    BY <1>8, <1>12, <2>1, <2>2, <2>3 DEF AheadOf, Holds
<1>14. ahead' \in [Requests -> SUBSET Requests]
  BY <1>1, <1>2 DEF TypeOK, Passed
<1> HIDE DEF E
<1> QED
  BY <1>1, <1>5, <1>7, <1>10, <1>11, <1>13, <1>14, StepKeeps

\* Nobody refers to an entry at first.
LEMMA GateInit == Init => IInv
<1> SUFFICES ASSUME Init PROVE IInv
  OBVIOUS
<1>1. Cardinality(Requests) \in Nat
  BY RequestsAssumption, FS_CardinalityType
<1>2. TypeOK
  <2>1. Fresh \in [lock : Holder, queue : Seq(Requests), pos : Holder, posq : Seq(Requests),
                   refs : 0..Cardinality(Requests), readers : 0..Cardinality(Requests), done : BOOLEAN]
    BY <1>1 DEF Fresh, Holder
  <2>2. Idle \in [pc : PCs, kind : Kinds, e : Entries]
    BY MaxEntriesAssumption DEF Idle, PCs, Kinds, Entries
  <2> QED
    BY <2>1, <2>2, MaxEntriesAssumption DEF Init, TypeOK
<1>3. GateInv
  BY DEF Init, GateInv, Active, Idle
<1> QED
  BY <1>2, <1>3 DEF IInv

\* Every step of every coroutine keeps the invariant.
LEMMA GateNext == IInv /\ [Next]_vars => IInv'
<1> SUFFICES ASSUME IInv, [Next]_vars PROVE IInv'
  OBVIOUS
<1>1. ASSUME NEW r \in Requests, Resume(r) PROVE IInv'
  BY <1>1, ResumeKeeps
<1>2. ASSUME NEW r \in Requests, ResumePosition(r) PROVE IInv'
  BY <1>2, ResumePositionKeeps
<1>3. ASSUME NEW r \in Requests, Enter(r) PROVE IInv'
  BY <1>3, EntersKeeps
<1>4. ASSUME NEW r \in Requests, Finish(r) PROVE IInv'
  BY <1>4, LeavesKeeps DEF Finish, Active
<1>5. ASSUME NEW r \in Requests, Cancel(r) PROVE IInv'
  BY <1>5, LeavesKeeps DEF Cancel, Active
<1>6. ASSUME NEW r \in Requests, NEW k \in Kinds, Arrive(r, k) PROVE IInv'
  BY <1>6, ArriveKeeps
<1>7. CASE UNCHANGED vars
  BY <1>7 DEF vars, IInv, TypeOK, GateInv, Active, Match, In, Readers, Referers, AheadOf
<1> QED
  BY <1>1, <1>2, <1>3, <1>4, <1>5, <1>6, <1>7 DEF Next, Step

\* Who is in excludes whom it has to.
LEMMA MatchCompatible ==
    ASSUME IInv
    PROVE  Compatible
<1> SUFFICES ASSUME NEW r \in Requests, NEW s \in Requests, Inside(r), Inside(s), r # s
             PROVE  rq[r].kind # "mutation" /\ ~(rq[r].kind = "position" /\ rq[s].kind = "position")
  BY DEF Compatible
<1> DEFINE E == entry[registry]
<1>1. Match(E, rq) /\ TypeOK
  <2>1. rq[r].e = registry /\ rq[r].e \in Entries /\ TypeOK
    BY DEF IInv, GateInv, Inside, Active, TypeOK
  <2> QED
    BY <2>1 DEF IInv, GateInv, Entries
<1>2. Readers(rq) \in SUBSET Requests
  BY DEF Readers
<1>3. ~(rq[r].kind = "position" /\ rq[s].kind = "position")
  BY <1>1 DEF Match, HoldsPlace, Inside
<1>4. ASSUME rq[r].kind = "mutation" PROVE FALSE
  <2>1. E.lock = r /\ E.readers = 0
    BY <1>1, <1>4 DEF Match, Holds, Inside
  <2>2. Readers(rq) = {}
    BY <1>1, <1>2, <2>1, Counts DEF Match
  <2>3. rq[s].kind = "mutation"
    BY <2>2 DEF Readers, Counted, Inside
  <2> QED
    BY <1>1, <2>1, <2>3 DEF Match, Holds, Inside
<1> QED
  BY <1>3, <1>4

\* The invariant implies what the gate promises.
LEMMA GateImplies == IInv => OrderlyBook
<1> SUFFICES ASSUME IInv PROVE OrderlyBook
  OBVIOUS
<1>1. TypeOK /\ GateInv
  BY DEF IInv
<1>2. OneEntry
  <2>1. Referers(rq) = {r \in Requests : Active(r)}
    BY DEF Referers, Active
  <2> QED
    BY <1>1, <2>1 DEF OneEntry, GateInv, Match
<1>3. NoOvertaking
  BY <1>1 DEF NoOvertaking, GateInv, AheadOf, Inside, TypeOK
<1> QED
  BY <1>1, <1>2, <1>3, MatchCompatible DEF OrderlyBook

\* The invariant holds always.
THEOREM GateInductive == Spec => []IInv
BY GateInit, GateNext, PTL DEF Spec

\* The request gate keeps order for any number of requests (book_lifecycle in
\* deps.py): a mutation has the book to itself and position reports come one by
\* one, all requests meet at one entry that lives exactly as long as somebody
\* refers to it, and nobody overtakes a mutation that was already waiting.
THEOREM GateOrder == Spec => []OrderlyBook
BY GateInductive, GateImplies, PTL
-----------------------------------------------------------------------------
(* The registry of the hosted mode                                          *)

CallPCs == {"new", "waits", "inside", "reserves", "calls", "settles", "answered", "over", "forgets",
            "keeps", "done"}
CallRec == [pc : CallPCs, route : Routes, n : 0..MaxCalls, at : 0..Chapters, sources : SUBSET (1..Chapters),
            beyond : {0, 1}, seen : [Phases -> Nat], phase : Phases, try : {1, 2}]
LockRec == [key : {"book", "other"}, n : Calls, leases : Nat]

HostedTyped ==
  /\ mode \in {"local", "hosted"}
  /\ locks \in Seq(LockRec)
  /\ cache \subseteq 0..Chapters
  /\ runtime \in {"open", "closing", "closed", "exited"}
  /\ call \in [Calls -> CallRec]
  /\ book \in [live : BOOLEAN, bookmark : 0..Chapters]
  /\ setting \in [Phases -> [ready : BOOLEAN, stamp : Nat]]

\* A request that holds or awaits the lock of the book.
OnBook(c) == \/ c.pc \in {"waits", "inside"} /\ c.route # "other"
             \/ c.pc \in {"reserves", "calls", "settles", "answered", "forgets", "keeps"}

\* What a request carries is of its stage: a lock from its arrival until it leaves, a
\* chapter until it acts on one, passages from their reading until the answer is sent.
CallOK(c) ==
  /\ c.pc \in {"new", "done"} <=> c.n = 0
  /\ c.sources # {} => c.pc \in {"reserves", "calls", "settles", "answered"}
  /\ c.pc \in {"waits", "inside"} => c.at \in 1..Chapters

\* The requests c whose lock object is number n.
Lessees(c, n) == {r \in Calls : c[r].n = n}

\* The registry of locks ls and the requests c agree: one entry for a key and for a
\* lock object, leased as often as requests refer to it, and the object of a request
\* is still there, for the book's requests under the book's key.
EntriesDiffer(ls) == \A i, k \in DOMAIN ls : ls[i].key = ls[k].key \/ ls[i].n = ls[k].n => i = k
LeasesCounted(ls, c) == \A i \in DOMAIN ls : ls[i].leases = Cardinality(Lessees(c, ls[i].n))
NumbersUsed(ls, c) == \A i \in DOMAIN ls : c[ls[i].n].pc # "new"
LocksKept(ls, c) == \A r \in Calls : c[r].n # 0 =>
                      \E i \in DOMAIN ls : ls[i].n = c[r].n /\ (OnBook(c[r]) => ls[i].key = "book")
Registry(ls, c) == EntriesDiffer(ls) /\ LeasesCounted(ls, c) /\ NumbersUsed(ls, c) /\ LocksKept(ls, c)

\* A lock object admits one request at a time.
Exclusive(c) == \A r, s \in Calls : r # s /\ c[r].n = c[s].n /\ c[r].n # 0 => "waits" \in {c[r].pc, c[s].pc}

-----------------------------------------------------------------------------
(* The registry *)

\* An entry that is removed closes the gap it leaves.
LEMMA RemoveAtCloses ==
  ASSUME NEW T, NEW ls \in Seq(T), NEW k \in 1..Len(ls)
  PROVE  /\ RemoveAt(ls, k) \in Seq(T) /\ Len(RemoveAt(ls, k)) = Len(ls) - 1
         /\ \A i \in 1..(Len(ls) - 1) : RemoveAt(ls, k)[i] = IF i < k THEN ls[i] ELSE ls[i + 1]
<1> DEFINE a == SubSeq(ls, 1, k - 1)
           b == SubSeq(ls, k + 1, Len(ls))
<1>1. a \in Seq(T) /\ Len(a) = k - 1 /\ \A i \in 1..(k - 1) : a[i] = ls[i]
  BY SubSeqProperties
<1>2. b \in Seq(T) /\ Len(b) = Len(ls) - k /\ \A i \in 1..(Len(ls) - k) : b[i] = ls[k + i]
  BY SubSeqProperties
<1> HIDE DEF a, b
<1>3. /\ a \o b \in Seq(T) /\ Len(a \o b) = Len(a) + Len(b)
      /\ \A i \in 1..(Len(a) + Len(b)) : (a \o b)[i] = IF i <= Len(a) THEN a[i] ELSE b[i - Len(a)]
  <2>1. a \in Seq(T) /\ b \in Seq(T)
    BY <1>1, <1>2
  <2> QED
    BY <2>1, ConcatProperties
<1>4. Len(ls) \in Nat /\ k \in Nat
  OBVIOUS
<1>5. ASSUME NEW i \in 1..(Len(ls) - 1)
      PROVE  (a \o b)[i] = IF i < k THEN ls[i] ELSE ls[i + 1]
  <2>1. CASE i < k
    BY <2>1, <1>1, <1>2, <1>3, <1>4
  <2>2. CASE i >= k
    <3>1. i - Len(a) \in 1..(Len(ls) - k) /\ k + (i - Len(a)) = i + 1 /\ ~(i <= Len(a))
      BY <2>2, <1>1, <1>4
    <3>2. i \in 1..(Len(a) + Len(b))
      BY <1>1, <1>2, <1>4
    <3>3. (a \o b)[i] = b[i - Len(a)]
      BY <1>3, <3>1, <3>2
    <3>4. b[i - Len(a)] = ls[k + (i - Len(a))]
      BY <1>2, <3>1
    <3> QED
      BY <2>2, <1>4, <3>1, <3>3, <3>4
  <2>3. i < k \/ i >= k
    BY <1>4
  <2> QED
    BY <2>1, <2>2, <2>3
<1>6. RemoveAt(ls, k) = a \o b
  BY DEF RemoveAt, a, b
<1>7. Len(a \o b) = Len(ls) - 1
  BY <1>1, <1>2, <1>3, <1>4
<1> QED
  BY <1>3, <1>5, <1>6, <1>7

\* The entries of rest are those that ls has at the indices of S.
Mirrors(rest, ls, S) ==
  /\ \A i \in DOMAIN rest : \E j \in S : rest[i] = ls[j]
  /\ \A j \in S : \E i \in DOMAIN rest : rest[i] = ls[j]
  /\ \A i, m \in DOMAIN rest : i # m => \E j, l \in S : j # l /\ rest[i] = ls[j] /\ rest[m] = ls[l]

\* What is left of the entries when one is removed.
LEMMA RemoveAtKeeps ==
  ASSUME NEW T, NEW ls \in Seq(T), NEW k \in 1..Len(ls)
  PROVE  Mirrors(RemoveAt(ls, k), ls, DOMAIN ls \ {k})
<1> DEFINE rest == RemoveAt(ls, k)
           From(i) == IF i < k THEN i ELSE i + 1
<1>1. /\ rest \in Seq(T) /\ Len(rest) = Len(ls) - 1
      /\ \A i \in 1..(Len(ls) - 1) : rest[i] = IF i < k THEN ls[i] ELSE ls[i + 1]
  BY RemoveAtCloses
<1> HIDE DEF rest
<1>2. DOMAIN rest = 1..(Len(ls) - 1) /\ DOMAIN ls = 1..Len(ls) /\ Len(ls) \in Nat /\ k \in Nat
  BY <1>1
<1>3. \A i \in DOMAIN rest : From(i) \in DOMAIN ls \ {k} /\ rest[i] = ls[From(i)]
  BY <1>1, <1>2
<1>4. \A i, m \in DOMAIN rest : i # m => From(i) # From(m)
  BY <1>2
<1>5. \A j \in DOMAIN ls \ {k} : \E i \in DOMAIN rest : rest[i] = ls[j]
  <2> SUFFICES ASSUME NEW j \in DOMAIN ls \ {k} PROVE \E i \in DOMAIN rest : rest[i] = ls[j]
    OBVIOUS
  <2>1. CASE j < k
    BY <1>1, <1>2, <2>1
  <2>2. CASE j > k
    <3>1. j - 1 \in DOMAIN rest /\ rest[j - 1] = ls[j - 1 + 1] /\ j - 1 + 1 = j
      BY <1>1, <1>2, <2>2
    <3> QED
      BY <3>1
  <2> QED
    BY <1>2, <2>1, <2>2
<1> HIDE DEF From
<1> QED
  BY <1>3, <1>4, <1>5 DEF rest, Mirrors

\* Requests are numbered, and finitely many.
LEMMA CallsFinite == IsFiniteSet(Calls) /\ Calls \subseteq Nat /\ 0 \notin Calls
BY HostedAssumption, FS_Interval DEF Calls

\* No lease of an entry that is removed: only an idle one goes.
LEMMA TrimOneKeeps ==
  ASSUME NEW ls \in Seq(LockRec), NEW c \in [Calls -> CallRec], Registry(ls, c)
  PROVE  TrimOne(ls) \in Seq(LockRec) /\ Registry(TrimOne(ls), c)
<1> DEFINE I == {i \in 1..Len(ls) : ls[i].leases = 0}
           k == Idlest(ls)
           rest == RemoveAt(ls, k)
<1>1. k = IF I # {} THEN Min(I) ELSE 0
  BY DEF Idlest, SelectInSeq
<1>2. I # {} => k \in I
  <2>1. I \subseteq Nat
    OBVIOUS
  <2>2. I # {} => \E n \in I : \A m \in I : n <= m
    BY <2>1, LeastNat
  <2> QED
    BY <1>1, <2>2 DEF Min
<1>3. CASE TrimOne(ls) = ls
  BY <1>3
<1>4. CASE TrimOne(ls) = rest /\ k # 0
  <2>1. k \in 1..Len(ls) /\ ls[k].leases = 0
    BY <1>1, <1>2, <1>4
  <2> HIDE DEF k
  <2>2. Mirrors(rest, ls, DOMAIN ls \ {k})
    BY <2>1, RemoveAtKeeps
  <2>3. rest \in Seq(LockRec)
    BY <2>1, RemoveAtCloses
  <2> HIDE DEF rest
  <2>4. EntriesDiffer(rest)
    <3> SUFFICES ASSUME NEW i \in DOMAIN rest, NEW m \in DOMAIN rest, i # m
                 PROVE  rest[i].key # rest[m].key /\ rest[i].n # rest[m].n
      BY DEF EntriesDiffer
    <3>1. PICK j \in DOMAIN ls \ {k}, l \in DOMAIN ls \ {k} : j # l /\ rest[i] = ls[j] /\ rest[m] = ls[l]
      BY <2>2 DEF Mirrors
    <3>2. j \in DOMAIN ls /\ l \in DOMAIN ls
      OBVIOUS
    <3> QED
      BY <3>1, <3>2 DEF Registry, EntriesDiffer
  <2>5. LeasesCounted(rest, c) /\ NumbersUsed(rest, c)
    BY <2>2 DEF Mirrors, Registry, LeasesCounted, NumbersUsed
  <2>6. Lessees(c, ls[k].n) = {}
    <3>1. IsFiniteSet(Lessees(c, ls[k].n))
      BY CallsFinite, FS_Subset DEF Lessees
    <3>2. Cardinality(Lessees(c, ls[k].n)) = 0
      BY <2>1 DEF Registry, LeasesCounted
    <3> QED
      BY <3>1, <3>2, FS_EmptySet
  <2>7. LocksKept(rest, c)
    <3> SUFFICES ASSUME NEW r \in Calls, c[r].n # 0
                 PROVE  \E i \in DOMAIN rest : rest[i].n = c[r].n /\ (OnBook(c[r]) => rest[i].key = "book")
      BY DEF LocksKept
    <3>1. PICK j \in DOMAIN ls : ls[j].n = c[r].n /\ (OnBook(c[r]) => ls[j].key = "book")
      BY DEF Registry, LocksKept
    <3>2. j # k
      BY <2>6, <3>1 DEF Lessees
    <3>3. PICK i \in DOMAIN rest : rest[i] = ls[j]
      BY <2>2, <3>2 DEF Mirrors
    <3> QED
      BY <3>1, <3>3
  <2> QED
    BY <1>4, <2>3, <2>4, <2>5, <2>7 DEF Registry
<1> QED
  BY <1>3, <1>4 DEF TrimOne

\* The turns of _trim_idle_locks, the first of them on ls.
Turns(ls) == CHOOSE after : after = [k \in 0..Len(ls) |-> IF k = 0 THEN ls ELSE TrimOne(after[k - 1])]

\* There is such a function: the least number of turns without one would follow a
\* number that has one.
LEMMA TurnsExist ==
  ASSUME NEW ls \in Seq(LockRec)
  PROVE  Turns(ls) = [k \in 0..Len(ls) |-> IF k = 0 THEN ls ELSE TrimOne(Turns(ls)[k - 1])]
<1> DEFINE Solves(f, m) == f = [k \in 0..m |-> IF k = 0 THEN ls ELSE TrimOne(f[k - 1])]
           Unsolved == {m \in Nat : ~\E f : Solves(f, m)}
<1>1. \E f : Solves(f, 0)
  <2>1. Solves([k \in 0..0 |-> ls], 0)
    OBVIOUS
  <2> QED
    BY <2>1
<1>2. ASSUME NEW m \in Nat \ {0}, NEW g, Solves(g, m - 1)
      PROVE  \E f : Solves(f, m)
  <2> DEFINE f == [k \in 0..m |-> IF k < m THEN g[k] ELSE TrimOne(g[m - 1])]
  <2>1. \A k \in 0..(m - 1) : g[k] = IF k = 0 THEN ls ELSE TrimOne(g[k - 1])
    BY <1>2
  <2>2. \A k \in 0..m : f[k] = IF k = 0 THEN ls ELSE TrimOne(f[k - 1])
    BY <2>1
  <2> HIDE DEF f
  <2>3. f = [k \in 0..m |-> f[k]]
    BY DEF f
  <2>4. Solves(f, m)
    BY <2>2, <2>3
  <2> QED
    BY <2>4
<1>3. Unsolved = {}
  <2> SUFFICES ASSUME Unsolved # {} PROVE FALSE
    OBVIOUS
  <2> HIDE DEF Solves
  <2>1. PICK m \in Unsolved : \A k \in Unsolved : m <= k
    BY LeastNat
  <2>2. m \in Nat \ {0} /\ m - 1 \in Nat
    BY <1>1, <2>1
  <2>3. \E g : Solves(g, m - 1)
    BY <2>1, <2>2
  <2> QED
    BY <1>2, <2>1, <2>2, <2>3
<1>4. Len(ls) \in Nat
  OBVIOUS
<1>5. \E f : Solves(f, Len(ls))
  <2> HIDE DEF Solves
  <2> QED
    BY <1>3, <1>4
<1> QED
  BY <1>5 DEF Turns

\* However many idle entries the registry drops, it stays true to the requests.
LEMMA TrimmedKeeps ==
  ASSUME NEW ls \in Seq(LockRec), NEW c \in [Calls -> CallRec], Registry(ls, c)
  PROVE  Trimmed(ls) \in Seq(LockRec) /\ Registry(Trimmed(ls), c)
<1> DEFINE after == Turns(ls)
           Good(k) == after[k] \in Seq(LockRec) /\ Registry(after[k], c)
           Wrong == {k \in Nat : k <= Len(ls) /\ ~Good(k)}
<1>1. Trimmed(ls) = after[Len(ls)]
  BY DEF Trimmed, Turns
<1>2. after = [k \in 0..Len(ls) |-> IF k = 0 THEN ls ELSE TrimOne(after[k - 1])]
  BY TurnsExist
<1> HIDE DEF after
<1>3. Good(0)
  BY <1>2
<1>4. \A k \in 1..Len(ls) : Good(k - 1) => Good(k)
  BY <1>2, TrimOneKeeps
<1>5. Len(ls) \in Nat
  OBVIOUS
<1> HIDE DEF Good
<1>6. Wrong = {}
  <2> SUFFICES ASSUME Wrong # {} PROVE FALSE
    OBVIOUS
  <2>1. PICK k \in Wrong : \A m \in Wrong : k <= m
    BY LeastNat
  <2>2. k \in 1..Len(ls)
    BY <1>3, <1>5, <2>1
  <2>3. Good(k - 1)
    BY <1>5, <2>1, <2>2
  <2> QED
    BY <1>4, <2>1, <2>2, <2>3
<1>7. Good(Len(ls))
  BY <1>5, <1>6
<1> QED
  BY <1>1, <1>7 DEF Good

\* One request more, or one less, refers to a lock object.
LEMMA LesseeChanges ==
  ASSUME NEW c \in [Calls -> CallRec], NEW r \in Calls, NEW x \in CallRec, NEW n \in Calls
  PROVE  LET d == [c EXCEPT ![r] = x]
         IN  /\ Cardinality(Lessees(c, n)) \in Nat
             /\ x.n = n /\ c[r].n # n => Cardinality(Lessees(d, n)) = Cardinality(Lessees(c, n)) + 1
             /\ x.n # n /\ c[r].n = n => Cardinality(Lessees(d, n)) = Cardinality(Lessees(c, n)) - 1
             /\ (x.n = n <=> c[r].n = n) => Lessees(d, n) = Lessees(c, n)
<1> DEFINE d == [c EXCEPT ![r] = x]
<1>1. \A s \in Calls : d[s] = IF s = r THEN x ELSE c[s]
  OBVIOUS
<1> HIDE DEF d
<1>2. IsFiniteSet(Lessees(c, n))
  BY CallsFinite, FS_Subset DEF Lessees
<1>3. ASSUME x.n = n, c[r].n # n
      PROVE  Cardinality(Lessees(d, n)) = Cardinality(Lessees(c, n)) + 1
  <2>1. Lessees(d, n) = Lessees(c, n) \union {r} /\ r \notin Lessees(c, n)
    BY <1>1, <1>3 DEF Lessees
  <2> QED
    BY <1>2, <2>1, FS_AddElement
<1>4. ASSUME x.n # n, c[r].n = n
      PROVE  Cardinality(Lessees(d, n)) = Cardinality(Lessees(c, n)) - 1
  <2>1. Lessees(d, n) = Lessees(c, n) \ {r} /\ r \in Lessees(c, n)
    BY <1>1, <1>4 DEF Lessees
  <2> QED
    BY <1>2, <2>1, FS_RemoveElement
<1>5. (x.n = n <=> c[r].n = n) => Lessees(d, n) = Lessees(c, n)
  BY <1>1 DEF Lessees
<1> QED
  BY <1>2, <1>3, <1>4, <1>5, FS_CardinalityType DEF d

\* An arrival leases the entry e, a new one or one it has moved to the end.
LEMMA LeasedKeeps ==
  ASSUME NEW ls \in Seq(LockRec), NEW c \in [Calls -> CallRec], Registry(ls, c),
         NEW rest \in Seq(LockRec), NEW S \in SUBSET DOMAIN ls, Mirrors(rest, ls, S), NEW e \in LockRec,
         NEW r \in Calls, NEW x \in CallRec, c[r].n = 0, x.n = e.n, x.pc # "new", OnBook(x) => e.key = "book",
         \A j \in S : ls[j].key # e.key /\ ls[j].n # e.n,
         \A j \in DOMAIN ls \ S : ls[j].key = e.key /\ ls[j].n = e.n,
         e.leases = Cardinality(Lessees(c, e.n)) + 1,
         c[e.n].pc # "new" \/ e.n = r
  PROVE  /\ Append(rest, e) \in Seq(LockRec)
         /\ Registry(Append(rest, e), [c EXCEPT ![r] = x])
<1> DEFINE d == [c EXCEPT ![r] = x]
           new == Append(rest, e)
           last == Len(rest) + 1
<1>1. \A s \in Calls : d[s] = IF s = r THEN x ELSE c[s]
  OBVIOUS
<1>2. /\ new \in Seq(LockRec) /\ DOMAIN new = DOMAIN rest \union {last} /\ last \notin DOMAIN rest
      /\ new[last] = e /\ \A i \in DOMAIN rest : new[i] = rest[i]
  BY AppendProperties
<1>3. \A j \in DOMAIN ls : ls[j] \in LockRec /\ ls[j].n \in Calls
  <2>1. \A j \in DOMAIN ls : ls[j] \in LockRec
    BY ElementOfSeq
  <2> QED
    BY <2>1 DEF LockRec
<1>4. e.n \in Calls /\ x.n # 0
  BY CallsFinite DEF LockRec
<1>5. Cardinality(Lessees(d, e.n)) = e.leases
  BY <1>4, LesseeChanges
<1>6. \A j \in S : Cardinality(Lessees(d, ls[j].n)) = Cardinality(Lessees(c, ls[j].n))
  <2> SUFFICES ASSUME NEW j \in S PROVE Lessees(d, ls[j].n) = Lessees(c, ls[j].n)
    OBVIOUS
  <2>1. ls[j].n \in Calls /\ x.n # ls[j].n /\ c[r].n # ls[j].n
    BY <1>3, CallsFinite
  <2> QED
    BY <2>1, LesseeChanges
<1> HIDE DEF new, last, d
<1>7. \A i \in DOMAIN new : i # last => \E j \in S : new[i] = ls[j]
  <2>1. \A i \in DOMAIN rest : \E j \in S : rest[i] = ls[j]
    BY DEF Mirrors
  <2> SUFFICES ASSUME NEW i \in DOMAIN new, i # last PROVE \E j \in S : new[i] = ls[j]
    OBVIOUS
  <2>2. i \in DOMAIN rest /\ new[i] = rest[i]
    BY <1>2
  <2> QED
    BY <2>1, <2>2
<1>8. \A j \in S : \E i \in DOMAIN new : new[i] = ls[j]
  BY <1>2 DEF Mirrors
<1>9. EntriesDiffer(new)
  <2> SUFFICES ASSUME NEW i \in DOMAIN new, NEW k \in DOMAIN new, i # k
               PROVE  new[i].key # new[k].key /\ new[i].n # new[k].n
    BY DEF EntriesDiffer
  <2>1. CASE i = last \/ k = last
    BY <1>2, <1>7, <2>1
  <2>2. CASE i # last /\ k # last
    <3>1. PICK j \in S, l \in S : j # l /\ rest[i] = ls[j] /\ rest[k] = ls[l]
      BY <1>2, <2>2 DEF Mirrors
    <3>2. j \in DOMAIN ls /\ l \in DOMAIN ls
      OBVIOUS
    <3> QED
      BY <1>2, <2>2, <3>1, <3>2 DEF Registry, EntriesDiffer
  <2> QED
    BY <2>1, <2>2
<1>10. LeasesCounted(new, d)
  <2> SUFFICES ASSUME NEW i \in DOMAIN new PROVE new[i].leases = Cardinality(Lessees(d, new[i].n))
    BY DEF LeasesCounted
  <2>1. CASE i = last
    BY <1>2, <1>5, <2>1
  <2>2. CASE \E j \in S : new[i] = ls[j]
    BY <1>6, <2>2 DEF Registry, LeasesCounted
  <2> QED
    BY <1>7, <2>1, <2>2
<1>11. NumbersUsed(new, d)
  <2> SUFFICES ASSUME NEW i \in DOMAIN new PROVE d[new[i].n].pc # "new"
    BY DEF NumbersUsed
  <2>1. CASE i = last
    BY <1>2, <1>1, <1>4, <2>1
  <2>2. CASE \E j \in S : new[i] = ls[j]
    BY <1>1, <1>3, <2>2 DEF Registry, NumbersUsed
  <2> QED
    BY <1>7, <2>1, <2>2
<1>12. LocksKept(new, d)
  <2> SUFFICES ASSUME NEW s \in Calls, d[s].n # 0
               PROVE  \E i \in DOMAIN new : new[i].n = d[s].n /\ (OnBook(d[s]) => new[i].key = "book")
    BY DEF LocksKept
  <2>1. CASE s = r
    BY <1>1, <1>2, <2>1
  <2>2. CASE s # r
    <3>1. d[s] = c[s]
      BY <1>1, <2>2
    <3>2. PICK j \in DOMAIN ls : ls[j].n = c[s].n /\ (OnBook(c[s]) => ls[j].key = "book")
      BY <3>1 DEF Registry, LocksKept
    <3>3. CASE j \in S
      BY <1>8, <3>1, <3>2, <3>3
    <3>4. CASE j \notin S
      <4>1. e.n = c[s].n /\ (OnBook(c[s]) => e.key = "book")
        BY <3>2, <3>4
      <4> QED
        BY <1>2, <3>1, <4>1
    <3> QED
      BY <3>3, <3>4
  <2> QED
    BY <2>1, <2>2
<1> QED
  BY <1>2, <1>9, <1>10, <1>11, <1>12 DEF Registry, new, d

\* A request that leaves gives its lease back.
LEMMA ReturnedKeeps ==
  ASSUME NEW ls \in Seq(LockRec), NEW c \in [Calls -> CallRec], Registry(ls, c),
         NEW r \in Calls, c[r].n # 0, NEW x \in CallRec, x.n = 0, x.pc = "done",
         NEW new, new = [i \in DOMAIN ls |-> IF ls[i].n = c[r].n THEN [ls[i] EXCEPT !.leases = @ - 1] ELSE ls[i]]
  PROVE  new \in Seq(LockRec) /\ Registry(new, [c EXCEPT ![r] = x])
<1> DEFINE d == [c EXCEPT ![r] = x]
<1>1. \A s \in Calls : d[s] = IF s = r THEN x ELSE c[s]
  OBVIOUS
<1> HIDE DEF d
<1>2. \A i \in DOMAIN ls : ls[i] \in LockRec
  BY ElementOfSeq
<1>3. c[r].n \in Calls
  BY DEF CallRec, Calls
<1>4. ASSUME NEW i \in DOMAIN ls
      PROVE  /\ new[i] \in LockRec /\ new[i].key = ls[i].key /\ new[i].n = ls[i].n
             /\ new[i].leases = Cardinality(Lessees(d, ls[i].n))
  <2>1. ls[i].n \in Calls /\ ls[i].leases \in Nat /\ ls[i].leases = Cardinality(Lessees(c, ls[i].n))
    BY <1>2 DEF LockRec, Registry, LeasesCounted
  <2>2. CASE ls[i].n = c[r].n
    <3>1. new[i] = [ls[i] EXCEPT !.leases = @ - 1]
      BY <2>2
    <3>2. Cardinality(Lessees(d, ls[i].n)) = ls[i].leases - 1
      <4>1. x.n # ls[i].n
        BY <2>1, CallsFinite
      <4>2. Cardinality(Lessees(d, ls[i].n)) = Cardinality(Lessees(c, ls[i].n)) - 1
        BY <2>1, <2>2, <4>1, LesseeChanges DEF d
      <4> QED
        BY <2>1, <4>2
    <3>3. Cardinality(Lessees(d, ls[i].n)) \in Nat
      <4>1. IsFiniteSet(Lessees(d, ls[i].n))
        BY CallsFinite, FS_Subset DEF Lessees
      <4> QED
        BY <4>1, FS_CardinalityType
    <3> QED
      BY <1>2, <2>1, <3>1, <3>2, <3>3 DEF LockRec
  <2>3. CASE ls[i].n # c[r].n
    <3>1. new[i] = ls[i]
      BY <2>3
    <3>2. Lessees(d, ls[i].n) = Lessees(c, ls[i].n)
      BY <2>1, <2>3, CallsFinite, LesseeChanges DEF d
    <3> QED
      BY <1>2, <2>1, <3>1, <3>2
  <2> QED
    BY <2>2, <2>3
<1>5. DOMAIN new = DOMAIN ls /\ DOMAIN ls = 1..Len(ls) /\ Len(ls) \in Nat
  OBVIOUS
<1>6. new \in Seq(LockRec)
  <2>1. new \in [1..Len(ls) -> LockRec]
    BY <1>4, <1>5
  <2> QED
    BY <1>5, <2>1, SeqDef
<1>7. EntriesDiffer(new)
  BY <1>4, <1>5 DEF Registry, EntriesDiffer
<1>8. LeasesCounted(new, d)
  BY <1>4, <1>5 DEF LeasesCounted
<1>9. NumbersUsed(new, d)
  <2> SUFFICES ASSUME NEW i \in DOMAIN new PROVE d[new[i].n].pc # "new"
    BY DEF NumbersUsed
  <2>1. i \in DOMAIN ls /\ new[i].n = ls[i].n /\ ls[i].n \in Calls
    BY <1>2, <1>4, <1>5 DEF LockRec
  <2> QED
    BY <1>1, <2>1 DEF Registry, NumbersUsed
<1>10. LocksKept(new, d)
  <2> SUFFICES ASSUME NEW s \in Calls, d[s].n # 0
               PROVE  \E i \in DOMAIN new : new[i].n = d[s].n /\ (OnBook(d[s]) => new[i].key = "book")
    BY DEF LocksKept
  <2>1. d[s] = c[s]
    BY <1>1
  <2>2. PICK i \in DOMAIN ls : ls[i].n = c[s].n /\ (OnBook(c[s]) => ls[i].key = "book")
    BY <2>1 DEF Registry, LocksKept
  <2> QED
    BY <1>4, <1>5, <2>1, <2>2
<1> QED
  BY <1>6, <1>7, <1>8, <1>9, <1>10 DEF Registry, d

\* A request that goes on keeps its lock object.
LEMMA MovesKeeps ==
  ASSUME NEW ls \in Seq(LockRec), NEW c \in [Calls -> CallRec], Registry(ls, c),
         NEW r \in Calls, NEW x \in CallRec, x.n = c[r].n, x.pc # "new", OnBook(x) => OnBook(c[r])
  PROVE  Registry(ls, [c EXCEPT ![r] = x])
<1> DEFINE d == [c EXCEPT ![r] = x]
<1>1. \A s \in Calls : d[s] = IF s = r THEN x ELSE c[s]
  OBVIOUS
<1> HIDE DEF d
<1>2. \A i \in DOMAIN ls : ls[i].n \in Calls
  <2>1. \A i \in DOMAIN ls : ls[i] \in LockRec
    BY ElementOfSeq
  <2> QED
    BY <2>1 DEF LockRec
<1>3. \A n : Lessees(d, n) = Lessees(c, n)
  BY <1>1 DEF Lessees
<1>4. LeasesCounted(ls, d) /\ EntriesDiffer(ls)
  BY <1>3 DEF Registry, LeasesCounted
<1>5. NumbersUsed(ls, d)
  BY <1>1, <1>2 DEF Registry, NumbersUsed
<1>6. LocksKept(ls, d)
  <2> SUFFICES ASSUME NEW s \in Calls, d[s].n # 0
               PROVE  \E i \in DOMAIN ls : ls[i].n = d[s].n /\ (OnBook(d[s]) => ls[i].key = "book")
    BY DEF LocksKept
  <2>1. d[s].n = c[s].n /\ (OnBook(d[s]) => OnBook(c[s]))
    BY <1>1
  <2> QED
    BY <2>1 DEF Registry, LocksKept
<1> QED
  BY <1>4, <1>5, <1>6 DEF Registry, d

\* Who may have a lock object besides those who wait for it.
LEMMA ExclusiveKeeps ==
  ASSUME NEW c \in [Calls -> CallRec], Exclusive(c), NEW r \in Calls, NEW x \in CallRec,
         \/ x.pc = "waits" \/ x.n = 0
         \/ (x.n = c[r].n /\ c[r].pc # "waits")
         \/ \A s \in Calls : s # r /\ c[s].n = x.n => c[s].pc = "waits"
  PROVE  Exclusive([c EXCEPT ![r] = x])
<1> DEFINE d == [c EXCEPT ![r] = x]
<1>1. \A s \in Calls : d[s] = IF s = r THEN x ELSE c[s]
  OBVIOUS
<1> HIDE DEF d
<1> SUFFICES ASSUME NEW s \in Calls, NEW t \in Calls, s # t, d[s].n = d[t].n, d[s].n # 0
             PROVE  d[s].pc = "waits" \/ d[t].pc = "waits"
  BY DEF Exclusive, d
<1>2. CASE s # r /\ t # r
  BY <1>1, <1>2 DEF Exclusive
<1>3. CASE s = r
  BY <1>1, <1>3 DEF Exclusive
<1>4. CASE t = r
  BY <1>1, <1>4 DEF Exclusive
<1> QED
  BY <1>2, <1>3, <1>4

\* No two requests have the book at once.
LEMMA BookIsAlone ==
  ASSUME NEW ls \in Seq(LockRec), NEW c \in [Calls -> CallRec], Registry(ls, c), Exclusive(c),
         NEW r \in Calls, NEW s \in Calls, OnBook(c[r]), OnBook(c[s]), c[r].n # 0, c[s].n # 0,
         "waits" \notin {c[r].pc, c[s].pc}
  PROVE  r = s
<1>1. PICK i \in DOMAIN ls : ls[i].n = c[r].n /\ ls[i].key = "book"
  BY DEF Registry, LocksKept
<1>2. PICK k \in DOMAIN ls : ls[k].n = c[s].n /\ ls[k].key = "book"
  BY DEF Registry, LocksKept
<1>3. i = k
  BY <1>1, <1>2 DEF Registry, EntriesDiffer
<1> QED
  BY <1>1, <1>2, <1>3 DEF Exclusive


-----------------------------------------------------------------------------
(* The invariant *)

\* What a help cites is of a book that is there, and no further than read.
Current(c, b) == c.sources # {} => b.live /\ c.sources \subseteq 1..(b.bookmark + c.beyond)

\* A read book stays until its data is cached, a registry that closes has no cache,
\* and one that closed, or whose process exited, has no requests.
BookInv ==
  /\ \A r \in Calls : Current(call[r], book) /\ (call[r].pc = "keeps" => book.live)
  /\ DeletedIsForgotten
  /\ runtime # "open" => cache = {}
  /\ runtime \in {"closed", "exited"} => Busy = {}

LocksInv == (\A r \in Calls : CallOK(call[r])) /\ Exclusive(call) /\ Registry(locks, call)

HostedInv == HostedTyped /\ LocksInv /\ BookInv

\* Among the requests only r changes, to c.
Becomes(r, c) == call' = [call EXCEPT ![r] = c]

\* A busy request goes on: to the lock when those it shares the lock with all wait, or
\* within it.
LEMMA ServeKeeps ==
  ASSUME HostedInv, NEW r \in Calls, NEW x \in CallRec, Becomes(r, x), UNCHANGED <<mode, locks, runtime>>,
         call[r].pc \notin {"new", "done"}, x.pc \notin {"new", "done", "waits"}, x.n = call[r].n,
         call[r].pc # "waits" \/ (\A s \in Calls : s # r /\ call[s].n = call[r].n => call[s].pc = "waits"),
         OnBook(x) => OnBook(call[r]), CallOK(x)
  PROVE  /\ call' \in [Calls -> CallRec] /\ LocksInv'
         /\ \A s \in Calls : call'[s] = IF s = r THEN x ELSE call[s]
         /\ runtime' \in {"open", "closing"}
<1>1. call \in [Calls -> CallRec] /\ locks \in Seq(LockRec)
  BY DEF HostedInv, HostedTyped
<1>2. call' \in [Calls -> CallRec] /\ \A s \in Calls : call'[s] = IF s = r THEN x ELSE call[s]
  BY <1>1 DEF Becomes
<1>3. \A s \in Calls : CallOK(call'[s])
  BY <1>2 DEF HostedInv, LocksInv
<1>4. Exclusive(call')
  BY <1>1, ExclusiveKeeps DEF Becomes, HostedInv, LocksInv
<1>5. Registry(locks', call')
  BY <1>1, MovesKeeps DEF Becomes, HostedInv, LocksInv
<1>6. runtime \in {"open", "closing"}
  <2>1. r \in Busy
    BY DEF Busy
  <2> QED
    BY <2>1 DEF HostedInv, HostedTyped, BookInv
<1> QED
  BY <1>2, <1>3, <1>4, <1>5, <1>6 DEF LocksInv

\* The same when book and settings stay, and the cache stays or goes.
LEMMA HelpKeeps ==
  ASSUME HostedInv, NEW r \in Calls, NEW x \in CallRec, Becomes(r, x), UNCHANGED <<mode, locks, runtime, book, setting>>,
         call[r].pc \notin {"new", "done"}, x.pc \notin {"new", "done", "waits"}, x.n = call[r].n,
         call[r].pc # "waits" \/ (\A s \in Calls : s # r /\ call[s].n = call[r].n => call[s].pc = "waits"),
         OnBook(x) => OnBook(call[r]), CallOK(x), cut \subseteq cut',
         Current(x, book), x.pc = "keeps" => book.live,
         cache' = {} \/ (cache' = cache /\ (call[r].pc = "forgets" => runtime # "open" \/ <<r, "deletion">> \in cut'))
  PROVE  HostedInv'
<1>1. /\ call' \in [Calls -> CallRec] /\ LocksInv'
      /\ \A s \in Calls : call'[s] = IF s = r THEN x ELSE call[s]
      /\ runtime' \in {"open", "closing"}
  BY ServeKeeps
<1>2. HostedTyped'
  BY <1>1 DEF HostedInv, HostedTyped
<1>3. \A s \in Calls : Current(call'[s], book') /\ (call'[s].pc = "keeps" => book'.live)
  BY <1>1 DEF HostedInv, BookInv
<1>4. DeletedIsForgotten'
  <2> SUFFICES ASSUME cache' # {}
               PROVE  book'.live \/ \E s \in Calls : call'[s].pc = "forgets" \/ <<s, "deletion">> \in cut'
    BY DEF DeletedIsForgotten
  <2>1. cache' = cache /\ runtime = "open"
    BY DEF HostedInv, BookInv
  <2>2. book.live \/ \E s \in Calls : call[s].pc = "forgets" \/ <<s, "deletion">> \in cut
    BY <2>1 DEF HostedInv, BookInv, DeletedIsForgotten
  <2>3. CASE \E s \in Calls : call[s].pc = "forgets"
    <3>1. PICK s \in Calls : call[s].pc = "forgets"
      BY <2>3
    <3>2. CASE s = r
      BY <2>1, <3>1, <3>2
    <3>3. CASE s # r
      BY <1>1, <3>1, <3>3
    <3> QED
      BY <3>2, <3>3
  <2> QED
    BY <2>2, <2>3
<1>5. (runtime' # "open" => cache' = {}) /\ (runtime' \in {"closed", "exited"} => Busy' = {})
  BY <1>1 DEF HostedInv, BookInv
<1> QED
  BY <1>1, <1>2, <1>3, <1>4, <1>5 DEF HostedInv, BookInv

\* A request that is over, whatever it was doing inside.
LEMMA OverIs ==
  ASSUME HostedInv, NEW r \in Calls, call[r].pc \notin {"new", "done"}
  PROVE  /\ Over(call[r]) \in CallRec /\ Over(call[r]).pc = "over" /\ Over(call[r]).n = call[r].n
         /\ Over(call[r]).sources = {} /\ CallOK(Over(call[r])) /\ ~OnBook(Over(call[r]))
         /\ Current(Over(call[r]), book)
<1>1. call[r] \in CallRec /\ CallOK(call[r])
  BY DEF HostedInv, HostedTyped, LocksInv
<1>2. NotMade \in CallRec
  BY HostedAssumption DEF NotMade, CallRec, CallPCs, Routes, Phases
<1> DEFINE x == Over(call[r])
<1>3. x \in CallRec /\ x.pc = "over" /\ x.n = call[r].n /\ x.sources = {}
  BY <1>1, <1>2 DEF Over, CallRec, CallPCs, NotMade
<1> HIDE DEF x
<1>4. CallOK(x) /\ ~OnBook(x) /\ Current(x, book)
  BY <1>1, <1>3 DEF CallOK, OnBook, Current
<1> QED
  BY <1>3, <1>4 DEF x


\* A step that only ends its request, or cuts it off.
LEMMA EndsKeeps ==
  ASSUME HostedInv, NEW r \in Calls, Ends(r), UNCHANGED <<mode, locks, runtime, book, setting>>,
         call[r].pc \notin {"new", "done", "waits"}, cut \subseteq cut',
         cache' = {} \/ (cache' = cache /\ (call[r].pc = "forgets" => runtime # "open" \/ <<r, "deletion">> \in cut'))
  PROVE  HostedInv'
<1> DEFINE x == Over(call[r])
<1>1. /\ x \in CallRec /\ x.pc = "over" /\ x.n = call[r].n /\ CallOK(x) /\ ~OnBook(x) /\ Current(x, book)
  BY OverIs
<1>2. Becomes(r, x)
  BY DEF Ends, Becomes, HostedInv, HostedTyped
<1> HIDE DEF x
<1>3. x.pc \notin {"new", "done", "waits"} /\ (x.pc = "keeps" => book.live) /\ (OnBook(x) => OnBook(call[r]))
  BY <1>1
<1> QED
  BY <1>1, <1>2, <1>3, HelpKeeps

\* A request takes the lock when nobody else who has the lock object is past waiting.
LEMMA AcquiresKeeps ==
  ASSUME HostedInv, UNCHANGED mode, NEW r \in Calls, Acquires(r)
  PROVE  HostedInv'
<1> DEFINE x == [call[r] EXCEPT !.pc = "inside"]
<1>1. call[r] \in CallRec /\ CallOK(call[r]) /\ call[r].pc = "waits"
  BY DEF HostedInv, HostedTyped, LocksInv, Acquires
<1>2. /\ x \in CallRec /\ x.pc = "inside" /\ x.n = call[r].n /\ x.route = call[r].route
      /\ x.at = call[r].at /\ x.sources = call[r].sources
  BY <1>1 DEF CallRec, CallPCs
<1>3. Becomes(r, x)
  BY DEF Acquires, Becomes, HostedInv, HostedTyped
<1> HIDE DEF x
<1>4. CallOK(x) /\ (OnBook(x) => OnBook(call[r])) /\ Current(x, book)
  BY <1>1, <1>2 DEF CallOK, OnBook, Current
<1>5. UNCHANGED <<locks, cache, runtime, book, setting, cut>>
      /\ \A s \in Calls : s # r /\ call[s].n = call[r].n => call[s].pc = "waits"
  BY DEF Acquires
<1>6. x.pc \notin {"new", "done", "waits"} /\ (x.pc = "keeps" => book.live) /\ call[r].pc # "forgets"
  BY <1>1, <1>2
<1> QED
  BY <1>1, <1>2, <1>3, <1>4, <1>5, <1>6, HelpKeeps

\* What a help reads to cite is what the reader has reached, and the chapter before it
\* for a selection.
LEMMA SourcesReached ==
  ASSUME HostedTyped, NEW at \in 1..Chapters, NEW help \in Helps, NEW sources \in SourcesOf(help, at)
  PROVE  /\ sources \subseteq 1..Chapters
         /\ sources \subseteq 1..(book.bookmark + (IF help = "selection" THEN 1 ELSE 0))
<1>1. book.bookmark \in Nat /\ Chapters \in Nat
  BY HostedAssumption DEF HostedTyped
<1>2. CASE help = "ask"
  <2>1. sources \subseteq {k \in 1..Chapters : k <= book.bookmark /\ k <= at}
    BY <1>2 DEF SourcesOf, AskSources
  <2> QED
    BY <1>1, <1>2, <2>1
<1>3. CASE help = "selection"
  <2>1. sources = {k \in {at} : k <= book.bookmark + 1}
    BY <1>3 DEF SourcesOf, SelectionSources
  <2> QED
    BY <1>1, <1>3, <2>1
<1>4. CASE help = "closeout"
  <2>1. sources = {k \in {at} : k <= book.bookmark}
    BY <1>4 DEF SourcesOf, CloseoutSources
  <2> QED
    BY <1>1, <1>4, <2>1
<1> QED
  BY <1>2, <1>3, <1>4 DEF Helps

\* A help that found something goes on with it, any other is over.
LEMMA ContextKeeps ==
  ASSUME HostedInv, UNCHANGED mode, NEW r \in Calls, Context(r)
  PROVE  HostedInv'
<1>1. call[r] \in CallRec /\ CallOK(call[r]) /\ call[r].pc = "inside" /\ call[r].route = "help" /\ call[r].n \in Calls
  <2>1. call[r] \in CallRec /\ CallOK(call[r]) /\ call[r].pc = "inside" /\ call[r].route = "help"
    BY DEF HostedInv, HostedTyped, LocksInv, Context
  <2> QED
    BY <2>1 DEF CallOK, CallRec, Calls
<1>2. UNCHANGED <<mode, locks, cache, runtime, book, setting, cut>>
  BY DEF Context
<1>3. CASE Ends(r)
  BY <1>1, <1>2, <1>3, EndsKeeps
<1>4. CASE ~Ends(r)
  <2>1. PICK help \in Helps : \E sources \in SourcesOf(help, call[r].at) :
          /\ book.live /\ sources # {}
          /\ call' = [call EXCEPT ![r].pc = "reserves", ![r].sources = sources,
                                  ![r].beyond = IF help = "selection" THEN 1 ELSE 0,
                                  ![r].seen = [p \in Phases |-> setting[p].stamp]]
    BY <1>4 DEF Context
  <2>0. PICK sources \in SourcesOf(help, call[r].at) :
          /\ book.live /\ sources # {}
          /\ call' = [call EXCEPT ![r].pc = "reserves", ![r].sources = sources,
                                  ![r].beyond = IF help = "selection" THEN 1 ELSE 0,
                                  ![r].seen = [p \in Phases |-> setting[p].stamp]]
    BY <2>1
  <2> DEFINE beyond == IF help = "selection" THEN 1 ELSE 0
             seen == [p \in Phases |-> setting[p].stamp]
             x == [call[r] EXCEPT !.pc = "reserves", !.sources = sources, !.beyond = beyond, !.seen = seen]
  <2>2. sources \subseteq 1..Chapters /\ sources \subseteq 1..(book.bookmark + beyond)
    <3>1. call[r].at \in 1..Chapters
      BY <1>1 DEF CallOK
    <3> QED
      BY <3>1, SourcesReached DEF HostedInv
  <2>3. seen \in [Phases -> Nat] /\ beyond \in {0, 1}
    BY DEF HostedInv, HostedTyped
  <2>4. Becomes(r, x)
    BY <2>0 DEF Becomes, HostedInv, HostedTyped
  <2> HIDE DEF beyond, seen
  <2>5. x \in CallRec /\ x.pc = "reserves" /\ x.n = call[r].n /\ x.sources = sources /\ x.beyond = beyond
    BY <1>1, <2>2, <2>3 DEF CallRec, CallPCs
  <2> HIDE DEF x
  <2>6. CallOK(x) /\ OnBook(call[r]) /\ Current(x, book)
    BY <1>1, <2>0, <2>2, <2>5, CallsFinite DEF CallOK, OnBook, Current
  <2>7. x.pc \notin {"new", "done", "waits"} /\ (x.pc = "keeps" => book.live)
    BY <2>5
  <2> QED
    BY <1>1, <1>2, <2>4, <2>5, <2>6, <2>7, HelpKeeps
<1> QED
  BY <1>3, <1>4

\* A call is made with its reservation, or the help is over.
LEMMA ReservesKeeps ==
  ASSUME HostedInv, UNCHANGED mode, NEW r \in Calls, Reserves(r)
  PROVE  HostedInv'
<1>1. call[r] \in CallRec /\ CallOK(call[r]) /\ Current(call[r], book) /\ call[r].pc = "reserves"
  BY DEF HostedInv, HostedTyped, LocksInv, BookInv, Reserves
<1>2. UNCHANGED <<mode, locks, cache, runtime, book, setting, cut>>
  BY DEF Reserves
<1>3. CASE Ends(r)
  BY <1>1, <1>2, <1>3, EndsKeeps
<1>4. CASE Goes(r, "calls")
  <2> DEFINE x == [call[r] EXCEPT !.pc = "calls"]
  <2>1. /\ x \in CallRec /\ x.pc = "calls" /\ x.n = call[r].n
        /\ x.sources = call[r].sources /\ x.beyond = call[r].beyond
    BY <1>1 DEF CallRec, CallPCs
  <2>2. Becomes(r, x)
    BY <1>4 DEF Goes, Becomes, HostedInv, HostedTyped
  <2> HIDE DEF x
  <2>3. CallOK(x) /\ OnBook(call[r]) /\ Current(x, book)
    BY <1>1, <2>1 DEF CallOK, OnBook, Current
  <2> QED
    BY <1>1, <1>2, <2>1, <2>2, <2>3, HelpKeeps
<1> QED
  BY <1>3, <1>4 DEF Reserves

\* A change of the settings, or none at all.
LEMMA SettingsKeep ==
  ASSUME HostedInv, UNCHANGED <<mode, locks, cache, runtime, call, book, cut>>,
         setting' \in [Phases -> [ready : BOOLEAN, stamp : Nat]]
  PROVE  HostedInv'
<1>1. HostedTyped'
  BY DEF HostedInv, HostedTyped
<1>2. LocksInv' /\ BookInv'
  BY DEF HostedInv, LocksInv, BookInv, DeletedIsForgotten, Busy
<1> QED
  BY <1>1, <1>2 DEF HostedInv

\* An answer is settled by who waits for it, or the thread ends alone.
LEMMA ReturnsKeeps ==
  ASSUME HostedInv, UNCHANGED mode, NEW r \in Calls, Returns(r)
  PROVE  HostedInv'
<1>1. UNCHANGED <<mode, locks, cache, runtime, book, setting, cut>>
  BY DEF Returns
<1>2. CASE call[r].pc = "calls"
  <2> DEFINE x == [call[r] EXCEPT !.pc = "settles"]
  <2>1. call[r] \in CallRec /\ CallOK(call[r]) /\ Current(call[r], book)
    BY DEF HostedInv, HostedTyped, LocksInv, BookInv
  <2>2. /\ x \in CallRec /\ x.pc = "settles" /\ x.n = call[r].n
        /\ x.sources = call[r].sources /\ x.beyond = call[r].beyond
    BY <2>1 DEF CallRec, CallPCs
  <2>3. Becomes(r, x)
    BY <1>2 DEF Returns, Becomes, HostedInv, HostedTyped
  <2> HIDE DEF x
  <2>4. CallOK(x) /\ OnBook(call[r]) /\ Current(x, book)
    BY <1>2, <2>1, <2>2 DEF CallOK, OnBook, Current
  <2> QED
    BY <1>1, <1>2, <2>2, <2>3, <2>4, HelpKeeps
<1>3. CASE call[r].pc # "calls"
  <2>1. call' = call /\ setting' \in [Phases -> [ready : BOOLEAN, stamp : Nat]]
    BY <1>1, <1>3 DEF Returns, HostedInv, HostedTyped
  <2> QED
    BY <1>1, <2>1, SettingsKeep
<1> QED
  BY <1>2, <1>3

\* A call that ended is settled; the help reserves again, answers, or is over.
LEMMA CallEndsKeeps ==
  ASSUME HostedInv, UNCHANGED mode, NEW r \in Calls, CallEnds(r)
  PROVE  HostedInv'
<1>1. call[r] \in CallRec /\ CallOK(call[r]) /\ Current(call[r], book) /\ call[r].pc = "settles"
  BY DEF HostedInv, HostedTyped, LocksInv, BookInv, CallEnds
<1>2. UNCHANGED <<mode, locks, cache, runtime, book, setting, cut>>
  BY DEF CallEnds
<1>3. CASE Ends(r)
  <2>1. call[r].pc \notin {"new", "done", "waits", "forgets"}
    BY <1>1
  <2> QED
    BY <1>2, <1>3, <2>1, EndsKeeps
<1>4. CASE ~Ends(r)
  <2>1. PICK x \in Drafted(call[r]) \union Reviewed(call[r]) : call' = [call EXCEPT ![r] = x]
    BY <1>4 DEF CallEnds
  <2>2. x # Over(call[r])
    BY <1>1, <1>4, <2>1 DEF Ends, HostedInv, HostedTyped
  <2>3. \/ x = [call[r] EXCEPT !.pc = "reserves", !.phase = "synthesis", !.try = 2]
        \/ x = [call[r] EXCEPT !.pc = "reserves", !.phase = "judge"]
        \/ x = Answered(call[r])
    BY <2>1, <2>2 DEF Drafted, Reviewed, Again
  <2>4. /\ x \in CallRec /\ x.pc \in {"reserves", "answered"} /\ x.n = call[r].n
        /\ x.sources = call[r].sources /\ x.beyond = call[r].beyond
    <3>1. CASE x = [call[r] EXCEPT !.pc = "reserves", !.phase = "synthesis", !.try = 2]
      BY <1>1, <3>1 DEF CallRec, CallPCs, Phases
    <3>2. CASE x = [call[r] EXCEPT !.pc = "reserves", !.phase = "judge"]
      BY <1>1, <3>2 DEF CallRec, CallPCs, Phases
    <3>3. CASE x = Answered(call[r])
      <4> DEFINE o == Over(call[r])
      <4>1. o \in CallRec /\ o.n = call[r].n
        BY <1>1, OverIs
      <4>2. x = [o EXCEPT !.pc = "answered", !.sources = call[r].sources, !.beyond = call[r].beyond]
        BY <3>3 DEF Answered
      <4> HIDE DEF o
      <4> QED
        BY <1>1, <4>1, <4>2 DEF CallRec, CallPCs
    <3> QED
      BY <2>3, <3>1, <3>2, <3>3
  <2>5. CallOK(x) /\ OnBook(call[r]) /\ Current(x, book)
    BY <1>1, <2>4 DEF CallOK, OnBook, Current
  <2>6. x.pc \notin {"new", "done", "waits"} /\ (x.pc = "keeps" => book.live)
    BY <2>4
  <2>7. Becomes(r, x)
    BY <2>1 DEF Becomes
  <2> QED
    BY <1>1, <1>2, <2>4, <2>5, <2>6, <2>7, HelpKeeps
<1> QED
  BY <1>3, <1>4

\* A request that is cut off is over, and its cut is on record.
LEMMA CutOffKeeps ==
  ASSUME HostedInv, UNCHANGED mode, NEW r \in Calls, CutOff(r)
  PROVE  HostedInv'
<1>1. Ends(r) /\ UNCHANGED <<mode, locks, cache, runtime, book, setting>>
  BY DEF CutOff
<1>2. PICK rows : cut' = cut \union Unfinished(r, rows)
  BY DEF CutOff
<1>3. call[r].pc \notin {"new", "done", "waits"}
  BY DEF CutOff
<1>4. call[r].pc = "forgets" => <<r, "deletion">> \in cut'
  BY <1>2 DEF Unfinished
<1> QED
  BY <1>1, <1>2, <1>3, <1>4, EndsKeeps


\* The book is changed only by a request that has it, while nobody else reads from it.
LEMMA BookChanges ==
  ASSUME HostedInv, NEW r \in Calls, call[r].pc = "inside", call[r].route # "other"
  PROVE  /\ call[r].sources = {}
         /\ \A s \in Calls : s # r => call[s].sources = {} /\ call[s].pc \notin {"keeps", "forgets"}
<1>1. call \in [Calls -> CallRec] /\ locks \in Seq(LockRec) /\ \A s \in Calls : CallOK(call[s])
  BY DEF HostedInv, HostedTyped, LocksInv
<1>2. call[r].sources = {} /\ OnBook(call[r]) /\ call[r].n # 0
  BY <1>1 DEF CallOK, OnBook
<1> SUFFICES ASSUME NEW s \in Calls, s # r, call[s].sources # {} \/ call[s].pc \in {"keeps", "forgets"}
             PROVE  FALSE
  BY <1>2
<1>3. call[s].pc \in {"reserves", "calls", "settles", "answered", "keeps", "forgets"}
  BY <1>1 DEF CallOK
<1>4. OnBook(call[s]) /\ call[s].n # 0 /\ call[s].pc # "waits"
  BY <1>1, <1>3 DEF CallOK, OnBook
<1> QED
  BY <1>1, <1>2, <1>4, BookIsAlone DEF HostedInv, LocksInv

\* A step of the only request that has the book, which moves the frontier or deletes.
LEMMA ChangeKeeps ==
  ASSUME HostedInv, NEW r \in Calls, call[r].pc = "inside", call[r].route # "other", NEW x \in CallRec,
         Becomes(r, x), x.pc \in {"over", "forgets"}, x.n = call[r].n, x.sources = {},
         UNCHANGED <<mode, locks, cache, runtime, setting, cut>>,
         book' \in [live : BOOLEAN, bookmark : 0..Chapters], book'.live = book.live \/ x.pc = "forgets"
  PROVE  HostedInv'
<1>1. call[r].n # 0 /\ OnBook(call[r])
  BY DEF HostedInv, LocksInv, CallOK, OnBook
<1>2. CallOK(x)
  BY <1>1 DEF CallOK
<1>4. /\ call' \in [Calls -> CallRec] /\ LocksInv'
      /\ \A s \in Calls : call'[s] = IF s = r THEN x ELSE call[s]
      /\ runtime' \in {"open", "closing"}
  BY <1>1, <1>2, ServeKeeps
<1>5. HostedTyped'
  BY <1>4 DEF HostedInv, HostedTyped
<1>6. \A s \in Calls : call'[s].sources = {} /\ call'[s].pc # "keeps"
  BY <1>4, BookChanges
<1>7. \A s \in Calls : Current(call'[s], book') /\ (call'[s].pc = "keeps" => book'.live)
  BY <1>6 DEF Current
<1>8. DeletedIsForgotten'
  <2> SUFFICES ASSUME cache' # {}, ~book'.live
               PROVE  \E s \in Calls : call'[s].pc = "forgets" \/ <<s, "deletion">> \in cut'
    BY DEF DeletedIsForgotten
  <2>1. CASE x.pc = "forgets"
    BY <1>4, <2>1
  <2>2. CASE x.pc # "forgets"
    <3>1. \E s \in Calls : call[s].pc = "forgets" \/ <<s, "deletion">> \in cut
      BY <2>2 DEF HostedInv, BookInv, DeletedIsForgotten
    <3> QED
      BY <1>4, <3>1
  <2> QED
    BY <2>1, <2>2
<1>9. (runtime' # "open" => cache' = {}) /\ (runtime' \in {"closed", "exited"} => Busy' = {})
  BY <1>4 DEF HostedInv, BookInv
<1> QED
  BY <1>4, <1>5, <1>7, <1>8, <1>9 DEF HostedInv, BookInv

\* A report of the position and a start again.
LEMMA FrontierKeeps ==
  ASSUME HostedInv, UNCHANGED mode, NEW r \in Calls, Position(r) \/ Reset(r)
  PROVE  HostedInv'
<1>1. call[r].pc = "inside" /\ call[r].route # "other" /\ Ends(r)
  BY DEF Position, Reset, Refused
<1>2. UNCHANGED <<mode, locks, cache, runtime, setting, cut>>
  BY DEF Position, Reset
<1>3. book' \in [live : BOOLEAN, bookmark : 0..Chapters] /\ book'.live = book.live
  <2>1. call[r].at \in 1..Chapters /\ Chapters \in Nat
    BY <1>1, HostedAssumption DEF HostedInv, LocksInv, CallOK
  <2>2. book \in [live : BOOLEAN, bookmark : 0..Chapters]
    BY DEF HostedInv, HostedTyped
  <2> QED
    BY <2>1, <2>2 DEF Position, Reset, Refused
<1>4. Becomes(r, Over(call[r]))
  BY <1>1 DEF Ends, Becomes, HostedInv, HostedTyped
<1>5. /\ Over(call[r]) \in CallRec /\ Over(call[r]).pc = "over" /\ Over(call[r]).n = call[r].n
      /\ Over(call[r]).sources = {}
  BY <1>1, OverIs
<1> QED
  BY <1>1, <1>2, <1>3, <1>4, <1>5, ChangeKeeps

\* A deletion, which forgets what is cached in its next step.
LEMMA DeleteKeeps ==
  ASSUME HostedInv, UNCHANGED mode, NEW r \in Calls, Delete(r)
  PROVE  HostedInv'
<1>1. call[r].pc = "inside" /\ call[r].route = "delete"
  BY DEF Delete, Refused
<1>2. UNCHANGED <<mode, locks, cache, runtime, setting, cut>>
  BY DEF Delete
<1>3. CASE Ends(r) /\ UNCHANGED book
  <2>1. call[r].pc \notin {"new", "done", "waits", "forgets", "calls"}
    BY <1>1
  <2> QED
    BY <1>2, <1>3, <2>1, EndsKeeps
<1>4. CASE Goes(r, "forgets") /\ book' = [book EXCEPT !.live = FALSE]
  <2> DEFINE x == [call[r] EXCEPT !.pc = "forgets"]
  <2>1. call[r] \in CallRec /\ call[r].sources = {}
    BY <1>1, BookChanges DEF HostedInv, HostedTyped
  <2>2. x \in CallRec /\ x.pc = "forgets" /\ x.n = call[r].n /\ x.sources = {}
    BY <2>1 DEF CallRec, CallPCs
  <2>3. Becomes(r, x)
    BY <1>4 DEF Goes, Becomes, HostedInv, HostedTyped
  <2> HIDE DEF x
  <2>4. book' \in [live : BOOLEAN, bookmark : 0..Chapters]
    BY <1>4 DEF HostedInv, HostedTyped
  <2> QED
    BY <1>1, <1>2, <2>2, <2>3, <2>4, ChangeKeeps
<1> QED
  BY <1>3, <1>4 DEF Delete, Refused

\* What was cached goes, or is gone with the registry that closes.
LEMMA ForgetsKeeps ==
  ASSUME HostedInv, UNCHANGED mode, NEW r \in Calls, Forgets(r)
  PROVE  HostedInv'
<1>1. call[r].pc = "forgets" /\ Ends(r) /\ UNCHANGED <<mode, locks, runtime, book, setting, cut>>
  BY DEF Forgets
<1>2. cache' = {} \/ (cache' = cache /\ runtime # "open")
  BY DEF Forgets, Invalidated
<1>3. call[r].pc \notin {"new", "done", "waits", "calls"}
  BY <1>1
<1> QED
  BY <1>1, <1>2, <1>3, EndsKeeps

\* The metadata is read from a book that is there.
LEMMA LooksKeeps ==
  ASSUME HostedInv, UNCHANGED mode, NEW r \in Calls, Looks(r)
  PROVE  HostedInv'
<1>1. call[r] \in CallRec /\ CallOK(call[r]) /\ call[r].pc = "inside" /\ call[r].route = "metadata"
  BY DEF HostedInv, HostedTyped, LocksInv, Looks
<1>2. UNCHANGED <<mode, locks, cache, runtime, book, setting, cut>>
  BY DEF Looks
<1>3. CASE Ends(r)
  <2>1. call[r].pc \notin {"new", "done", "waits", "forgets", "calls"}
    BY <1>1
  <2> QED
    BY <1>2, <1>3, <2>1, EndsKeeps
<1>4. CASE ~Ends(r)
  <2>1. book.live /\ call' = [call EXCEPT ![r].pc = "keeps", ![r].at = book.bookmark]
    BY <1>4 DEF Looks
  <2> DEFINE x == [call[r] EXCEPT !.pc = "keeps", !.at = book.bookmark]
  <2>2. book.bookmark \in 0..Chapters
    BY DEF HostedInv, HostedTyped
  <2>3. x \in CallRec /\ x.pc = "keeps" /\ x.n = call[r].n /\ x.sources = call[r].sources
    BY <1>1, <2>2 DEF CallRec, CallPCs
  <2>4. Becomes(r, x)
    BY <2>1 DEF Becomes, HostedInv, HostedTyped
  <2> HIDE DEF x
  <2>5. CallOK(x) /\ OnBook(call[r]) /\ Current(x, book)
    BY <1>1, <2>3 DEF CallOK, OnBook, Current
  <2> QED
    BY <1>1, <1>2, <2>1, <2>3, <2>4, <2>5, HelpKeeps
<1> QED
  BY <1>3, <1>4

\* What is cached is of a book that is there.
LEMMA KeepsKeeps ==
  ASSUME HostedInv, UNCHANGED mode, NEW r \in Calls, Keeps(r)
  PROVE  HostedInv'
<1>1. call[r].pc = "keeps" /\ Ends(r) /\ UNCHANGED <<mode, locks, runtime, book, setting, cut>>
  BY DEF Keeps
<1>2. call[r].pc \notin {"new", "done", "waits", "forgets", "calls"}
  BY <1>1
<1>3. CASE cache' = cache
  BY <1>1, <1>2, <1>3, EndsKeeps
<1>4. CASE runtime = "open" /\ cache' = {call[r].at}
  <2> DEFINE x == Over(call[r])
  <2>1. /\ x \in CallRec /\ x.pc = "over" /\ x.n = call[r].n /\ CallOK(x) /\ ~OnBook(x) /\ Current(x, book)
    BY <1>2, OverIs
  <2>2. Becomes(r, x)
    BY <1>1 DEF Ends, Becomes, HostedInv, HostedTyped
  <2> HIDE DEF x
  <2>4. /\ call' \in [Calls -> CallRec] /\ LocksInv'
        /\ \A s \in Calls : call'[s] = IF s = r THEN x ELSE call[s]
    BY <1>1, <1>2, <2>1, <2>2, ServeKeeps
  <2>5. book'.live /\ runtime' = "open"
    BY <1>1, <1>4 DEF HostedInv, BookInv
  <2>6. call[r].at \in 0..Chapters
    BY DEF HostedInv, HostedTyped, CallRec
  <2>7. HostedTyped'
    BY <1>1, <1>4, <2>4, <2>6 DEF HostedInv, HostedTyped
  <2>8. \A s \in Calls : Current(call'[s], book') /\ (call'[s].pc = "keeps" => book'.live)
    BY <1>1, <2>1, <2>4 DEF HostedInv, BookInv
  <2>9. BookInv'
    BY <2>5, <2>8 DEF BookInv, DeletedIsForgotten
  <2> QED
    BY <2>4, <2>7, <2>9 DEF HostedInv
<1> QED
  BY <1>3, <1>4 DEF Keeps

\* Another book's request may evict what is cached.
LEMMA OtherKeeps ==
  ASSUME HostedInv, UNCHANGED mode, NEW r \in Calls, Other(r)
  PROVE  HostedInv'
<1>1. call[r].pc = "inside" /\ Ends(r) /\ UNCHANGED <<mode, locks, runtime, book, setting, cut>>
  BY DEF Other
<1>2. cache' = {} \/ cache' = cache
  BY DEF Other
<1>3. call[r].pc \notin {"new", "done", "waits", "calls", "forgets"}
  BY <1>1
<1> QED
  BY <1>1, <1>2, <1>3, EndsKeeps


-----------------------------------------------------------------------------
(* Arriving, leaving, shutting down *)

\* A request that has just arrived, for the lock object n.
Arrival(route, at, n) == [NotMade EXCEPT !.pc = "waits", !.route = route, !.at = at, !.n = n]

\* A request that has not been made, or is done, carries nothing.
LEMMA NotMadeIs ==
  /\ NotMade \in CallRec /\ NotMade.pc = "new" /\ NotMade.n = 0 /\ NotMade.sources = {}
  /\ [NotMade EXCEPT !.pc = "done"] \in CallRec /\ [NotMade EXCEPT !.pc = "done"].pc = "done"
  /\ [NotMade EXCEPT !.pc = "done"].n = 0 /\ [NotMade EXCEPT !.pc = "done"].sources = {}
<1>1. NotMade \in CallRec
  BY HostedAssumption DEF NotMade, CallRec, CallPCs, Routes, Phases
<1>2. NotMade.pc = "new" /\ NotMade.n = 0 /\ NotMade.sources = {}
  BY DEF NotMade
<1> QED
  BY <1>1, <1>2 DEF CallRec, CallPCs

\* What a request carries as it arrives.
LEMMA ArrivalIs ==
  ASSUME NEW route \in Routes, NEW at \in 1..Chapters, NEW n \in Calls
  PROVE  /\ Arrival(route, at, n) \in CallRec /\ Arrival(route, at, n).pc = "waits"
         /\ Arrival(route, at, n).n = n /\ Arrival(route, at, n).sources = {}
         /\ Arrival(route, at, n).at = at /\ Arrival(route, at, n).route = route
<1>1. at \in 0..Chapters /\ n \in 0..MaxCalls
  BY HostedAssumption DEF Calls
<1> QED
  BY <1>1, NotMadeIs DEF Arrival, CallRec, CallPCs

\* What the first entry of a key is, if there is one.
LEMMA EntryOf ==
  ASSUME NEW ls \in Seq(LockRec), NEW key, EntriesDiffer(ls)
  PROVE  LET i == SelectInSeq(ls, LAMBDA l : l.key = key)
         IN  \/ i = 0 /\ \A j \in DOMAIN ls : ls[j].key # key
             \/ i \in DOMAIN ls /\ ls[i].key = key /\ \A j \in DOMAIN ls \ {i} : ls[j].key # key
<1> DEFINE I == {j \in 1..Len(ls) : ls[j].key = key}
           i == SelectInSeq(ls, LAMBDA l : l.key = key)
<1>1. i = IF I # {} THEN Min(I) ELSE 0
  BY DEF SelectInSeq
<1>2. DOMAIN ls = 1..Len(ls)
  OBVIOUS
<1>3. I # {} => i \in I
  <2>1. I \subseteq Nat
    OBVIOUS
  <2>2. I # {} => \E n \in I : \A m \in I : n <= m
    BY <2>1, LeastNat
  <2> QED
    BY <1>1, <2>2 DEF Min
<1> HIDE DEF i
<1>4. CASE I = {}
  BY <1>1, <1>2, <1>4 DEF i
<1>5. CASE I # {}
  <2>1. i \in DOMAIN ls /\ ls[i].key = key
    BY <1>2, <1>3, <1>5
  <2>2. \A j \in DOMAIN ls \ {i} : ls[j].key # key
    BY <2>1 DEF EntriesDiffer
  <2> QED
    BY <2>1, <2>2 DEF i
<1> QED
  BY <1>4, <1>5

\* The entry of the key is leased once more and is the last to go.
LEMMA EntersRegistry ==
  ASSUME HostedInv, NEW r \in Calls, NEW route \in Routes, NEW at \in 1..Chapters, Enters(r, route, at)
  PROVE  \E n \in Calls : /\ Becomes(r, Arrival(route, at, n)) /\ locks' \in Seq(LockRec)
                          /\ Registry(locks', [call EXCEPT ![r] = Arrival(route, at, n)])
<1> DEFINE key == KeyOf(route)
           i == SelectInSeq(locks, LAMBDA l : l.key = KeyOf(route))
           e == IF i = 0 THEN [key |-> key, n |-> r, leases |-> 1] ELSE [locks[i] EXCEPT !.leases = @ + 1]
           rest == IF i = 0 THEN locks ELSE RemoveAt(locks, i)
           S == IF i = 0 THEN DOMAIN locks ELSE DOMAIN locks \ {i}
           x == Arrival(route, at, e.n)
<1>1. locks \in Seq(LockRec) /\ call \in [Calls -> CallRec] /\ Registry(locks, call)
  BY DEF HostedInv, HostedTyped, LocksInv
<1>2. locks' = Trimmed(Append(rest, e)) /\ Becomes(r, x) /\ call[r].pc = "new"
  BY DEF Enters, Becomes, Arrival
<1>3. call[r].n = 0
  BY <1>2 DEF HostedInv, LocksInv, CallOK
<1>4. \/ i = 0 /\ \A j \in DOMAIN locks : locks[j].key # key
      \/ i \in DOMAIN locks /\ locks[i].key = key /\ \A j \in DOMAIN locks \ {i} : locks[j].key # key
  BY <1>1, EntryOf DEF Registry
<1>5. \A j \in DOMAIN locks : locks[j] \in LockRec /\ locks[j].n \in Calls /\ locks[j].leases \in Nat
  <2>1. \A j \in DOMAIN locks : locks[j] \in LockRec
    BY <1>1, ElementOfSeq
  <2> QED
    BY <2>1 DEF LockRec
<1> HIDE DEF i
<1>6. key \in {"book", "other"} /\ (route # "other" => key = "book")
  BY DEF KeyOf
<1>7. /\ e \in LockRec /\ e.key = key /\ e.n \in Calls
      /\ rest \in Seq(LockRec) /\ S \subseteq DOMAIN locks /\ Mirrors(rest, locks, S)
      /\ \A j \in S : locks[j].key # e.key /\ locks[j].n # e.n
      /\ \A j \in DOMAIN locks \ S : locks[j].key = e.key /\ locks[j].n = e.n
      /\ e.leases = Cardinality(Lessees(call, e.n)) + 1
      /\ call[e.n].pc # "new" \/ e.n = r
  <2>1. CASE i = 0
    <3>1. e = [key |-> key, n |-> r, leases |-> 1] /\ rest = locks /\ S = DOMAIN locks
      BY <2>1
    <3>2. \A j \in DOMAIN locks : locks[j].key # key /\ locks[j].n # r
      <4>1. \A j \in DOMAIN locks : locks[j].n # r
        BY <1>1, <1>2 DEF Registry, NumbersUsed
      <4> QED
        BY <1>1, <1>4, <1>5, <2>1, <4>1
    <3>3. Lessees(call, r) = {}
      <4> SUFFICES ASSUME NEW s \in Calls, call[s].n = r PROVE FALSE
        BY DEF Lessees
      <4>1. \E j \in DOMAIN locks : locks[j].n = r
        BY <1>1, CallsFinite DEF Registry, LocksKept
      <4> QED
        BY <3>2, <4>1
    <3>4. Mirrors(locks, locks, DOMAIN locks)
      BY DEF Mirrors
    <3>5. Cardinality(Lessees(call, r)) = 0
      BY <3>3, FS_EmptySet
    <3> HIDE DEF key
    <3>6. e \in LockRec /\ e.key = key /\ e.n = r /\ e.leases = 1
      BY <1>6, <3>1 DEF LockRec
    <3> HIDE DEF e, rest, S
    <3> QED
      BY <1>1, <3>1, <3>2, <3>4, <3>5, <3>6
  <2>2. CASE i # 0
    <3>1. i \in DOMAIN locks /\ locks[i].key = key /\ \A j \in DOMAIN locks \ {i} : locks[j].key # key
      BY <1>4, <2>2
    <3>2. e = [locks[i] EXCEPT !.leases = @ + 1] /\ rest = RemoveAt(locks, i) /\ S = DOMAIN locks \ {i}
      BY <2>2
    <3> HIDE DEF key, rest, S
    <3>3. e \in LockRec /\ e.key = key /\ e.n = locks[i].n /\ e.leases = locks[i].leases + 1 /\ e.n \in Calls
      BY <1>5, <3>1, <3>2 DEF LockRec
    <3> HIDE DEF e
    <3>4. i \in 1..Len(locks)
      BY <1>1, <3>1
    <3>5. rest \in Seq(LockRec) /\ Mirrors(rest, locks, S)
      BY <1>1, <3>2, <3>4, RemoveAtCloses, RemoveAtKeeps
    <3>6. \A j \in S : locks[j].key # e.key /\ locks[j].n # e.n
      BY <1>1, <3>1, <3>2, <3>3 DEF Registry, EntriesDiffer
    <3>7. e.leases = Cardinality(Lessees(call, e.n)) + 1 /\ call[e.n].pc # "new"
      BY <1>1, <3>1, <3>3 DEF Registry, LeasesCounted, NumbersUsed
    <3> QED
      BY <3>1, <3>2, <3>3, <3>5, <3>6, <3>7
  <2> QED
    BY <2>1, <2>2
<1> HIDE DEF e, rest, S
<1>8. x \in CallRec /\ x.pc = "waits" /\ x.n = e.n /\ x.route = route
  BY <1>7, ArrivalIs
<1>9. OnBook(x) => e.key = "book"
  BY <1>6, <1>7, <1>8 DEF OnBook
<1> HIDE DEF x, key
<1>10. Append(rest, e) \in Seq(LockRec) /\ Registry(Append(rest, e), [call EXCEPT ![r] = x])
  BY <1>1, <1>3, <1>7, <1>8, <1>9, LeasedKeeps
<1>11. [call EXCEPT ![r] = x] \in [Calls -> CallRec]
  BY <1>1, <1>8
<1>12. locks' \in Seq(LockRec) /\ Registry(locks', [call EXCEPT ![r] = x])
  BY <1>2, <1>10, <1>11, TrimmedKeeps
<1> QED
  BY <1>2, <1>7, <1>12 DEF x

\* A request that arrives waits, and changes nothing else.
LEMMA ArrivesKeeps ==
  ASSUME HostedInv, UNCHANGED mode, NEW r \in Calls, NEW route \in Routes, NEW at \in 1..Chapters,
         Enters(r, route, at)
  PROVE  HostedInv'
<1>1. PICK n \in Calls : /\ Becomes(r, Arrival(route, at, n)) /\ locks' \in Seq(LockRec)
                         /\ Registry(locks', [call EXCEPT ![r] = Arrival(route, at, n)])
  BY EntersRegistry
<1> DEFINE x == Arrival(route, at, n)
<1>2. x \in CallRec /\ x.pc = "waits" /\ x.n = n /\ x.sources = {} /\ x.at = at
  BY ArrivalIs
<1> HIDE DEF x
<1>3. call \in [Calls -> CallRec] /\ call[r].pc = "new"
  BY DEF HostedInv, HostedTyped, Enters
<1>4. call' = [call EXCEPT ![r] = x] /\ Registry(locks', call')
  BY <1>1 DEF x, Becomes
<1>5. call' \in [Calls -> CallRec] /\ \A s \in Calls : call'[s] = IF s = r THEN x ELSE call[s]
  BY <1>2, <1>3, <1>4
<1>6. UNCHANGED <<mode, cache, runtime, book, setting, cut>> /\ runtime = "open"
  BY DEF Enters
<1>7. CallOK(x) /\ Current(x, book)
  BY <1>2, CallsFinite DEF CallOK, Current
<1>8. \A s \in Calls : CallOK(call'[s])
  BY <1>5, <1>7 DEF HostedInv, LocksInv
<1>9. Exclusive(call')
  BY <1>2, <1>3, <1>4, ExclusiveKeeps DEF HostedInv, LocksInv
<1>10. HostedTyped'
  BY <1>1, <1>5, <1>6 DEF HostedInv, HostedTyped
<1>11. \A s \in Calls : Current(call'[s], book') /\ (call'[s].pc = "keeps" => book'.live)
  BY <1>2, <1>5, <1>6, <1>7 DEF HostedInv, BookInv
<1>12. DeletedIsForgotten'
  <2>1. \A s \in Calls : call[s].pc = "forgets" => call'[s].pc = "forgets"
    BY <1>3, <1>5
  <2> QED
    BY <1>6, <2>1 DEF HostedInv, BookInv, DeletedIsForgotten
<1>13. BookInv'
  BY <1>6, <1>11, <1>12 DEF HostedInv, BookInv
<1> QED
  BY <1>4, <1>8, <1>9, <1>10, <1>13 DEF HostedInv, LocksInv


\* A request leaves: the others keep what they have, and the last of a registry that
\* closes leaves it empty.
LEMMA DepartsKeeps ==
  ASSUME HostedInv, UNCHANGED mode, NEW r \in Calls, Leaves(r)
  PROVE  HostedInv'
<1> DEFINE x == [NotMade EXCEPT !.pc = "done"]
           given == [i \in DOMAIN locks |->
                       IF locks[i].n = call[r].n THEN [locks[i] EXCEPT !.leases = @ - 1] ELSE locks[i]]
<1>1. x \in CallRec /\ x.pc = "done" /\ x.n = 0 /\ x.sources = {}
  BY NotMadeIs
<1>2. /\ call[r].pc \in {"waits", "answered", "over"} /\ call' = [call EXCEPT ![r] = x]
      /\ runtime' = IF Drained THEN "closed" ELSE runtime
      /\ locks' = IF Drained THEN <<>> ELSE Trimmed(given)
      /\ UNCHANGED <<mode, cache, book, setting, cut>>
  BY DEF Leaves
<1> HIDE DEF x
<1>3. call \in [Calls -> CallRec] /\ locks \in Seq(LockRec) /\ Registry(locks, call)
  BY DEF HostedInv, HostedTyped, LocksInv
<1>4. call' \in [Calls -> CallRec] /\ \A s \in Calls : call'[s] = IF s = r THEN x ELSE call[s]
  BY <1>1, <1>2, <1>3
<1>5. r \in Busy /\ call[r].n # 0 /\ runtime \in {"open", "closing"}
  <2>1. r \in Busy
    BY <1>2 DEF Busy
  <2> QED
    BY <1>2, <2>1 DEF HostedInv, HostedTyped, LocksInv, BookInv, CallOK
<1>6. CallOK(x) /\ Current(x, book)
  BY <1>1 DEF CallOK, Current
<1>7. \A s \in Calls : CallOK(call'[s])
  BY <1>4, <1>6 DEF HostedInv, LocksInv
<1>8. Exclusive(call')
  BY <1>1, <1>2, <1>3, ExclusiveKeeps DEF HostedInv, LocksInv
<1>9. \A s \in Calls : Current(call'[s], book') /\ (call'[s].pc = "keeps" => book'.live)
  BY <1>1, <1>2, <1>4, <1>6 DEF HostedInv, BookInv
<1>10. \A s \in Calls : call[s].pc = "forgets" => call'[s].pc = "forgets"
  BY <1>2, <1>4
<1>11. DeletedIsForgotten'
  BY <1>2, <1>10 DEF HostedInv, BookInv, DeletedIsForgotten
<1>13. Drained => Busy = {r}
  <2>1. IsFiniteSet(Busy)
    BY CallsFinite, FS_Subset DEF Busy
  <2>2. Drained => Cardinality(Busy \ {r}) = 0 /\ IsFiniteSet(Busy \ {r})
    BY <1>5, <2>1, FS_RemoveElement DEF Drained, Leases
  <2> QED
    BY <1>5, <2>2, FS_EmptySet
<1>14. locks' \in Seq(LockRec) /\ Registry(locks', call')
  <2>1. CASE Drained
    <3>1. locks' = <<>> /\ locks' \in Seq(LockRec) /\ DOMAIN locks' = {}
      BY <1>2, <2>1
    <3>2. \A s \in Calls : call'[s].n = 0
      <4> SUFFICES ASSUME NEW s \in Calls, s # r PROVE call[s].n = 0
        BY <1>1, <1>4
      <4>1. call[s].pc \in {"new", "done"}
        BY <1>13, <2>1 DEF Busy
      <4> QED
        BY <4>1 DEF HostedInv, LocksInv, CallOK
    <3> QED
      BY <3>1, <3>2 DEF Registry, EntriesDiffer, LeasesCounted, NumbersUsed, LocksKept
  <2>2. CASE ~Drained
    <3>1. given \in Seq(LockRec) /\ Registry(given, [call EXCEPT ![r] = x])
      BY <1>1, <1>3, <1>5, ReturnedKeeps
    <3> HIDE DEF given
    <3> QED
      BY <1>2, <1>4, <2>2, <3>1, TrimmedKeeps
  <2> QED
    BY <2>1, <2>2
<1>15. HostedTyped'
  BY <1>2, <1>4, <1>14 DEF HostedInv, HostedTyped
<1>16. (runtime' # "open" => cache' = {}) /\ (runtime' \in {"closed", "exited"} => Busy' = {})
  <2>1. CASE Drained
    <3>1. Busy' = {}
      BY <1>1, <1>4, <1>13, <2>1 DEF Busy
    <3> QED
      BY <1>2, <2>1, <3>1 DEF Drained, HostedInv, BookInv
  <2>2. CASE ~Drained
    BY <1>2, <1>5, <2>2 DEF HostedInv, BookInv
  <2> QED
    BY <2>1, <2>2
<1> QED
  BY <1>7, <1>8, <1>9, <1>11, <1>14, <1>15, <1>16 DEF HostedInv, LocksInv, BookInv

\* A registry without requests has nothing to wait for.
LEMMA ClosesKeeps ==
  ASSUME HostedInv, UNCHANGED mode, Closes
  PROVE  HostedInv'
<1>1. /\ runtime = "open" /\ runtime' = (IF Leases = 0 THEN "closed" ELSE "closing")
      /\ locks' = (IF Leases = 0 THEN <<>> ELSE locks) /\ cache' = {}
      /\ UNCHANGED <<mode, call, book, setting, cut>>
  BY DEF Closes, Closing
<1>2. Leases = 0 => Busy = {}
  <2>1. IsFiniteSet(Busy)
    BY CallsFinite, FS_Subset DEF Busy
  <2> QED
    BY <2>1, FS_EmptySet DEF Leases
<1>3. locks' \in Seq(LockRec) /\ Registry(locks', call')
  <2>1. CASE Leases = 0
    <3>1. locks' = <<>> /\ locks' \in Seq(LockRec) /\ DOMAIN locks' = {}
      BY <1>1, <2>1
    <3>2. \A s \in Calls : call'[s].n = 0
      BY <1>1, <1>2, <2>1 DEF Busy, HostedInv, LocksInv, CallOK
    <3> QED
      BY <3>1, <3>2 DEF Registry, EntriesDiffer, LeasesCounted, NumbersUsed, LocksKept
  <2>2. CASE Leases # 0
    BY <1>1, <2>2 DEF HostedInv, HostedTyped, LocksInv
  <2> QED
    BY <2>1, <2>2
<1>4. HostedTyped'
  BY <1>1, <1>3 DEF HostedInv, HostedTyped
<1>5. BookInv'
  BY <1>1, <1>2 DEF HostedInv, BookInv, DeletedIsForgotten, Busy
<1>6. (\A s \in Calls : CallOK(call'[s])) /\ Exclusive(call')
  BY <1>1 DEF HostedInv, LocksInv
<1> QED
  BY <1>3, <1>4, <1>5, <1>6 DEF HostedInv, LocksInv

\* Of a process that exits nothing but its rows is left.
LEMMA ExitsKeeps ==
  ASSUME HostedInv, UNCHANGED mode, Exits
  PROVE  HostedInv'
<1>1. /\ runtime' = "exited" /\ locks' = <<>> /\ cache' = {} /\ UNCHANGED <<mode, book, setting, cut>>
      /\ call' = [r \in Calls |-> IF call[r].pc = "new" THEN call[r] ELSE [NotMade EXCEPT !.pc = "done"]]
  BY DEF Exits
<1>2. call \in [Calls -> CallRec] /\ \A r \in Calls : CallOK(call[r])
  BY DEF HostedInv, HostedTyped, LocksInv
<1>3. \A r \in Calls : /\ call'[r] \in CallRec /\ call'[r].pc \in {"new", "done"} /\ call'[r].n = 0
                       /\ call'[r].sources = {}
  BY <1>1, <1>2, NotMadeIs DEF CallOK
<1>4. call' \in [Calls -> CallRec]
  BY <1>1, <1>3
<1>5. HostedTyped'
  <2>1. <<>> \in Seq(LockRec)
    OBVIOUS
  <2> QED
    BY <1>1, <1>4, <2>1 DEF HostedInv, HostedTyped
<1>6. LocksInv'
  BY <1>1, <1>3 DEF LocksInv, CallOK, Exclusive, Registry, EntriesDiffer, LeasesCounted, NumbersUsed, LocksKept
<1>7. BookInv'
  BY <1>1, <1>3 DEF BookInv, DeletedIsForgotten, Current, Busy
<1> QED
  BY <1>5, <1>6, <1>7 DEF HostedInv

\* Nothing is served, cached or locked at first.
LEMMA HostedInitHolds == HostedInit => HostedInv
<1> SUFFICES ASSUME HostedInit PROVE HostedInv
  OBVIOUS
<1>1. /\ call = [r \in Calls |-> NotMade] /\ locks = <<>> /\ cache = {} /\ runtime = "open"
      /\ mode \in {"local", "hosted"}
      /\ book.live /\ book \in [live : BOOLEAN, bookmark : 0..Chapters]
      /\ setting = [p \in Phases |-> [ready |-> TRUE, stamp |-> 0]]
  <2>1. 0 \in 0..Chapters /\ Chapters \in 0..Chapters
    BY HostedAssumption
  <2>2. book \in {[live |-> TRUE, bookmark |-> 0], [live |-> TRUE, bookmark |-> Chapters]}
    BY DEF HostedInit
  <2>3. book.live /\ book \in [live : BOOLEAN, bookmark : 0..Chapters]
    <3>1. CASE book = [live |-> TRUE, bookmark |-> 0]
      BY <2>1, <3>1
    <3>2. CASE book = [live |-> TRUE, bookmark |-> Chapters]
      BY <2>1, <3>2
    <3> QED
      BY <2>2, <3>1, <3>2
  <2> QED
    BY <2>3 DEF HostedInit
<1>2. HostedTyped
  <2>1. setting \in [Phases -> [ready : BOOLEAN, stamp : Nat]] /\ <<>> \in Seq(LockRec)
    BY <1>1
  <2> QED
    BY <1>1, <2>1, NotMadeIs DEF HostedTyped
<1>3. LocksInv
  BY <1>1, NotMadeIs DEF LocksInv, CallOK, Exclusive, Registry, EntriesDiffer, LeasesCounted, NumbersUsed, LocksKept
<1>4. BookInv
  BY <1>1, NotMadeIs DEF BookInv, DeletedIsForgotten, Current
<1> QED
  BY <1>2, <1>3, <1>4 DEF HostedInv

\* Every step keeps the invariant.
LEMMA HostedStepKeeps ==
  ASSUME HostedInv, [HostedNext]_hvars
  PROVE  HostedInv'
<1>1. CASE UNCHANGED hosted
  <2>1. /\ UNCHANGED <<mode, locks, cache, runtime, call, book, cut>>
        /\ setting' \in [Phases -> [ready : BOOLEAN, stamp : Nat]]
    BY <1>1 DEF hosted, HostedInv, HostedTyped
  <2> QED
    BY <2>1, SettingsKeep
<1>2. CASE HostedStep /\ UNCHANGED mode
  <2>1. CASE \E r \in Calls : \E route \in Routes, at \in 1..Chapters : Enters(r, route, at)
    BY <1>2, <2>1, ArrivesKeeps
  <2>2. CASE \E r \in Calls : Acquires(r) \/ Context(r) \/ Reserves(r) \/ Returns(r) \/ CallEnds(r)
    BY <1>2, <2>2, AcquiresKeeps, ContextKeeps, ReservesKeeps, ReturnsKeeps, CallEndsKeeps
  <2>3. CASE \E r \in Calls : Position(r) \/ Reset(r) \/ Delete(r) \/ Forgets(r)
    BY <1>2, <2>3, FrontierKeeps, DeleteKeeps, ForgetsKeeps
  <2>4. CASE \E r \in Calls : Looks(r) \/ Keeps(r) \/ Other(r)
    BY <1>2, <2>4, LooksKeeps, KeepsKeeps, OtherKeeps
  <2>5. CASE \E r \in Calls : Leaves(r) \/ CutOff(r)
    BY <1>2, <2>5, DepartsKeeps, CutOffKeeps
  <2>6. CASE Closes \/ Exits
    BY <1>2, <2>6, ClosesKeeps, ExitsKeeps
  <2>7. CASE \E p \in Phases : Reconfigures(p)
    <3>1. PICK p \in Phases : Reconfigures(p)
      BY <2>7
    <3>2. setting' \in [Phases -> [ready : BOOLEAN, stamp : Nat]]
      BY <3>1 DEF Reconfigures, HostedInv, HostedTyped
    <3>3. UNCHANGED <<mode, locks, cache, runtime, call, book, cut>>
      BY <1>2, <3>1 DEF Reconfigures
    <3> QED
      BY <3>2, <3>3, SettingsKeep
  <2> QED
    BY <1>2, <2>1, <2>2, <2>3, <2>4, <2>5, <2>6, <2>7 DEF HostedStep, Serves
<1> QED
  BY <1>1, <1>2 DEF HostedNext, hvars

\* The inductive invariant: the entries of the registry are leased as often as requests
\* refer to them, one for each key and lock object, a lock object admits one request,
\* and what a request read of the book is still so.
THEOREM HostedInductive == HostedSpec => []HostedInv
<1>1. HostedInv /\ [HostedNext]_hvars => HostedInv'
  BY HostedStepKeeps
<1> QED
  BY <1>1, HostedInitHolds, PTL DEF HostedSpec

\* What a help cites is of the book as it is until it is answered, a deleted book is
\* not served from the cache, and a closed registry serves nobody (serialized,
\* _trim_idle_locks, close, cache_set, cache_invalidate_resource): whatever is evicted.
THEOREM Answers == HostedSpec => []AnswersAreCurrent
<1>1. HostedInv => AnswersAreCurrent
  BY DEF HostedInv, BookInv, Current, AnswersAreCurrent, AnswerIsCurrent, ClosedIsIdle
<1> QED
  BY <1>1, HostedInductive, PTL

-----------------------------------------------------------------------------
(* The reservations *)

\* The rows and the threads are of requests. A request settles only once its thread
\* is back, so that no row goes before its call.
RowsInv ==
  /\ open \subseteq Calls \union {Earlier} /\ calling \subseteq Calls
  /\ CallsCovered /\ Cardinality(open) <= MaxConcurrency
  /\ \A r \in calling : call[r].pc # "settles"
  /\ CallsSettled

\* Rows, threads and cuts stay, and so do the requests that call or settle, or else
\* the process exits.
RowsStay ==
  /\ UNCHANGED <<open, calling, cut>> /\ (runtime = "exited" => runtime' = "exited")
  /\ \A s \in Calls : /\ call'[s].pc = "settles" => call[s].pc = "settles"
                      /\ call[s].pc \in {"calls", "settles"} => call'[s].pc = call[s].pc \/ runtime' = "exited"

\* What leaves the rows alone.
LEMMA StayKeeps ==
  ASSUME RowsInv, RowsStay
  PROVE  RowsInv'
<1>1. UNCHANGED <<open, calling, cut>> /\ open \subseteq Calls \union {Earlier} /\ calling \subseteq Calls
  BY DEF RowsInv, RowsStay
<1>2. CallsCovered' /\ Cardinality(open') <= MaxConcurrency
  BY <1>1 DEF RowsInv, CallsCovered
<1>3. \A r \in calling' : call'[r].pc # "settles"
  BY <1>1 DEF RowsInv, RowsStay
<1>4. CallsSettled'
  <2> SUFFICES ASSUME NEW r \in open \ {Earlier}
               PROVE  call'[r].pc \in {"calls", "settles"} \/ <<r, "call">> \in cut \/ runtime' = "exited"
    BY <1>1 DEF CallsSettled
  <2>1. r \in Calls
    BY <1>1
  <2>2. call[r].pc \in {"calls", "settles"} \/ <<r, "call">> \in cut \/ runtime = "exited"
    BY DEF RowsInv, CallsSettled
  <2> QED
    BY <2>1, <2>2 DEF RowsStay
<1> QED
  BY <1>1, <1>2, <1>3, <1>4 DEF RowsInv

\* Whatever a request does besides a call leaves the rows alone.
LEMMA OthersStay ==
  ASSUME HostedTyped, NEW r \in Calls, NEW x, Becomes(r, x), x.pc # "settles",
         call[r].pc \notin {"calls", "settles"}, UNCHANGED <<open, calling, cut>>,
         runtime = "exited" => runtime' = "exited"
  PROVE  RowsStay
<1>1. \A s \in Calls : call'[s] = IF s = r THEN x ELSE call[s]
  BY DEF Becomes, HostedTyped
<1> QED
  BY <1>1 DEF RowsStay

\* A busy request is of a process that has not exited.
LEMMA BusyServes ==
  ASSUME HostedInv, NEW r \in Calls, call[r].pc \notin {"new", "done"}
  PROVE  runtime # "exited"
<1>1. r \in Busy
  BY DEF Busy
<1> QED
  BY <1>1 DEF HostedInv, BookInv

\* The end of a request is not a settlement.
LEMMA EndsBecomes ==
  ASSUME HostedTyped, NEW r \in Calls
  PROVE  Over(call[r]).pc = "over" /\ (Ends(r) => Becomes(r, Over(call[r])))
BY DEF Over, NotMade, Ends, Becomes, HostedTyped

\* A help that reads its context, and whoever only moves within the lock.
LEMMA HelpStays ==
  ASSUME HostedInv, NEW r \in Calls, Acquires(r) \/ Context(r)
  PROVE  RowsStay
<1>1. HostedTyped /\ call[r].pc \in {"waits", "inside"} /\ UNCHANGED <<runtime, open, calling, cut>>
  BY DEF HostedInv, Acquires, Context
<1>2. CASE Acquires(r)
  <2>1. Becomes(r, [call[r] EXCEPT !.pc = "inside"]) /\ [call[r] EXCEPT !.pc = "inside"].pc # "settles"
    BY <1>1, <1>2 DEF Acquires, Becomes, HostedTyped, CallRec
  <2> QED
    BY <1>1, <2>1, OthersStay
<1>3. CASE Ends(r)
  BY <1>1, <1>3, EndsBecomes, OthersStay
<1>4. CASE Context(r) /\ ~Ends(r)
  <2>1. PICK help \in Helps : \E sources \in SourcesOf(help, call[r].at) :
          call' = [call EXCEPT ![r].pc = "reserves", ![r].sources = sources,
                               ![r].beyond = IF help = "selection" THEN 1 ELSE 0,
                               ![r].seen = [p \in Phases |-> setting[p].stamp]]
    BY <1>4 DEF Context
  <2>2. PICK sources \in SourcesOf(help, call[r].at) :
          call' = [call EXCEPT ![r].pc = "reserves", ![r].sources = sources,
                               ![r].beyond = IF help = "selection" THEN 1 ELSE 0,
                               ![r].seen = [p \in Phases |-> setting[p].stamp]]
    BY <2>1
  <2> DEFINE beyond == IF help = "selection" THEN 1 ELSE 0
             seen == [p \in Phases |-> setting[p].stamp]
             x == [call[r] EXCEPT !.pc = "reserves", !.sources = sources, !.beyond = beyond, !.seen = seen]
  <2>3. Becomes(r, x)
    BY <1>1, <2>2 DEF Becomes, HostedTyped
  <2>4. call[r] \in CallRec
    BY <1>1 DEF HostedTyped
  <2>5. x.pc = "reserves"
    BY <2>4 DEF CallRec
  <2> HIDE DEF x
  <2> QED
    BY <1>1, <2>3, <2>5, OthersStay
<1> QED
  BY <1>2, <1>3, <1>4

\* The other routes.
LEMMA RoutesStay ==
  ASSUME HostedInv, NEW r \in Calls,
         Position(r) \/ Reset(r) \/ Delete(r) \/ Forgets(r) \/ Looks(r) \/ Keeps(r) \/ Other(r)
  PROVE  RowsStay
<1>1. /\ HostedTyped /\ call[r].pc \in {"inside", "forgets", "keeps"} /\ UNCHANGED <<runtime, open, calling, cut>>
      /\ \/ Ends(r) \/ Goes(r, "forgets")
         \/ call' = [call EXCEPT ![r].pc = "keeps", ![r].at = book.bookmark]
  BY DEF HostedInv, Position, Reset, Delete, Forgets, Looks, Keeps, Other, Refused
<1>2. CASE Ends(r)
  BY <1>1, <1>2, EndsBecomes, OthersStay
<1>3. CASE ~Ends(r)
  <2>1. /\ \A s \in Calls : s # r => call'[s] = call[s]
        /\ call'[r].pc \in {"forgets", "keeps"}
    BY <1>1, <1>3 DEF Goes, HostedTyped, CallRec
  <2> QED
    BY <1>1, <2>1 DEF RowsStay
<1> QED
  BY <1>2, <1>3

\* Arrivals, departures, the shutdown and the settings.
LEMMA LifeStays ==
  ASSUME HostedInv,
         \/ \E r \in Calls : (\E route \in Routes, at \in 1..Chapters : Enters(r, route, at)) \/ Leaves(r)
         \/ Closes \/ Exits \/ \E p \in Phases : Reconfigures(p)
  PROVE  RowsStay
<1>1. HostedTyped
  BY DEF HostedInv
<1>2. CASE \E r \in Calls : \E route \in Routes, at \in 1..Chapters : Enters(r, route, at)
  <2>1. PICK r \in Calls : \E route \in Routes, at \in 1..Chapters : Enters(r, route, at)
    BY <1>2
  <2>2. PICK route \in Routes, at \in 1..Chapters : Enters(r, route, at)
    BY <2>1
  <2>3. PICK n \in Calls : Becomes(r, Arrival(route, at, n))
    BY <2>2, EntersRegistry
  <2>4. Arrival(route, at, n).pc = "waits"
    BY ArrivalIs
  <2>5. call[r].pc = "new" /\ UNCHANGED <<runtime, open, calling, cut>>
    BY <2>2 DEF Enters
  <2> QED
    BY <1>1, <2>3, <2>4, <2>5, OthersStay
<1>3. CASE \E r \in Calls : Leaves(r)
  <2>1. PICK r \in Calls : Leaves(r)
    BY <1>3
  <2>2. /\ Becomes(r, [NotMade EXCEPT !.pc = "done"]) /\ call[r].pc \in {"waits", "answered", "over"}
        /\ UNCHANGED <<open, calling, cut>>
    BY <2>1 DEF Leaves, Becomes
  <2>3. runtime # "exited"
    BY <2>2, BusyServes
  <2> QED
    BY <1>1, <2>2, <2>3, NotMadeIs, OthersStay
<1>4. CASE Closes \/ \E p \in Phases : Reconfigures(p)
  BY <1>4 DEF Closes, Reconfigures, RowsStay
<1>5. CASE Exits
  <2>1. \A s \in Calls : call'[s].pc = "settles" => call[s].pc = "settles"
    BY <1>5, NotMadeIs DEF Exits
  <2> QED
    BY <1>5, <2>1 DEF Exits, RowsStay
<1> QED
  BY <1>2, <1>3, <1>4, <1>5

\* The rows are finitely many.
LEMMA RowsFinite ==
  ASSUME RowsInv
  PROVE  IsFiniteSet(open) /\ Cardinality(open) \in Nat /\ MaxConcurrency \in Nat
<1>1. IsFiniteSet(Calls \union {Earlier})
  BY CallsFinite, FS_AddElement
<1>2. IsFiniteSet(open)
  BY <1>1, FS_Subset DEF RowsInv
<1> QED
  BY <1>2, FS_CardinalityType, HostedAssumption

\* So few rows, and a thread for some of them, are what the owner may have.
LEMMA FewCalls ==
  ASSUME NEW rows, NEW threads, IsFiniteSet(rows), threads \subseteq rows, Cardinality(rows) <= MaxConcurrency
  PROVE  Cardinality(threads) <= MaxConcurrency
<1>1. Cardinality(threads) <= Cardinality(rows) /\ IsFiniteSet(threads)
  BY FS_Subset
<1>2. Cardinality(threads) \in Nat /\ Cardinality(rows) \in Nat /\ MaxConcurrency \in Nat
  BY <1>1, FS_CardinalityType, HostedAssumption
<1> QED
  BY <1>1, <1>2

\* A reservation is made within the limit, together with its call, or is refused.
LEMMA ReservesRows ==
  ASSUME HostedInv, RowsInv, NEW r \in Calls, Reserves(r)
  PROVE  RowsInv'
<1>1. HostedTyped /\ call[r].pc = "reserves" /\ UNCHANGED <<runtime, cut>>
  BY DEF HostedInv, Reserves
<1>2. CASE Ends(r) /\ UNCHANGED <<open, calling>>
  BY <1>1, <1>2, EndsBecomes, OthersStay, StayKeeps
<1>3. CASE Cardinality(open) < MaxConcurrency /\ open' = open \union {r} /\ calling' = calling \union {r} /\ Goes(r, "calls")
  <2>1. \A s \in Calls : call'[s].pc = IF s = r THEN "calls" ELSE call[s].pc
    BY <1>1, <1>3 DEF Goes, HostedTyped, CallRec
  <2>2. IsFiniteSet(open') /\ Cardinality(open') <= MaxConcurrency
    <3>1. IsFiniteSet(open') /\ (Cardinality(open') = Cardinality(open) \/ Cardinality(open') = Cardinality(open) + 1)
      BY <1>3, RowsFinite, FS_AddElement
    <3> QED
      BY <1>3, <3>1, RowsFinite
  <2>3. CallsCovered'
    <3>1. calling' \subseteq open'
      BY <1>3 DEF RowsInv, CallsCovered
    <3> QED
      BY <2>2, <3>1, FewCalls DEF CallsCovered
  <2>4. CallsSettled'
    BY <1>1, <1>3, <2>1 DEF RowsInv, CallsSettled
  <2> QED
    BY <1>3, <2>1, <2>2, <2>3, <2>4 DEF RowsInv
<1> QED
  BY <1>2, <1>3 DEF Reserves, MayReserve

\* A thread that returns leaves its row to whoever settles.
LEMMA ReturnsRows ==
  ASSUME HostedInv, RowsInv, NEW r \in Calls, Returns(r)
  PROVE  RowsInv'
<1>1. HostedTyped /\ calling' = calling \ {r} /\ UNCHANGED <<runtime, open, cut>>
  BY DEF HostedInv, Returns
<1>2. \A s \in Calls : call'[s].pc = IF s = r /\ call[r].pc = "calls" THEN "settles" ELSE call[s].pc
  BY <1>1 DEF Returns, HostedTyped, CallRec
<1>3. CallsCovered'
  <2>1. calling' \subseteq open /\ IsFiniteSet(open) /\ Cardinality(open) <= MaxConcurrency
    BY <1>1, RowsFinite DEF RowsInv, CallsCovered
  <2> QED
    BY <1>1, <2>1, FewCalls DEF CallsCovered
<1>4. CallsSettled'
  BY <1>1, <1>2 DEF RowsInv, CallsSettled
<1>5. \A s \in calling' : call'[s].pc # "settles"
  BY <1>1, <1>2 DEF RowsInv
<1> QED
  BY <1>1, <1>3, <1>4, <1>5 DEF RowsInv

\* The rows of a request that has no thread any more go with no call.
LEMMA FewerRows ==
  ASSUME RowsInv, NEW r \in Calls \ calling, open' = open \ {r}, calling' = calling
  PROVE  CallsCovered' /\ Cardinality(open') <= MaxConcurrency
<1>1. calling' \subseteq open' /\ open' \subseteq open
  BY DEF RowsInv, CallsCovered
<1>2. IsFiniteSet(open')
  BY <1>1, RowsFinite, FS_Subset
<1>3. Cardinality(open') <= MaxConcurrency
  BY <1>1, RowsFinite, FewCalls DEF RowsInv
<1> QED
  BY <1>1, <1>2, <1>3, FewCalls DEF CallsCovered

\* A settlement closes the row of a call that is over.
LEMMA CallEndsRows ==
  ASSUME HostedInv, RowsInv, NEW r \in Calls, CallEnds(r)
  PROVE  RowsInv'
<1>1. /\ HostedTyped /\ call[r].pc = "settles" /\ r \notin calling
      /\ open' = open \ {r} /\ UNCHANGED <<runtime, calling, cut>>
  BY DEF HostedInv, CallEnds, Settled, RowsInv
<1>2. \A s \in Calls : s # r => call'[s] = call[s]
  BY <1>1 DEF CallEnds, Ends, HostedTyped
<1>3. CallsCovered' /\ Cardinality(open') <= MaxConcurrency
  BY <1>1, FewerRows
<1>4. CallsSettled'
  BY <1>1, <1>2 DEF RowsInv, CallsSettled
<1>5. \A s \in calling' : call'[s].pc # "settles"
  BY <1>1, <1>2 DEF RowsInv
<1> QED
  BY <1>1, <1>3, <1>4, <1>5 DEF RowsInv

\* A cut leaves the row there is on record, or one more within the limit.
LEMMA CutOffRows ==
  ASSUME HostedInv, RowsInv, NEW r \in Calls, CutOff(r)
  PROVE  RowsInv'
<1>1. HostedTyped /\ Ends(r) /\ UNCHANGED <<runtime, calling>>
  BY DEF HostedInv, CutOff
<1>2. open' \in RowsAfter(r) /\ cut \subseteq cut' /\ (r \in open' => <<r, "call">> \in cut')
  BY DEF CutOff, Unfinished
<1>3. \A s \in Calls : call'[s] = IF s = r THEN Over(call[r]) ELSE call[s]
  BY <1>1, EndsBecomes DEF Becomes, HostedTyped
<1>4. \/ open' = open
      \/ Cardinality(open) < MaxConcurrency /\ open' = open \union {r}
      \/ open' = open \ {r} /\ r \notin calling
  BY <1>2 DEF RowsAfter, MayReserve, RowsInv
<1>5. CallsCovered' /\ Cardinality(open') <= MaxConcurrency
  <2>1. CASE open' = open
    BY <1>1, <2>1 DEF RowsInv, CallsCovered
  <2>2. CASE open' = open \ {r} /\ r \notin calling
    BY <1>1, <2>2, FewerRows
  <2>3. CASE Cardinality(open) < MaxConcurrency /\ open' = open \union {r}
    <3>1. IsFiniteSet(open') /\ (Cardinality(open') = Cardinality(open) \/ Cardinality(open') = Cardinality(open) + 1)
      BY <2>3, RowsFinite, FS_AddElement
    <3>2. Cardinality(open') <= MaxConcurrency
      BY <2>3, <3>1, RowsFinite
    <3>3. calling' \subseteq open'
      BY <1>1, <2>3 DEF RowsInv, CallsCovered
    <3> QED
      BY <3>1, <3>2, <3>3, FewCalls DEF CallsCovered
  <2> QED
    BY <1>4, <2>1, <2>2, <2>3
<1>6. open' \subseteq open \union {r}
  BY <1>4
<1>7. CallsSettled'
  <2> SUFFICES ASSUME NEW s \in open' \ {Earlier}, s # r
               PROVE  call'[s].pc \in {"calls", "settles"} \/ <<s, "call">> \in cut' \/ runtime' = "exited"
    BY <1>2 DEF CallsSettled
  <2>1. s \in open \ {Earlier} /\ s \in Calls
    BY <1>6 DEF RowsInv
  <2> QED
    BY <1>1, <1>2, <1>3, <2>1 DEF RowsInv, CallsSettled
<1>8. \A s \in calling' : call'[s].pc # "settles"
  BY <1>1, <1>3, EndsBecomes DEF RowsInv
<1> QED
  BY <1>1, <1>5, <1>6, <1>7, <1>8 DEF RowsInv

\* Every step keeps the rows in order.
LEMMA RowsStepKeeps ==
  ASSUME HostedInv, RowsInv, [HostedNext]_hvars
  PROVE  RowsInv'
<1>1. CASE UNCHANGED hosted
  BY <1>1, StayKeeps DEF hosted, RowsStay
<1>2. CASE HostedStep
  <2>1. CASE \E r \in Calls : Acquires(r) \/ Context(r)
    BY <2>1, HelpStays, StayKeeps
  <2>2. CASE \E r \in Calls : Reserves(r) \/ Returns(r) \/ CallEnds(r) \/ CutOff(r)
    BY <2>2, ReservesRows, ReturnsRows, CallEndsRows, CutOffRows
  <2>3. CASE \E r \in Calls : Position(r) \/ Reset(r) \/ Delete(r) \/ Forgets(r) \/ Looks(r) \/ Keeps(r) \/ Other(r)
    BY <2>3, RoutesStay, StayKeeps
  <2>4. CASE \/ \E r \in Calls : (\E route \in Routes, at \in 1..Chapters : Enters(r, route, at)) \/ Leaves(r)
             \/ Closes \/ Exits \/ \E p \in Phases : Reconfigures(p)
    BY <2>4, LifeStays, StayKeeps
  <2> QED
    BY <1>2, <2>1, <2>2, <2>3, <2>4 DEF HostedStep, Serves
<1> QED
  BY <1>1, <1>2 DEF HostedNext, hvars

\* No call is made at first; one of an earlier process may still be reserved.
LEMMA RowsInit == HostedInit => RowsInv
<1> SUFFICES ASSUME HostedInit PROVE RowsInv
  OBVIOUS
<1>1. (open = {} \/ open = {Earlier}) /\ calling = {}
  BY DEF HostedInit
<1>2. MaxConcurrency \in Nat \ {0} /\ Cardinality({}) = 0
  BY HostedAssumption, FS_EmptySet
<1>3. Cardinality({Earlier}) = 1
  BY FS_Singleton
<1>4. Cardinality(open) <= MaxConcurrency /\ Cardinality(calling) <= MaxConcurrency
  BY <1>1, <1>2, <1>3
<1> QED
  BY <1>1, <1>4 DEF RowsInv, CallsCovered, CallsSettled

\* While the provider works, its reservation stays open and the owner has no more
\* calls than allowed, also when the request that called was cut off. A call that
\* returns, failed or not, is settled: a row stays behind only of a process that
\* exited or of a request that was cut off (budgeted_hosted_completion,
\* reserve_provider_call, settle_provider_call).
THEOREM AccountsForCalls == HostedSpec => []CallsAccounted
<1>1. HostedInv /\ RowsInv /\ [HostedNext]_hvars => RowsInv'
  BY RowsStepKeeps
<1>2. RowsInv => CallsAccounted
  BY DEF RowsInv, CallsAccounted
<1> QED
  BY <1>1, <1>2, RowsInit, HostedInductive, PTL DEF HostedSpec

\* The local mode keeps the promise of its gate (book_lifecycle in deps.py), as a
\* hosted one does not touch it.
THEOREM LocalGate == HostedSpec => []OrderlyBook
<1>1. HostedInit => Init
  BY DEF HostedInit
<1>2. [HostedNext]_hvars => [Next]_vars
  BY DEF HostedNext, hvars, vars
<1> QED
  BY <1>1, <1>2, GateOrder, PTL DEF HostedSpec, Spec

=============================================================================
