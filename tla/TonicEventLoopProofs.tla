------------------------ MODULE TonicEventLoopProofs ------------------------
(***************************************************************************)
(* The event loop loses no wake-up and no callback, and wakes no task      *)
(* twice, whatever the number of futures, tasks, timers and runs of the    *)
(* loop.  The argument: a source that is done keeps no waiters and no      *)
(* callbacks; a task is in one place only, the ready queue or the waiters  *)
(* of the source it is suspended on; and the ready queue only grows at its *)
(* end, but for a cancellation, which takes the task's other wake-ups out. *)
(***************************************************************************)
EXTENDS TonicEventLoop, FiniteSetTheorems, SequenceTheorems, TLAPS

-----------------------------------------------------------------------------
(* Vectors and queues: their elements after a push, a pop, a concatenation *)
(* and a retain.                                                           *)

LEMMA ElementsOf ==
  ASSUME NEW S, NEW q \in Seq(S)
  PROVE  /\ Elements(q) \subseteq S
         /\ DOMAIN q = 1 .. Len(q) /\ Len(q) \in Nat
         /\ \A i \in DOMAIN q : q[i] \in S /\ q[i] \in Elements(q)
         /\ q = << >> <=> Elements(q) = {}
<1>1. DOMAIN q = 1 .. Len(q) /\ Len(q) \in Nat
  BY LenProperties
<1>2. \A i \in DOMAIN q : q[i] \in S
  BY <1>1, ElementOfSeq
<1>3. Elements(q) \subseteq S /\ \A i \in DOMAIN q : q[i] \in Elements(q)
  BY <1>2 DEF Elements
<1>4. CASE q = << >>
  BY <1>1, <1>2, <1>3, <1>4 DEF Elements
<1>5. CASE q # << >>
  <2>1. 1 \in DOMAIN q
    BY <1>1, <1>5, EmptySeq
  <2> QED
    BY <1>1, <1>2, <1>3, <1>5, <2>1
<1> QED
  BY <1>1, <1>2, <1>3, <1>4, <1>5

LEMMA Concatenated ==
  ASSUME NEW S, NEW p \in Seq(S), NEW q \in Seq(S)
  PROVE  /\ p \o q \in Seq(S)
         /\ DOMAIN (p \o q) = 1 .. Len(p) + Len(q)
         /\ \A i \in DOMAIN p : i \in DOMAIN (p \o q) /\ (p \o q)[i] = p[i]
         /\ \A i \in DOMAIN q : Len(p) + i \in DOMAIN (p \o q) /\ (p \o q)[Len(p) + i] = q[i]
         /\ \A i \in DOMAIN (p \o q) : i \in DOMAIN p \/ \E j \in DOMAIN q : i = Len(p) + j
         /\ Elements(p \o q) = Elements(p) \cup Elements(q)
<1>1. /\ DOMAIN p = 1 .. Len(p) /\ Len(p) \in Nat
      /\ DOMAIN q = 1 .. Len(q) /\ Len(q) \in Nat
  BY LenProperties
<1>2. /\ p \o q \in Seq(S) /\ Len(p \o q) = Len(p) + Len(q)
      /\ \A i \in 1 .. Len(p) + Len(q) :
           (p \o q)[i] = IF i <= Len(p) THEN p[i] ELSE q[i - Len(p)]
  BY ConcatProperties
<1>3. DOMAIN (p \o q) = 1 .. Len(p) + Len(q)
  BY <1>2, LenProperties
<1> HIDE DEF Elements
<1> DEFINE m == Len(p)
           n == Len(q)
           r == p \o q
<1>4. m \in Nat /\ n \in Nat /\ DOMAIN p = 1 .. m /\ DOMAIN q = 1 .. n /\ DOMAIN r = 1 .. m + n
      /\ \A i \in 1 .. m + n : r[i] = IF i <= m THEN p[i] ELSE q[i - m]
  BY <1>1, <1>2, <1>3
<1> HIDE DEF m, n, r
<1>5. \A i \in 1 .. m : i \in 1 .. m + n /\ r[i] = p[i]
  BY <1>4
<1>6. \A i \in 1 .. n : m + i \in 1 .. m + n /\ r[m + i] = q[i]
  <2> SUFFICES ASSUME NEW i \in 1 .. n PROVE m + i \in 1 .. m + n /\ r[m + i] = q[i]
    OBVIOUS
  <2>1. m + i \in 1 .. m + n /\ ~ (m + i <= m) /\ m + i - m = i
    BY <1>4
  <2> QED
    BY <1>4, <2>1
<1>7. \A i \in 1 .. m + n : i \in 1 .. m \/ \E j \in 1 .. n : i = m + j
  <2> SUFFICES ASSUME NEW i \in 1 .. m + n, i \notin 1 .. m PROVE \E j \in 1 .. n : i = m + j
    OBVIOUS
  <2>1. i - m \in 1 .. n /\ i = m + (i - m)
    BY <1>4
  <2> QED
    BY <2>1
<1>8. Elements(r) = Elements(p) \cup Elements(q)
  <2>1. ASSUME NEW i \in DOMAIN r
        PROVE  r[i] \in Elements(p) \cup Elements(q)
    <3>1. CASE i \in 1 .. m
      BY <1>4, <1>5, <3>1 DEF Elements
    <3>2. ASSUME NEW j \in 1 .. n, i = m + j
          PROVE  r[i] \in Elements(q)
      BY <1>4, <1>6, <3>2 DEF Elements
    <3> QED
      BY <1>4, <1>7, <3>1, <3>2
  <2>2. \A i \in DOMAIN p : p[i] \in Elements(r)
    BY <1>4, <1>5 DEF Elements
  <2>3. \A i \in DOMAIN q : q[i] \in Elements(r)
    BY <1>4, <1>6 DEF Elements
  <2> QED
    BY <2>1, <2>2, <2>3 DEF Elements
<1> QED
  BY <1>2, <1>4, <1>5, <1>6, <1>7, <1>8 DEF m, n, r

LEMMA Appended ==
  ASSUME NEW S, NEW q \in Seq(S), NEW e \in S
  PROVE  /\ Append(q, e) \in Seq(S)
         /\ Append(q, e) = q \o <<e>>
         /\ DOMAIN Append(q, e) = DOMAIN q \cup {Len(q) + 1}
         /\ Len(q) + 1 \notin DOMAIN q
         /\ \A i \in DOMAIN q : Append(q, e)[i] = q[i]
         /\ Append(q, e)[Len(q) + 1] = e
         /\ Elements(Append(q, e)) = Elements(q) \cup {e}
<1>1. Append(q, e) \in Seq(S) /\ Append(q, e) = q \o <<e>>
  BY AppendProperties, AppendIsConcat
<1>2. Len(Append(q, e)) = Len(q) + 1
      /\ \A i \in 1 .. Len(q) : Append(q, e)[i] = q[i]
      /\ Append(q, e)[Len(q) + 1] = e
  BY AppendProperties
<1>3. DOMAIN q = 1 .. Len(q) /\ Len(q) \in Nat /\ DOMAIN Append(q, e) = 1 .. Len(q) + 1
  BY <1>1, <1>2, LenProperties
<1> DEFINE n == Len(q)
           r == Append(q, e)
<1>4. n \in Nat /\ DOMAIN q = 1 .. n /\ DOMAIN r = 1 .. n + 1
      /\ (\A i \in 1 .. n : r[i] = q[i]) /\ r[n + 1] = e
  BY <1>2, <1>3
<1> HIDE DEF n, r
<1>5. 1 .. n + 1 = (1 .. n) \cup {n + 1} /\ n + 1 \notin 1 .. n
  BY <1>4
<1>6. Elements(r) = Elements(q) \cup {e}
  BY <1>4, <1>5 DEF Elements
<1> QED
  BY <1>1, <1>4, <1>5, <1>6 DEF n, r

LEMMA AppendedElements ==
  ASSUME NEW S, NEW q \in Seq(S), NEW e \in S
  PROVE  Append(q, e) \in Seq(S) /\ Elements(Append(q, e)) = Elements(q) \cup {e}
<1> DEFINE r == Append(q, e)
<1>1. /\ r \in Seq(S)
      /\ DOMAIN r = DOMAIN q \cup {Len(q) + 1}
      /\ \A i \in DOMAIN q : r[i] = q[i]
      /\ r[Len(q) + 1] = e
  BY Appended
<1> HIDE DEF r
<1>2. Elements(r) = Elements(q) \cup {e}
  BY <1>1 DEF Elements
<1> QED
  BY <1>1, <1>2 DEF r

LEMMA AppendedDistinct ==
  ASSUME NEW S, NEW q \in Seq(S), NEW e \in S, e \notin Elements(q),
         \A i, j \in DOMAIN q : q[i] = q[j] => i = j
  PROVE  \A i, j \in DOMAIN Append(q, e) : Append(q, e)[i] = Append(q, e)[j] => i = j
<1> DEFINE r == Append(q, e)
<1>1. /\ DOMAIN r = DOMAIN q \cup {Len(q) + 1}
      /\ \A i \in DOMAIN q : r[i] = q[i]
      /\ r[Len(q) + 1] = e
  BY Appended
<1>2. \A i \in DOMAIN q : q[i] # e
  BY DEF Elements
<1> HIDE DEF r
<1>3. \A i, j \in DOMAIN r : r[i] = r[j] => i = j
  BY <1>1, <1>2
<1> QED
  BY <1>3 DEF r

\* Positions of r that are positions of q, in the same order.
Embedding(r, q, f) ==
  /\ f \in [DOMAIN r -> DOMAIN q]
  /\ \A i, j \in DOMAIN r : i < j => f[i] < f[j]
  /\ \A i \in DOMAIN r : r[i] = q[f[i]]

LEMMA Popped ==
  ASSUME NEW S, NEW q \in Seq(S), q # << >>
  PROVE  /\ Head(q) \in S /\ Head(q) = q[1] /\ 1 \in DOMAIN q
         /\ Tail(q) \in Seq(S)
         /\ Elements(q) = {Head(q)} \cup Elements(Tail(q))
         /\ Embedding(Tail(q), q, [i \in DOMAIN Tail(q) |-> i + 1])
         /\ \A j \in DOMAIN q : j = 1 \/ \E i \in DOMAIN Tail(q) : j = i + 1
<1>1. /\ Head(q) \in S /\ Tail(q) \in Seq(S) /\ Len(Tail(q)) = Len(q) - 1
      /\ \A i \in 1 .. Len(Tail(q)) : Tail(q)[i] = q[i + 1]
  BY HeadTailProperties
<1>2. /\ DOMAIN q = 1 .. Len(q) /\ Len(q) \in Nat
      /\ DOMAIN Tail(q) = 1 .. Len(Tail(q)) /\ Len(Tail(q)) \in Nat
      /\ Len(q) # 0
  BY <1>1, LenProperties, EmptySeq
<1> DEFINE n == Len(Tail(q))
           r == Tail(q)
           f == [i \in DOMAIN r |-> i + 1]
<1>3. /\ n \in Nat /\ DOMAIN r = 1 .. n /\ DOMAIN q = 1 .. n + 1
      /\ \A i \in 1 .. n : r[i] = q[i + 1]
  BY <1>1, <1>2
<1>4. Head(q) = q[1]
  OBVIOUS
<1> HIDE DEF n, r
<1>5. /\ 1 \in 1 .. n + 1
      /\ \A i \in 1 .. n : i + 1 \in 1 .. n + 1
      /\ \A j \in 1 .. n + 1 : j = 1 \/ \E i \in 1 .. n : j = i + 1
  <2>1. \A j \in 1 .. n + 1 : j # 1 => j - 1 \in 1 .. n /\ j = j - 1 + 1
    BY <1>3
  <2> QED
    BY <1>3, <2>1
<1>6. Elements(q) = {q[1]} \cup Elements(r)
  <2>1. \A i \in DOMAIN r : r[i] \in Elements(q)
    BY <1>3, <1>5 DEF Elements
  <2>2. ASSUME NEW j \in DOMAIN q
        PROVE  q[j] \in {q[1]} \cup Elements(r)
    <3>1. ASSUME NEW i \in 1 .. n, j = i + 1
          PROVE  q[j] \in Elements(r)
      BY <1>3, <3>1 DEF Elements
    <3> QED
      BY <1>3, <1>5, <3>1
  <2>3. q[1] \in Elements(q)
    BY <1>3, <1>5 DEF Elements
  <2> QED
    BY <2>1, <2>2, <2>3 DEF Elements
<1>7. Embedding(r, q, f)
  BY <1>3, <1>5 DEF Embedding
<1> QED
  BY <1>1, <1>3, <1>4, <1>5, <1>6, <1>7 DEF n, r

LEMMA RetainedElements ==
  ASSUME NEW S, NEW q \in Seq(S), NEW P \in SUBSET DOMAIN q, NEW r \in Retained(q, P)
  PROVE  /\ r \in Seq(S)
         /\ Elements(r) = {q[i] : i \in P}
         /\ \E f : Embedding(r, q, f) /\ \A l \in P : \E i \in DOMAIN r : f[i] = l
<1>1. PICK f \in Increasing(P) : r = At(q, f)
  BY DEF Retained
<1>2. DOMAIN q = 1 .. Len(q) /\ Len(q) \in Nat
  BY LenProperties
<1>3. IsFiniteSet(P) /\ Cardinality(P) \in Nat
  <2>1. IsFiniteSet(1 .. Len(q))
    BY <1>2, FS_Interval
  <2> QED
    BY <1>2, <2>1, FS_Subset, FS_CardinalityType
<1>4. /\ f \in [1 .. Cardinality(P) -> P]
      /\ \A i, j \in 1 .. Cardinality(P) : i < j => f[i] < f[j]
      /\ \A l \in P : \E i \in 1 .. Cardinality(P) : f[i] = l
  BY <1>1 DEF Increasing
<1>5. r = [i \in 1 .. Cardinality(P) |-> q[f[i]]]
  BY <1>1, <1>4 DEF At
<1>6. \A i \in 1 .. Cardinality(P) : q[f[i]] \in S
  BY <1>4, ElementsOf
<1>7. r \in Seq(S)
  BY <1>3, <1>5, <1>6, IsASeq
<1>8. DOMAIN r = 1 .. Cardinality(P) /\ \A i \in 1 .. Cardinality(P) : r[i] = q[f[i]]
  BY <1>5
<1>9. Embedding(r, q, f)
  BY <1>4, <1>8 DEF Embedding
<1>10. Elements(r) = {q[i] : i \in P}
  BY <1>4, <1>8 DEF Elements
<1>11. \A l \in P : \E i \in DOMAIN r : f[i] = l
  BY <1>4, <1>8
<1> QED
  BY <1>7, <1>9, <1>10, <1>11, Zenon

-----------------------------------------------------------------------------
\* What the objects, the queues and the control of the loop refer to.
Linked ==
  /\ \A x \in DOMAIN objs :
       /\ \A t \in Elements(objs[x].waiters) : t \in DOMAIN objs /\ IsTask(t)
       /\ objs[x].waitingOn \in DOMAIN objs \cup {0}
       /\ objs[x].awaiting \in DOMAIN objs \cup {0}
       /\ ~ Pending(x) => objs[x].waiters = << >> /\ objs[x].callbacks = << >>
  /\ \A e \in Elements(ready) : e.kind = "task" => e.who \in DOMAIN objs /\ IsTask(e.who)
  /\ \A timer \in Elements(timers) \cup Elements(maturing) :
       timer.future \in DOMAIN objs /\ ~ IsTask(timer.future)
  /\ \A timer \in Elements(timers) : timer.left > 0
  /\ \A t \in tasks : t \in DOMAIN objs /\ IsTask(t)
  /\ IF pc = "task" THEN current \in DOMAIN objs /\ IsTask(current) /\ Pending(current)
                    ELSE current = 0
  /\ pc = "outside" => ready = << >> /\ timers = << >> /\ tasks = {}
  /\ maturing # << >> => pc \in {"mature", "jumped"}

\* No two entries of a kind are about the same task or callback.
Single(q, kind) ==
  \A i, j \in DOMAIN q : q[i].kind = kind /\ q[j].kind = kind /\ q[i].who = q[j].who => i = j

\* A callback is kept by one source, or queued, or was called.
CallbacksOnce ==
  /\ Single(ready, "callback")
  /\ \A i, j \in DOMAIN ran : ran[i] = ran[j] => i = j
  /\ \A e \in Elements(ready) : e.kind = "callback" => e.who \notin Elements(ran)
  /\ \A x \in DOMAIN objs :
       /\ \A c \in Elements(objs[x].callbacks) :
            c \notin Elements(ran) /\ CallbackEntry(c) \notin Elements(ready)
       /\ \A i, j \in DOMAIN objs[x].callbacks :
            objs[x].callbacks[i] = objs[x].callbacks[j] => i = j
  /\ \A x, y \in DOMAIN objs :
       Elements(objs[x].callbacks) \cap Elements(objs[y].callbacks) # {} => x = y

\* A task is queued, or waits for the source it is suspended on, or is stepped; what
\* wakes it is the outcome of the source that it awaits, or an exception.
TasksOnce ==
  /\ Single(ready, "task")
  /\ \A x \in DOMAIN objs :
       /\ \A i, j \in DOMAIN objs[x].waiters : objs[x].waiters[i] = objs[x].waiters[j] => i = j
       /\ \A t \in Elements(objs[x].waiters) :
            /\ objs[t].waitingOn = x /\ objs[t].awaiting \in {0, x}
            /\ t # current
            /\ \A e \in Elements(ready) : ~ (e.kind = "task" /\ e.who = t)
  /\ \A e \in Elements(ready) : e.kind = "task" =>
       /\ e.who # current
       /\ e.wake = "cancelled" \/ objs[e.who].awaiting = 0 \/ ~ Pending(objs[e.who].awaiting)
  /\ pc = "task" => objs[current].awaiting = 0

\* The first of the wake-ups of t is a cancellation.
Leads(q, t) ==
  \E i \in DOMAIN q :
    /\ q[i].kind = "task" /\ q[i].who = t /\ q[i].wake = "cancelled"
    /\ \A j \in DOMAIN q : q[j].kind = "task" /\ q[j].who = t => i <= j

Queued(q, t) == \E e \in Elements(q) : e.kind = "task" /\ e.who = t

\* NoLostWakeup, said of elements.
Kept ==
  \A t \in tasks : Pending(t) =>
    /\ t = current \/ Queued(ready, t) \/ \E s \in DOMAIN objs : t \in Elements(objs[s].waiters)
    /\ objs[t].cancelRequested => Leads(ready, t)

LoopInv ==
  /\ program \in Programs
  /\ TypeOK
  /\ Linked
  /\ Kept
  /\ CallbacksOnce
  /\ CancelsItself \/ TasksOnce

-----------------------------------------------------------------------------
(* The ready queue.                                                         *)

LEMMA SingleConcat ==
  ASSUME NEW S, NEW p \in Seq(S), NEW q \in Seq(S), NEW kind,
         Single(p, kind), Single(q, kind),
         \A d \in Elements(p), e \in Elements(q) : ~ (d.kind = kind /\ e.kind = kind /\ d.who = e.who)
  PROVE  Single(p \o q, kind)
<1> DEFINE r == p \o q
           m == Len(p)
<1>1. /\ \A i \in DOMAIN p : r[i] = p[i] /\ p[i] \in Elements(p)
      /\ \A i \in DOMAIN q : r[m + i] = q[i] /\ q[i] \in Elements(q)
      /\ \A i \in DOMAIN r : i \in DOMAIN p \/ \E j \in DOMAIN q : i = m + j
  BY Concatenated, ElementsOf
<1> HIDE DEF r, m
<1>2. SUFFICES ASSUME NEW i \in DOMAIN r, NEW j \in DOMAIN r,
                      r[i].kind = kind, r[j].kind = kind, r[i].who = r[j].who
               PROVE  i = j
  BY Zenon DEF Single, r
<1>3. CASE i \in DOMAIN p /\ j \in DOMAIN p
  BY <1>1, <1>2, <1>3, Zenon DEF Single
<1>4. ASSUME i \in DOMAIN p, NEW k \in DOMAIN q, j = m + k
      PROVE  FALSE
  BY <1>1, <1>2, <1>4, Zenon
<1>5. ASSUME j \in DOMAIN p, NEW k \in DOMAIN q, i = m + k
      PROVE  FALSE
  BY <1>1, <1>2, <1>5, Zenon
<1>6. ASSUME NEW k \in DOMAIN q, NEW l \in DOMAIN q, i = m + k, j = m + l
      PROVE  i = j
  BY <1>1, <1>2, <1>6, Zenon DEF Single
<1> QED
  BY <1>1, <1>3, <1>4, <1>5, <1>6, Zenon

LEMMA SingleEmbedded ==
  ASSUME NEW S, NEW r \in Seq(S), NEW T, NEW q \in Seq(T), NEW f, Embedding(r, q, f), NEW kind, Single(q, kind)
  PROVE  Single(r, kind)
<1>1. DOMAIN r \subseteq Int
  BY LenProperties
<1>2. DOMAIN q \subseteq Int
  BY LenProperties
<1>3. SUFFICES ASSUME NEW i \in DOMAIN r, NEW j \in DOMAIN r,
                      r[i].kind = kind, r[j].kind = kind, r[i].who = r[j].who
               PROVE  i = j
  BY Zenon DEF Single
<1>4. f[i] \in DOMAIN q /\ f[j] \in DOMAIN q /\ r[i] = q[f[i]] /\ r[j] = q[f[j]]
  BY DEF Embedding
<1>5. f[i] = f[j]
  BY <1>3, <1>4, Zenon DEF Single
<1>6. ~ (i < j) /\ ~ (j < i)
  BY <1>2, <1>4, <1>5 DEF Embedding
<1> QED
  BY <1>1, <1>6

LEMMA LeadsConcat ==
  ASSUME NEW S, NEW p \in Seq(S), NEW q \in Seq(S), NEW t, Leads(p, t)
  PROVE  Leads(p \o q, t)
<1> DEFINE r == p \o q
           m == Len(p)
<1>1. /\ \A i \in DOMAIN p : i \in DOMAIN r /\ r[i] = p[i]
      /\ \A i \in DOMAIN r : i \in DOMAIN p \/ \E j \in DOMAIN q : i = m + j
      /\ DOMAIN p = 1 .. m /\ m \in Nat
      /\ DOMAIN q \subseteq Nat
  BY Concatenated, LenProperties
<1> HIDE DEF r, m
<1>2. PICK i \in DOMAIN p :
        /\ p[i].kind = "task" /\ p[i].who = t /\ p[i].wake = "cancelled"
        /\ \A j \in DOMAIN p : p[j].kind = "task" /\ p[j].who = t => i <= j
  BY DEF Leads
<1>3. \A j \in DOMAIN r : r[j].kind = "task" /\ r[j].who = t => i <= j
  <2> SUFFICES ASSUME NEW j \in DOMAIN r, r[j].kind = "task", r[j].who = t PROVE i <= j
    OBVIOUS
  <2>1. CASE j \in DOMAIN p
    BY <1>1, <1>2, <2>1
  <2>2. ASSUME NEW k \in DOMAIN q, j = m + k
        PROVE  i <= j
    BY <1>1, <2>2
  <2> QED
    BY <1>1, <2>1, <2>2
<1>4. i \in DOMAIN r /\ r[i] = p[i]
  BY <1>1
<1> QED
  BY <1>2, <1>3, <1>4, Zenon DEF Leads, r

LEMMA LeadsEmbedded ==
  ASSUME NEW S, NEW r \in Seq(S), NEW T, NEW q \in Seq(T), NEW f, Embedding(r, q, f), NEW t, Leads(q, t),
         \A i \in DOMAIN q : q[i].kind = "task" /\ q[i].who = t => \E j \in DOMAIN r : f[j] = i
  PROVE  Leads(r, t)
<1>1. DOMAIN r \subseteq Int /\ DOMAIN q \subseteq Int
  BY LenProperties
<1>2. PICK i \in DOMAIN q :
        /\ q[i].kind = "task" /\ q[i].who = t /\ q[i].wake = "cancelled"
        /\ \A j \in DOMAIN q : q[j].kind = "task" /\ q[j].who = t => i <= j
  BY DEF Leads
<1>3. PICK k \in DOMAIN r : f[k] = i
  BY <1>2
<1>4. r[k] = q[i]
  BY <1>3 DEF Embedding
<1>5. \A j \in DOMAIN r : r[j].kind = "task" /\ r[j].who = t => k <= j
  <2> SUFFICES ASSUME NEW j \in DOMAIN r, r[j].kind = "task", r[j].who = t PROVE k <= j
    OBVIOUS
  <2>1. f[j] \in DOMAIN q /\ q[f[j]] = r[j]
    BY DEF Embedding
  <2>2. i <= f[j]
    BY <1>2, <2>1
  <2>3. ~ (j < k)
    BY <1>1, <1>3, <2>1, <2>2 DEF Embedding
  <2> QED
    BY <1>1, <2>3
<1> QED
  BY <1>2, <1>4, <1>5, Zenon DEF Leads

LEMMA LeadsBehind ==
  ASSUME NEW S, NEW p \in Seq(S), NEW q \in Seq(S), NEW t, Leads(q, t),
         \A e \in Elements(p) : ~ (e.kind = "task" /\ e.who = t)
  PROVE  Leads(p \o q, t)
<1> DEFINE r == p \o q
           m == Len(p)
<1>1. /\ \A i \in DOMAIN p : r[i] = p[i] /\ p[i] \in Elements(p)
      /\ \A i \in DOMAIN q : m + i \in DOMAIN r /\ r[m + i] = q[i]
      /\ \A i \in DOMAIN r : i \in DOMAIN p \/ \E j \in DOMAIN q : i = m + j
      /\ DOMAIN q \subseteq Nat /\ m \in Nat
  BY Concatenated, LenProperties, ElementsOf
<1> HIDE DEF r, m
<1>2. PICK i \in DOMAIN q :
        /\ q[i].kind = "task" /\ q[i].who = t /\ q[i].wake = "cancelled"
        /\ \A j \in DOMAIN q : q[j].kind = "task" /\ q[j].who = t => i <= j
  BY DEF Leads
<1>3. \A j \in DOMAIN r : r[j].kind = "task" /\ r[j].who = t => m + i <= j
  <2> SUFFICES ASSUME NEW j \in DOMAIN r, r[j].kind = "task", r[j].who = t PROVE m + i <= j
    OBVIOUS
  <2>1. j \notin DOMAIN p
    BY <1>1
  <2>2. PICK k \in DOMAIN q : j = m + k
    BY <1>1, <2>1
  <2>3. i <= k
    BY <1>1, <1>2, <2>2
  <2> QED
    BY <1>1, <2>2, <2>3
<1>4. m + i \in DOMAIN r /\ r[m + i] = q[i]
  BY <1>1
<1> QED
  BY <1>2, <1>3, <1>4, Zenon DEF Leads, r

LEMMA Behind ==
  ASSUME NEW S, NEW q \in Seq(S), NEW e \in S
  PROVE  /\ Append(q, e) \in Seq(S)
         /\ Elements(Append(q, e)) = Elements(q) \cup {e}
         /\ \A t : Leads(q, t) => Leads(Append(q, e), t)
         /\ \A kind : Single(q, kind)
                         /\ (\A d \in Elements(q) : ~ (d.kind = kind /\ e.kind = kind /\ d.who = e.who))
                       => Single(Append(q, e), kind)
<1> DEFINE a == <<e>>
<1>1. a \in Seq(S) /\ Elements(a) = {e} /\ \A kind : Single(a, kind)
  <2>1. a \in Seq(S)
    BY IsASeq
  <2> QED
    BY <2>1 DEF Elements, Single
<1>2. Append(q, e) \in Seq(S) /\ Append(q, e) = q \o a /\ Elements(Append(q, e)) = Elements(q) \cup {e}
  BY Appended
<1> HIDE DEF a
<1>3. \A t : Leads(q, t) => Leads(q \o a, t)
  BY <1>1, LeadsConcat
<1>4. ASSUME NEW kind, Single(q, kind), \A d \in Elements(q) : ~ (d.kind = kind /\ e.kind = kind /\ d.who = e.who)
      PROVE  Single(q \o a, kind)
  BY <1>1, <1>4, SingleConcat
<1> QED
  BY <1>2, <1>3, <1>4

LEMMA Taken ==
  ASSUME NEW S, NEW q \in Seq(S), q # << >>
  PROVE  /\ Head(q) \in S /\ Tail(q) \in Seq(S)
         /\ Elements(q) = {Head(q)} \cup Elements(Tail(q))
         /\ \A kind : Single(q, kind) =>
              /\ Single(Tail(q), kind)
              /\ \A d \in Elements(Tail(q)) :
                   ~ (d.kind = kind /\ Head(q).kind = kind /\ d.who = Head(q).who)
         /\ \A t : Leads(q, t) =>
              IF Head(q).kind = "task" /\ Head(q).who = t THEN Head(q).wake = "cancelled"
                                                        ELSE Leads(Tail(q), t)
<1> DEFINE h == Head(q)
           r == Tail(q)
           f == [i \in DOMAIN r |-> i + 1]
<1>1. /\ h \in S /\ h = q[1] /\ 1 \in DOMAIN q
      /\ r \in Seq(S)
      /\ Elements(q) = {h} \cup Elements(r)
      /\ Embedding(r, q, f)
      /\ \A j \in DOMAIN q : j = 1 \/ \E i \in DOMAIN r : j = i + 1
  BY Popped
<1>2. DOMAIN q = 1 .. Len(q) /\ Len(q) \in Nat /\ DOMAIN r = 1 .. Len(r) /\ Len(r) \in Nat
  BY <1>1, LenProperties
<1>3. \A i \in DOMAIN r : r[i] = q[i + 1] /\ i + 1 \in DOMAIN q /\ i + 1 # 1 /\ f[i] = i + 1
  BY <1>1, <1>2 DEF Embedding
<1>4. \A j \in DOMAIN q : j = 1 \/ \E i \in DOMAIN r : j = f[i]
  BY <1>1, <1>3
<1> HIDE DEF h, r, f
<1>5. ASSUME NEW kind, Single(q, kind)
      PROVE  /\ Single(r, kind)
             /\ \A d \in Elements(r) : ~ (d.kind = kind /\ h.kind = kind /\ d.who = h.who)
  <2>1. Single(r, kind)
    BY <1>1, <1>5, SingleEmbedded
  <2>2. \A d \in Elements(r) : ~ (d.kind = kind /\ h.kind = kind /\ d.who = h.who)
    BY <1>1, <1>3, <1>5 DEF Single, Elements
  <2> QED
    BY <2>1, <2>2
<1>6. ASSUME NEW t, Leads(q, t), h.kind = "task", h.who = t
      PROVE  h.wake = "cancelled"
  <2>1. PICK i \in DOMAIN q :
          /\ q[i].kind = "task" /\ q[i].who = t /\ q[i].wake = "cancelled"
          /\ \A j \in DOMAIN q : q[j].kind = "task" /\ q[j].who = t => i <= j
    BY <1>6 DEF Leads
  <2>2. i = 1
    BY <1>1, <1>2, <1>6, <2>1
  <2> QED
    BY <1>1, <2>1, <2>2
<1>7. ASSUME NEW t, Leads(q, t), ~ (h.kind = "task" /\ h.who = t)
      PROVE  Leads(r, t)
  <2>1. \A i \in DOMAIN q : q[i].kind = "task" /\ q[i].who = t => \E j \in DOMAIN r : f[j] = i
    BY <1>1, <1>4, <1>7
  <2> QED
    BY <1>1, <1>7, <2>1, LeadsEmbedded
<1> QED
  BY <1>1, <1>5, <1>6, <1>7 DEF h, r

LEMMA Entries ==
  ASSUME NEW e \in ReadyEntry
  PROVE  /\ e.kind \in {"task", "callback"}
         /\ e.kind = "task" => e = TaskEntry(e.who, e.wake) /\ e.who \in Ids /\ e.wake \in Terminal
         /\ e.kind = "callback" => e = CallbackEntry(e.who) /\ e.who \in program.callbacks
  BY DEF ReadyEntry, TaskEntry, CallbackEntry

LEMMA TaskEntries ==
  ASSUME NEW t \in Ids, NEW wake \in Terminal
  PROVE  /\ TaskEntry(t, wake) \in ReadyEntry
         /\ TaskEntry(t, wake).kind = "task"
         /\ TaskEntry(t, wake).who = t
         /\ TaskEntry(t, wake).wake = wake
  BY DEF ReadyEntry, TaskEntry

LEMMA CallbackEntries ==
  ASSUME NEW c \in program.callbacks
  PROVE  /\ CallbackEntry(c) \in ReadyEntry
         /\ CallbackEntry(c).kind = "callback"
         /\ CallbackEntry(c).who = c
  BY DEF ReadyEntry, CallbackEntry

LEMMA TaskBlock ==
  ASSUME NEW w \in Seq(Ids), NEW o \in Terminal, NEW b, b = [i \in DOMAIN w |-> TaskEntry(w[i], o)]
  PROVE  /\ b \in Seq(ReadyEntry)
         /\ Elements(b) = {TaskEntry(t, o) : t \in Elements(w)}
         /\ Single(b, "callback")
         /\ (\A i, j \in DOMAIN w : w[i] = w[j] => i = j) => Single(b, "task")
<1>1. DOMAIN w = 1 .. Len(w) /\ Len(w) \in Nat /\ \A i \in DOMAIN w : w[i] \in Ids
  BY ElementsOf
<1>2. \A i \in DOMAIN w : /\ b[i] = TaskEntry(w[i], o) /\ b[i] \in ReadyEntry
                           /\ b[i].kind = "task" /\ b[i].who = w[i]
  BY <1>1, TaskEntries
<1>3. b \in Seq(ReadyEntry)
  BY <1>1, <1>2, IsASeq
<1>4. DOMAIN b = DOMAIN w
  OBVIOUS
<1>5. Elements(b) = {TaskEntry(t, o) : t \in Elements(w)}
  BY <1>2, <1>4 DEF Elements
<1>6. Single(b, "callback") /\ ((\A i, j \in DOMAIN w : w[i] = w[j] => i = j) => Single(b, "task"))
  BY <1>2, <1>4 DEF Single
<1> QED
  BY <1>3, <1>5, <1>6

LEMMA CallbackBlock ==
  ASSUME NEW w \in Seq(program.callbacks), NEW b, b = [i \in DOMAIN w |-> CallbackEntry(w[i])]
  PROVE  /\ b \in Seq(ReadyEntry)
         /\ Elements(b) = {CallbackEntry(c) : c \in Elements(w)}
         /\ Single(b, "task")
         /\ (\A i, j \in DOMAIN w : w[i] = w[j] => i = j) => Single(b, "callback")
<1>1. DOMAIN w = 1 .. Len(w) /\ Len(w) \in Nat /\ \A i \in DOMAIN w : w[i] \in program.callbacks
  BY ElementsOf
<1>2. \A i \in DOMAIN w : /\ b[i] = CallbackEntry(w[i]) /\ b[i] \in ReadyEntry
                           /\ b[i].kind = "callback" /\ b[i].who = w[i]
  BY <1>1, CallbackEntries
<1>3. b \in Seq(ReadyEntry)
  BY <1>1, <1>2, IsASeq
<1>4. DOMAIN b = DOMAIN w
  OBVIOUS
<1>5. Elements(b) = {CallbackEntry(c) : c \in Elements(w)}
  BY <1>2, <1>4 DEF Elements
<1>6. Single(b, "task") /\ ((\A i, j \in DOMAIN w : w[i] = w[j] => i = j) => Single(b, "callback"))
  BY <1>2, <1>4 DEF Single
<1> QED
  BY <1>3, <1>5, <1>6

-----------------------------------------------------------------------------
(* Futures and tasks.                                                       *)

LEMMA ObjectTypes ==
  ASSUME TypeOK
  PROVE  /\ DOMAIN objs = 1 .. Len(objs) /\ Len(objs) \in Nat
         /\ \A x \in DOMAIN objs :
              /\ objs[x] \in AsyncObject
              /\ objs[x].kind \in {"future", "task"}
              /\ objs[x].state \in Terminal \cup {"pending"}
              /\ objs[x].waiters \in Seq(Ids)
              /\ objs[x].callbacks \in Seq(program.callbacks)
              /\ objs[x].waitingOn \in Ids \cup {0}
              /\ objs[x].cancelRequested \in BOOLEAN
              /\ objs[x].awaiting \in Ids \cup {0}
         /\ \A e \in Elements(ready) : e \in ReadyEntry
<1>1. objs \in Seq(AsyncObject) /\ ready \in Seq(ReadyEntry)
  BY DEF TypeOK
<1>2. DOMAIN objs = 1 .. Len(objs) /\ Len(objs) \in Nat /\ \A x \in DOMAIN objs : objs[x] \in AsyncObject
  BY <1>1, ElementsOf
<1>3. \A e \in Elements(ready) : e \in ReadyEntry
  BY <1>1, ElementsOf
<1> QED
  BY <1>2, <1>3 DEF AsyncObject

LEMMA Scheduling ==
  ASSUME TypeOK, NEW s \in DOMAIN objs, NEW o \in Terminal
  PROVE  \E b \in Seq(ReadyEntry) :
           /\ Scheduled(s, o) = ready \o b
           /\ Elements(b) = {TaskEntry(t, o) : t \in Elements(objs[s].waiters)}
                               \cup {CallbackEntry(c) : c \in Elements(objs[s].callbacks)}
           /\ CallbacksOnce => Single(b, "callback")
           /\ TasksOnce => Single(b, "task")
<1> DEFINE w == objs[s].waiters
           c == objs[s].callbacks
           wb == [i \in DOMAIN w |-> TaskEntry(w[i], o)]
           cb == [i \in DOMAIN c |-> CallbackEntry(c[i])]
<1>1. w \in Seq(Ids) /\ c \in Seq(program.callbacks) /\ ready \in Seq(ReadyEntry)
  BY ObjectTypes DEF TypeOK
<1>2. /\ wb \in Seq(ReadyEntry)
      /\ Elements(wb) = {TaskEntry(t, o) : t \in Elements(w)}
      /\ Single(wb, "callback")
      /\ (\A i, j \in DOMAIN w : w[i] = w[j] => i = j) => Single(wb, "task")
  BY <1>1, TaskBlock
<1>3. /\ cb \in Seq(ReadyEntry)
      /\ Elements(cb) = {CallbackEntry(d) : d \in Elements(c)}
      /\ Single(cb, "task")
      /\ (\A i, j \in DOMAIN c : c[i] = c[j] => i = j) => Single(cb, "callback")
  BY <1>1, CallbackBlock
<1>4. Scheduled(s, o) = (ready \o cb) \o wb
  BY DEF Scheduled
<1>5. TasksOnce => \A i, j \in DOMAIN w : w[i] = w[j] => i = j
  BY DEF TasksOnce
<1>6. CallbacksOnce => \A i, j \in DOMAIN c : c[i] = c[j] => i = j
  BY DEF CallbacksOnce
<1>7. \A e \in Elements(wb) : e.kind = "task"
  BY <1>1, <1>2, ElementsOf, TaskEntries
<1>8. \A e \in Elements(cb) : e.kind = "callback"
  BY <1>1, <1>3, ElementsOf, CallbackEntries
<1> HIDE DEF w, c, wb, cb
<1>9. (ready \o cb) \o wb = ready \o (cb \o wb)
  BY <1>1, <1>2, <1>3, ConcatAssociative
<1>10. cb \o wb \in Seq(ReadyEntry) /\ Elements(cb \o wb) = Elements(cb) \cup Elements(wb)
  BY <1>2, <1>3, Concatenated
<1>11. \A d \in Elements(cb), e \in Elements(wb) : ~ (d.kind = "task" /\ e.kind = "task") /\ ~ (d.kind = "callback" /\ e.kind = "callback")
  BY <1>7, <1>8
<1>12. CallbacksOnce => Single(cb \o wb, "callback")
  BY <1>2, <1>3, <1>6, <1>11, SingleConcat
<1>13. TasksOnce => Single(cb \o wb, "task")
  BY <1>2, <1>3, <1>5, <1>11, SingleConcat
<1>14. Elements(cb \o wb) = {TaskEntry(t, o) : t \in Elements(w)} \cup {CallbackEntry(d) : d \in Elements(c)}
  BY <1>2, <1>3, <1>10
<1> QED
  BY <1>4, <1>9, <1>10, <1>12, <1>13, <1>14 DEF w, c

LEMMA Updated ==
  ASSUME NEW S, NEW q \in Seq(S), NEW s \in DOMAIN q, NEW o \in S, NEW r, r = [q EXCEPT ![s] = o]
  PROVE  /\ r \in Seq(S) /\ Len(r) = Len(q) /\ DOMAIN r = DOMAIN q
         /\ r[s] = o
         /\ \A x \in DOMAIN q : x # s => r[x] = q[x]
<1>1. s \in 1 .. Len(q)
  BY LenProperties
<1>2. r \in Seq(S) /\ Len(r) = Len(q)
  BY <1>1, ExceptSeq
<1> QED
  BY <1>2

LEMMA Created ==
  ASSUME LoopInv, Len(objs) < program.objects, NEW kind \in {"future", "task"},
         objs' = Append(objs, NewObject(kind)), program' = program
  PROVE  /\ objs' \in Seq(AsyncObject) /\ Len(objs') <= MaxObjects
         /\ Len(objs) + 1 \in Ids
         /\ DOMAIN objs' = DOMAIN objs \cup {Len(objs) + 1}
         /\ Len(objs) + 1 \notin DOMAIN objs
         /\ \A x \in DOMAIN objs : objs'[x] = objs[x]
         /\ objs'[Len(objs) + 1] = NewObject(kind)
<1>1. objs \in Seq(AsyncObject) /\ Len(objs) \in Nat
  BY ObjectTypes DEF LoopInv, TypeOK
<1>2. program.objects \in 1 .. MaxObjects /\ MaxObjects \in Nat
  BY EventLoopAssumption DEF LoopInv, Program
<1>3. NewObject(kind) \in AsyncObject
  <2>1. << >> \in Seq(Ids) /\ << >> \in Seq(program.callbacks)
    BY EmptySeq
  <2> QED
    BY <2>1 DEF NewObject, AsyncObject
<1>4. Len(objs') = Len(objs) + 1
  BY <1>1, <1>3, AppendProperties
<1>5. Len(objs) + 1 \in Ids /\ Len(objs') <= MaxObjects
  BY <1>1, <1>2, <1>4 DEF Ids
<1> QED
  BY <1>1, <1>3, <1>5, Appended

LEMMA Completing ==
  ASSUME TypeOK, NEW s \in DOMAIN objs, NEW o \in Terminal, objs' = Completed(s, o)
  PROVE  /\ objs' \in Seq(AsyncObject) /\ Len(objs') = Len(objs) /\ DOMAIN objs' = DOMAIN objs
         /\ \A x \in DOMAIN objs : x # s => objs'[x] = objs[x]
         /\ objs'[s].kind = objs[s].kind /\ objs'[s].state = o
         /\ objs'[s].waiters = << >> /\ objs'[s].callbacks = << >>
         /\ objs'[s].waitingOn = 0
         /\ objs'[s].cancelRequested = objs[s].cancelRequested
         /\ objs'[s].awaiting = objs[s].awaiting
<1> DEFINE r == [objs[s] EXCEPT !.state = o, !.waiters = << >>, !.callbacks = << >>, !.waitingOn = 0]
<1>1. objs \in Seq(AsyncObject) /\ objs[s] \in AsyncObject
  BY ObjectTypes DEF TypeOK
<1>2. << >> \in Seq(Ids) /\ << >> \in Seq(program.callbacks)
  BY EmptySeq
<1>3. /\ r \in AsyncObject
      /\ r.kind = objs[s].kind /\ r.state = o /\ r.waiters = << >> /\ r.callbacks = << >>
      /\ r.waitingOn = 0 /\ r.cancelRequested = objs[s].cancelRequested /\ r.awaiting = objs[s].awaiting
  BY <1>1, <1>2 DEF AsyncObject
<1> HIDE DEF r
<1>4. objs' = [objs EXCEPT ![s] = r]
  BY DEF Completed, r
<1> QED
  BY <1>1, <1>3, <1>4, Updated

LEMMA Suspending ==
  ASSUME TypeOK, NEW t \in DOMAIN objs, NEW s \in DOMAIN objs, NEW a \in DOMAIN objs \cup {0},
         Len(objs) <= MaxObjects, objs' = Waiting(t, s, a)
  PROVE  /\ objs' \in Seq(AsyncObject) /\ Len(objs') = Len(objs) /\ DOMAIN objs' = DOMAIN objs
         /\ \A x \in DOMAIN objs :
              /\ objs'[x].kind = objs[x].kind /\ objs'[x].state = objs[x].state
              /\ objs'[x].callbacks = objs[x].callbacks
              /\ objs'[x].cancelRequested = objs[x].cancelRequested
              /\ x # s => objs'[x].waiters = objs[x].waiters
              /\ x # t => objs'[x].waitingOn = objs[x].waitingOn /\ objs'[x].awaiting = objs[x].awaiting
         /\ objs'[t].waitingOn = s /\ objs'[t].awaiting = a
         /\ objs'[s].waiters = IF t \in Elements(objs[s].waiters) THEN objs[s].waiters
                                                               ELSE Append(objs[s].waiters, t)
<1>1. objs \in Seq(AsyncObject) /\ (\A x \in DOMAIN objs : objs[x] \in AsyncObject) /\ DOMAIN objs \subseteq Ids
  <2>1. DOMAIN objs = 1 .. Len(objs) /\ Len(objs) \in Nat /\ \A x \in DOMAIN objs : objs[x] \in AsyncObject
    BY ObjectTypes
  <2>2. MaxObjects \in Nat
    BY EventLoopAssumption
  <2>3. DOMAIN objs \subseteq Ids
    BY <2>1, <2>2 DEF Ids
  <2> QED
    BY <2>1, <2>3 DEF TypeOK
<1> DEFINE w == IF t \in Elements(objs[s].waiters) THEN objs[s].waiters ELSE Append(objs[s].waiters, t)
           q == [objs[s] EXCEPT !.waiters = w]
           p == [objs EXCEPT ![s] = q]
           v == [p[t] EXCEPT !.waitingOn = s]
           u == [v EXCEPT !.awaiting = a]
<1>2. w \in Seq(Ids)
  BY <1>1, ObjectTypes, AppendProperties
<1> HIDE DEF w
<1>3. q \in AsyncObject /\ q.waiters = w /\ q.kind = objs[s].kind /\ q.state = objs[s].state
      /\ q.callbacks = objs[s].callbacks /\ q.cancelRequested = objs[s].cancelRequested
      /\ q.waitingOn = objs[s].waitingOn /\ q.awaiting = objs[s].awaiting
  BY <1>1, <1>2 DEF AsyncObject
<1> HIDE DEF q
<1>4. p \in Seq(AsyncObject) /\ Len(p) = Len(objs) /\ DOMAIN p = DOMAIN objs /\ p[s] = q
      /\ \A x \in DOMAIN objs : x # s => p[x] = objs[x]
  BY <1>1, <1>3, Updated
<1> HIDE DEF p
<1>5. p[t] \in AsyncObject
  BY <1>1, <1>3, <1>4
<1>6. u \in AsyncObject /\ u.waitingOn = s /\ u.awaiting = a
      /\ u.kind = p[t].kind /\ u.state = p[t].state /\ u.waiters = p[t].waiters
      /\ u.callbacks = p[t].callbacks /\ u.cancelRequested = p[t].cancelRequested
  BY <1>1, <1>5 DEF AsyncObject
<1>7. objs' = [p EXCEPT ![t] = u]
  BY <1>1, <1>4 DEF Waiting, p, q, w
<1> HIDE DEF u, v
<1>8. objs' \in Seq(AsyncObject) /\ Len(objs') = Len(p) /\ DOMAIN objs' = DOMAIN p /\ objs'[t] = u
      /\ \A x \in DOMAIN p : x # t => objs'[x] = p[x]
  BY <1>4, <1>6, <1>7, Updated
<1> QED
  BY <1>3, <1>4, <1>6, <1>8 DEF w

Stepped(t, wake) == [Woken(t, wake) EXCEPT ![t].awaiting = 0]

LEMMA Stepping ==
  ASSUME TypeOK, NEW t \in DOMAIN objs, NEW wake, objs' = Stepped(t, wake)
  PROVE  /\ objs' \in Seq(AsyncObject) /\ Len(objs') = Len(objs) /\ DOMAIN objs' = DOMAIN objs
         /\ \A x \in DOMAIN objs :
              /\ objs'[x].kind = objs[x].kind /\ objs'[x].state = objs[x].state
              /\ objs'[x].callbacks = objs[x].callbacks
              /\ objs'[x].waiters = objs[x].waiters
              /\ x # t => /\ objs'[x].waitingOn = objs[x].waitingOn /\ objs'[x].awaiting = objs[x].awaiting
                          /\ objs'[x].cancelRequested = objs[x].cancelRequested
         /\ objs'[t].waitingOn = 0 /\ objs'[t].awaiting = 0
         /\ wake = "cancelled" => ~ objs'[t].cancelRequested
         /\ wake # "cancelled" => objs'[t].cancelRequested = objs[t].cancelRequested
<1>1. objs \in Seq(AsyncObject) /\ objs[t] \in AsyncObject
  BY ObjectTypes DEF TypeOK
<1> DEFINE c == IF wake = "cancelled" THEN FALSE ELSE objs[t].cancelRequested
           u == [objs[t] EXCEPT !.waitingOn = 0, !.cancelRequested = c, !.awaiting = 0]
<1>2. c \in BOOLEAN
  BY <1>1 DEF AsyncObject
<1> HIDE DEF c
<1>3. u \in AsyncObject /\ u.waitingOn = 0 /\ u.awaiting = 0 /\ u.cancelRequested = c
      /\ u.kind = objs[t].kind /\ u.state = objs[t].state /\ u.waiters = objs[t].waiters
      /\ u.callbacks = objs[t].callbacks
  BY <1>1, <1>2 DEF AsyncObject
<1> DEFINE r == [objs EXCEPT ![t] = u]
<1>4. objs' = r
  BY <1>1 DEF Stepped, Woken, c, AsyncObject
<1> HIDE DEF u
<1>5. r \in Seq(AsyncObject) /\ Len(r) = Len(objs) /\ DOMAIN r = DOMAIN objs /\ r[t] = u
      /\ \A x \in DOMAIN objs : x # t => r[x] = objs[x]
  <2>1. u \in AsyncObject /\ objs \in Seq(AsyncObject)
    BY <1>1, <1>3
  <2> QED
    BY <2>1, Updated
<1> HIDE DEF r
<1> QED
  BY <1>3, <1>4, <1>5 DEF c

LEMMA Watching ==
  ASSUME TypeOK, NEW s \in DOMAIN objs, NEW c \in program.callbacks,
         objs' = [objs EXCEPT ![s].callbacks = Append(@, c)]
  PROVE  /\ objs' \in Seq(AsyncObject) /\ Len(objs') = Len(objs) /\ DOMAIN objs' = DOMAIN objs
         /\ \A x \in DOMAIN objs :
              /\ objs'[x].kind = objs[x].kind /\ objs'[x].state = objs[x].state
              /\ objs'[x].waiters = objs[x].waiters
              /\ objs'[x].waitingOn = objs[x].waitingOn /\ objs'[x].awaiting = objs[x].awaiting
              /\ objs'[x].cancelRequested = objs[x].cancelRequested
              /\ x # s => objs'[x].callbacks = objs[x].callbacks
         /\ objs'[s].callbacks = Append(objs[s].callbacks, c)
<1>1. objs \in Seq(AsyncObject) /\ objs[s] \in AsyncObject
  BY ObjectTypes DEF TypeOK
<1> DEFINE w == Append(objs[s].callbacks, c)
           u == [objs[s] EXCEPT !.callbacks = w]
<1>2. w \in Seq(program.callbacks)
  BY ObjectTypes, AppendProperties, ZenonT(30)
<1> HIDE DEF w
<1>3. u \in AsyncObject /\ u.callbacks = w
      /\ u.kind = objs[s].kind /\ u.state = objs[s].state /\ u.waiters = objs[s].waiters
      /\ u.waitingOn = objs[s].waitingOn /\ u.cancelRequested = objs[s].cancelRequested
      /\ u.awaiting = objs[s].awaiting
  BY <1>1, <1>2 DEF AsyncObject
<1> DEFINE r == [objs EXCEPT ![s] = u]
<1>4. objs' = r
  BY DEF w
<1> HIDE DEF u
<1>5. r \in Seq(AsyncObject) /\ Len(r) = Len(objs) /\ DOMAIN r = DOMAIN objs /\ r[s] = u
      /\ \A x \in DOMAIN objs : x # s => r[x] = objs[x]
  <2>1. u \in AsyncObject /\ objs \in Seq(AsyncObject)
    BY <1>1, <1>3
  <2> QED
    BY <2>1, Updated
<1> HIDE DEF r
<1> QED
  BY <1>3, <1>4, <1>5 DEF w

\* What a retain of the waiters other than t leaves.
WithoutTask(w, v, t) ==
  /\ v \in Seq(Ids)
  /\ Elements(v) = Elements(w) \ {t}
  /\ (\A i, j \in DOMAIN w : w[i] = w[j] => i = j) => \A i, j \in DOMAIN v : v[i] = v[j] => i = j

LEMMA Leaving ==
  ASSUME NEW w \in Seq(Ids), NEW t, NEW v \in Retained(w, {i \in DOMAIN w : w[i] # t})
  PROVE  WithoutTask(w, v, t)
<1> DEFINE P == {i \in DOMAIN w : w[i] # t}
<1>1. /\ v \in Seq(Ids)
      /\ Elements(v) = {w[i] : i \in P}
      /\ \E f : Embedding(v, w, f) /\ \A l \in P : \E i \in DOMAIN v : f[i] = l
  <2>1. P \in SUBSET DOMAIN w /\ v \in Retained(w, P)
    OBVIOUS
  <2> HIDE DEF P
  <2> QED
    BY <2>1, RetainedElements
<1>2. PICK f : Embedding(v, w, f)
  BY <1>1
<1>3. Elements(v) = Elements(w) \ {t}
  BY <1>1 DEF Elements
<1>4. DOMAIN v \subseteq Int /\ DOMAIN w \subseteq Int
  BY <1>1, LenProperties
<1>5. ASSUME \A i, j \in DOMAIN w : w[i] = w[j] => i = j,
             NEW i \in DOMAIN v, NEW j \in DOMAIN v, v[i] = v[j]
      PROVE  i = j
  <2>1. f[i] \in DOMAIN w /\ f[j] \in DOMAIN w /\ w[f[i]] = w[f[j]]
    BY <1>2, <1>5 DEF Embedding
  <2>2. f[i] = f[j]
    BY <1>5, <2>1
  <2>3. ~ (i < j) /\ ~ (j < i)
    BY <1>2, <1>4, <2>1, <2>2 DEF Embedding
  <2> QED
    BY <1>4, <2>3
<1> QED
  BY <1>1, <1>3, <1>5 DEF WithoutTask

LEMMA Cancelling ==
  ASSUME TypeOK, NEW t \in DOMAIN objs, objs[t].waitingOn \in DOMAIN objs \cup {0},
         objs' \in CancelRequested(t)
  PROVE  /\ objs' \in Seq(AsyncObject) /\ Len(objs') = Len(objs) /\ DOMAIN objs' = DOMAIN objs
         /\ \A x \in DOMAIN objs :
              /\ objs'[x].kind = objs[x].kind /\ objs'[x].state = objs[x].state
              /\ objs'[x].callbacks = objs[x].callbacks
              /\ objs'[x].awaiting = objs[x].awaiting
              /\ x # t => /\ objs'[x].waitingOn = objs[x].waitingOn
                          /\ objs'[x].cancelRequested = objs[x].cancelRequested
              /\ IF x = objs[t].waitingOn THEN WithoutTask(objs[x].waiters, objs'[x].waiters, t)
                                          ELSE objs'[x].waiters = objs[x].waiters
         /\ objs'[t].waitingOn = 0 /\ objs'[t].cancelRequested = TRUE
<1>1. /\ objs \in Seq(AsyncObject)
      /\ 0 \notin DOMAIN objs
      /\ \A x \in DOMAIN objs : objs[x] \in AsyncObject /\ objs[x].waiters \in Seq(Ids)
  BY ObjectTypes DEF TypeOK
<1> DEFINE source == objs[t].waitingOn
           u == [objs[t] EXCEPT !.cancelRequested = TRUE, !.waitingOn = 0]
           m == [objs EXCEPT ![t] = u]
<1>2. u \in AsyncObject /\ u.waitingOn = 0 /\ u.cancelRequested = TRUE
      /\ u.kind = objs[t].kind /\ u.state = objs[t].state /\ u.waiters = objs[t].waiters
      /\ u.callbacks = objs[t].callbacks /\ u.awaiting = objs[t].awaiting
  BY <1>1 DEF AsyncObject
<1>3. CancelRequested(t) =
        IF source = 0 THEN {m}
        ELSE {[m EXCEPT ![source].waiters = w] :
                w \in Retained(objs[source].waiters, {i \in DOMAIN objs[source].waiters : objs[source].waiters[i] # t})}
  <2>1. [objs EXCEPT ![t].cancelRequested = TRUE, ![t].waitingOn = 0] = m
    BY <1>1 DEF AsyncObject
  <2> HIDE DEF m
  <2> QED
    BY <2>1, ZenonT(30) DEF CancelRequested
<1> HIDE DEF u
<1>4. m \in Seq(AsyncObject) /\ Len(m) = Len(objs) /\ DOMAIN m = DOMAIN objs /\ m[t] = u
      /\ \A x \in DOMAIN objs : x # t => m[x] = objs[x]
  BY <1>1, <1>2, Updated
<1> HIDE DEF m
<1>5. CASE source = 0
  <2>1. objs' = m
    BY <1>3, <1>5
  <2> QED
    BY <1>1, <1>2, <1>4, <1>5, <2>1
<1>6. ASSUME source # 0, NEW w, WithoutTask(objs[source].waiters, w, t),
             objs' = [m EXCEPT ![source].waiters = w]
      PROVE  /\ objs' \in Seq(AsyncObject) /\ Len(objs') = Len(m) /\ DOMAIN objs' = DOMAIN m
             /\ \A x \in DOMAIN m : x # source => objs'[x] = m[x]
             /\ objs'[source].waiters = w
             /\ objs'[source].kind = m[source].kind /\ objs'[source].state = m[source].state
             /\ objs'[source].callbacks = m[source].callbacks
             /\ objs'[source].awaiting = m[source].awaiting
             /\ objs'[source].waitingOn = m[source].waitingOn
             /\ objs'[source].cancelRequested = m[source].cancelRequested
  <2> DEFINE y == [m[source] EXCEPT !.waiters = w]
             r == [m EXCEPT ![source] = y]
  <2>1. source \in DOMAIN m /\ m[source] \in AsyncObject /\ w \in Seq(Ids)
    BY <1>1, <1>2, <1>4, <1>6 DEF WithoutTask
  <2>2. y \in AsyncObject /\ y.waiters = w /\ y.kind = m[source].kind /\ y.state = m[source].state
        /\ y.callbacks = m[source].callbacks /\ y.awaiting = m[source].awaiting
        /\ y.waitingOn = m[source].waitingOn /\ y.cancelRequested = m[source].cancelRequested
    BY <2>1 DEF AsyncObject
  <2>3. objs' = r
    BY <1>6
  <2> HIDE DEF y
  <2>4. r \in Seq(AsyncObject) /\ Len(r) = Len(m) /\ DOMAIN r = DOMAIN m /\ r[source] = y
        /\ \A x \in DOMAIN m : x # source => r[x] = m[x]
    BY <1>4, <2>1, <2>2, Updated
  <2> HIDE DEF r
  <2> QED
    BY <2>2, <2>3, <2>4
<1>7. CASE source # 0
  <2>1. PICK w \in Retained(objs[source].waiters, {i \in DOMAIN objs[source].waiters : objs[source].waiters[i] # t}) :
          objs' = [m EXCEPT ![source].waiters = w]
    BY <1>3, <1>7
  <2>2. WithoutTask(objs[source].waiters, w, t)
    BY <1>1, <1>7, <2>1, Leaving
  <2>3. /\ objs' \in Seq(AsyncObject) /\ Len(objs') = Len(m) /\ DOMAIN objs' = DOMAIN m
        /\ \A x \in DOMAIN m : x # source => objs'[x] = m[x]
        /\ objs'[source].waiters = w
        /\ objs'[source].kind = m[source].kind /\ objs'[source].state = m[source].state
        /\ objs'[source].callbacks = m[source].callbacks
        /\ objs'[source].awaiting = m[source].awaiting
        /\ objs'[source].waitingOn = m[source].waitingOn
        /\ objs'[source].cancelRequested = m[source].cancelRequested
    BY <1>6, <1>7, <2>1, <2>2
  <2> HIDE DEF source
  <2>4. \A x \in DOMAIN objs : x # source => objs'[x].waiters = objs[x].waiters
    BY <1>2, <1>4, <2>3
  <2>5. WithoutTask(objs[source].waiters, objs'[source].waiters, t)
    BY <2>2, <2>3
  <2>6. source \in DOMAIN objs
    BY <1>7 DEF source
  <2>7. \A x \in DOMAIN objs :
              /\ objs'[x].kind = objs[x].kind /\ objs'[x].state = objs[x].state
              /\ objs'[x].callbacks = objs[x].callbacks
              /\ objs'[x].awaiting = objs[x].awaiting
              /\ x # t => /\ objs'[x].waitingOn = objs[x].waitingOn
                          /\ objs'[x].cancelRequested = objs[x].cancelRequested
    BY <1>2, <1>4, <2>3, <2>6
  <2>8. objs'[t].waitingOn = 0 /\ objs'[t].cancelRequested = TRUE
    BY <1>2, <1>4, <2>3, <2>6
  <2> QED
    BY <1>4, <2>3, <2>4, <2>5, <2>7, <2>8 DEF source
<1> QED
  BY <1>5, <1>7

-----------------------------------------------------------------------------
(* The invariant.                                                           *)

LEMMA SameTypes ==
  ASSUME program' = program
  PROVE  AsyncObject' = AsyncObject /\ ReadyEntry' = ReadyEntry /\ (CancelsItself' <=> CancelsItself)
  BY DEF AsyncObject, ReadyEntry, CancelsItself

LEMMA NoElements == Elements(<< >>) = {}
  BY DEF Elements

LEMMA OneElement ==
  ASSUME NEW e
  PROVE  Elements(<<e>>) = {e} /\ \A kind : Single(<<e>>, kind)
  BY DEF Elements, Single

\* FutureNew, Sleep, CreateTask and Run make an object that nothing refers to
\* yet, and a task is queued with it.
Making(kind) ==
  LET n == Len(objs) + 1 IN
  /\ Len(objs) < program.objects
  /\ objs' = Append(objs, NewObject(kind))
  /\ timers' \in Seq(Timer)
  /\ \A e \in Elements(timers') : e \in Elements(timers) \/ (kind = "future" /\ e.future = n /\ e.left > 0)
  /\ IF kind = "task" THEN ready' = ready \o <<TaskEntry(n, "none")>> /\ tasks' = tasks \cup {n}
                      ELSE UNCHANGED <<ready, tasks>>
  /\ main' \in Ids \cup {0}
  /\ pc' \in {"top", "task", "callback"}
  /\ pc' = "task" <=> pc = "task"
  /\ UNCHANGED <<program, maturing, current, cancelled, ran>>
  /\ maturing = << >>

LEMMA MakingKeeps ==
  ASSUME LoopInv, NEW kind \in {"future", "task"}, Making(kind)
  PROVE  LoopInv'
<1> DEFINE n == Len(objs) + 1
           e == TaskEntry(n, "none")
<1>1. TypeOK /\ Linked /\ Kept /\ CallbacksOnce /\ (CancelsItself \/ TasksOnce) /\ program \in Programs
  BY DEF LoopInv
<1>2. /\ objs' \in Seq(AsyncObject) /\ Len(objs') <= MaxObjects
      /\ n \in Ids /\ n \notin DOMAIN objs
      /\ DOMAIN objs' = DOMAIN objs \cup {n}
      /\ \A x \in DOMAIN objs : objs'[x] = objs[x]
      /\ objs'[n] = NewObject(kind)
  BY Created DEF Making
<1>3. /\ objs'[n].kind = kind /\ objs'[n].state = "pending"
      /\ objs'[n].waiters = << >> /\ objs'[n].callbacks = << >>
      /\ objs'[n].waitingOn = 0 /\ objs'[n].cancelRequested = FALSE /\ objs'[n].awaiting = 0
  BY <1>2 DEF NewObject
<1>4. AsyncObject' = AsyncObject /\ ReadyEntry' = ReadyEntry /\ (CancelsItself' <=> CancelsItself)
  BY SameTypes DEF Making
<1>5. e \in ReadyEntry /\ e.kind = "task" /\ e.who = n /\ e.wake = "none"
  BY <1>2, TaskEntries DEF Terminal
<1>6. ready \in Seq(ReadyEntry) /\ \A d \in Elements(ready) : d \in ReadyEntry
  BY <1>1, ObjectTypes DEF TypeOK
<1> HIDE DEF n, e
<1>7. /\ ready' \in Seq(ReadyEntry)
      /\ \A d \in Elements(ready) : d \in Elements(ready')
      /\ \A d \in Elements(ready') : d \in Elements(ready) \/ (kind = "task" /\ d = e)
      /\ kind = "task" => e \in Elements(ready')
      /\ \A t : Leads(ready, t) => Leads(ready', t)
  <2>1. CASE kind = "task"
    <3>1. ready' = ready \o <<e>> /\ <<e>> \in Seq(ReadyEntry)
      BY <1>5, <2>1, IsASeq DEF Making, n, e
    <3>2. ready \o <<e>> \in Seq(ReadyEntry) /\ Elements(ready \o <<e>>) = Elements(ready) \cup Elements(<<e>>)
      BY <1>6, <3>1, Concatenated, ZenonT(30)
    <3>3. \A t : Leads(ready, t) => Leads(ready \o <<e>>, t)
      BY <1>6, <3>1, LeadsConcat
    <3> QED
      BY <2>1, <3>1, <3>2, <3>3, OneElement
  <2>2. CASE kind = "future"
    BY <1>6, <2>2 DEF Making
  <2> QED
    BY <2>1, <2>2
<1>8. TypeOK'
  BY <1>1, <1>2, <1>4, <1>7 DEF TypeOK, Making, n
<1>9. \A d \in Elements(ready) : d.kind = "task" => d.who \in DOMAIN objs
  BY <1>1 DEF Linked
<1>10. Single(ready', "callback") /\ (TasksOnce => Single(ready', "task"))
  <2>1. Single(ready, "callback") /\ (TasksOnce => Single(ready, "task"))
    BY <1>1 DEF CallbacksOnce, TasksOnce
  <2>2. CASE kind = "task"
    <3>1. ready' = ready \o <<e>> /\ <<e>> \in Seq(ReadyEntry)
      BY <1>5, <2>2, IsASeq DEF Making, n, e
    <3>2. \A d \in Elements(ready), f \in Elements(<<e>>) : ~ (d.kind = "task" /\ f.kind = "task" /\ d.who = f.who)
      BY <1>2, <1>5, <1>9, OneElement
    <3>3. \A d \in Elements(ready), f \in Elements(<<e>>) : ~ (d.kind = "callback" /\ f.kind = "callback" /\ d.who = f.who)
      BY <1>5, OneElement
    <3>4. Single(ready \o <<e>>, "callback")
      BY <1>6, <2>1, <3>1, <3>3, OneElement, SingleConcat
    <3>5. TasksOnce => Single(ready \o <<e>>, "task")
      BY <1>6, <2>1, <3>1, <3>2, OneElement, SingleConcat
    <3> QED
      BY <3>1, <3>4, <3>5
  <2>3. CASE kind = "future"
    BY <2>1, <2>3 DEF Making
  <2> QED
    BY <2>2, <2>3
<1>11. Linked'
  <2>1. \A x \in DOMAIN objs' :
          /\ \A t \in Elements(objs'[x].waiters) : t \in DOMAIN objs' /\ objs'[t].kind = "task"
          /\ objs'[x].waitingOn \in DOMAIN objs' \cup {0}
          /\ objs'[x].awaiting \in DOMAIN objs' \cup {0}
          /\ objs'[x].state # "pending" => objs'[x].waiters = << >> /\ objs'[x].callbacks = << >>
    BY <1>1, <1>2, <1>3, NoElements DEF Linked, Pending, IsTask
  <2>2. \A d \in Elements(ready') : d.kind = "task" => d.who \in DOMAIN objs' /\ objs'[d.who].kind = "task"
    BY <1>1, <1>2, <1>3, <1>5, <1>7 DEF Linked, IsTask
  <2>3. \A timer \in Elements(timers') \cup Elements(maturing') :
          timer.future \in DOMAIN objs' /\ objs'[timer.future].kind # "task"
    BY <1>1, <1>2, <1>3 DEF Linked, IsTask, Making, n
  <2>4. \A t \in tasks' : t \in DOMAIN objs' /\ objs'[t].kind = "task"
    BY <1>1, <1>2, <1>3 DEF Linked, IsTask, Making, n
  <2>5. IF pc' = "task" THEN current' \in DOMAIN objs' /\ objs'[current'].kind = "task" /\ objs'[current'].state = "pending"
                        ELSE current' = 0
    BY <1>1, <1>2 DEF Linked, IsTask, Pending, Making
  <2>6. pc' # "outside" /\ maturing' = << >>
    BY DEF Making
  <2>7. \A timer \in Elements(timers') : timer.left > 0
    BY <1>1 DEF Linked, Making
  <2> QED
    BY <2>1, <2>2, <2>3, <2>4, <2>5, <2>6, <2>7 DEF Linked, Pending, IsTask
<1>12. Kept'
  <2> SUFFICES ASSUME NEW t \in tasks', objs'[t].state = "pending"
               PROVE  /\ t = current' \/ Queued(ready', t) \/ \E s \in DOMAIN objs' : t \in Elements(objs'[s].waiters)
                      /\ objs'[t].cancelRequested => Leads(ready', t)
    BY DEF Kept, Pending
  <2>1. CASE t \in tasks
    <3>1. t \in DOMAIN objs /\ objs'[t] = objs[t]
      BY <1>1, <1>2, <2>1 DEF Linked
    <3>2. /\ t = current \/ Queued(ready, t) \/ \E s \in DOMAIN objs : t \in Elements(objs[s].waiters)
          /\ objs[t].cancelRequested => Leads(ready, t)
      BY <1>1, <2>1, <3>1 DEF Kept, Pending
    <3>3. Queued(ready, t) => Queued(ready', t)
      BY <1>7 DEF Queued
    <3>4. (\E s \in DOMAIN objs : t \in Elements(objs[s].waiters)) => \E s \in DOMAIN objs' : t \in Elements(objs'[s].waiters)
      BY <1>2
    <3>5. current' = current
      BY DEF Making
    <3> QED
      BY <1>7, <3>1, <3>2, <3>3, <3>4, <3>5
  <2>2. CASE t \notin tasks
    <3>1. kind = "task" /\ t = n
      BY <2>2 DEF Making, n
    <3> QED
      BY <1>3, <1>5, <1>7, <3>1 DEF Queued
  <2> QED
    BY <2>1, <2>2
<1>13. CallbacksOnce'
  <2>1. \A c : CallbackEntry(c) # e
    BY <1>5 DEF CallbackEntry
  <2>2. \A x \in DOMAIN objs' :
          /\ \A c \in Elements(objs'[x].callbacks) : c \notin Elements(ran) /\ CallbackEntry(c) \notin Elements(ready')
          /\ \A i, j \in DOMAIN objs'[x].callbacks : objs'[x].callbacks[i] = objs'[x].callbacks[j] => i = j
    BY <1>1, <1>2, <1>3, <1>7, <2>1, NoElements DEF CallbacksOnce
  <2>3. \A x, y \in DOMAIN objs' : Elements(objs'[x].callbacks) \cap Elements(objs'[y].callbacks) # {} => x = y
    BY <1>1, <1>2, <1>3, NoElements DEF CallbacksOnce
  <2>4. \A d \in Elements(ready') : d.kind = "callback" => d.who \notin Elements(ran)
    BY <1>1, <1>5, <1>7 DEF CallbacksOnce
  <2>5. \A i, j \in DOMAIN ran : ran[i] = ran[j] => i = j
    BY <1>1 DEF CallbacksOnce
  <2>6. ran' = ran
    BY DEF Making
  <2> QED
    BY <1>10, <2>2, <2>3, <2>4, <2>5, <2>6 DEF CallbacksOnce
<1>14. ASSUME TasksOnce
       PROVE  TasksOnce'
  <2>1. current' = current /\ current # n /\ n # 0
    BY <1>1, <1>2, EventLoopAssumption DEF Making, Linked, Ids
  <2>2. \A x \in DOMAIN objs' :
          /\ \A i, j \in DOMAIN objs'[x].waiters : objs'[x].waiters[i] = objs'[x].waiters[j] => i = j
          /\ \A t \in Elements(objs'[x].waiters) :
               /\ objs'[t].waitingOn = x /\ objs'[t].awaiting \in {0, x}
               /\ t # current
               /\ \A d \in Elements(ready') : ~ (d.kind = "task" /\ d.who = t)
    <3>1. \A x \in DOMAIN objs : \A t \in Elements(objs[x].waiters) : t \in DOMAIN objs
      BY <1>1 DEF Linked
    <3>2. ASSUME NEW x \in DOMAIN objs
          PROVE  /\ \A i, j \in DOMAIN objs[x].waiters : objs[x].waiters[i] = objs[x].waiters[j] => i = j
                 /\ \A t \in Elements(objs[x].waiters) :
                      /\ objs'[t].waitingOn = x /\ objs'[t].awaiting \in {0, x}
                      /\ t # current
                      /\ \A d \in Elements(ready') : ~ (d.kind = "task" /\ d.who = t)
      BY <1>2, <1>5, <1>7, <1>14, <3>1 DEF TasksOnce
    <3>3. \A x \in DOMAIN objs : objs'[x].waiters = objs[x].waiters
      BY <1>2
    <3>4. DOMAIN objs'[n].waiters = {} /\ Elements(objs'[n].waiters) = {}
      BY <1>3, NoElements
    <3> SUFFICES ASSUME NEW x \in DOMAIN objs'
                 PROVE  /\ \A i, j \in DOMAIN objs'[x].waiters : objs'[x].waiters[i] = objs'[x].waiters[j] => i = j
                        /\ \A t \in Elements(objs'[x].waiters) :
                             /\ objs'[t].waitingOn = x /\ objs'[t].awaiting \in {0, x}
                             /\ t # current
                             /\ \A d \in Elements(ready') : ~ (d.kind = "task" /\ d.who = t)
      OBVIOUS
    <3>5. CASE x = n
      BY <3>4, <3>5
    <3>6. CASE x \in DOMAIN objs
      <4>1. objs'[x].waiters = objs[x].waiters
        BY <3>3, <3>6
      <4> QED
        BY <3>2, <3>6, <4>1, SMTT(30)
    <3> QED
      BY <1>2, <3>5, <3>6
  <2>3. \A d \in Elements(ready') : d.kind = "task" =>
          /\ d.who # current
          /\ d.wake = "cancelled" \/ objs'[d.who].awaiting = 0 \/ objs'[objs'[d.who].awaiting].state # "pending"
    <3>1. \A x \in DOMAIN objs : objs[x].awaiting \in DOMAIN objs \cup {0}
      BY <1>1 DEF Linked
    <3> QED
      BY <1>2, <1>3, <1>5, <1>7, <1>9, <1>14, <2>1, <3>1 DEF TasksOnce, Pending
  <2>4. pc' = "task" => objs'[current'].awaiting = 0
    BY <1>1, <1>2, <1>14 DEF TasksOnce, Linked, Making
  <2> QED
    BY <1>10, <1>14, <2>1, <2>2, <2>3, <2>4 DEF TasksOnce, Pending
<1> QED
  BY <1>1, <1>4, <1>8, <1>11, <1>12, <1>13, <1>14 DEF LoopInv, Making

\* CompleteFuture, FutureCancel and MatureTimer complete a future, EndTask the
\* task that is stepped.
Finishing(s, o) ==
  /\ Pending(s)
  /\ CompleteAsyncSource(s, o)
  /\ \/ ~ IsTask(s) /\ UNCHANGED <<pc, current>>
     \/ s = current /\ pc = "task" /\ pc' = "top" /\ current' = 0
  /\ \/ UNCHANGED maturing
     \/ maturing # << >> /\ maturing' = Tail(maturing) /\ UNCHANGED pc
  /\ UNCHANGED <<program, timers, tasks, main, cancelled, ran>>

LEMMA FinishingKeeps ==
  ASSUME LoopInv, NEW s \in DOMAIN objs, NEW o \in Terminal, Finishing(s, o)
  PROVE  LoopInv'
<1>1. TypeOK /\ Linked /\ Kept /\ CallbacksOnce /\ (CancelsItself \/ TasksOnce) /\ program \in Programs
  BY DEF LoopInv
<1>2. /\ objs' \in Seq(AsyncObject) /\ Len(objs') = Len(objs) /\ DOMAIN objs' = DOMAIN objs
      /\ \A x \in DOMAIN objs : x # s => objs'[x] = objs[x]
      /\ objs'[s].kind = objs[s].kind /\ objs'[s].state = o
      /\ objs'[s].waiters = << >> /\ objs'[s].callbacks = << >>
      /\ objs'[s].waitingOn = 0
      /\ objs'[s].cancelRequested = objs[s].cancelRequested
      /\ objs'[s].awaiting = objs[s].awaiting
  BY <1>1, Completing DEF Finishing, CompleteAsyncSource
<1>3. AsyncObject' = AsyncObject /\ ReadyEntry' = ReadyEntry /\ (CancelsItself' <=> CancelsItself)
  BY SameTypes DEF Finishing
<1>4. /\ ready \in Seq(ReadyEntry)
      /\ \A d \in Elements(ready) : d \in ReadyEntry
      /\ objs[s].waiters \in Seq(Ids) /\ objs[s].callbacks \in Seq(program.callbacks)
      /\ 0 \notin DOMAIN objs
  BY <1>1, ObjectTypes DEF TypeOK
<1>5. PICK b \in Seq(ReadyEntry) :
           /\ Scheduled(s, o) = ready \o b
           /\ Elements(b) = {TaskEntry(t, o) : t \in Elements(objs[s].waiters)}
                               \cup {CallbackEntry(c) : c \in Elements(objs[s].callbacks)}
           /\ CallbacksOnce => Single(b, "callback")
           /\ TasksOnce => Single(b, "task")
  BY <1>1, Scheduling
<1>6. \A e \in Elements(b) :
        \/ e.kind = "task" /\ e.who \in Elements(objs[s].waiters) /\ e.wake = o
        \/ e.kind = "callback" /\ e.who \in Elements(objs[s].callbacks)
  BY <1>4, <1>5, ElementsOf, TaskEntries, CallbackEntries
<1>7. /\ \A t \in Elements(objs[s].waiters) : TaskEntry(t, o) \in Elements(b) /\ TaskEntry(t, o).kind = "task" /\ TaskEntry(t, o).who = t
      /\ \A c : CallbackEntry(c) \in Elements(b) => c \in Elements(objs[s].callbacks)
  <2>1. \A t \in Elements(objs[s].waiters) : TaskEntry(t, o) \in Elements(b) /\ TaskEntry(t, o).kind = "task" /\ TaskEntry(t, o).who = t
    BY <1>4, <1>5, ElementsOf, TaskEntries
  <2>2. \A c : CallbackEntry(c).kind = "callback" /\ CallbackEntry(c).who = c
    BY DEF CallbackEntry
  <2> QED
    BY <1>6, <2>1, <2>2
<1>8. /\ ready' \in Seq(ReadyEntry)
      /\ \A d \in Elements(ready) : d \in Elements(ready')
      /\ \A d \in Elements(ready') : d \in Elements(ready) \/ d \in Elements(b)
      /\ LoopRunning => \A d \in Elements(b) : d \in Elements(ready')
      /\ \A t : Leads(ready, t) => Leads(ready', t)
      /\ Single(ready', "callback") /\ (TasksOnce => Single(ready', "task"))
  <2>1. Single(ready, "callback") /\ (TasksOnce => Single(ready, "task"))
    BY <1>1 DEF CallbacksOnce, TasksOnce
  <2>2. CASE LoopRunning
    <3>1. ready' = ready \o b
      BY <1>5, <2>2 DEF Finishing, CompleteAsyncSource
    <3>2. ready \o b \in Seq(ReadyEntry) /\ Elements(ready \o b) = Elements(ready) \cup Elements(b)
      BY <1>4, Concatenated
    <3>3. \A t : Leads(ready, t) => Leads(ready \o b, t)
      BY <1>4, LeadsConcat
    <3>4. Single(ready \o b, "callback")
      <4>1. ASSUME NEW d \in Elements(ready), NEW e \in Elements(b),
                   d.kind = "callback", e.kind = "callback", d.who = e.who
            PROVE  FALSE
        <5>1. d = CallbackEntry(d.who) /\ e.who \in Elements(objs[s].callbacks)
          BY <1>4, <1>6, <4>1, Entries
        <5> QED
          BY <1>1, <4>1, <5>1 DEF CallbacksOnce
      <4> QED
        BY <1>1, <1>4, <1>5, <2>1, <4>1, SingleConcat
    <3>5. ASSUME TasksOnce
          PROVE  Single(ready \o b, "task")
      <4>1. ASSUME NEW d \in Elements(ready), NEW e \in Elements(b),
                   d.kind = "task", e.kind = "task", d.who = e.who
            PROVE  FALSE
        <5>1. e.who \in Elements(objs[s].waiters)
          BY <1>6, <4>1
        <5> QED
          BY <3>5, <4>1, <5>1 DEF TasksOnce
      <4> QED
        BY <1>4, <1>5, <2>1, <3>5, <4>1, SingleConcat
    <3> QED
      BY <3>1, <3>2, <3>3, <3>4, <3>5
  <2>3. CASE ~ LoopRunning
    <3>1. ready' = ready
      BY <2>3 DEF Finishing, CompleteAsyncSource
    <3> QED
      BY <1>4, <2>1, <2>3, <3>1
  <2> QED
    BY <2>2, <2>3
<1>9. timers' \in Seq(Timer) /\ maturing' \in Seq(Timer) /\ Elements(maturing') \subseteq Elements(maturing)
  <2>1. timers \in Seq(Timer) /\ maturing \in Seq(Timer)
    BY <1>1 DEF TypeOK
  <2>2. maturing # << >> => Tail(maturing) \in Seq(Timer) /\ Elements(Tail(maturing)) \subseteq Elements(maturing)
    BY <2>1, Popped
  <2> QED
    BY <2>1, <2>2 DEF Finishing
<1>10. TypeOK'
  BY <1>1, <1>2, <1>3, <1>8, <1>9 DEF TypeOK, Finishing
<1>11. Linked'
  <2>1. \A x \in DOMAIN objs' :
          /\ \A t \in Elements(objs'[x].waiters) : t \in DOMAIN objs' /\ objs'[t].kind = "task"
          /\ objs'[x].waitingOn \in DOMAIN objs' \cup {0}
          /\ objs'[x].awaiting \in DOMAIN objs' \cup {0}
          /\ objs'[x].state # "pending" => objs'[x].waiters = << >> /\ objs'[x].callbacks = << >>
    <3>1. \A x \in DOMAIN objs : objs'[x].kind = objs[x].kind
      BY <1>2
    <3>2. ASSUME NEW x \in DOMAIN objs, x # s
          PROVE  /\ \A t \in Elements(objs[x].waiters) : t \in DOMAIN objs /\ objs'[t].kind = "task"
                 /\ objs[x].waitingOn \in DOMAIN objs \cup {0}
                 /\ objs[x].awaiting \in DOMAIN objs \cup {0}
                 /\ objs[x].state # "pending" => objs[x].waiters = << >> /\ objs[x].callbacks = << >>
      BY <1>1, <3>1 DEF Linked, Pending, IsTask
    <3>3. objs[s].awaiting \in DOMAIN objs \cup {0}
      BY <1>1 DEF Linked
    <3>4. \A x \in DOMAIN objs : x # s =>
            /\ objs'[x].waiters = objs[x].waiters /\ objs'[x].waitingOn = objs[x].waitingOn
            /\ objs'[x].awaiting = objs[x].awaiting /\ objs'[x].state = objs[x].state
            /\ objs'[x].callbacks = objs[x].callbacks
      BY <1>2
    <3> QED
      BY <1>2, <3>2, <3>3, <3>4, NoElements
  <2>2. \A d \in Elements(ready') : d.kind = "task" => d.who \in DOMAIN objs' /\ objs'[d.who].kind = "task"
    <3>1. \A d \in Elements(b) : d.kind = "task" => d.who \in DOMAIN objs /\ IsTask(d.who)
      BY <1>1, <1>6 DEF Linked
    <3>2. \A d \in Elements(ready) : d.kind = "task" => d.who \in DOMAIN objs /\ IsTask(d.who)
      BY <1>1 DEF Linked
    <3>3. \A x \in DOMAIN objs : objs'[x].kind = objs[x].kind
      BY <1>2
    <3> QED
      BY <1>2, <1>8, <3>1, <3>2, <3>3 DEF IsTask
  <2>3. \A timer \in Elements(timers') \cup Elements(maturing') :
          timer.future \in DOMAIN objs' /\ objs'[timer.future].kind # "task"
    <3>1. \A x \in DOMAIN objs : objs'[x].kind = objs[x].kind
      BY <1>2
    <3> QED
      BY <1>1, <1>2, <1>9, <3>1 DEF Linked, IsTask, Finishing
  <2>4. \A t \in tasks' : t \in DOMAIN objs' /\ objs'[t].kind = "task"
    BY <1>1, <1>2 DEF Linked, IsTask, Finishing
  <2>5. IF pc' = "task" THEN current' \in DOMAIN objs' /\ objs'[current'].kind = "task" /\ objs'[current'].state = "pending"
                        ELSE current' = 0
    BY <1>1, <1>2 DEF Linked, IsTask, Pending, Finishing
  <2>6. pc' = "outside" => ready' = << >> /\ timers' = << >> /\ tasks' = {}
    BY <1>1 DEF Linked, Finishing, CompleteAsyncSource, LoopRunning
  <2>7. maturing' # << >> => pc' \in {"mature", "jumped"}
    BY <1>1 DEF Linked, Finishing
  <2>8. \A timer \in Elements(timers') : timer.left > 0
    BY <1>1 DEF Linked, Finishing
  <2> QED
    BY <2>1, <2>2, <2>3, <2>4, <2>5, <2>6, <2>7, <2>8 DEF Linked, Pending, IsTask
<1>12. Kept'
  <2> SUFFICES ASSUME NEW t \in tasks', objs'[t].state = "pending"
               PROVE  /\ t = current' \/ Queued(ready', t) \/ \E x \in DOMAIN objs' : t \in Elements(objs'[x].waiters)
                      /\ objs'[t].cancelRequested => Leads(ready', t)
    BY DEF Kept, Pending
  <2>1. t \in tasks /\ t \in DOMAIN objs /\ t # s /\ LoopRunning
    BY <1>1, <1>2 DEF Finishing, Linked, Terminal, LoopRunning
  <2>2. objs'[t] = objs[t]
    BY <1>2, <2>1
  <2>3. /\ t = current \/ Queued(ready, t) \/ \E x \in DOMAIN objs : t \in Elements(objs[x].waiters)
        /\ objs[t].cancelRequested => Leads(ready, t)
    BY <1>1, <2>1, <2>2 DEF Kept, Pending
  <2>4. t = current => t = current'
    BY <2>1 DEF Finishing
  <2>5. Queued(ready, t) => Queued(ready', t)
    BY <1>8 DEF Queued
  <2>6. t \in Elements(objs[s].waiters) => Queued(ready', t)
    BY <1>7, <1>8, <2>1 DEF Queued
  <2>7. ASSUME NEW x \in DOMAIN objs, t \in Elements(objs[x].waiters), x # s
        PROVE  \E y \in DOMAIN objs' : t \in Elements(objs'[y].waiters)
    BY <1>2, <2>7
  <2> QED
    BY <1>8, <2>2, <2>3, <2>4, <2>5, <2>6, <2>7
<1>13. CallbacksOnce'
  <2>1. \A x \in DOMAIN objs : x # s =>
          /\ \A c \in Elements(objs[x].callbacks) : c \notin Elements(ran) /\ CallbackEntry(c) \notin Elements(ready')
          /\ \A i, j \in DOMAIN objs[x].callbacks : objs[x].callbacks[i] = objs[x].callbacks[j] => i = j
    BY <1>1, <1>7, <1>8 DEF CallbacksOnce
  <2>2. \A x \in DOMAIN objs' :
          /\ \A c \in Elements(objs'[x].callbacks) : c \notin Elements(ran) /\ CallbackEntry(c) \notin Elements(ready')
          /\ \A i, j \in DOMAIN objs'[x].callbacks : objs'[x].callbacks[i] = objs'[x].callbacks[j] => i = j
    BY <1>2, <2>1, NoElements
  <2>3. \A x, y \in DOMAIN objs' : Elements(objs'[x].callbacks) \cap Elements(objs'[y].callbacks) # {} => x = y
    BY <1>1, <1>2, NoElements, SMTT(30) DEF CallbacksOnce
  <2>4. \A d \in Elements(ready') : d.kind = "callback" => d.who \notin Elements(ran)
    BY <1>1, <1>6, <1>8 DEF CallbacksOnce
  <2>5. \A i, j \in DOMAIN ran : ran[i] = ran[j] => i = j
    BY <1>1 DEF CallbacksOnce
  <2>6. ran' = ran
    BY DEF Finishing
  <2> QED
    BY <1>8, <2>2, <2>3, <2>4, <2>5, <2>6 DEF CallbacksOnce
<1>14. ASSUME TasksOnce
       PROVE  TasksOnce'
  <2>1. current' \in {current, 0}
    BY DEF Finishing
  <2>2. \A x \in DOMAIN objs : \A t \in Elements(objs[x].waiters) :
          t \in DOMAIN objs /\ IsTask(t) /\ t # current /\ t # 0 /\ t # s
    BY <1>1, <1>4, <1>14 DEF Linked, TasksOnce, Finishing
  <2>3. \A x \in DOMAIN objs : x # s => \A t \in Elements(objs[x].waiters) : t \notin Elements(objs[s].waiters)
    BY <1>14 DEF TasksOnce
  <2>4. ASSUME NEW x \in DOMAIN objs, x # s
        PROVE  /\ \A i, j \in DOMAIN objs[x].waiters : objs[x].waiters[i] = objs[x].waiters[j] => i = j
               /\ \A t \in Elements(objs[x].waiters) :
                    /\ objs'[t].waitingOn = x /\ objs'[t].awaiting \in {0, x}
                    /\ t # current'
                    /\ \A d \in Elements(ready') : ~ (d.kind = "task" /\ d.who = t)
    <3>1. \A t \in Elements(objs[x].waiters) : objs'[t] = objs[t]
      BY <1>2, <2>2
    <3> QED
      BY <1>6, <1>8, <1>14, <2>1, <2>2, <2>3, <2>4, <3>1 DEF TasksOnce
  <2>5. \A x \in DOMAIN objs' :
          /\ \A i, j \in DOMAIN objs'[x].waiters : objs'[x].waiters[i] = objs'[x].waiters[j] => i = j
          /\ \A t \in Elements(objs'[x].waiters) :
               /\ objs'[t].waitingOn = x /\ objs'[t].awaiting \in {0, x}
               /\ t # current'
               /\ \A d \in Elements(ready') : ~ (d.kind = "task" /\ d.who = t)
    <3> SUFFICES ASSUME NEW x \in DOMAIN objs'
                 PROVE  /\ \A i, j \in DOMAIN objs'[x].waiters : objs'[x].waiters[i] = objs'[x].waiters[j] => i = j
                        /\ \A t \in Elements(objs'[x].waiters) :
                             /\ objs'[t].waitingOn = x /\ objs'[t].awaiting \in {0, x}
                             /\ t # current'
                             /\ \A d \in Elements(ready') : ~ (d.kind = "task" /\ d.who = t)
      OBVIOUS
    <3>1. CASE x = s
      BY <1>2, <3>1, NoElements
    <3>2. CASE x # s
      <4>1. objs'[x].waiters = objs[x].waiters /\ x \in DOMAIN objs
        BY <1>2, <3>2
      <4> QED
        BY <2>4, <3>2, <4>1
    <3> QED
      BY <3>1, <3>2
  <2>6. \A x \in DOMAIN objs : objs'[x].awaiting = objs[x].awaiting /\ (objs[x].state # "pending" => objs'[x].state # "pending")
    BY <1>2 DEF Terminal
  <2>7. ASSUME NEW d \in Elements(ready'), d.kind = "task"
        PROVE  /\ d.who # current'
               /\ d.wake = "cancelled" \/ objs'[d.who].awaiting = 0 \/ objs'[objs'[d.who].awaiting].state # "pending"
    <3>1. CASE d \in Elements(ready)
      <4>1. d.who \in DOMAIN objs /\ d.who # current /\ d.who # 0 /\ objs[d.who].awaiting \in DOMAIN objs \cup {0}
        BY <1>1, <1>4, <1>14, <2>7, <3>1 DEF Linked, TasksOnce
      <4>2. d.wake = "cancelled" \/ objs[d.who].awaiting = 0 \/ objs[objs[d.who].awaiting].state # "pending"
        BY <1>14, <2>7, <3>1 DEF TasksOnce, Pending
      <4> QED
        BY <2>1, <2>6, <4>1, <4>2
    <3>2. CASE d \in Elements(b)
      <4>1. d.who \in Elements(objs[s].waiters)
        BY <1>6, <2>7, <3>2
      <4>2. objs[d.who].awaiting \in {0, s} /\ d.who \in DOMAIN objs /\ d.who # current /\ d.who # 0
        BY <1>14, <2>2, <4>1 DEF TasksOnce
      <4> QED
        BY <1>2, <2>1, <2>6, <4>2 DEF Terminal
    <3> QED
      BY <1>8, <2>7, <3>1, <3>2
  <2>8. pc' = "task" => objs'[current'].awaiting = 0
    BY <1>1, <1>14, <2>6 DEF TasksOnce, Linked, Finishing
  <2> QED
    BY <1>8, <1>14, <2>5, <2>7, <2>8 DEF TasksOnce, Pending
<1> QED
  BY <1>1, <1>3, <1>10, <1>11, <1>12, <1>13, <1>14 DEF LoopInv, Finishing

\* Task.cancel of a task.
LEMMA CancelKeeps ==
  ASSUME LoopInv, NEW t \in DOMAIN objs, TaskCancel(t)
  PROVE  LoopInv'
<1> DEFINE e == TaskEntry(t, "cancelled")
           a == <<e>>
           P == DOMAIN ready \ EntriesOf(t)
<1>1. TypeOK /\ Linked /\ Kept /\ CallbacksOnce /\ (CancelsItself \/ TasksOnce) /\ program \in Programs
  BY DEF LoopInv
<1>2. /\ objs' \in Seq(AsyncObject) /\ Len(objs') = Len(objs) /\ DOMAIN objs' = DOMAIN objs
      /\ \A x \in DOMAIN objs :
           /\ objs'[x].kind = objs[x].kind /\ objs'[x].state = objs[x].state
           /\ objs'[x].callbacks = objs[x].callbacks
           /\ objs'[x].awaiting = objs[x].awaiting
           /\ x # t => /\ objs'[x].waitingOn = objs[x].waitingOn
                       /\ objs'[x].cancelRequested = objs[x].cancelRequested
           /\ IF x = objs[t].waitingOn THEN WithoutTask(objs[x].waiters, objs'[x].waiters, t)
                                       ELSE objs'[x].waiters = objs[x].waiters
      /\ objs'[t].waitingOn = 0 /\ objs'[t].cancelRequested = TRUE
  <2>1. objs[t].waitingOn \in DOMAIN objs \cup {0}
    BY <1>1 DEF Linked
  <2> QED
    BY <1>1, <2>1, Cancelling DEF TaskCancel
<1>3. AsyncObject' = AsyncObject /\ ReadyEntry' = ReadyEntry /\ (CancelsItself' <=> CancelsItself)
  BY SameTypes DEF TaskCancel
<1>4. /\ ready \in Seq(ReadyEntry)
      /\ t \in Ids
      /\ 0 \notin DOMAIN objs
      /\ \A i \in DOMAIN ready : ready[i] \in Elements(ready)
      /\ \A d \in Elements(ready) : \E i \in DOMAIN ready : d = ready[i]
  <2>1. DOMAIN objs = 1 .. Len(objs) /\ Len(objs) \in Nat /\ Len(objs) <= MaxObjects /\ MaxObjects \in Nat
    BY <1>1, ObjectTypes, EventLoopAssumption DEF TypeOK
  <2>2. t \in Ids /\ 0 \notin DOMAIN objs
    BY <2>1 DEF Ids
  <2> QED
    BY <1>1, <2>2 DEF TypeOK, Elements
<1>5. e \in ReadyEntry /\ e.kind = "task" /\ e.who = t /\ e.wake = "cancelled" 
      /\ a \in Seq(ReadyEntry) /\ Elements(a) = {e} /\ Leads(a, t)
      /\ Single(a, "task") /\ Single(a, "callback")
  <2>1. e \in ReadyEntry /\ e.kind = "task" /\ e.who = t /\ e.wake = "cancelled"
    BY <1>4, TaskEntries DEF Terminal
  <2>2. a \in Seq(ReadyEntry)
    BY <2>1, IsASeq
  <2> HIDE DEF e
  <2>3. Leads(a, t)
    BY <2>1 DEF Leads
  <2>4. Elements(a) = {e} /\ Single(a, "task") /\ Single(a, "callback")
    BY OneElement
  <2> QED
    BY <2>1, <2>2, <2>3, <2>4
<1>6. \A x \in DOMAIN objs :
        /\ \A u \in Elements(objs'[x].waiters) : u \in Elements(objs[x].waiters)
        /\ \A u \in Elements(objs[x].waiters) : u # t => u \in Elements(objs'[x].waiters)
        /\ x = objs[t].waitingOn => t \notin Elements(objs'[x].waiters)
        /\ (\A i, j \in DOMAIN objs[x].waiters : objs[x].waiters[i] = objs[x].waiters[j] => i = j)
             => \A i, j \in DOMAIN objs'[x].waiters : objs'[x].waiters[i] = objs'[x].waiters[j] => i = j
  <2> SUFFICES ASSUME NEW x \in DOMAIN objs
               PROVE  /\ \A u \in Elements(objs'[x].waiters) : u \in Elements(objs[x].waiters)
                      /\ \A u \in Elements(objs[x].waiters) : u # t => u \in Elements(objs'[x].waiters)
                      /\ x = objs[t].waitingOn => t \notin Elements(objs'[x].waiters)
                      /\ (\A i, j \in DOMAIN objs[x].waiters : objs[x].waiters[i] = objs[x].waiters[j] => i = j)
                           => \A i, j \in DOMAIN objs'[x].waiters : objs'[x].waiters[i] = objs'[x].waiters[j] => i = j
    OBVIOUS
  <2>1. CASE x = objs[t].waitingOn
    <3>1. WithoutTask(objs[x].waiters, objs'[x].waiters, t)
      BY <1>2, <2>1
    <3> QED
      BY <3>1 DEF WithoutTask
  <2>2. CASE x # objs[t].waitingOn
    <3>1. objs'[x].waiters = objs[x].waiters
      BY <1>2, <2>2
    <3> QED
      BY <2>2, <3>1
  <2> QED
    BY <2>1, <2>2
<1> HIDE DEF e, a, P
<1>7. /\ ready' \in Seq(ReadyEntry)
      /\ \A d \in Elements(ready) : ~ (d.kind = "task" /\ d.who = t) => d \in Elements(ready')
      /\ \A d \in Elements(ready') : d \in Elements(ready) \/ d = e
      /\ LoopRunning => e \in Elements(ready') /\ Leads(ready', t)
      /\ \A u : u # t /\ Leads(ready, u) => Leads(ready', u)
      /\ Single(ready', "callback") /\ (TasksOnce => Single(ready', "task"))
  <2>1. Single(ready, "callback") /\ (TasksOnce => Single(ready, "task"))
    BY <1>1 DEF CallbacksOnce, TasksOnce
  <2>2. CASE LoopRunning
    <3>1. PICK kept \in Retained(ready, P) : ready' = a \o kept
      BY <2>2 DEF TaskCancel, CancelWake, ReadyWithout, e, a, P
    <3>2. P \in SUBSET DOMAIN ready
      BY DEF P
    <3>3. /\ kept \in Seq(ReadyEntry)
          /\ Elements(kept) = {ready[i] : i \in P}
          /\ \E f : Embedding(kept, ready, f) /\ \A l \in P : \E i \in DOMAIN kept : f[i] = l
      BY <1>4, <3>2, RetainedElements
    <3>4. PICK f : Embedding(kept, ready, f) /\ \A l \in P : \E i \in DOMAIN kept : f[i] = l
      BY <3>3
    <3>5. \A i \in DOMAIN ready : i \in P <=> ~ (ready[i].kind = "task" /\ ready[i].who = t)
      BY DEF P, EntriesOf
    <3>6. \A d \in Elements(kept) : d \in Elements(ready) /\ ~ (d.kind = "task" /\ d.who = t)
      BY <1>4, <3>2, <3>3, <3>5
    <3>7. \A d \in Elements(ready) : ~ (d.kind = "task" /\ d.who = t) => d \in Elements(kept)
      BY <1>4, <3>3, <3>5
    <3>8. ready' \in Seq(ReadyEntry) /\ Elements(ready') = {e} \cup Elements(kept)
      <4>1. a \o kept \in Seq(ReadyEntry) /\ Elements(a \o kept) = Elements(a) \cup Elements(kept)
        BY <1>5, <3>3, Concatenated
      <4> QED
        BY <1>5, <3>1, <4>1
    <3>9. Leads(ready', t)
      BY <1>5, <3>1, <3>3, LeadsConcat
    <3>10. ASSUME NEW u, u # t, Leads(ready, u)
           PROVE  Leads(ready', u)
      <4>1. Leads(kept, u)
        BY <1>4, <3>3, <3>4, <3>5, <3>10, LeadsEmbedded
      <4>2. \A d \in Elements(a) : ~ (d.kind = "task" /\ d.who = u)
        BY <1>5, <3>10
      <4> QED
        BY <1>5, <3>1, <3>3, <4>1, <4>2, LeadsBehind
    <3>11. Single(kept, "callback") /\ (TasksOnce => Single(kept, "task"))
      BY <1>4, <2>1, <3>3, <3>4, SingleEmbedded
    <3>12. \A d \in Elements(a), c \in Elements(kept) :
             /\ ~ (d.kind = "task" /\ c.kind = "task" /\ d.who = c.who)
             /\ ~ (d.kind = "callback" /\ c.kind = "callback" /\ d.who = c.who)
      BY <1>5, <3>6
    <3>13. Single(a \o kept, "callback")
      <4>1. \A d \in Elements(a), c \in Elements(kept) : ~ (d.kind = "callback" /\ c.kind = "callback" /\ d.who = c.who)
        BY <3>12
      <4> QED
        BY <1>5, <3>3, <3>11, <4>1, SingleConcat
    <3>14. TasksOnce => Single(a \o kept, "task")
      BY <1>5, <3>3, <3>11, <3>12, SingleConcat
    <3> QED
      BY <3>1, <3>6, <3>7, <3>8, <3>9, <3>10, <3>13, <3>14
  <2>3. CASE ~ LoopRunning
    <3>1. ready' = ready
      BY <2>3 DEF TaskCancel
    <3> QED
      BY <1>4, <2>1, <2>3, <3>1
  <2> QED
    BY <2>2, <2>3
<1>8. TypeOK'
  BY <1>1, <1>2, <1>3, <1>4, <1>7 DEF TypeOK, TaskCancel
<1>9. Linked'
  <2>1. \A x \in DOMAIN objs' :
          /\ \A u \in Elements(objs'[x].waiters) : u \in DOMAIN objs' /\ objs'[u].kind = "task"
          /\ objs'[x].waitingOn \in DOMAIN objs' \cup {0}
          /\ objs'[x].awaiting \in DOMAIN objs' \cup {0}
    <3>1. \A x \in DOMAIN objs : objs'[x].awaiting = objs[x].awaiting /\ objs'[x].waitingOn \in {0, objs[x].waitingOn}
      BY <1>2
    <3>2. \A x \in DOMAIN objs : \A u \in Elements(objs'[x].waiters) : u \in DOMAIN objs /\ objs[u].kind = "task"
      BY <1>1, <1>6 DEF Linked, IsTask
    <3>3. \A x \in DOMAIN objs : objs[x].waitingOn \in DOMAIN objs \cup {0} /\ objs[x].awaiting \in DOMAIN objs \cup {0}
      BY <1>1 DEF Linked
    <3>4. \A x \in DOMAIN objs : objs'[x].kind = objs[x].kind
      BY <1>2
    <3> QED
      BY <1>2, <3>1, <3>2, <3>3, <3>4
  <2>2. ASSUME NEW x \in DOMAIN objs, objs[x].state # "pending"
        PROVE  objs'[x].waiters = << >> /\ objs'[x].callbacks = << >>
    <3>1. objs[x].waiters = << >> /\ objs[x].callbacks = << >>
      BY <1>1, <2>2 DEF Linked, Pending
    <3>2. CASE x = objs[t].waitingOn
      <4>1. WithoutTask(<< >>, objs'[x].waiters, t)
        BY <1>2, <3>1, <3>2
      <4>2. objs'[x].waiters \in Seq(Ids) /\ Elements(objs'[x].waiters) = {}
        BY <4>1, NoElements DEF WithoutTask
      <4> QED
        BY <1>2, <3>1, <4>2, ElementsOf
    <3>3. CASE x # objs[t].waitingOn
      BY <1>2, <3>1, <3>3
    <3> QED
      BY <3>2, <3>3
  <2>3. \A d \in Elements(ready') : d.kind = "task" => d.who \in DOMAIN objs' /\ objs'[d.who].kind = "task"
    <3>1. \A d \in Elements(ready) : d.kind = "task" => d.who \in DOMAIN objs /\ objs[d.who].kind = "task"
      BY <1>1 DEF Linked, IsTask
    <3>2. objs[t].kind = "task"
      BY DEF TaskCancel, IsTask
    <3>3. \A x \in DOMAIN objs : objs'[x].kind = objs[x].kind
      BY <1>2
    <3> QED
      BY <1>2, <1>5, <1>7, <3>1, <3>2, <3>3
  <2>4. \A timer \in Elements(timers') \cup Elements(maturing') :
          timer.future \in DOMAIN objs' /\ objs'[timer.future].kind # "task"
    BY <1>1, <1>2 DEF Linked, IsTask, TaskCancel
  <2>5. \A u \in tasks' : u \in DOMAIN objs' /\ objs'[u].kind = "task"
    BY <1>1, <1>2 DEF Linked, IsTask, TaskCancel
  <2>6. IF pc' = "task" THEN current' \in DOMAIN objs' /\ objs'[current'].kind = "task" /\ objs'[current'].state = "pending"
                        ELSE current' = 0
    BY <1>1, <1>2 DEF Linked, IsTask, Pending, TaskCancel
  <2>7. pc' = "outside" => ready' = << >> /\ timers' = << >> /\ tasks' = {}
    BY <1>1 DEF Linked, TaskCancel, LoopRunning
  <2>8. maturing' # << >> => pc' \in {"mature", "jumped"}
    BY <1>1 DEF Linked, TaskCancel
  <2>9. \A timer \in Elements(timers') : timer.left > 0
    BY <1>1 DEF Linked, TaskCancel
  <2> QED
    BY <1>2, <2>1, <2>2, <2>3, <2>4, <2>5, <2>6, <2>7, <2>8, <2>9 DEF Linked, Pending, IsTask
<1>10. Kept'
  <2> SUFFICES ASSUME NEW u \in tasks', objs'[u].state = "pending"
               PROVE  /\ u = current' \/ Queued(ready', u) \/ \E x \in DOMAIN objs' : u \in Elements(objs'[x].waiters)
                      /\ objs'[u].cancelRequested => Leads(ready', u)
    BY DEF Kept, Pending
  <2>1. u \in tasks /\ u \in DOMAIN objs /\ LoopRunning /\ current' = current
    BY <1>1 DEF TaskCancel, Linked, LoopRunning
  <2>2. CASE u = t
    BY <1>5, <1>7, <2>1, <2>2 DEF Queued
  <2>3. CASE u # t
    <3>1. /\ u = current \/ Queued(ready, u) \/ \E x \in DOMAIN objs : u \in Elements(objs[x].waiters)
          /\ objs[u].cancelRequested => Leads(ready, u)
      BY <1>1, <1>2, <2>1 DEF Kept, Pending
    <3>2. Queued(ready, u) => Queued(ready', u)
      BY <1>7, <2>3 DEF Queued
    <3> QED
      BY <1>2, <1>6, <1>7, <2>1, <2>3, <3>1, <3>2
  <2> QED
    BY <2>2, <2>3
<1>11. CallbacksOnce'
  <2>1. \A c : CallbackEntry(c) # e
    BY <1>5 DEF CallbackEntry
  <2>2. ran' = ran /\ \A x \in DOMAIN objs : objs'[x].callbacks = objs[x].callbacks
    BY <1>2 DEF TaskCancel
  <2>3. \A d \in Elements(ready') : d.kind = "callback" => d.who \notin Elements(ran)
    BY <1>1, <1>5, <1>7 DEF CallbacksOnce
  <2> QED
    <3>1. /\ \A i, j \in DOMAIN ran : ran[i] = ran[j] => i = j
          /\ \A x \in DOMAIN objs :
               /\ \A c \in Elements(objs[x].callbacks) : c \notin Elements(ran) /\ CallbackEntry(c) \notin Elements(ready')
               /\ \A i, j \in DOMAIN objs[x].callbacks : objs[x].callbacks[i] = objs[x].callbacks[j] => i = j
      BY <1>1, <1>7, <2>1 DEF CallbacksOnce
    <3>2. \A x, y \in DOMAIN objs : Elements(objs[x].callbacks) \cap Elements(objs[y].callbacks) # {} => x = y
      BY <1>1 DEF CallbacksOnce
    <3>3. DOMAIN objs' = DOMAIN objs
      BY <1>2
    <3> QED
      BY <1>7, <2>2, <2>3, <3>1, <3>2, <3>3, Zenon DEF CallbacksOnce
<1>12. ASSUME TasksOnce, ~ CancelsItself
       PROVE  TasksOnce'
  <2>1. current' = current /\ t # current /\ pc' = pc
    BY <1>12 DEF TaskCancel, CancelsItself
  <2>2. ASSUME NEW x \in DOMAIN objs
        PROVE  /\ \A i, j \in DOMAIN objs'[x].waiters : objs'[x].waiters[i] = objs'[x].waiters[j] => i = j
               /\ \A u \in Elements(objs'[x].waiters) :
                    /\ objs'[u].waitingOn = x /\ objs'[u].awaiting \in {0, x}
                    /\ u # current
                    /\ \A d \in Elements(ready') : ~ (d.kind = "task" /\ d.who = u)
    <3>1. \A i, j \in DOMAIN objs'[x].waiters : objs'[x].waiters[i] = objs'[x].waiters[j] => i = j
      BY <1>6, <1>12 DEF TasksOnce
    <3>2. ASSUME NEW u \in Elements(objs'[x].waiters)
          PROVE  /\ objs'[u].waitingOn = x /\ objs'[u].awaiting \in {0, x}
                 /\ u # current
                 /\ \A d \in Elements(ready') : ~ (d.kind = "task" /\ d.who = u)
      <4>1. u \in Elements(objs[x].waiters) /\ u \in DOMAIN objs
        BY <1>1, <1>6 DEF Linked
      <4>2. objs[u].waitingOn = x /\ objs[u].awaiting \in {0, x} /\ u # current
            /\ \A d \in Elements(ready) : ~ (d.kind = "task" /\ d.who = u)
        BY <1>12, <4>1 DEF TasksOnce
      <4>3. u # t
        BY <1>6, <4>2
      <4> QED
        BY <1>2, <1>5, <1>7, <4>1, <4>2, <4>3
    <3> QED
      BY <3>1, <3>2
  <2>3. \A d \in Elements(ready') : d.kind = "task" =>
          /\ d.who # current
          /\ d.wake = "cancelled" \/ objs'[d.who].awaiting = 0 \/ objs'[objs'[d.who].awaiting].state # "pending"
    <3>1. ASSUME NEW d \in Elements(ready), d.kind = "task"
          PROVE  /\ d.who \in DOMAIN objs /\ d.who # current
                 /\ objs[d.who].awaiting \in DOMAIN objs \cup {0}
                 /\ d.wake = "cancelled" \/ objs[d.who].awaiting = 0 \/ objs[objs[d.who].awaiting].state # "pending"
      BY <1>1, <1>12, <3>1 DEF Linked, TasksOnce, Pending
    <3>2. \A x \in DOMAIN objs : objs'[x].awaiting = objs[x].awaiting /\ objs'[x].state = objs[x].state
      BY <1>2
    <3> QED
      BY <1>5, <1>7, <2>1, <3>1, <3>2
  <2>4. pc' = "task" => objs'[current'].awaiting = 0
    BY <1>1, <1>2, <1>12, <2>1 DEF TasksOnce, Linked
  <2> QED
    BY <1>2, <1>7, <1>12, <2>1, <2>2, <2>3, <2>4 DEF TasksOnce, Pending
<1> QED
  BY <1>1, <1>3, <1>8, <1>9, <1>10, <1>11, <1>12 DEF LoopInv, TaskCancel

\* add_done_callback of a done source, and a task that is ready again at once.
Queueing(e) ==
  /\ e \in ReadyEntry
  /\ \/ /\ e.kind = "callback"
        /\ LoopRunning
        /\ e.who \notin Elements(ran)
        /\ \A x \in DOMAIN objs : e.who \notin Elements(objs[x].callbacks)
        /\ e \notin Elements(ready)
        /\ UNCHANGED <<pc, current>>
     \/ e.kind = "task" /\ pc = "task" /\ e.who = current /\ Leave
  /\ ready' = Append(ready, e)
  /\ UNCHANGED <<program, objs, timers, maturing, tasks, main, cancelled, ran>>

LEMMA QueueingKeeps ==
  ASSUME LoopInv, NEW e, Queueing(e)
  PROVE  LoopInv'
<1>1. TypeOK /\ Linked /\ Kept /\ CallbacksOnce /\ (CancelsItself \/ TasksOnce) /\ program \in Programs
  BY DEF LoopInv
<1>2. /\ objs' = objs /\ timers' = timers /\ maturing' = maturing /\ tasks' = tasks /\ ran' = ran
      /\ AsyncObject' = AsyncObject /\ ReadyEntry' = ReadyEntry /\ (CancelsItself' <=> CancelsItself)
  BY SameTypes DEF Queueing
<1>3. /\ ready \in Seq(ReadyEntry) /\ e \in ReadyEntry
      /\ \A d \in Elements(ready) : d \in ReadyEntry
      /\ 0 \notin DOMAIN objs
  BY <1>1, ObjectTypes DEF TypeOK, Queueing
<1>4. e.kind = "callback" => e = CallbackEntry(e.who)
  BY <1>3, Entries
<1>5. /\ ready' \in Seq(ReadyEntry)
      /\ Elements(ready') = Elements(ready) \cup {e}
      /\ \A t : Leads(ready, t) => Leads(ready', t)
      /\ \A kind : Single(ready, kind)
                      /\ (\A d \in Elements(ready) : ~ (d.kind = kind /\ e.kind = kind /\ d.who = e.who))
                    => Single(ready', kind)
  BY <1>3, Behind DEF Queueing
<1>6. TypeOK'
  BY <1>1, <1>2, <1>5 DEF TypeOK, Queueing, Leave
<1>7. Linked'
  <2>1. \A d \in Elements(ready') : d.kind = "task" => d.who \in DOMAIN objs /\ objs[d.who].kind = "task"
    BY <1>1, <1>5 DEF Linked, IsTask, Queueing
  <2>2. IF pc' = "task" THEN current' \in DOMAIN objs /\ objs[current'].kind = "task" /\ objs[current'].state = "pending"
                        ELSE current' = 0
    BY <1>1 DEF Linked, IsTask, Pending, Queueing, Leave
  <2>3. pc' # "outside" /\ (maturing # << >> => pc' \in {"mature", "jumped"})
    BY <1>1 DEF Linked, Queueing, Leave, LoopRunning
  <2> QED
    BY <1>1, <1>2, <2>1, <2>2, <2>3 DEF Linked, Pending, IsTask
<1>8. Kept'
  <2> SUFFICES ASSUME NEW t \in tasks, objs[t].state = "pending"
               PROVE  /\ t = current' \/ Queued(ready', t) \/ \E s \in DOMAIN objs : t \in Elements(objs[s].waiters)
                      /\ objs[t].cancelRequested => Leads(ready', t)
    BY <1>2 DEF Kept, Pending
  <2>1. /\ t = current \/ Queued(ready, t) \/ \E s \in DOMAIN objs : t \in Elements(objs[s].waiters)
        /\ objs[t].cancelRequested => Leads(ready, t)
    BY <1>1 DEF Kept, Pending
  <2>2. Queued(ready, t) => Queued(ready', t)
    BY <1>5 DEF Queued
  <2>3. t = current => t = current' \/ Queued(ready', t)
    BY <1>5 DEF Queued, Queueing
  <2> QED
    BY <1>5, <2>1, <2>2, <2>3
<1>9. CallbacksOnce'
  <2>1. \A d \in Elements(ready) : ~ (d.kind = "callback" /\ e.kind = "callback" /\ d.who = e.who)
    <3>1. \A d \in Elements(ready) : d.kind = "callback" => d = CallbackEntry(d.who)
      BY <1>3, Entries
    <3> QED
      BY <1>4, <3>1 DEF Queueing
  <2>2. Single(ready', "callback")
    BY <1>1, <1>5, <2>1 DEF CallbacksOnce
  <2>3. \A d \in Elements(ready') : d.kind = "callback" => d.who \notin Elements(ran)
    BY <1>1, <1>5 DEF CallbacksOnce, Queueing
  <2>4. \A x \in DOMAIN objs : \A c \in Elements(objs[x].callbacks) : CallbackEntry(c) \notin Elements(ready')
    <3>1. ASSUME NEW x \in DOMAIN objs, NEW c \in Elements(objs[x].callbacks), CallbackEntry(c) = e
          PROVE  FALSE
      <4>1. e.kind = "callback" /\ e.who = c
        BY <3>1 DEF CallbackEntry
      <4> QED
        BY <3>1, <4>1 DEF Queueing
    <3> QED
      BY <1>1, <1>5, <3>1 DEF CallbacksOnce
  <2> QED
    BY <1>1, <1>2, <2>2, <2>3, <2>4 DEF CallbacksOnce
<1>10. ASSUME TasksOnce
       PROVE  TasksOnce'
  <2>1. \A d \in Elements(ready) : ~ (d.kind = "task" /\ e.kind = "task" /\ d.who = e.who)
    BY <1>10 DEF TasksOnce, Queueing
  <2>2. Single(ready', "task")
    BY <1>5, <1>10, <2>1 DEF TasksOnce
  <2>3. current' \in {current, 0} /\ (pc' = "task" => pc = "task" /\ current' = current)
    BY DEF Queueing, Leave
  <2>4. e.kind = "task" => e.who \in DOMAIN objs /\ e.who # current' /\ objs[e.who].awaiting = 0
    BY <1>1, <1>3, <1>10 DEF Queueing, Leave, Linked, TasksOnce
  <2>5. \A x \in DOMAIN objs : \A t \in Elements(objs[x].waiters) :
          /\ t # current'
          /\ \A d \in Elements(ready') : ~ (d.kind = "task" /\ d.who = t)
    <3>1. \A x \in DOMAIN objs : \A t \in Elements(objs[x].waiters) :
            t # 0 /\ t # current /\ \A d \in Elements(ready) : ~ (d.kind = "task" /\ d.who = t)
      BY <1>1, <1>3, <1>10 DEF Linked, TasksOnce
    <3> QED
      BY <1>5, <2>3, <3>1 DEF Queueing
  <2>6. \A d \in Elements(ready') : d.kind = "task" =>
          /\ d.who # current'
          /\ d.wake = "cancelled" \/ objs[d.who].awaiting = 0 \/ ~ Pending(objs[d.who].awaiting)
    <3>1. \A d \in Elements(ready) : d.kind = "task" => d.who # 0
      BY <1>1, <1>3 DEF Linked
    <3> QED
      BY <1>5, <1>10, <2>3, <2>4, <3>1 DEF TasksOnce
  <2>7. pc' = "task" => objs[current'].awaiting = 0
    BY <1>10, <2>3 DEF TasksOnce
  <2> QED
    BY <1>2, <1>10, <2>2, <2>5, <2>6, <2>7 DEF TasksOnce, Pending
<1> QED
  BY <1>1, <1>2, <1>6, <1>7, <1>8, <1>9, <1>10 DEF LoopInv, Queueing

\* add_done_callback of a pending source.
LEMMA WatchingKeeps ==
  ASSUME LoopInv, NEW s \in DOMAIN objs, NEW c \in program.callbacks, AddDoneCallback(s, c), Pending(s)
  PROVE  LoopInv'
<1>1. TypeOK /\ Linked /\ Kept /\ CallbacksOnce /\ (CancelsItself \/ TasksOnce) /\ program \in Programs
  BY DEF LoopInv
<1>2. /\ objs' \in Seq(AsyncObject) /\ Len(objs') = Len(objs) /\ DOMAIN objs' = DOMAIN objs
      /\ \A x \in DOMAIN objs :
           /\ objs'[x].kind = objs[x].kind /\ objs'[x].state = objs[x].state
           /\ objs'[x].waiters = objs[x].waiters
           /\ objs'[x].waitingOn = objs[x].waitingOn /\ objs'[x].awaiting = objs[x].awaiting
           /\ objs'[x].cancelRequested = objs[x].cancelRequested
           /\ x # s => objs'[x].callbacks = objs[x].callbacks
      /\ objs'[s].callbacks = Append(objs[s].callbacks, c)
  <2>1. objs' = [objs EXCEPT ![s].callbacks = Append(@, c)]
    BY DEF AddDoneCallback
  <2> QED
    BY <1>1, <2>1, Watching
<1>3. /\ AsyncObject' = AsyncObject /\ ReadyEntry' = ReadyEntry /\ (CancelsItself' <=> CancelsItself)
      /\ ready' = ready /\ timers' = timers /\ maturing' = maturing /\ tasks' = tasks /\ ran' = ran
      /\ current' = current /\ pc' = pc /\ program' = program /\ main' = main /\ cancelled' = cancelled
  BY SameTypes DEF AddDoneCallback
<1>4. TypeOK'
  BY <1>1, <1>2, <1>3 DEF TypeOK
<1>5. Linked'
  <2>1. \A x \in DOMAIN objs : objs'[x].kind = objs[x].kind /\ objs'[x].state = objs[x].state
    BY <1>2
  <2>2. \A x \in DOMAIN objs :
          /\ \A t \in Elements(objs'[x].waiters) : t \in DOMAIN objs /\ objs[t].kind = "task"
          /\ objs'[x].waitingOn \in DOMAIN objs \cup {0}
          /\ objs'[x].awaiting \in DOMAIN objs \cup {0}
    BY <1>1, <1>2 DEF Linked, IsTask
  <2>3. \A x \in DOMAIN objs : objs[x].state # "pending" => objs'[x].waiters = << >> /\ objs'[x].callbacks = << >>
    BY <1>1, <1>2 DEF Linked, Pending
  <2>4. /\ \A e \in Elements(ready) : e.kind = "task" => e.who \in DOMAIN objs /\ objs[e.who].kind = "task"
        /\ \A timer \in Elements(timers) \cup Elements(maturing) :
             timer.future \in DOMAIN objs /\ objs[timer.future].kind # "task"
        /\ \A timer \in Elements(timers) : timer.left > 0
        /\ \A t \in tasks : t \in DOMAIN objs /\ objs[t].kind = "task"
        /\ IF pc = "task" THEN current \in DOMAIN objs /\ objs[current].kind = "task" /\ objs[current].state = "pending"
                          ELSE current = 0
        /\ pc = "outside" => ready = << >> /\ timers = << >> /\ tasks = {}
        /\ maturing # << >> => pc \in {"mature", "jumped"}
    BY <1>1 DEF Linked, IsTask, Pending
  <2>5. /\ \A e \in Elements(ready) : e.kind = "task" => e.who \in DOMAIN objs /\ objs'[e.who].kind = "task"
        /\ \A timer \in Elements(timers) \cup Elements(maturing) :
             timer.future \in DOMAIN objs /\ objs'[timer.future].kind # "task"
    BY <2>1, <2>4
  <2>6. /\ \A t \in tasks : t \in DOMAIN objs /\ objs'[t].kind = "task"
        /\ IF pc = "task" THEN current \in DOMAIN objs /\ objs'[current].kind = "task" /\ objs'[current].state = "pending"
                          ELSE current = 0
    BY <2>1, <2>4
  <2>7. \A x \in DOMAIN objs : \A t \in Elements(objs'[x].waiters) : t \in DOMAIN objs /\ objs'[t].kind = "task"
    BY <2>1, <2>2
  <2>8. \A x \in DOMAIN objs : objs'[x].state # "pending" => objs'[x].waiters = << >> /\ objs'[x].callbacks = << >>
    BY <2>1, <2>3
  <2> QED
    BY <1>2, <1>3, <2>2, <2>4, <2>5, <2>6, <2>7, <2>8 DEF Linked, Pending, IsTask
<1>6. Kept'
  <2>1. \A t \in tasks : t \in DOMAIN objs
    BY <1>1 DEF Linked
  <2> QED
    BY <1>1, <1>2, <1>3, <2>1 DEF Kept, Pending
<1>7. CallbacksOnce'
  <2>1. objs[s].callbacks \in Seq(program.callbacks)
    BY <1>1, ObjectTypes
  <2>2. /\ Elements(objs'[s].callbacks) = Elements(objs[s].callbacks) \cup {c}
        /\ (\A i, j \in DOMAIN objs[s].callbacks : objs[s].callbacks[i] = objs[s].callbacks[j] => i = j)
             => \A i, j \in DOMAIN objs'[s].callbacks : objs'[s].callbacks[i] = objs'[s].callbacks[j] => i = j
    <3> DEFINE q == objs[s].callbacks
               r == Append(q, c)
    <3>1. c \notin Elements(q)
      BY DEF AddDoneCallback
    <3>2. objs'[s].callbacks = r /\ objs[s].callbacks = q
      BY <1>2
    <3> HIDE DEF q
    <3>3. Elements(r) = Elements(q) \cup {c}
      BY <2>1, <3>2, AppendedElements
    <3>4. (\A i, j \in DOMAIN q : q[i] = q[j] => i = j) => \A i, j \in DOMAIN r : r[i] = r[j] => i = j
      BY <2>1, <3>1, <3>2, AppendedDistinct
    <3> HIDE DEF r
    <3> QED
      BY <3>2, <3>3, <3>4
  <2>3. /\ c \notin Elements(ran) /\ CallbackEntry(c) \notin Elements(ready)
        /\ \A x \in DOMAIN objs : c \notin Elements(objs[x].callbacks)
    BY DEF AddDoneCallback
  <2>4. \A x \in DOMAIN objs :
          /\ Elements(objs'[x].callbacks) = IF x = s THEN Elements(objs[x].callbacks) \cup {c} ELSE Elements(objs[x].callbacks)
          /\ (\A i, j \in DOMAIN objs[x].callbacks : objs[x].callbacks[i] = objs[x].callbacks[j] => i = j)
             => \A i, j \in DOMAIN objs'[x].callbacks : objs'[x].callbacks[i] = objs'[x].callbacks[j] => i = j
    <3> SUFFICES ASSUME NEW x \in DOMAIN objs, x # s
                 PROVE  objs'[x].callbacks = objs[x].callbacks
      BY <2>2
    <3> QED
      BY <1>2
  <2>5. \A x \in DOMAIN objs :
          /\ \A d \in Elements(objs'[x].callbacks) : d \notin Elements(ran) /\ CallbackEntry(d) \notin Elements(ready)
          /\ \A i, j \in DOMAIN objs'[x].callbacks : objs'[x].callbacks[i] = objs'[x].callbacks[j] => i = j
    <3>1. \A x \in DOMAIN objs : \A i, j \in DOMAIN objs[x].callbacks : objs[x].callbacks[i] = objs[x].callbacks[j] => i = j
      BY <1>1 DEF CallbacksOnce
    <3>2. \A x \in DOMAIN objs : \A d \in Elements(objs'[x].callbacks) : d \notin Elements(ran) /\ CallbackEntry(d) \notin Elements(ready)
      <4> SUFFICES ASSUME NEW x \in DOMAIN objs, NEW d \in Elements(objs'[x].callbacks), d # c
                   PROVE  d \notin Elements(ran) /\ CallbackEntry(d) \notin Elements(ready)
        BY <2>3
      <4>1. d \in Elements(objs[x].callbacks)
        BY <2>4
      <4> QED
        BY <1>1, <4>1 DEF CallbacksOnce
    <3> QED
      BY <2>4, <3>1, <3>2
  <2>6. \A x, y \in DOMAIN objs : Elements(objs'[x].callbacks) \cap Elements(objs'[y].callbacks) # {} => x = y
    <3>1. \A x, y \in DOMAIN objs : Elements(objs[x].callbacks) \cap Elements(objs[y].callbacks) # {} => x = y
      BY <1>1 DEF CallbacksOnce
    <3> SUFFICES ASSUME NEW x \in DOMAIN objs, NEW y \in DOMAIN objs, NEW d,
                        d \in Elements(objs'[x].callbacks), d \in Elements(objs'[y].callbacks)
                 PROVE  x = y
      OBVIOUS
    <3>2. CASE d = c
      BY <2>3, <2>4, <3>2
    <3>3. CASE d # c
      <4>1. d \in Elements(objs[x].callbacks) /\ d \in Elements(objs[y].callbacks)
        BY <2>4, <3>3
      <4> QED
        BY <3>1, <4>1
    <3> QED
      BY <3>2, <3>3
  <2>7. /\ Single(ready, "callback")
        /\ \A i, j \in DOMAIN ran : ran[i] = ran[j] => i = j
        /\ \A e \in Elements(ready) : e.kind = "callback" => e.who \notin Elements(ran)
    BY <1>1 DEF CallbacksOnce
  <2> QED
    BY <1>2, <1>3, <2>5, <2>6, <2>7 DEF CallbacksOnce
<1>8. ASSUME TasksOnce
      PROVE  TasksOnce'
  <2>1. \A x \in DOMAIN objs :
          /\ \A i, j \in DOMAIN objs'[x].waiters : objs'[x].waiters[i] = objs'[x].waiters[j] => i = j
          /\ \A t \in Elements(objs'[x].waiters) :
               /\ objs'[t].waitingOn = x /\ objs'[t].awaiting \in {0, x}
               /\ t # current
               /\ \A e \in Elements(ready) : ~ (e.kind = "task" /\ e.who = t)
    <3> SUFFICES ASSUME NEW x \in DOMAIN objs
                 PROVE  /\ \A i, j \in DOMAIN objs'[x].waiters : objs'[x].waiters[i] = objs'[x].waiters[j] => i = j
                        /\ \A t \in Elements(objs'[x].waiters) :
                             /\ objs'[t].waitingOn = x /\ objs'[t].awaiting \in {0, x}
                             /\ t # current
                             /\ \A e \in Elements(ready) : ~ (e.kind = "task" /\ e.who = t)
      OBVIOUS
    <3>1. objs'[x].waiters = objs[x].waiters
      BY <1>2
    <3>2. \A t \in Elements(objs[x].waiters) : t \in DOMAIN objs
      BY <1>1 DEF Linked
    <3>3. \A t \in Elements(objs[x].waiters) : objs'[t].waitingOn = objs[t].waitingOn /\ objs'[t].awaiting = objs[t].awaiting
      BY <1>2, <3>2
    <3> QED
      BY <1>8, <3>1, <3>3 DEF TasksOnce
  <2>2. \A e \in Elements(ready) : e.kind = "task" =>
          /\ e.who # current
          /\ e.wake = "cancelled" \/ objs'[e.who].awaiting = 0 \/ objs'[objs'[e.who].awaiting].state # "pending"
    <3>1. \A e \in Elements(ready) : e.kind = "task" =>
            /\ e.who \in DOMAIN objs /\ objs[e.who].awaiting \in DOMAIN objs \cup {0}
            /\ e.who # current
            /\ e.wake = "cancelled" \/ objs[e.who].awaiting = 0 \/ objs[objs[e.who].awaiting].state # "pending"
      BY <1>1, <1>8 DEF Linked, TasksOnce, Pending
    <3> QED
      BY <1>2, <3>1
  <2>3. pc = "task" => objs'[current].awaiting = 0
    BY <1>1, <1>2, <1>8 DEF Linked, TasksOnce
  <2> QED
    BY <1>2, <1>3, <1>8, <2>1, <2>2, <2>3 DEF TasksOnce, Pending
<1> QED
  BY <1>1, <1>3, <1>4, <1>5, <1>6, <1>7, <1>8 DEF LoopInv

\* Await, a pending source that is yielded, and an await that is resumed with None.
Parking(t, s, a) ==
  /\ IsTask(t) /\ Pending(t) /\ Pending(s)
  /\ a \in {0, s}
  /\ objs' = Waiting(t, s, a)
  /\ pc' = "top" /\ current' = 0
  /\ \/ pc = "task" /\ t = current /\ UNCHANGED ready
     \/ /\ pc = "mature" /\ ready # << >>
        /\ Head(ready).kind = "task" /\ Head(ready).who = t
        /\ YieldsAgain(t, Head(ready).wake)
        /\ ready' = Tail(ready)
  /\ maturing = << >>
  /\ UNCHANGED <<program, timers, maturing, tasks, main, cancelled, ran>>

LEMMA ParkingKeeps ==
  ASSUME LoopInv, NEW t \in DOMAIN objs, NEW s \in DOMAIN objs, NEW a, Parking(t, s, a)
  PROVE  LoopInv'
<1>1. TypeOK /\ Linked /\ Kept /\ CallbacksOnce /\ (CancelsItself \/ TasksOnce) /\ program \in Programs
  BY DEF LoopInv
<1>2. /\ objs' \in Seq(AsyncObject) /\ Len(objs') = Len(objs) /\ DOMAIN objs' = DOMAIN objs
      /\ \A x \in DOMAIN objs :
           /\ objs'[x].kind = objs[x].kind /\ objs'[x].state = objs[x].state
           /\ objs'[x].callbacks = objs[x].callbacks
           /\ objs'[x].cancelRequested = objs[x].cancelRequested
           /\ x # s => objs'[x].waiters = objs[x].waiters
           /\ x # t => objs'[x].waitingOn = objs[x].waitingOn /\ objs'[x].awaiting = objs[x].awaiting
      /\ objs'[t].waitingOn = s /\ objs'[t].awaiting = a
      /\ objs'[s].waiters = IF t \in Elements(objs[s].waiters) THEN objs[s].waiters
                                                            ELSE Append(objs[s].waiters, t)
  <2>1. a \in DOMAIN objs \cup {0} /\ objs' = Waiting(t, s, a) /\ Len(objs) <= MaxObjects
    BY <1>1 DEF Parking, TypeOK
  <2> QED
    BY <1>1, <2>1, Suspending
<1>3. /\ AsyncObject' = AsyncObject /\ ReadyEntry' = ReadyEntry /\ (CancelsItself' <=> CancelsItself)
      /\ timers' = timers /\ maturing' = << >> /\ tasks' = tasks /\ ran' = ran
      /\ current' = 0 /\ pc' = "top" /\ program' = program /\ main' = main /\ cancelled' = cancelled
  BY SameTypes DEF Parking
<1>4. /\ ready \in Seq(ReadyEntry)
      /\ objs[s].waiters \in Seq(Ids) /\ t \in Ids
      /\ 0 \notin DOMAIN objs
  <2>1. DOMAIN objs = 1 .. Len(objs) /\ Len(objs) \in Nat /\ Len(objs) <= MaxObjects /\ MaxObjects \in Nat
    BY <1>1, ObjectTypes, EventLoopAssumption DEF TypeOK
  <2>2. t \in Ids /\ 0 \notin DOMAIN objs
    BY <2>1 DEF Ids
  <2> QED
    BY <1>1, <2>2, ObjectTypes DEF TypeOK
<1>5. /\ Elements(objs'[s].waiters) = Elements(objs[s].waiters) \cup {t}
      /\ (\A i, j \in DOMAIN objs[s].waiters : objs[s].waiters[i] = objs[s].waiters[j] => i = j)
           => \A i, j \in DOMAIN objs'[s].waiters : objs'[s].waiters[i] = objs'[s].waiters[j] => i = j
  <2> DEFINE q == objs[s].waiters
             r == Append(q, t)
  <2>1. objs'[s].waiters = (IF t \in Elements(q) THEN q ELSE r) /\ q = objs[s].waiters
    BY <1>2
  <2> HIDE DEF q
  <2>2. Elements(r) = Elements(q) \cup {t}
    BY <1>4, <2>1, AppendedElements
  <2>3. ASSUME t \notin Elements(q), \A i, j \in DOMAIN q : q[i] = q[j] => i = j
        PROVE  \A i, j \in DOMAIN r : r[i] = r[j] => i = j
    <3>1. q \in Seq(Ids) /\ t \in Ids
      BY <1>4, <2>1
    <3> QED
      BY <2>3, <3>1, AppendedDistinct
  <2> HIDE DEF r
  <2> QED
    BY <2>1, <2>2, <2>3
<1>6. /\ ready' \in Seq(ReadyEntry)
      /\ \A d \in Elements(ready') : d \in Elements(ready)
      /\ \A u : u # t /\ Queued(ready, u) => Queued(ready', u)
      /\ \A u : u # t /\ Leads(ready, u) => Leads(ready', u)
      /\ Leads(ready, t) => Leads(ready', t)
      /\ Single(ready', "callback") /\ (TasksOnce => pc = "task" /\ ready' = ready /\ t = current)
  <2>1. CASE pc = "task" /\ t = current /\ UNCHANGED ready
    BY <1>1, <1>4, <2>1 DEF CallbacksOnce
  <2>2. CASE /\ ready # << >>
             /\ Head(ready).kind = "task" /\ Head(ready).who = t
             /\ YieldsAgain(t, Head(ready).wake)
             /\ ready' = Tail(ready)
    <3>1. /\ Tail(ready) \in Seq(ReadyEntry)
          /\ Elements(ready) = {Head(ready)} \cup Elements(Tail(ready))
          /\ Single(ready, "callback") => Single(Tail(ready), "callback")
          /\ \A u : Leads(ready, u) =>
               IF Head(ready).kind = "task" /\ Head(ready).who = u THEN Head(ready).wake = "cancelled"
                                                                 ELSE Leads(Tail(ready), u)
      BY <1>4, <2>2, Taken
    <3>2. ~ TasksOnce
      BY <2>2, <3>1 DEF TasksOnce, YieldsAgain
    <3>3. Single(ready, "callback")
      BY <1>1 DEF CallbacksOnce
    <3>4. \A u : u # t /\ Queued(ready, u) => Queued(ready', u)
      BY <2>2, <3>1 DEF Queued
    <3>5. Head(ready).wake = "none"
      BY <2>2 DEF YieldsAgain
    <3> QED
      BY <2>2, <3>1, <3>2, <3>3, <3>4, <3>5
  <2> QED
    BY <2>1, <2>2 DEF Parking
<1>7. TypeOK'
  BY <1>1, <1>2, <1>3, <1>4, <1>6, EmptySeq DEF TypeOK
<1>8. \A x \in DOMAIN objs :
        Elements(objs'[x].waiters) = IF x = s THEN Elements(objs[x].waiters) \cup {t} ELSE Elements(objs[x].waiters)
  BY <1>2, <1>5
<1>9. Linked'
  <2>1. \A x \in DOMAIN objs : objs'[x].kind = objs[x].kind /\ objs'[x].state = objs[x].state
    BY <1>2
  <2>2. \A x \in DOMAIN objs : \A u \in Elements(objs'[x].waiters) : u \in DOMAIN objs /\ objs'[u].kind = "task"
    <3>1. \A x \in DOMAIN objs : \A u \in Elements(objs[x].waiters) : u \in DOMAIN objs /\ objs[u].kind = "task"
      BY <1>1 DEF Linked, IsTask
    <3>2. objs[t].kind = "task"
      BY DEF Parking, IsTask
    <3> SUFFICES ASSUME NEW x \in DOMAIN objs, NEW u \in Elements(objs'[x].waiters)
                 PROVE  u \in DOMAIN objs /\ objs[u].kind = "task"
      BY <2>1
    <3>3. u \in Elements(objs[x].waiters) \/ u = t
      BY <1>8
    <3> QED
      BY <3>1, <3>2, <3>3
  <2>3. \A x \in DOMAIN objs : objs'[x].waitingOn \in DOMAIN objs \cup {0} /\ objs'[x].awaiting \in DOMAIN objs \cup {0}
    <3>1. \A x \in DOMAIN objs : objs[x].waitingOn \in DOMAIN objs \cup {0} /\ objs[x].awaiting \in DOMAIN objs \cup {0}
      BY <1>1 DEF Linked
    <3>2. a \in DOMAIN objs \cup {0}
      BY DEF Parking
    <3> QED
      BY <1>2, <3>1, <3>2
  <2>4. \A x \in DOMAIN objs : objs'[x].state # "pending" => objs'[x].waiters = << >> /\ objs'[x].callbacks = << >>
    <3>1. \A x \in DOMAIN objs : objs[x].state # "pending" => objs[x].waiters = << >> /\ objs[x].callbacks = << >> /\ x # s
      BY <1>1 DEF Linked, Pending, Parking
    <3> QED
      BY <1>2, <3>1
  <2>5. /\ \A e \in Elements(ready') : e.kind = "task" => e.who \in DOMAIN objs /\ objs'[e.who].kind = "task"
        /\ \A timer \in Elements(timers) :
             timer.future \in DOMAIN objs /\ objs'[timer.future].kind # "task"
        /\ \A timer \in Elements(timers) : timer.left > 0
        /\ \A u \in tasks : u \in DOMAIN objs /\ objs'[u].kind = "task"
    BY <1>1, <1>6, <2>1 DEF Linked, IsTask
  <2> QED
    BY <1>2, <1>3, <2>2, <2>3, <2>4, <2>5, NoElements DEF Linked, Pending, IsTask
<1>10. Kept'
  <2> SUFFICES ASSUME NEW u \in tasks, objs'[u].state = "pending"
               PROVE  /\ Queued(ready', u) \/ \E x \in DOMAIN objs : u \in Elements(objs'[x].waiters)
                      /\ objs'[u].cancelRequested => Leads(ready', u)
    BY <1>2, <1>3 DEF Kept, Pending
  <2>1. u \in DOMAIN objs /\ objs[u].state = "pending" /\ objs'[u].cancelRequested = objs[u].cancelRequested
    BY <1>1, <1>2 DEF Linked
  <2>2. /\ u = current \/ Queued(ready, u) \/ \E x \in DOMAIN objs : u \in Elements(objs[x].waiters)
        /\ objs[u].cancelRequested => Leads(ready, u)
    BY <1>1, <2>1 DEF Kept, Pending
  <2>3. CASE u = t
    BY <1>6, <1>8, <2>1, <2>2, <2>3
  <2>4. CASE u # t
    <3>1. u = current => FALSE
      BY <1>1, <1>4, <2>1, <2>4 DEF Parking, Linked
    <3>2. (\E x \in DOMAIN objs : u \in Elements(objs[x].waiters)) => \E x \in DOMAIN objs : u \in Elements(objs'[x].waiters)
      BY <1>8
    <3> QED
      BY <1>6, <2>1, <2>2, <2>4, <3>1, <3>2
  <2> QED
    BY <2>3, <2>4
<1>11. CallbacksOnce'
  <2>1. \A x \in DOMAIN objs : objs'[x].callbacks = objs[x].callbacks
    BY <1>2
  <2>2. /\ \A i, j \in DOMAIN ran : ran[i] = ran[j] => i = j
        /\ \A x \in DOMAIN objs :
             /\ \A c \in Elements(objs[x].callbacks) : c \notin Elements(ran) /\ CallbackEntry(c) \notin Elements(ready')
             /\ \A i, j \in DOMAIN objs[x].callbacks : objs[x].callbacks[i] = objs[x].callbacks[j] => i = j
    BY <1>1, <1>6 DEF CallbacksOnce
  <2>3. \A x, y \in DOMAIN objs : Elements(objs[x].callbacks) \cap Elements(objs[y].callbacks) # {} => x = y
    BY <1>1 DEF CallbacksOnce
  <2>4. \A d \in Elements(ready') : d.kind = "callback" => d.who \notin Elements(ran)
    BY <1>1, <1>6 DEF CallbacksOnce
  <2>5. DOMAIN objs' = DOMAIN objs /\ ran' = ran /\ Single(ready', "callback")
    BY <1>2, <1>3, <1>6
  <2> QED
    BY <2>1, <2>2, <2>3, <2>4, <2>5, Zenon DEF CallbacksOnce
<1>12. ASSUME TasksOnce
       PROVE  TasksOnce'
  <2>1. pc = "task" /\ ready' = ready /\ t = current
    BY <1>6, <1>12
  <2>2. \A x \in DOMAIN objs : \A u \in Elements(objs[x].waiters) : u \in DOMAIN objs /\ u # t /\ u # 0
    BY <1>1, <1>4, <1>12, <2>1 DEF Linked, TasksOnce
  <2>3. \A d \in Elements(ready) : d.kind = "task" => d.who \in DOMAIN objs /\ d.who # t /\ d.who # 0
    BY <1>1, <1>4, <1>12, <2>1 DEF Linked, TasksOnce
  <2>4. ASSUME NEW x \in DOMAIN objs
        PROVE  /\ \A i, j \in DOMAIN objs'[x].waiters : objs'[x].waiters[i] = objs'[x].waiters[j] => i = j
               /\ \A u \in Elements(objs'[x].waiters) :
                    /\ objs'[u].waitingOn = x /\ objs'[u].awaiting \in {0, x}
                    /\ u # 0
                    /\ \A d \in Elements(ready) : ~ (d.kind = "task" /\ d.who = u)
    <3>1. \A i, j \in DOMAIN objs'[x].waiters : objs'[x].waiters[i] = objs'[x].waiters[j] => i = j
      <4>1. \A i, j \in DOMAIN objs[x].waiters : objs[x].waiters[i] = objs[x].waiters[j] => i = j
        BY <1>12 DEF TasksOnce
      <4>2. CASE x = s
        BY <1>5, <4>1, <4>2
      <4>3. CASE x # s
        <5>1. objs'[x].waiters = objs[x].waiters
          BY <1>2, <4>3
        <5> QED
          BY <4>1, <5>1
      <4> QED
        BY <4>2, <4>3
    <3>2. ASSUME NEW u \in Elements(objs'[x].waiters)
          PROVE  /\ objs'[u].waitingOn = x /\ objs'[u].awaiting \in {0, x}
                 /\ u # 0
                 /\ \A d \in Elements(ready) : ~ (d.kind = "task" /\ d.who = u)
      <4>1. CASE u = t
        <5>1. x = s
          BY <1>8, <2>2, <4>1
        <5> QED
          BY <1>2, <1>4, <2>3, <4>1, <5>1 DEF Parking
      <4>2. CASE u # t
        <5>1. u \in Elements(objs[x].waiters) /\ u \in DOMAIN objs
          BY <1>8, <2>2, <4>2
        <5>2. objs[u].waitingOn = x /\ objs[u].awaiting \in {0, x}
              /\ \A d \in Elements(ready) : ~ (d.kind = "task" /\ d.who = u)
          BY <1>12, <5>1 DEF TasksOnce
        <5> QED
          BY <1>2, <2>2, <4>2, <5>1, <5>2
      <4> QED
        BY <4>1, <4>2
    <3> QED
      BY <3>1, <3>2
  <2>5. \A d \in Elements(ready) : d.kind = "task" =>
          d.wake = "cancelled" \/ objs'[d.who].awaiting = 0 \/ objs'[objs'[d.who].awaiting].state # "pending"
    <3>1. \A d \in Elements(ready) : d.kind = "task" =>
            /\ objs[d.who].awaiting \in DOMAIN objs \cup {0}
            /\ d.wake = "cancelled" \/ objs[d.who].awaiting = 0 \/ objs[objs[d.who].awaiting].state # "pending"
      BY <1>1, <1>12, <2>3 DEF Linked, TasksOnce, Pending
    <3> QED
      BY <1>2, <2>3, <3>1
  <2>6. Single(ready, "task")
    BY <1>12 DEF TasksOnce
  <2> QED
    BY <1>2, <1>3, <2>1, <2>3, <2>4, <2>5, <2>6 DEF TasksOnce, Pending
<1> QED
  BY <1>1, <1>3, <1>7, <1>9, <1>10, <1>11, <1>12 DEF LoopInv

Foremost(t, wake) == Head(ready).who = t /\ Head(ready).wake = wake

LEMMA StepKeeps ==
  ASSUME LoopInv, StepTask, NEW t, NEW wake, Foremost(t, wake)
  PROVE  LoopInv'
<1>1. TypeOK /\ Linked /\ Kept /\ CallbacksOnce /\ (CancelsItself \/ TasksOnce) /\ program \in Programs
  BY DEF LoopInv
<1>2. /\ ready # << >> /\ Head(ready).kind = "task" /\ Pending(t)
      /\ objs' = Stepped(t, wake)
      /\ current' = t /\ pc' = "task" /\ ready' = Tail(ready)
      /\ pc = "mature" /\ maturing = << >>
      /\ program' = program /\ timers' = timers /\ maturing' = maturing /\ tasks' = tasks
      /\ main' = main /\ cancelled' = cancelled /\ ran' = ran
  BY DEF StepTask, Taking, Stepped, Foremost
<1>3. /\ ready \in Seq(ReadyEntry) /\ 0 \notin DOMAIN objs /\ current = 0
      /\ DOMAIN objs \subseteq Ids
  <2>1. DOMAIN objs = 1 .. Len(objs) /\ Len(objs) \in Nat /\ Len(objs) <= MaxObjects /\ MaxObjects \in Nat
    BY <1>1, ObjectTypes, EventLoopAssumption DEF TypeOK
  <2>2. DOMAIN objs \subseteq Ids /\ 0 \notin DOMAIN objs
    BY <2>1 DEF Ids
  <2> QED
    BY <1>1, <1>2, <2>2 DEF TypeOK, Linked
<1>4. /\ Tail(ready) \in Seq(ReadyEntry)
      /\ Elements(ready) = {Head(ready)} \cup Elements(Tail(ready))
      /\ \A kind : Single(ready, kind) =>
           /\ Single(Tail(ready), kind)
           /\ \A d \in Elements(Tail(ready)) :
                ~ (d.kind = kind /\ Head(ready).kind = kind /\ d.who = Head(ready).who)
      /\ \A u : Leads(ready, u) =>
           IF Head(ready).kind = "task" /\ Head(ready).who = u THEN Head(ready).wake = "cancelled"
                                                             ELSE Leads(Tail(ready), u)
  BY <1>2, <1>3, Taken
<1>5. t \in DOMAIN objs /\ IsTask(t)
  BY <1>1, <1>2, <1>4 DEF Linked, Foremost
<1>6. /\ objs' \in Seq(AsyncObject) /\ Len(objs') = Len(objs) /\ DOMAIN objs' = DOMAIN objs
      /\ \A x \in DOMAIN objs :
           /\ objs'[x].kind = objs[x].kind /\ objs'[x].state = objs[x].state
           /\ objs'[x].callbacks = objs[x].callbacks
           /\ objs'[x].waiters = objs[x].waiters
           /\ x # t => /\ objs'[x].waitingOn = objs[x].waitingOn /\ objs'[x].awaiting = objs[x].awaiting
                       /\ objs'[x].cancelRequested = objs[x].cancelRequested
      /\ objs'[t].waitingOn = 0 /\ objs'[t].awaiting = 0
      /\ wake = "cancelled" => ~ objs'[t].cancelRequested
      /\ wake # "cancelled" => objs'[t].cancelRequested = objs[t].cancelRequested
  <2>1. TypeOK /\ t \in DOMAIN objs /\ objs' = Stepped(t, wake)
    BY <1>1, <1>2, <1>5
  <2> QED
    BY <2>1, Stepping
<1>7. AsyncObject' = AsyncObject /\ ReadyEntry' = ReadyEntry /\ (CancelsItself' <=> CancelsItself)
  BY <1>2, SameTypes
<1>8. /\ ready' \in Seq(ReadyEntry)
      /\ \A d \in Elements(ready') : d \in Elements(ready)
      /\ \A u : u # t /\ Queued(ready, u) => Queued(ready', u)
      /\ \A u : u # t /\ Leads(ready, u) => Leads(ready', u)
      /\ Leads(ready, t) => wake = "cancelled"
      /\ Head(ready) \in Elements(ready)
  BY <1>2, <1>4 DEF Queued, Foremost
<1>9. TypeOK'
  BY <1>1, <1>2, <1>3, <1>5, <1>6, <1>7, <1>8 DEF TypeOK
<1>10. Linked'
  <2>1. \A x \in DOMAIN objs :
          /\ \A u \in Elements(objs'[x].waiters) : u \in DOMAIN objs /\ objs[u].kind = "task"
          /\ objs'[x].waitingOn \in DOMAIN objs \cup {0} /\ objs'[x].awaiting \in DOMAIN objs \cup {0}
          /\ objs'[x].state # "pending" => objs'[x].waiters = << >> /\ objs'[x].callbacks = << >>
    BY <1>1, <1>6, SMTT(30) DEF Linked, IsTask, Pending
  <2>2. /\ \A e \in Elements(ready') : e.kind = "task" => e.who \in DOMAIN objs /\ objs[e.who].kind = "task"
        /\ \A timer \in Elements(timers) \cup Elements(maturing) :
             timer.future \in DOMAIN objs /\ objs[timer.future].kind # "task"
        /\ \A timer \in Elements(timers) : timer.left > 0
        /\ \A u \in tasks : u \in DOMAIN objs /\ objs[u].kind = "task"
    BY <1>1, <1>8 DEF Linked, IsTask
  <2>3. \A x \in DOMAIN objs : objs'[x].kind = objs[x].kind
    BY <1>6
  <2>4. \A x \in DOMAIN objs : \A u \in Elements(objs'[x].waiters) : u \in DOMAIN objs /\ objs'[u].kind = "task"
    BY <2>1, <2>3
  <2>5. /\ \A e \in Elements(ready') : e.kind = "task" => e.who \in DOMAIN objs /\ objs'[e.who].kind = "task"
        /\ \A timer \in Elements(timers) \cup Elements(maturing) :
             timer.future \in DOMAIN objs /\ objs'[timer.future].kind # "task"
        /\ \A u \in tasks : u \in DOMAIN objs /\ objs'[u].kind = "task"
    BY <2>2, <2>3
  <2>6. t \in DOMAIN objs /\ objs'[t].kind = "task" /\ objs'[t].state = "pending"
    BY <1>2, <1>5, <1>6 DEF IsTask, Pending
  <2>7. current' = t /\ pc' = "task" /\ maturing' = << >> /\ timers' = timers /\ maturing' = maturing
        /\ tasks' = tasks /\ DOMAIN objs' = DOMAIN objs
    BY <1>2, <1>6
  <2> QED
    BY <2>1, <2>2, <2>4, <2>5, <2>6, <2>7 DEF Linked, Pending, IsTask
<1>11. Kept'
  <2> SUFFICES ASSUME NEW u \in tasks, objs'[u].state = "pending"
               PROVE  /\ u = t \/ Queued(ready', u) \/ \E x \in DOMAIN objs' : u \in Elements(objs'[x].waiters)
                      /\ objs'[u].cancelRequested => Leads(ready', u)
    BY <1>2 DEF Kept, Pending
  <2>1. u \in DOMAIN objs /\ objs[u].state = "pending" /\ u # current
    BY <1>1, <1>3, <1>6 DEF Linked
  <2>2. /\ Queued(ready, u) \/ \E x \in DOMAIN objs : u \in Elements(objs[x].waiters)
        /\ objs[u].cancelRequested => Leads(ready, u)
    BY <1>1, <2>1 DEF Kept, Pending
  <2>3. CASE u = t
    BY <1>6, <1>8, <2>2, <2>3
  <2>4. CASE u # t
    BY <1>6, <1>8, <2>1, <2>2, <2>4
  <2> QED
    BY <2>3, <2>4
<1>12. CallbacksOnce'
  <2>1. \A x \in DOMAIN objs : objs'[x].callbacks = objs[x].callbacks
    BY <1>6
  <2>2. /\ \A i, j \in DOMAIN ran : ran[i] = ran[j] => i = j
        /\ \A x \in DOMAIN objs :
             /\ \A c \in Elements(objs[x].callbacks) : c \notin Elements(ran) /\ CallbackEntry(c) \notin Elements(ready')
             /\ \A i, j \in DOMAIN objs[x].callbacks : objs[x].callbacks[i] = objs[x].callbacks[j] => i = j
    BY <1>1, <1>8 DEF CallbacksOnce
  <2>3. \A x, y \in DOMAIN objs : Elements(objs[x].callbacks) \cap Elements(objs[y].callbacks) # {} => x = y
    BY <1>1 DEF CallbacksOnce
  <2>4. \A d \in Elements(ready') : d.kind = "callback" => d.who \notin Elements(ran)
    BY <1>1, <1>8 DEF CallbacksOnce
  <2>5. Single(ready', "callback")
    BY <1>1, <1>2, <1>4 DEF CallbacksOnce
  <2>6. DOMAIN objs' = DOMAIN objs /\ ran' = ran
    BY <1>2, <1>6
  <2> QED
    BY <2>1, <2>2, <2>3, <2>4, <2>5, <2>6, Zenon DEF CallbacksOnce
<1>13. ASSUME TasksOnce
       PROVE  TasksOnce'
  <2>1. Single(ready, "task")
    BY <1>13 DEF TasksOnce
  <2>2. /\ Single(ready', "task")
        /\ \A d \in Elements(ready') : d.kind = "task" => d.who # t
    BY <1>2, <1>4, <2>1 DEF Foremost
  <2>3. ASSUME NEW x \in DOMAIN objs
        PROVE  /\ \A i, j \in DOMAIN objs'[x].waiters : objs'[x].waiters[i] = objs'[x].waiters[j] => i = j
               /\ \A u \in Elements(objs'[x].waiters) :
                    /\ objs'[u].waitingOn = x /\ objs'[u].awaiting \in {0, x}
                    /\ u # t
                    /\ \A d \in Elements(ready') : ~ (d.kind = "task" /\ d.who = u)
    <3>1. objs'[x].waiters = objs[x].waiters
      BY <1>6
    <3>2. \A u \in Elements(objs[x].waiters) : u \in DOMAIN objs /\ u # t
      BY <1>1, <1>2, <1>8, <1>13 DEF Linked, TasksOnce, Foremost
    <3>3. \A u \in Elements(objs[x].waiters) :
            /\ objs'[u].waitingOn = objs[u].waitingOn /\ objs'[u].awaiting = objs[u].awaiting
      BY <1>6, <3>2
    <3> QED
      BY <1>8, <1>13, <3>1, <3>2, <3>3 DEF TasksOnce
  <2>4. \A d \in Elements(ready') : d.kind = "task" =>
          d.wake = "cancelled" \/ objs'[d.who].awaiting = 0 \/ objs'[objs'[d.who].awaiting].state # "pending"
    <3>1. \A d \in Elements(ready') : d.kind = "task" =>
            /\ d.who \in DOMAIN objs /\ objs[d.who].awaiting \in DOMAIN objs \cup {0}
            /\ d.wake = "cancelled" \/ objs[d.who].awaiting = 0 \/ objs[objs[d.who].awaiting].state # "pending"
      BY <1>1, <1>8, <1>13 DEF Linked, TasksOnce, Pending
    <3> QED
      BY <1>6, <2>2, <3>1
  <2>5. DOMAIN objs' = DOMAIN objs /\ current' = t /\ objs'[t].awaiting = 0
    BY <1>2, <1>6
  <2>6. \A d \in Elements(ready') : d.kind = "task" =>
          /\ d.who # current'
          /\ d.wake = "cancelled" \/ objs'[d.who].awaiting = 0 \/ objs'[objs'[d.who].awaiting].state # "pending"
    BY <2>2, <2>4, <2>5
  <2>7. ASSUME NEW x \in DOMAIN objs'
        PROVE  /\ \A i, j \in DOMAIN objs'[x].waiters : objs'[x].waiters[i] = objs'[x].waiters[j] => i = j
               /\ \A u \in Elements(objs'[x].waiters) :
                    /\ objs'[u].waitingOn = x /\ objs'[u].awaiting \in {0, x}
                    /\ u # current'
                    /\ \A d \in Elements(ready') : ~ (d.kind = "task" /\ d.who = u)
    BY <2>3, <2>5
  <2> QED
    BY <2>2, <2>5, <2>6, <2>7 DEF TasksOnce, Pending
<1> QED
  BY <1>1, <1>2, <1>7, <1>9, <1>10, <1>11, <1>12, <1>13 DEF LoopInv

\* RunCallback and SkipDoneTask.
Dropping ==
  /\ ready # << >>
  /\ pc = "mature" /\ maturing = << >>
  /\ ready' = Tail(ready)
  /\ \/ Head(ready).kind = "callback" /\ ran' = Append(ran, Head(ready).who) /\ pc' = "callback"
     \/ Head(ready).kind = "task" /\ ~ Pending(Head(ready).who) /\ ran' = ran /\ pc' = "top"
  /\ UNCHANGED <<program, objs, timers, maturing, tasks, main, current, cancelled>>

LEMMA DroppingKeeps ==
  ASSUME LoopInv, Dropping
  PROVE  LoopInv'
<1> DEFINE h == Head(ready)
<1>1. TypeOK /\ Linked /\ Kept /\ CallbacksOnce /\ (CancelsItself \/ TasksOnce) /\ program \in Programs
  BY DEF LoopInv
<1>2. /\ objs' = objs /\ timers' = timers /\ maturing' = maturing /\ tasks' = tasks /\ current' = current
      /\ AsyncObject' = AsyncObject /\ ReadyEntry' = ReadyEntry /\ (CancelsItself' <=> CancelsItself)
      /\ program' = program /\ main' = main /\ cancelled' = cancelled
      /\ pc' \in {"top", "callback"} /\ current = 0 /\ maturing = << >>
  BY <1>1, SameTypes DEF Dropping, Linked
<1>3. ready \in Seq(ReadyEntry) /\ ran \in Seq(program.callbacks)
  BY <1>1 DEF TypeOK
<1>4. /\ h \in ReadyEntry
      /\ Tail(ready) \in Seq(ReadyEntry)
      /\ Elements(ready) = {h} \cup Elements(Tail(ready))
      /\ \A kind : Single(ready, kind) =>
           /\ Single(Tail(ready), kind)
           /\ \A d \in Elements(Tail(ready)) :
                ~ (d.kind = kind /\ h.kind = kind /\ d.who = h.who)
      /\ \A u : Leads(ready, u) =>
           IF h.kind = "task" /\ h.who = u THEN h.wake = "cancelled"
                                         ELSE Leads(Tail(ready), u)
  BY <1>3, Taken DEF Dropping
<1> HIDE DEF h
<1>5. /\ ready' \in Seq(ReadyEntry)
      /\ \A d \in Elements(ready') : d \in Elements(ready)
      /\ \A u : ~ (h.kind = "task" /\ h.who = u) /\ Queued(ready, u) => Queued(ready', u)
      /\ \A u : ~ (h.kind = "task" /\ h.who = u) /\ Leads(ready, u) => Leads(ready', u)
      /\ h \in Elements(ready)
      /\ \A kind : Single(ready, kind) =>
           /\ Single(ready', kind)
           /\ \A d \in Elements(ready') : ~ (d.kind = kind /\ h.kind = kind /\ d.who = h.who)
  <2>1. ready' = Tail(ready)
    BY DEF Dropping
  <2> QED
    BY <1>4, <2>1 DEF Queued
<1>6. \/ h.kind = "callback" /\ ran' = Append(ran, h.who) /\ h = CallbackEntry(h.who) /\ h.who \in program.callbacks
      \/ h.kind = "task" /\ ~ Pending(h.who) /\ ran' = ran
  BY <1>4, Entries DEF Dropping, h
<1>7. /\ ran' \in Seq(program.callbacks)
      /\ Elements(ran') = IF h.kind = "callback" THEN Elements(ran) \cup {h.who} ELSE Elements(ran)
      /\ \A i, j \in DOMAIN ran' : ran'[i] = ran'[j] => i = j
  <2>1. \A i, j \in DOMAIN ran : ran[i] = ran[j] => i = j
    BY <1>1 DEF CallbacksOnce
  <2>2. CASE h.kind = "callback"
    <3>1. h.who \in program.callbacks /\ ran' = Append(ran, h.who) /\ h.who \notin Elements(ran)
      BY <1>1, <1>5, <1>6, <2>2 DEF CallbacksOnce
    <3>2. Append(ran, h.who) \in Seq(program.callbacks) /\ Elements(Append(ran, h.who)) = Elements(ran) \cup {h.who}
      BY <1>3, <3>1, AppendedElements, ZenonT(30)
    <3>3. \A i, j \in DOMAIN Append(ran, h.who) : Append(ran, h.who)[i] = Append(ran, h.who)[j] => i = j
      BY <1>3, <2>1, <3>1, AppendedDistinct
    <3> QED
      BY <2>2, <3>1, <3>2, <3>3
  <2>3. CASE h.kind # "callback"
    BY <1>3, <1>6, <2>1, <2>3
  <2> QED
    BY <2>2, <2>3
<1>8. TypeOK'
  BY <1>1, <1>2, <1>5, <1>7 DEF TypeOK
<1>9. Linked'
  BY <1>1, <1>2, <1>5 DEF Linked, Pending, IsTask
<1>10. Kept'
  <2> SUFFICES ASSUME NEW u \in tasks, Pending(u)
               PROVE  /\ u = current \/ Queued(ready', u) \/ \E x \in DOMAIN objs : u \in Elements(objs[x].waiters)
                      /\ objs[u].cancelRequested => Leads(ready', u)
    BY <1>2 DEF Kept, Pending
  <2> QED
    BY <1>1, <1>5, <1>6 DEF Kept
<1>11. CallbacksOnce'
  <2>1. \A d \in Elements(ready') : d.kind = "callback" => d.who \notin Elements(ran')
    BY <1>1, <1>5, <1>7 DEF CallbacksOnce
  <2>2. \A x \in DOMAIN objs : \A c \in Elements(objs[x].callbacks) : c \notin Elements(ran') /\ CallbackEntry(c) \notin Elements(ready')
    BY <1>1, <1>5, <1>6, <1>7 DEF CallbacksOnce
  <2> QED
    BY <1>1, <1>2, <1>5, <1>7, <2>1, <2>2, ZenonT(30) DEF CallbacksOnce
<1>12. ASSUME TasksOnce
       PROVE  TasksOnce'
  BY <1>2, <1>5, <1>12 DEF TasksOnce, Pending
<1> QED
  BY <1>1, <1>2, <1>8, <1>9, <1>10, <1>11, <1>12 DEF LoopInv

\* Tick, Jump, EndJump and EndCallback.
Idling ==
  /\ timers' \in Seq(Timer) /\ maturing' \in Seq(Timer)
  /\ \A e \in Elements(timers') \cup Elements(maturing') :
       \E timer \in Elements(timers) \cup Elements(maturing) : e.future = timer.future
  /\ \A timer \in Elements(timers') : timer.left > 0
  /\ pc \notin {"task", "outside"} /\ pc' \in {"top", "mature", "jumped"}
  /\ maturing' # << >> => pc' \in {"mature", "jumped"}
  /\ current' \in {current, 0}
  /\ UNCHANGED <<program, objs, ready, tasks, main, cancelled, ran>>

LEMMA IdlingKeeps ==
  ASSUME LoopInv, Idling
  PROVE  LoopInv'
<1>1. TypeOK /\ Linked /\ Kept /\ CallbacksOnce /\ (CancelsItself \/ TasksOnce) /\ program \in Programs
  BY DEF LoopInv
<1>2. /\ objs' = objs /\ ready' = ready /\ tasks' = tasks /\ ran' = ran /\ current' = current /\ current = 0
      /\ AsyncObject' = AsyncObject /\ ReadyEntry' = ReadyEntry /\ (CancelsItself' <=> CancelsItself)
      /\ program' = program /\ main' = main /\ cancelled' = cancelled
      /\ pc' \notin {"task", "outside"}
  BY <1>1, SameTypes DEF Idling, Linked
<1>3. TypeOK'
  BY <1>1, <1>2 DEF TypeOK, Idling
<1>4. Linked'
  <2>1. \A timer \in Elements(timers') \cup Elements(maturing') : timer.future \in DOMAIN objs /\ ~ IsTask(timer.future)
    BY <1>1 DEF Idling, Linked
  <2> QED
    BY <1>1, <1>2, <2>1 DEF Linked, Pending, IsTask, Idling
<1>5. Kept'
  BY <1>1, <1>2 DEF Kept, Pending
<1>6. CallbacksOnce'
  BY <1>1, <1>2 DEF CallbacksOnce
<1>7. TasksOnce => TasksOnce'
  BY <1>2 DEF TasksOnce, Pending
<1> QED
  BY <1>1, <1>2, <1>3, <1>4, <1>5, <1>6, <1>7 DEF LoopInv

\* FinishRun and StopStarved.
Abandoning ==
  /\ pc \in {"top", "mature"} /\ maturing = << >>
  /\ Detached
  /\ UNCHANGED <<program, objs, maturing, current, cancelled, ran>>

LEMMA AbandoningKeeps ==
  ASSUME LoopInv, Abandoning
  PROVE  LoopInv'
<1>1. TypeOK /\ Linked /\ Kept /\ CallbacksOnce /\ (CancelsItself \/ TasksOnce) /\ program \in Programs
  BY DEF LoopInv
<1>2. /\ objs' = objs /\ ready' = << >> /\ timers' = << >> /\ tasks' = {} /\ ran' = ran
      /\ current' = current /\ current = 0 /\ pc' = "outside" /\ main' = 0 /\ maturing' = << >>
      /\ AsyncObject' = AsyncObject /\ ReadyEntry' = ReadyEntry /\ (CancelsItself' <=> CancelsItself)
      /\ program' = program /\ cancelled' = cancelled
  BY <1>1, SameTypes DEF Abandoning, Detached, Linked
<1>3. /\ << >> \in Seq(ReadyEntry) /\ << >> \in Seq(Timer) /\ Elements(<< >>) = {}
      /\ Single(<< >>, "callback") /\ Single(<< >>, "task")
  BY EmptySeq, NoElements DEF Single
<1>4. TypeOK'
  BY <1>1, <1>2, <1>3 DEF TypeOK
<1>5. Linked'
  BY <1>1, <1>2, <1>3 DEF Linked, Pending, IsTask
<1>6. Kept'
  BY <1>2 DEF Kept
<1>7. CallbacksOnce'
  BY <1>1, <1>2, <1>3, SMTT(30) DEF CallbacksOnce
<1>8. TasksOnce => TasksOnce'
  BY <1>2, <1>3 DEF TasksOnce, Pending
<1> QED
  BY <1>1, <1>2, <1>4, <1>5, <1>6, <1>7, <1>8 DEF LoopInv

\* What a step of the loop or of guest code is.
Shaped ==
  \/ \E kind \in {"future", "task"} : Making(kind)
  \/ \E s \in DOMAIN objs, o \in Terminal : Finishing(s, o)
  \/ \E t \in DOMAIN objs : TaskCancel(t)
  \/ \E s \in DOMAIN objs, c \in program.callbacks : AddDoneCallback(s, c) /\ Pending(s)
  \/ \E e \in ReadyEntry : Queueing(e)
  \/ \E t \in DOMAIN objs, s \in DOMAIN objs, a \in DOMAIN objs \cup {0} : Parking(t, s, a)
  \/ StepTask
  \/ Dropping
  \/ Idling
  \/ Abandoning

LEMMA ShapedKeeps ==
  ASSUME LoopInv, Shaped
  PROVE  LoopInv'
<1>1. ASSUME StepTask
      PROVE  LoopInv'
  <2>1. Foremost(Head(ready).who, Head(ready).wake)
    BY DEF Foremost
  <2> QED
    BY <1>1, <2>1, StepKeeps
<1> QED
  BY <1>1, MakingKeeps, FinishingKeeps, CancelKeeps, WatchingKeeps, QueueingKeeps, ParkingKeeps, DroppingKeeps,
     IdlingKeeps, AbandoningKeeps DEF Shaped

LEMMA Elapsing ==
  ASSUME timers \in Seq(Timer), NEW n \in Nat, \A timer \in Elements(timers) : n <= timer.left, Elapse(n)
  PROVE  /\ timers' = << >>
         /\ maturing' \in Seq(Timer)
         /\ \A e \in Elements(maturing') : \E timer \in Elements(timers) : e.future = timer.future
<1>1. DOMAIN timers = 1 .. Len(timers) /\ Len(timers) \in Nat
      /\ \A i \in DOMAIN timers : timers[i] \in Timer /\ timers[i] \in Elements(timers)
  BY ElementsOf
<1>2. maturing' = [i \in DOMAIN timers |-> [timers[i] EXCEPT !.left = timers[i].left - n]] /\ timers' = << >>
  BY <1>1 DEF Elapse, Timer
<1>3. \A i \in DOMAIN timers : /\ [timers[i] EXCEPT !.left = timers[i].left - n] \in Timer
                              /\ [timers[i] EXCEPT !.left = timers[i].left - n].future = timers[i].future
  <2> SUFFICES ASSUME NEW i \in DOMAIN timers
               PROVE  /\ [timers[i] EXCEPT !.left = timers[i].left - n] \in Timer
                      /\ [timers[i] EXCEPT !.left = timers[i].left - n].future = timers[i].future
    OBVIOUS
  <2>1. timers[i] \in Timer /\ n <= timers[i].left
    BY <1>1
  <2>2. timers[i].left - n \in Nat
    BY <2>1 DEF Timer
  <2> QED
    BY <2>1, <2>2 DEF Timer
<1> DEFINE r == [i \in 1 .. Len(timers) |-> [timers[i] EXCEPT !.left = timers[i].left - n]]
<1>4. r \in Seq(Timer)
  BY <1>1, <1>3, IsASeq
<1>5. maturing' = r
  BY <1>1, <1>2
<1>6. \A e \in Elements(r) : \E timer \in Elements(timers) : e.future = timer.future
  <2> SUFFICES ASSUME NEW e \in Elements(r)
               PROVE  \E timer \in Elements(timers) : e.future = timer.future
    OBVIOUS
  <2>1. PICK i \in 1 .. Len(timers) : e = r[i]
    BY DEF Elements
  <2>2. e.future = timers[i].future /\ timers[i] \in Elements(timers)
    BY <1>1, <1>3, <2>1
  <2> QED
    BY <2>2
<1> QED
  BY <1>2, <1>4, <1>5, <1>6

LEMMA MatureShaped ==
  ASSUME LoopInv, MatureTimer
  PROVE  Shaped
<1>1. TypeOK /\ Linked
  BY DEF LoopInv
<1>2. /\ maturing \in Seq(Timer) /\ timers \in Seq(Timer)
      /\ maturing # << >> /\ maturing' = Tail(maturing)
      /\ pc \in {"mature", "jumped"}
  BY <1>1 DEF TypeOK, Linked, MatureTimer
<1>3. PICK timer : timer = Head(maturing)
  OBVIOUS
<1>4. timer \in Timer /\ timer \in Elements(maturing)
      /\ Tail(maturing) \in Seq(Timer) /\ Elements(Tail(maturing)) \subseteq Elements(maturing)
  BY <1>2, <1>3, Popped
<1>5. timer.future \in DOMAIN objs /\ ~ IsTask(timer.future)
  BY <1>1, <1>4 DEF Linked
<1>6. \/ UNCHANGED <<objs, ready, timers>>
      \/ Pending(timer.future) /\ CompleteAsyncSource(timer.future, timer.result) /\ UNCHANGED timers
      \/ timer.left > 0 /\ timers' = Append(timers, timer) /\ UNCHANGED <<objs, ready>>
  BY <1>3 DEF MatureTimer
<1>7. UNCHANGED <<program, tasks, main, current, pc, cancelled, ran>>
  BY DEF MatureTimer
<1>8. CASE Pending(timer.future) /\ CompleteAsyncSource(timer.future, timer.result) /\ UNCHANGED timers
  <2>1. timer.result \in Terminal
    BY <1>4 DEF Timer, Terminal
  <2>2. Finishing(timer.future, timer.result)
    BY <1>2, <1>5, <1>7, <1>8 DEF Finishing
  <2> QED
    BY <1>5, <2>1, <2>2 DEF Shaped
<1>9. CASE UNCHANGED <<objs, ready, timers>>
  <2>1. Idling
    BY <1>1, <1>2, <1>4, <1>7, <1>9 DEF Idling, Linked
  <2> QED
    BY <2>1 DEF Shaped
<1>10. CASE timer.left > 0 /\ timers' = Append(timers, timer) /\ UNCHANGED <<objs, ready>>
  <2>1. timers' \in Seq(Timer) /\ Elements(timers') = Elements(timers) \cup {timer}
    BY <1>2, <1>4, <1>10, AppendedElements
  <2>2. Idling
    BY <1>1, <1>2, <1>4, <1>7, <1>10, <2>1 DEF Idling, Linked
  <2> QED
    BY <2>2 DEF Shaped
<1> QED
  BY <1>6, <1>8, <1>9, <1>10

LEMMA GuestShaped ==
  ASSUME LoopInv, GuestOperation
  PROVE  Shaped
<1>1. TypeOK /\ Linked /\ program \in Programs
  BY DEF LoopInv
<1>2. CASE FutureNew
  <2>1. Making("future")
    BY <1>1, <1>2 DEF FutureNew, Making, TypeOK, Linked
  <2> QED
    BY <2>1 DEF Shaped
<1>3. ASSUME NEW delay \in 1 .. program.delay, NEW result \in program.outcomes \cap {"none", "value"}, Sleep(delay, result)
      PROVE  Shaped
  <2> DEFINE n == Len(objs) + 1
             e == [future |-> n, left |-> delay, result |-> result]
  <2>1. n \in Ids
    <3>1. Len(objs) < program.objects /\ program.objects \in 1 .. MaxObjects /\ MaxObjects \in Nat
      BY <1>1, <1>3, EventLoopAssumption DEF Sleep, Program
    <3>2. Len(objs) \in Nat
      BY <1>1, ObjectTypes
    <3> QED
      BY <3>1, <3>2 DEF Ids
  <2>2. delay \in Nat /\ delay > 0
    <3>1. program.delay \in Nat
      BY <1>1, EventLoopAssumption DEF Program
    <3> QED
      BY <3>1
  <2>3. e \in Timer /\ e.future = n /\ e.left > 0
    BY <2>1, <2>2 DEF Timer
  <2>4. timers \in Seq(Timer) /\ timers' = Append(timers, e)
    BY <1>1, <1>3 DEF TypeOK, Sleep
  <2> HIDE DEF e
  <2>5. timers' \in Seq(Timer) /\ Elements(timers') = Elements(timers) \cup {e}
    BY <2>3, <2>4, AppendedElements
  <2>6. Making("future")
    BY <1>1, <1>3, <2>3, <2>5 DEF Sleep, Making, TypeOK, Linked
  <2> QED
    BY <2>6 DEF Shaped
<1>4. CASE CreateTask
  <2> DEFINE e == TaskEntry(Len(objs) + 1, "none")
  <2>1. Len(objs) + 1 \in Ids
    <3>1. Len(objs) < program.objects /\ program.objects \in 1 .. MaxObjects /\ MaxObjects \in Nat
      BY <1>1, <1>4, EventLoopAssumption DEF CreateTask, Program
    <3>2. Len(objs) \in Nat
      BY <1>1, ObjectTypes
    <3> QED
      BY <3>1, <3>2 DEF Ids
  <2>2. e \in ReadyEntry
    BY <2>1, TaskEntries DEF Terminal
  <2>3. ready' = Append(ready, e) /\ ready \in Seq(ReadyEntry)
    BY <1>1, <1>4 DEF CreateTask, TypeOK
  <2> HIDE DEF e
  <2>4. Append(ready, e) = ready \o <<e>>
    BY <2>2, <2>3, AppendIsConcat
  <2>5. Making("task")
    BY <1>1, <1>4, <2>3, <2>4 DEF CreateTask, Making, TypeOK, Linked, e
  <2> QED
    BY <2>5 DEF Shaped
<1>5. ASSUME NEW f \in DOMAIN objs, NEW outcome \in program.outcomes, CompleteFuture(f, outcome)
      PROVE  Shaped
  <2>1. outcome \in Terminal
    BY <1>1, EventLoopAssumption DEF Program
  <2>2. Finishing(f, outcome)
    BY <1>5 DEF CompleteFuture, Finishing, IsTask
  <2> QED
    BY <2>1, <2>2 DEF Shaped
<1>6. ASSUME NEW f \in DOMAIN objs, FutureCancel(f)
      PROVE  Shaped
  <2>1. "cancelled" \in Terminal
    BY DEF Terminal
  <2>2. Finishing(f, "cancelled")
    BY <1>6 DEF FutureCancel, Finishing, IsTask
  <2> QED
    BY <2>1, <2>2 DEF Shaped
<1>7. ASSUME NEW t \in DOMAIN objs, TaskCancel(t)
      PROVE  Shaped
  BY <1>7 DEF Shaped
<1>8. ASSUME NEW s \in DOMAIN objs, NEW c \in program.callbacks, AddDoneCallback(s, c)
      PROVE  Shaped
  <2>1. CASE Pending(s)
    BY <1>8, <2>1 DEF Shaped
  <2>2. CASE ~ Pending(s)
    <3>1. CallbackEntry(c) \in ReadyEntry /\ CallbackEntry(c).kind = "callback" /\ CallbackEntry(c).who = c
      BY CallbackEntries
    <3>2. Queueing(CallbackEntry(c))
      BY <1>8, <2>2, <3>1 DEF AddDoneCallback, Queueing
    <3> QED
      BY <3>1, <3>2 DEF Shaped
  <2> QED
    BY <2>1, <2>2
<1> QED
  BY <1>2, <1>3, <1>4, <1>5, <1>6, <1>7, <1>8 DEF GuestOperation

LEMMA EndShaped ==
  ASSUME LoopInv, EndOfStep
  PROVE  Shaped
<1>1. TypeOK /\ Linked /\ program \in Programs
  BY DEF LoopInv
<1>2. pc = "task" => /\ current \in DOMAIN objs /\ current \in Ids
                     /\ IsTask(current) /\ Pending(current) /\ maturing = << >>
  <2>1. DOMAIN objs = 1 .. Len(objs) /\ Len(objs) \in Nat /\ Len(objs) <= MaxObjects /\ MaxObjects \in Nat
    BY <1>1, ObjectTypes, EventLoopAssumption DEF TypeOK
  <2>2. DOMAIN objs \subseteq Ids
    BY <2>1 DEF Ids
  <2> QED
    BY <1>1, <2>2 DEF Linked
<1>3. ASSUME NEW wake \in Terminal, pc = "task", ready' = Append(ready, TaskEntry(current, wake)), Leave,
             UNCHANGED <<program, objs, timers, maturing, tasks, main, cancelled, ran>>
      PROVE  Shaped
  <2>1. TaskEntry(current, wake) \in ReadyEntry /\ TaskEntry(current, wake).kind = "task" /\ TaskEntry(current, wake).who = current
    BY <1>2, <1>3, TaskEntries
  <2>2. Queueing(TaskEntry(current, wake))
    BY <1>3, <2>1 DEF Queueing
  <2> QED
    BY <2>1, <2>2 DEF Shaped
<1>4. ASSUME NEW s \in DOMAIN objs, NEW a \in {0, s}, pc = "task", Pending(s), objs' = Waiting(current, s, a), Leave,
             UNCHANGED <<program, ready, timers, maturing, tasks, main, cancelled, ran>>
      PROVE  Shaped
  <2>1. Parking(current, s, a)
    BY <1>2, <1>4 DEF Parking, Leave
  <2> QED
    BY <1>2, <1>4, <2>1 DEF Shaped
<1>5. CASE YieldNone
  BY <1>3, <1>5 DEF YieldNone, Terminal
<1>6. ASSUME NEW s \in DOMAIN objs, Await(s)
      PROVE  Shaped
  BY <1>4, <1>6 DEF Await
<1>7. ASSUME NEW s \in DOMAIN objs, YieldSource(s)
      PROVE  Shaped
  <2>1. CASE Pending(s)
    BY <1>4, <1>7, <2>1 DEF YieldSource
  <2>2. CASE ~ Pending(s)
    <3>1. objs[s].state \in Terminal
      BY <1>1, <2>2, ObjectTypes DEF Pending
    <3> QED
      BY <1>3, <1>7, <2>2, <3>1 DEF YieldSource
  <2> QED
    BY <2>1, <2>2
<1>8. ASSUME NEW outcome \in program.outcomes, EndTask(outcome)
      PROVE  Shaped
  <2>1. outcome \in Terminal
    BY <1>1, EventLoopAssumption DEF Program
  <2>2. Finishing(current, outcome)
    BY <1>2, <1>8 DEF EndTask, Finishing, Leave
  <2>3. current \in DOMAIN objs
    BY <1>2, <1>8 DEF EndTask
  <2> QED
    BY <2>1, <2>2, <2>3 DEF Shaped
<1>9. CASE EndCallback
  <2>1. Idling
    BY <1>1, <1>9 DEF EndCallback, Idling, Leave, TypeOK, Linked
  <2> QED
    BY <2>1 DEF Shaped
<1> QED
  BY <1>5, <1>6, <1>7, <1>8, <1>9 DEF EndOfStep

LEMMA LoopStepShaped ==
  ASSUME LoopInv, LoopStep
  PROVE  Shaped
<1>1. TypeOK /\ Linked /\ program \in Programs
  BY DEF LoopInv
<1>2. timers \in Seq(Timer) /\ \A timer \in Elements(timers) : timer \in Timer /\ timer.left > 0
  BY <1>1, ElementsOf DEF TypeOK, Linked
<1>3. CASE FinishRun
  <2>1. maturing = << >>
    BY <1>1, <1>3 DEF FinishRun, Linked
  <2> QED
    BY <1>3, <2>1 DEF FinishRun, Abandoning, Shaped
<1>4. CASE Tick
  <2>1. \A timer \in Elements(timers) : 1 <= timer.left
    BY <1>2 DEF Timer
  <2>2. /\ timers' = << >> /\ maturing' \in Seq(Timer)
        /\ \A e \in Elements(maturing') : \E timer \in Elements(timers) : e.future = timer.future
    BY <1>2, <1>4, <2>1, Elapsing DEF Tick
  <2>3. Idling
    BY <1>4, <2>2, EmptySeq, NoElements DEF Tick, Idling
  <2> QED
    BY <2>3 DEF Shaped
<1>5. CASE MatureTimer
  BY <1>5, MatureShaped
<1>6. CASE Jump
  <2>1. PICK i \in DOMAIN timers : /\ \A j \in DOMAIN timers : timers[i].left <= timers[j].left
                                  /\ Elapse(timers[i].left)
    BY <1>6 DEF Jump
  <2>2. timers[i].left \in Nat /\ \A timer \in Elements(timers) : timers[i].left <= timer.left
    <3>1. timers[i] \in Timer
      BY <1>2, ElementsOf
    <3>2. timers[i].left \in Nat
      BY <3>1 DEF Timer
    <3>3. \A timer \in Elements(timers) : timers[i].left <= timer.left
      BY <2>1 DEF Elements
    <3> QED
      BY <3>2, <3>3
  <2>3. /\ timers' = << >> /\ maturing' \in Seq(Timer)
        /\ \A e \in Elements(maturing') : \E timer \in Elements(timers) : e.future = timer.future
    BY <1>2, <2>1, <2>2, Elapsing
  <2>4. Idling
    BY <1>6, <2>3, EmptySeq, NoElements DEF Jump, Taking, Idling
  <2> QED
    BY <2>4 DEF Shaped
<1>7. CASE EndJump
  <2>1. Idling
    BY <1>1, <1>7 DEF EndJump, Idling, TypeOK, Linked
  <2> QED
    BY <2>1 DEF Shaped
<1>8. CASE StopStarved
  BY <1>8 DEF StopStarved, Taking, Abandoning, Shaped
<1>9. CASE RunCallback
  <2>1. Dropping
    BY <1>9 DEF RunCallback, Taking, Dropping
  <2> QED
    BY <2>1 DEF Shaped
<1>10. CASE SkipDoneTask
  <2>1. Dropping
    BY <1>10 DEF SkipDoneTask, Taking, Dropping
  <2> QED
    BY <2>1 DEF Shaped
<1>11. CASE StepTask
  BY <1>11 DEF Shaped
<1>12. CASE ReawaitTask
  <2>1. PICK t : t = Head(ready).who
    OBVIOUS
  <2>2. Head(ready) \in Elements(ready) /\ Head(ready).kind = "task"
    BY <1>1, <1>12, Popped DEF TypeOK, ReawaitTask
  <2>3. t \in DOMAIN objs /\ IsTask(t)
    BY <1>1, <2>1, <2>2 DEF Linked
  <2>4. objs[t].awaiting \in DOMAIN objs /\ Pending(objs[t].awaiting) /\ pc = "mature" /\ current = 0 /\ maturing = << >>
    BY <1>1, <1>12, <2>1, <2>3 DEF ReawaitTask, YieldsAgain, Linked, Taking
  <2>5. Parking(t, objs[t].awaiting, objs[t].awaiting)
    BY <1>12, <2>1, <2>3, <2>4 DEF ReawaitTask, Parking
  <2> QED
    BY <2>3, <2>4, <2>5 DEF Shaped
<1> QED
  BY <1>3, <1>4, <1>5, <1>6, <1>7, <1>8, <1>9, <1>10, <1>11, <1>12 DEF LoopStep

LEMMA RunShaped ==
  ASSUME LoopInv, Run
  PROVE  Shaped
<1> DEFINE e == TaskEntry(Len(objs) + 1, "none")
<1>1. TypeOK /\ Linked /\ program \in Programs
  BY DEF LoopInv
<1>2. Len(objs) + 1 \in Ids
  <2>1. Len(objs) < program.objects /\ program.objects \in 1 .. MaxObjects /\ MaxObjects \in Nat
    BY <1>1, EventLoopAssumption DEF Run, Program
  <2>2. Len(objs) \in Nat
    BY <1>1, ObjectTypes
  <2> QED
    BY <2>1, <2>2 DEF Ids
<1>3. e \in ReadyEntry
  BY <1>2, TaskEntries DEF Terminal
<1>4. ready' = <<e>> /\ ready = << >> /\ tasks = {} /\ timers \in Seq(Timer) /\ maturing = << >>
  BY <1>1 DEF Run, TypeOK, Linked
<1> HIDE DEF e
<1>5. << >> \o <<e>> = <<e>>
  <2>1. <<e>> \in Seq({e})
    OBVIOUS
  <2> QED
    BY <2>1, ConcatEmptySeq
<1>6. ready' = ready \o <<e>> /\ tasks' = tasks \cup {Len(objs) + 1}
  BY <1>4, <1>5 DEF Run
<1>7. Making("task")
  BY <1>1, <1>2, <1>4, <1>6 DEF Run, Making, Linked, e
<1> QED
  BY <1>7 DEF Shaped

LEMMA LoopInvInit == Init => LoopInv
<1> SUFFICES ASSUME Init PROVE LoopInv
  OBVIOUS
<1>1. /\ << >> \in Seq(AsyncObject) /\ << >> \in Seq(ReadyEntry) /\ << >> \in Seq(Timer)
      /\ << >> \in Seq(program.callbacks) /\ Elements(<< >>) = {} /\ Len(<< >>) = 0
      /\ DOMAIN << >> = {}
  BY EmptySeq, NoElements
<1>2. TypeOK
  BY <1>1, EventLoopAssumption DEF Init, TypeOK
<1>3. Linked /\ Kept
  BY <1>1 DEF Init, Linked, Kept
<1>4. CallbacksOnce
  BY <1>1 DEF Init, CallbacksOnce, Single
<1>5. TasksOnce
  BY <1>1 DEF Init, TasksOnce, Single
<1> QED
  BY <1>2, <1>3, <1>4, <1>5 DEF Init, LoopInv

LEMMA LoopInvNext == LoopInv /\ [Next]_vars => LoopInv'
<1> SUFFICES ASSUME LoopInv, [Next]_vars PROVE LoopInv'
  OBVIOUS
<1>1. CASE Run
  BY <1>1, RunShaped, ShapedKeeps
<1>2. CASE LoopStep
  BY <1>2, LoopStepShaped, ShapedKeeps
<1>3. CASE GuestOperation
  BY <1>3, GuestShaped, ShapedKeeps
<1>4. CASE EndOfStep
  BY <1>4, EndShaped, ShapedKeeps
<1>5. CASE UNCHANGED vars
  <2>1. TypeOK' /\ Linked'
    BY <1>5 DEF LoopInv, TypeOK, Linked, Pending, IsTask, vars, AsyncObject, ReadyEntry
  <2>2. Kept' /\ CallbacksOnce'
    BY <1>5 DEF LoopInv, Kept, CallbacksOnce, Pending, vars
  <2>3. (CancelsItself \/ TasksOnce)'
    BY <1>5 DEF LoopInv, TasksOnce, CancelsItself, Pending, vars
  <2> QED
    BY <1>5, <2>1, <2>2, <2>3 DEF LoopInv, vars
<1> QED
  BY <1>1, <1>2, <1>3, <1>4, <1>5 DEF Next, ModuleEnds

\* The state of the loop is always of its type, and consistent: what a queue or
\* a list of waiters names is a task that was created, and what is done keeps
\* no waiters and no callbacks (complete_async, step_async_task).
THEOREM LoopInductive == Spec => []LoopInv
  BY LoopInvInit, LoopInvNext, PTL DEF Spec

\* No pending task of the running loop is forgotten, and a cancellation that
\* was requested is delivered before any other wake-up, whatever the program
\* (step_async_task, complete_async_source, Task.cancel).
THEOREM LoopLosesNoWakeup == Spec => []NoLostWakeup
<1>1. LoopInv => NoLostWakeup
  <2> SUFFICES ASSUME LoopInv, NEW t \in tasks, Pending(t)
               PROVE  /\ t = current \/ EntriesOf(t) # {} \/ \E s \in WakersOf(t) : Pending(s)
                      /\ objs[t].cancelRequested =>
                           \E i \in EntriesOf(t) : ready[i].wake = "cancelled" /\ \A j \in EntriesOf(t) : i <= j
    BY DEF NoLostWakeup
  <2>1. /\ t = current \/ Queued(ready, t) \/ \E s \in DOMAIN objs : t \in Elements(objs[s].waiters)
        /\ objs[t].cancelRequested => Leads(ready, t)
    BY DEF LoopInv, Kept
  <2>2. Queued(ready, t) => EntriesOf(t) # {}
    BY DEF Queued, EntriesOf, Elements
  <2>3. \A s \in DOMAIN objs : t \in Elements(objs[s].waiters) => s \in WakersOf(t) /\ Pending(s)
    BY NoElements DEF LoopInv, Linked, WakersOf
  <2>4. Leads(ready, t) =>
          \E i \in EntriesOf(t) : ready[i].wake = "cancelled" /\ \A j \in EntriesOf(t) : i <= j
    BY DEF Leads, EntriesOf
  <2> QED
    BY <2>1, <2>2, <2>3, <2>4
<1> QED
  BY <1>1, LoopInductive, PTL

\* A pending task is in one place, which its cancellation finds, and a callback
\* is called at most once (remove_async_waiter, complete_async,
\* run_async_event_loop).
THEOREM LoopWaitsOnce == Spec => []WaitsOnce
<1>1. LoopInv => WaitsOnce
  <2> SUFFICES ASSUME LoopInv PROVE WaitsOnce
    OBVIOUS
  <2>1. \A s \in DOMAIN objs : \A c \in Elements(objs[s].callbacks) : Pending(s) /\ c \notin Elements(ran)
    BY NoElements DEF LoopInv, Linked, CallbacksOnce
  <2>2. \A i, j \in DOMAIN ran : ran[i] = ran[j] => i = j
    BY DEF LoopInv, CallbacksOnce
  <2>3. ASSUME ~ CancelsItself, NEW t \in tasks, Pending(t)
        PROVE  Cardinality(EntriesOf(t)) + Cardinality(WakersOf(t)) = IF t = current THEN 0 ELSE 1
    <3>1. TasksOnce
      BY <2>3 DEF LoopInv
    <3>2. t = current \/ Queued(ready, t) \/ \E s \in DOMAIN objs : t \in Elements(objs[s].waiters)
      BY <2>3 DEF LoopInv, Kept
    <3>3. \A i, j \in EntriesOf(t) : i = j
      BY <3>1 DEF TasksOnce, Single, EntriesOf
    <3>4. \A i \in EntriesOf(t) : ready[i] \in Elements(ready) /\ ready[i].kind = "task" /\ ready[i].who = t
      BY DEF EntriesOf, Elements
    <3>5. \A x \in WakersOf(t) : x = objs[t].waitingOn /\ t # current /\ EntriesOf(t) = {}
      BY <3>1, <3>4 DEF TasksOnce, WakersOf
    <3>6. EntriesOf(t) # {} => t # current
      BY <3>1, <3>4 DEF TasksOnce
    <3>7. Queued(ready, t) => EntriesOf(t) # {}
      BY DEF Queued, EntriesOf, Elements
    <3>8. (\E s \in DOMAIN objs : t \in Elements(objs[s].waiters)) => WakersOf(t) # {}
      BY DEF WakersOf
    <3>9. CASE EntriesOf(t) # {}
      <4>1. PICK i : EntriesOf(t) = {i}
        BY <3>3, <3>9
      <4>2. WakersOf(t) = {}
        BY <3>5, <3>9
      <4>3. Cardinality(EntriesOf(t)) = 1 /\ Cardinality(WakersOf(t)) = 0 /\ t # current
        BY <3>6, <3>9, <4>1, <4>2, FS_EmptySet, FS_Singleton
      <4> QED
        BY <4>3
    <3>10. CASE WakersOf(t) # {}
      <4>1. PICK x : WakersOf(t) = {x}
        BY <3>5, <3>10
      <4>2. EntriesOf(t) = {} /\ t # current
        BY <3>5, <3>10
      <4> QED
        BY <4>1, <4>2, FS_EmptySet, FS_Singleton
    <3>11. CASE EntriesOf(t) = {} /\ WakersOf(t) = {}
      BY <3>2, <3>7, <3>8, <3>11, FS_EmptySet
    <3> QED
      BY <3>9, <3>10, <3>11
  <2>4. ASSUME ~ CancelsItself, NEW t \in DOMAIN objs, NEW s \in WakersOf(t)
        PROVE  objs[t].waitingOn = s
    BY <2>4 DEF LoopInv, TasksOnce, WakersOf
  <2> QED
    BY <2>1, <2>2, <2>3, <2>4 DEF WaitsOnce
<1> QED
  BY <1>1, LoopInductive, PTL

\* The await of a pending source is never handed a value
\* (step_async_task and the Future iterator).
THEOREM LoopAwaitsSource == Spec => AwaitResumedBySource
<1> DEFINE Resumed ==
      (StepTask /\ ~ CancelsItself) => LET t == Head(ready).who IN
        ~ (Head(ready).wake = "value" /\ objs[t].awaiting # 0 /\ Pending(objs[t].awaiting))
<1>1. LoopInv /\ [Next]_vars => [Resumed]_vars
  <2> SUFFICES ASSUME LoopInv, StepTask, ~ CancelsItself
               PROVE  ~ (Head(ready).wake = "value" /\ objs[Head(ready).who].awaiting # 0 /\ Pending(objs[Head(ready).who].awaiting))
    OBVIOUS
  <2>1. Head(ready) \in Elements(ready) /\ Head(ready).kind = "task"
    BY Popped DEF LoopInv, TypeOK, StepTask
  <2>2. TasksOnce
    BY DEF LoopInv
  <2> QED
    BY <2>1, <2>2 DEF TasksOnce
<1> QED
  BY <1>1, LoopInductive, PTL DEF Spec, AwaitResumedBySource

LEMMA ShapedCompletes ==
  ASSUME LoopInv, Shaped, NEW s \in DOMAIN objs, LoopRunning, Pending(s), objs'[s].state # "pending"
  PROVE  \E o \in Terminal : Finishing(s, o)
<1>1. TypeOK /\ Linked /\ objs \in Seq(AsyncObject)
  BY DEF LoopInv, TypeOK
<1>2. ASSUME NEW kind \in {"future", "task"}, Making(kind)
      PROVE  FALSE
  <2>1. objs'[s] = objs[s]
    BY <1>2, Created DEF Making
  <2> QED
    BY <2>1 DEF Pending
<1>3. ASSUME NEW x \in DOMAIN objs, NEW o \in Terminal, Finishing(x, o), x # s
      PROVE  FALSE
  <2>1. objs'[s] = objs[s]
    BY <1>1, <1>3, Completing DEF Finishing, CompleteAsyncSource
  <2> QED
    BY <2>1 DEF Pending
<1>4. ASSUME NEW t \in DOMAIN objs, TaskCancel(t)
      PROVE  FALSE
  <2>1. objs[t].waitingOn \in DOMAIN objs \cup {0}
    BY <1>1 DEF Linked
  <2>2. objs'[s].state = objs[s].state
    BY <1>1, <1>4, <2>1, Cancelling DEF TaskCancel
  <2> QED
    BY <2>2 DEF Pending
<1>5. ASSUME NEW x \in DOMAIN objs, NEW c \in program.callbacks, AddDoneCallback(x, c), Pending(x)
      PROVE  FALSE
  <2>1. objs' = [objs EXCEPT ![x].callbacks = Append(@, c)]
    BY <1>5 DEF AddDoneCallback
  <2>2. objs'[s].state = objs[s].state
    BY <1>1, <2>1, Watching
  <2> QED
    BY <2>2 DEF Pending
<1>6. ASSUME NEW t \in DOMAIN objs, NEW x \in DOMAIN objs, NEW a \in DOMAIN objs \cup {0}, Parking(t, x, a)
      PROVE  FALSE
  <2>1. objs' = Waiting(t, x, a) /\ Len(objs) <= MaxObjects
    BY <1>1, <1>6 DEF Parking, TypeOK
  <2>2. objs'[s].state = objs[s].state
    BY <1>1, <2>1, Suspending
  <2> QED
    BY <2>2 DEF Pending
<1>7. ASSUME StepTask, NEW t, NEW wake, Foremost(t, wake)
      PROVE  FALSE
  <2>1. objs' = Stepped(t, wake) /\ Head(ready) \in Elements(ready) /\ Head(ready).kind = "task"
    BY <1>1, <1>7, Popped DEF TypeOK, StepTask, Stepped, Foremost
  <2>2. t \in DOMAIN objs
    BY <1>1, <1>7, <2>1 DEF Linked, Foremost
  <2>3. objs'[s].state = objs[s].state
    BY <1>1, <2>1, <2>2, Stepping
  <2> QED
    BY <2>3 DEF Pending
<1>8. ~ StepTask
  BY <1>7 DEF Foremost
<1>9. ~ Dropping /\ ~ Idling /\ ~ Abandoning /\ \A e \in ReadyEntry : ~ Queueing(e)
  BY DEF Dropping, Idling, Abandoning, Queueing, Pending
<1> QED
  BY <1>2, <1>3, <1>4, <1>5, <1>6, <1>8, <1>9 DEF Shaped

\* A step that makes a source done queues each of its waiters, with the outcome,
\* and each of its callbacks (complete_async).
THEOREM LoopCompletionQueues == Spec => CompletionQueues
<1> DEFINE Queues ==
      \A s \in DOMAIN objs : (LoopRunning /\ Pending(s) /\ objs'[s].state # "pending") =>
        /\ \A t \in Elements(objs[s].waiters) : TaskEntry(t, objs'[s].state) \in Elements(ready')
        /\ \A c \in Elements(objs[s].callbacks) : CallbackEntry(c) \in Elements(ready')
<1>1. LoopInv /\ [Next]_vars => [Queues]_vars
  <2> SUFFICES ASSUME LoopInv, Next, NEW s \in DOMAIN objs,
                      LoopRunning, Pending(s), objs'[s].state # "pending"
               PROVE  /\ \A t \in Elements(objs[s].waiters) : TaskEntry(t, objs'[s].state) \in Elements(ready')
                      /\ \A c \in Elements(objs[s].callbacks) : CallbackEntry(c) \in Elements(ready')
    OBVIOUS
  <2>1. Shaped
    <3>1. ~ ModuleEnds
      BY DEF ModuleEnds, LoopRunning
    <3> QED
      BY <3>1, RunShaped, LoopStepShaped, GuestShaped, EndShaped DEF Next
  <2>2. PICK o \in Terminal : Finishing(s, o)
    BY <2>1, ShapedCompletes
  <2>3. TypeOK /\ ready \in Seq(ReadyEntry)
    BY DEF LoopInv, TypeOK
  <2>4. objs'[s].state = o
    BY <2>2, <2>3, Completing DEF Finishing, CompleteAsyncSource
  <2>5. ready' = Scheduled(s, o)
    BY <2>2 DEF Finishing, CompleteAsyncSource
  <2>6. PICK b \in Seq(ReadyEntry) :
          /\ Scheduled(s, o) = ready \o b
          /\ Elements(b) = {TaskEntry(t, o) : t \in Elements(objs[s].waiters)}
                              \cup {CallbackEntry(c) : c \in Elements(objs[s].callbacks)}
    BY <2>3, Scheduling
  <2>7. Elements(ready \o b) = Elements(ready) \cup Elements(b)
    BY <2>3, Concatenated
  <2> QED
    BY <2>4, <2>5, <2>6, <2>7
<1> QED
  BY <1>1, LoopInductive, PTL DEF Spec, CompletionQueues

=============================================================================
