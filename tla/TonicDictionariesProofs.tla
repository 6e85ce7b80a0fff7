----------------------- MODULE TonicDictionariesProofs -----------------------
(***************************************************************************)
(* Proofs about TonicDictionaries, for any objects, dictionaries, programs *)
(* and depths: buckets list every entry once, no dictionary has two equal  *)
(* keys, what an operation matched is still its key when it is carried     *)
(* out, and dictionaries found equal have the same keys.                   *)
(*                                                                         *)
(* The argument: a continuation is nested as deep as the program likes, so *)
(* what it must satisfy is not defined over its structure.  The invariant  *)
(* says instead that there are two sets of waiting actions, closed under   *)
(* "waits for", that hold what the machine and its frames will return to;  *)
(* every action in them has done what its state says, as long as the       *)
(* versions it noted are still those of its dictionaries.                  *)
(***************************************************************************)
EXTENDS TonicDictionaries, FiniteSetTheorems, FunctionTheorems, SequenceTheorems,
        WellFoundedInduction, TLAPS

-----------------------------------------------------------------------------
(* Hashes and equality. *)

\* acc is what hashing has accumulated after the first n elements of a tuple.
Partial(values, n, acc) ==
  \E f \in [0 .. n -> Hash] :
     /\ f[0] = sequence_start
     /\ \A k \in 1 .. n : f[k] = sequence_step(f[k - 1], HashOf[values[k]])
     /\ f[n] = acc

\* What the protocol computes for a key.
HashIs(v, h) ==
  IF IsTuple(v)
  THEN \E acc \in Hash : /\ Partial(Items[v], Len(Items[v]), acc)
                         /\ h = sequence_finish(acc, Len(Items[v]))
  ELSE h = HashOf[v]

-----------------------------------------------------------------------------
(* Dictionaries. *)

Entry == [key : Objects, value : Value]

Dict == [entries : Seq(Entry), hashes : Seq(Hash), index : [Hash -> Seq(Nat)], version : Nat]

\* A bucket lists the positions of a hash in order.
Lists(bucket, hashes, h) ==
  /\ Increases(bucket)
  /\ {bucket[j] : j \in 1 .. Len(bucket)} = {i \in 1 .. Len(hashes) : hashes[i] = h}

Distinct(entries) ==
  \A i, j \in 1 .. Len(entries) : i # j => ~KeyEqual(entries[i].key, entries[j].key)

DictOK(t) ==
  /\ t \in Dict
  /\ Len(t.hashes) = Len(t.entries)
  /\ \A h \in Hash : Lists(t.index[h], t.hashes, h)
  /\ \A i \in 1 .. Len(t.entries) : HashIs(t.entries[i].key, t.hashes[i])
  /\ Distinct(t.entries)

StoreOK(st) == st \in [Dicts -> Dict] /\ \A d \in Dicts : DictOK(st[d])

SameKeys(es, fs) == Len(es) = Len(fs) /\ \A i \in 1 .. Len(es) : es[i].key = fs[i].key

\* What an operation may make of a dictionary t.
Evolves(t, u) ==
  \/ u.version > t.version
  \/ u.version = t.version /\ u.index = t.index /\ SameKeys(u.entries, t.entries)

\* What a step may make of the dictionaries.
StoreEvolves(st, su) == \A d \in Dicts : Evolves(st[d], su[d])

-----------------------------------------------------------------------------
(* Continuations.  H holds every pair of a value and an action that waits for its hash, *)
(* E every triple of two values and an action that waits for whether they are equal.    *)

Starts == [result : Dicts, keywords : Keywords]

MergeStates == [target : Dicts, entries : Seq(Entry), next : Nat \ {0}, finish : Starts \cup {None}]

ConstructionStates == [start : Starts, iterator : Iterators]

PairStates == [outer : ConstructionStates, items : Seq(Operand)]

EntriesRecord(a) ==
  a = [tag |-> "DictEntries", left |-> a.left, right |-> a.right, entries |-> a.entries, next |-> a.next,
       left_version |-> a.left_version, right_version |-> a.right_version, depth |-> a.depth, outer |-> a.outer]

\* The two dictionaries of a comparison still have the keys they had at its begin.
EntriesKept(st, a) ==
  st[a.left].version = a.left_version /\ st[a.right].version = a.right_version

EntriesOK(st, E, a) ==
  /\ EntriesRecord(a)
  /\ a.left \in Dicts /\ a.right \in Dicts
  /\ a.entries \in Seq(Entry)
  /\ a.next \in 2 .. Len(a.entries) + 1
  /\ a.left_version \in 0 .. st[a.left].version
  /\ a.right_version \in 0 .. st[a.right].version
  /\ EntriesKept(st, a) =>
        /\ SameKeys(st[a.left].entries, a.entries)
        /\ Len(st[a.right].entries) = Len(a.entries)
  /\ <<a.left, a.right, a.outer>> \in E

\* The first m entries of the one dictionary are in the other.
Found(st, a, m) ==
  EntriesKept(st, a) =>
     \A j \in 1 .. m : \E i \in 1 .. Len(st[a.right].entries) :
        KeyEqual(a.entries[j].key, st[a.right].entries[i].key)

KindOK(st, E, kind, owner, key) ==
  \/ kind.op \in {"Get", "MatchKey", "Contains", "Delete", "SetAdd", "MatchUnique"}
  \/ kind.op = "Set" /\ kind.value \in Value
  \/ kind.op = "SetAndMerge" /\ kind.value \in Value /\ kind.state \in MergeStates
  \/ kind.op = "SetAndContinue" /\ kind.value \in Value /\ kind.state \in ConstructionStates
  \/ /\ kind.op = "CompareValue"
     /\ kind.expected \in Value
     /\ EntriesOK(st, E, kind.action)
     /\ Found(st, kind.action, kind.action.next - 2)
     /\ owner = kind.action.right
     /\ key = kind.action.entries[kind.action.next - 1].key

LookupOK(st, E, s) ==
  /\ s = [owner |-> s.owner, key |-> s.key, kind |-> s.kind, hash |-> s.hash, version |-> s.version,
          candidates |-> s.candidates, next |-> s.next, depth |-> s.depth]
  /\ s.owner \in Dicts /\ s.key \in Objects
  /\ s.hash \in Hash /\ HashIs(s.key, s.hash)
  /\ s.version \in 0 .. st[s.owner].version
  /\ s.next \in Nat \ {0}
  /\ st[s.owner].version = s.version => s.candidates = st[s.owner].index[s.hash]
  /\ KindOK(st, E, s.kind, s.owner, s.key)

\* The first m candidates of a key were compared with it.
Tried(st, s, m) ==
  st[s.owner].version = s.version =>
     /\ m <= Len(s.candidates)
     /\ \A j \in 1 .. m : ~KeyEqual(st[s.owner].entries[s.candidates[j]].key, s.key)

\* The candidates of a lookup are the positions of the entries with its hash.
CandidatesListed(st, s) ==
  LET es == st[s.owner].entries
  IN  /\ Len(s.candidates) \in Nat
      /\ \A j \in 1 .. Len(s.candidates) : s.candidates[j] \in 1 .. Len(es)
      /\ \A i \in 1 .. Len(es) :
            /\ es[i].key \in Objects
            /\ KeyEqual(es[i].key, s.key) => \E j \in 1 .. Len(s.candidates) : s.candidates[j] = i

\* A hash that an operation on a dictionary waits for.
KeyHashed(st, E, v, a) ==
  /\ a = [tag |-> "Dict", owner |-> a.owner, key |-> a.key, kind |-> a.kind]
  /\ a.owner \in Dicts /\ v = a.key
  /\ KindOK(st, E, a.kind, a.owner, a.key)

\* A hash that the hash of a tuple waits for.
ElementHashed(H, v, a) ==
  /\ a = [tag |-> "Sequence", values |-> a.values, next |-> a.next, acc |-> a.acc, depth |-> a.depth,
          outer |-> a.outer]
  /\ \E tuple \in Objects :
        IsTuple(tuple) /\ a.values = Items[tuple] /\ <<tuple, a.outer>> \in H
  /\ a.next \in 2 .. Len(a.values) + 1
  /\ v = a.values[a.next - 1]
  /\ a.acc \in Hash /\ Partial(a.values, a.next - 2, a.acc)

HashWait(st, H, E, v, a) ==
  v \in Operand /\ (KeyHashed(st, E, v, a) \/ ElementHashed(H, v, a))

\* A comparison of elements that a comparison of tuples waits for.
ElementCompared(E, l, r, a) ==
  /\ a = [tag |-> "Sequence", left |-> a.left, right |-> a.right, next |-> a.next, depth |-> a.depth,
          outer |-> a.outer]
  /\ \E tl, tr \in Objects :
        /\ IsTuple(tl) /\ IsTuple(tr)
        /\ a.left = Items[tl] /\ a.right = Items[tr] /\ <<tl, tr, a.outer>> \in E
  /\ Len(a.left) = Len(a.right)
  /\ a.next \in 2 .. Len(a.left) + 1
  /\ l = a.left[a.next - 1] /\ r = a.right[a.next - 1]
  /\ \A j \in 1 .. a.next - 2 : EqualAtoms(a.left[j], a.right[j])

\* A comparison of a candidate with the key of an operation.
CandidateCompared(st, E, l, r, a) ==
  /\ a = [tag |-> "DictCandidate", state |-> a.state, index |-> a.index]
  /\ LookupOK(st, E, a.state)
  /\ a.state.next >= 2
  /\ Tried(st, a.state, a.state.next - 2)
  /\ l \in Objects /\ r = a.state.key
  /\ st[a.state.owner].version = a.state.version =>
        /\ a.state.next - 1 <= Len(a.state.candidates)
        /\ a.index = a.state.candidates[a.state.next - 1]
        /\ l = st[a.state.owner].entries[a.index].key

EqualityWait(st, E, l, r, a) ==
  /\ l \in Value /\ r \in Value
  /\ \/ a.tag = "Return"
     \/ ElementCompared(E, l, r, a)
     \/ CandidateCompared(st, E, l, r, a)
     \/ EntriesOK(st, E, a) /\ Found(st, a, a.next - 1)

\* H and E hold what the actions in them wait for in turn.
Closed(st, H, E) ==
  /\ \A v, a : <<v, a>> \in H => HashWait(st, H, E, v, a)
  /\ \A l, r, a : <<l, r, a>> \in E => EqualityWait(st, E, l, r, a)

\* The answer to a comparison that reaches the action that waits for it.
AnswerOK(l, r, equal) ==
  /\ equal \in BOOLEAN
  /\ l \in Objects /\ r \in Objects => (equal <=> KeyEqual(l, r))

\* The matched entry holds the key, or no entry does.
Exact(st, s, i) ==
  LET es == st[s.owner].entries
  IN  IF i # 0 THEN i \in 1 .. Len(es) /\ KeyEqual(es[i].key, s.key)
      ELSE \A j \in 1 .. Len(es) : ~KeyEqual(es[j].key, s.key)

\* The call that the machine is about to make.
CallOK(st, H, E, n) ==
  \/ n.at = "guest"
  \/ n.at = "hash" /\ <<n.value, n.action>> \in H
  \/ /\ n.at = "complete_hash"
     /\ \E v \in Objects : <<v, n.action>> \in H /\ n.hash \in Hash /\ HashIs(v, n.hash)
  \/ n.at = "candidates" /\ LookupOK(st, E, n.state) /\ Tried(st, n.state, n.state.next - 1)
  \/ n.at = "finish" /\ LookupOK(st, E, n.state) /\ Exact(st, n.state, n.matched)
  \/ n.at = "equality" /\ <<n.left, n.right, n.action>> \in E
  \/ /\ n.at = "complete_equality"
     /\ \/ \E l, r : <<l, r, n.action>> \in E /\ AnswerOK(l, r, n.equal)
        \/ n.equal = FALSE /\ EntriesOK(st, E, n.action)
  \/ n.at = "merge" /\ n.state \in MergeStates
  \/ n.at = "construction" /\ n.state \in ConstructionStates
  \/ n.at = "construction_done" /\ n.start \in Starts
  \/ n.at = "pair" /\ n.iterator \in Pairs /\ n.state \in PairStates
  \/ n.at = "pair_done" /\ n.state \in PairStates

\* A method that runs, and what its result is for.
FrameOK(H, E, f) ==
  \/ f.method = "hash" /\ f.value \in Guest /\ <<f.value, f.action>> \in H
  \/ f.method = "eq" /\ \E l, r : <<l, r, f.action>> \in E /\ AnswerOK(l, r, f.equal)
  \/ /\ f.method = "next" /\ f.action.tag = "DictIterableNext"
     /\ f.action.state \in ConstructionStates /\ f.rest \in Seq(Pairs)
  \/ /\ f.method = "next" /\ f.action.tag = "DictPairNext"
     /\ f.action.state \in PairStates /\ f.rest \in Seq(Operand)

FramesOK(H, E, fs) == \A i \in 1 .. Len(fs) : FrameOK(H, E, fs[i])

\* What holds apart from the call that comes next.
Context(H, E) ==
  /\ program \in Programs
  /\ StoreOK(store)
  /\ \E S : frames \in Seq(S)
  /\ Closed(store, H, E)
  /\ FramesOK(H, E, frames)

\* The inductive invariant.
Inductive == \E H, E : Context(H, E) /\ CallOK(store, H, E, now)

\* A call that is right once it is known what waits for it.
Follows(st, H, E, c) ==
  \E G, F : H \subseteq G /\ E \subseteq F /\ Closed(st, G, F) /\ CallOK(st, G, F, c)

-----------------------------------------------------------------------------
(* Lemmas about hashes and equality. *)

\* The hashes are the numbers below Hashes.
LEMMA HashProperties ==
  /\ Hash \subseteq Nat
  /\ \A n \in Nat : Hash # {} => n % Hashes \in Hash
<1>1. Hashes \in Nat
  BY HashAssumption
<1>2. ASSUME NEW n \in Nat, Hash # {}
      PROVE  n % Hashes \in Hash
  BY <1>1, <1>2, SMTT(30) DEF Hash
<1> QED
  BY <1>1, <1>2 DEF Hash

\* The hash of an object is a hash.
LEMMA ObjectHash ==
  ASSUME NEW o \in Objects
  PROVE  HashOf[o] \in Hash
  BY HashAssumption DEF Hash

\* The steps of the hash of a tuple stay below Hashes (sequence_step, sequence_finish).
LEMMA StepHash ==
  ASSUME NEW acc \in Hash, NEW h \in Nat
  PROVE  sequence_step(acc, h) \in Hash /\ sequence_finish(acc, h) \in Hash
<1>1. acc \in Nat /\ Hash # {}
  BY HashProperties
<1>2. 3 * acc + h \in Nat /\ acc + h \in Nat
  BY <1>1
<1> QED
  BY <1>1, <1>2, HashProperties DEF sequence_step, sequence_finish

\* One more element (complete_hash of a Sequence action).
LEMMA PartialNext ==
  ASSUME NEW values, NEW n \in Nat, NEW acc \in Hash, Partial(values, n, acc),
         HashOf[values[n + 1]] \in Hash
  PROVE  /\ sequence_step(acc, HashOf[values[n + 1]]) \in Hash
         /\ Partial(values, n + 1, sequence_step(acc, HashOf[values[n + 1]]))
<1> DEFINE next == sequence_step(acc, HashOf[values[n + 1]])
<1>1. PICK f \in [0 .. n -> Hash] :
         /\ f[0] = sequence_start
         /\ \A k \in 1 .. n : f[k] = sequence_step(f[k - 1], HashOf[values[k]])
         /\ f[n] = acc
  BY DEF Partial
<1>2. next \in Hash
  BY StepHash, HashProperties
<1> DEFINE g == [k \in 0 .. n + 1 |-> IF k = n + 1 THEN next ELSE f[k]]
<1>3. g \in [0 .. n + 1 -> Hash]
  BY <1>1, <1>2
<1>4. g[0] = sequence_start /\ g[n + 1] = next
  BY <1>1
<1>5. ASSUME NEW k \in 1 .. n + 1
      PROVE  g[k] = sequence_step(g[k - 1], HashOf[values[k]])
  <2>1. CASE k = n + 1
    <3>1. g[k] = next /\ g[k - 1] = acc
      BY <1>1, <2>1
    <3> QED
      BY <2>1, <3>1
  <2>2. CASE k \in 1 .. n
    <3>1. g[k] = f[k] /\ g[k - 1] = f[k - 1]
      BY <2>2
    <3> QED
      BY <1>1, <2>2, <3>1
  <2> QED
    BY <2>1, <2>2
<1> HIDE DEF g, next
<1> QED
  BY <1>2, <1>3, <1>4, <1>5 DEF Partial, next

\* A property that fails for a natural number fails for a least one.
LEMMA LeastNatural ==
  ASSUME NEW T \in SUBSET Nat, T # {}
  PROVE  \E n \in T : \A m \in T : n <= m
<1> DEFINE R == OpToRel(<, Nat)
<1>1. IsWellFoundedOn(R, Nat)
  BY NatLessThanWellFounded
<1>2. \A m, n \in T : m < n => <<m, n>> \in R
  BY DEF OpToRel
<1> HIDE DEF R
<1>3. PICK n \in T : \A m \in T : ~(<<m, n>> \in R)
  BY <1>1, WFMin
<1>4. \A m \in T : ~(m < n)
  BY <1>2, <1>3
<1>5. \A m \in T : m \in Nat /\ n \in Nat
  OBVIOUS
<1>6. \A m \in T : n <= m
  BY <1>4, <1>5
<1> QED
  BY <1>6

\* Tuples whose elements hash alike accumulate alike.
LEMMA PartialUnique ==
  ASSUME NEW vs, NEW ws, NEW n \in Nat, NEW a, NEW b,
         \A k \in 1 .. n : HashOf[vs[k]] = HashOf[ws[k]],
         Partial(vs, n, a), Partial(ws, n, b)
  PROVE  a = b
<1>1. PICK f \in [0 .. n -> Hash] :
         /\ f[0] = sequence_start
         /\ \A k \in 1 .. n : f[k] = sequence_step(f[k - 1], HashOf[vs[k]])
         /\ f[n] = a
  BY DEF Partial
<1>2. PICK g \in [0 .. n -> Hash] :
         /\ g[0] = sequence_start
         /\ \A k \in 1 .. n : g[k] = sequence_step(g[k - 1], HashOf[ws[k]])
         /\ g[n] = b
  BY DEF Partial
<1> DEFINE T == {k \in 0 .. n : f[k] # g[k]}
<1>3. SUFFICES ASSUME T # {}
               PROVE  FALSE
  BY <1>1, <1>2
<1>4. PICK k \in T : \A m \in T : k <= m
  <2>1. T \in SUBSET Nat
    OBVIOUS
  <2> HIDE DEF T
  <2> QED
    BY <1>3, <2>1, LeastNatural
<1>5. k \in 1 .. n /\ k - 1 \in 0 .. n
  BY <1>1, <1>2, <1>4
<1>6. f[k - 1] = g[k - 1]
  BY <1>4, <1>5
<1> QED
  BY <1>1, <1>2, <1>4, <1>5, <1>6

\* Equality of keys is an equivalence.
LEMMA KeyEquality ==
  /\ \A o : KeyEqual(o, o)
  /\ \A a, b \in Objects : KeyEqual(a, b) => KeyEqual(b, a)
  /\ \A a, b, c \in Objects : KeyEqual(a, b) /\ KeyEqual(b, c) => KeyEqual(a, c)
<1>1. ASSUME NEW o
      PROVE  KeyEqual(o, o)
  BY DEF KeyEqual, EqualAtoms
<1>2. ASSUME NEW a \in Objects, NEW b \in Objects, KeyEqual(a, b)
      PROVE  KeyEqual(b, a)
  BY <1>2 DEF KeyEqual, EqualAtoms
<1>3. ASSUME NEW a \in Objects, NEW b \in Objects
      PROVE  KeyEqual(a, b) => (IsTuple(a) <=> IsTuple(b))
  BY EqualityAssumption DEF KeyEqual, EqualAtoms
<1>4. ASSUME NEW a \in Objects, NEW b \in Objects, NEW c \in Objects, KeyEqual(a, b), KeyEqual(b, c)
      PROVE  KeyEqual(a, c)
  <2>1. IsTuple(a) <=> IsTuple(b)
    BY <1>3, <1>4
  <2>2. IsTuple(b) <=> IsTuple(c)
    BY <1>3, <1>4
  <2>3. CASE IsTuple(a)
    <3>1. /\ Len(Items[a]) = Len(Items[b])
          /\ \A i \in 1 .. Len(Items[a]) : EqualAtoms(Items[a][i], Items[b][i])
      BY <1>4, <2>1, <2>3 DEF KeyEqual
    <3>2. /\ Len(Items[b]) = Len(Items[c])
          /\ \A i \in 1 .. Len(Items[b]) : EqualAtoms(Items[b][i], Items[c][i])
      BY <1>4, <2>1, <2>2, <2>3 DEF KeyEqual
    <3>3. \A i \in 1 .. Len(Items[a]) : EqualAtoms(Items[a][i], Items[c][i])
      BY <3>1, <3>2 DEF EqualAtoms
    <3> QED
      BY <2>1, <2>2, <2>3, <3>1, <3>2, <3>3 DEF KeyEqual
  <2>4. CASE ~IsTuple(a)
    BY <1>4, <2>1, <2>2, <2>4 DEF KeyEqual, EqualAtoms
  <2> QED
    BY <2>3, <2>4
<1> QED
  BY <1>1, <1>2, <1>4

\* Equal keys have the same hash, and a key has one.
LEMMA EqualKeysHashAlike ==
  ASSUME NEW a \in Objects, NEW b \in Objects, KeyEqual(a, b),
         NEW h, NEW g, HashIs(a, h), HashIs(b, g)
  PROVE  h = g
<1>1. IsTuple(a) <=> IsTuple(b)
  BY EqualityAssumption DEF KeyEqual, EqualAtoms
<1>2. \A x, y \in Objects : EqualAtoms(x, y) => HashOf[x] = HashOf[y]
  BY EqualityAssumption DEF EqualAtoms
<1>3. CASE ~IsTuple(a)
  BY <1>1, <1>2, <1>3 DEF KeyEqual, HashIs
<1>4. CASE IsTuple(a)
  <2>1. /\ Len(Items[a]) = Len(Items[b])
        /\ \A i \in 1 .. Len(Items[a]) : EqualAtoms(Items[a][i], Items[b][i])
    BY <1>1, <1>4 DEF KeyEqual
  <2>2. Items[a] \in Seq(Objects) /\ Items[b] \in Seq(Objects)
    BY ObjectAssumption
  <2>3. Len(Items[a]) \in Nat
        /\ \A i \in 1 .. Len(Items[a]) : Items[a][i] \in Objects /\ Items[b][i] \in Objects
    BY <2>1, <2>2, ElementOfSeq, LenProperties
  <2>4. \A i \in 1 .. Len(Items[a]) : HashOf[Items[a][i]] = HashOf[Items[b][i]]
    BY <1>2, <2>1, <2>3
  <2>5. PICK c \in Hash : /\ Partial(Items[a], Len(Items[a]), c)
                          /\ h = sequence_finish(c, Len(Items[a]))
    BY <1>4 DEF HashIs
  <2>6. PICK d \in Hash : /\ Partial(Items[b], Len(Items[a]), d)
                          /\ g = sequence_finish(d, Len(Items[a]))
    BY <1>1, <1>4, <2>1 DEF HashIs
  <2>7. c = d
    BY <2>3, <2>4, <2>5, <2>6, PartialUnique
  <2> QED
    BY <2>5, <2>6, <2>7
<1> QED
  BY <1>3, <1>4

-----------------------------------------------------------------------------
(* Lemmas about storage. *)

\* The two halves of Lists.
LEMMA ListsMembers ==
  ASSUME NEW b \in Seq(Nat), NEW hs \in Seq(Hash), NEW h
  PROVE  Lists(b, hs, h) <=>
            /\ Increases(b)
            /\ \A j \in 1 .. Len(b) : b[j] \in 1 .. Len(hs) /\ hs[b[j]] = h
            /\ \A i \in 1 .. Len(hs) : hs[i] = h => \E j \in 1 .. Len(b) : b[j] = i
<1> DEFINE B == {b[j] : j \in 1 .. Len(b)}
           P == {i \in 1 .. Len(hs) : hs[i] = h}
<1>1. B \subseteq P <=> \A j \in 1 .. Len(b) : b[j] \in 1 .. Len(hs) /\ hs[b[j]] = h
  OBVIOUS
<1>2. P \subseteq B <=> \A i \in 1 .. Len(hs) : hs[i] = h => \E j \in 1 .. Len(b) : b[j] = i
  OBVIOUS
<1>3. Lists(b, hs, h) <=> Increases(b) /\ B = P
  BY DEF Lists
<1>4. B = P <=> B \subseteq P /\ P \subseteq B
  OBVIOUS
<1> HIDE DEF B, P
<1> QED
  BY <1>1, <1>2, <1>3, <1>4

\* Removing a member of a vector moves the ones behind it (Vec::remove).
LEMMA WithoutProperties ==
  ASSUME NEW S, NEW s \in Seq(S), NEW i \in 1 .. Len(s)
  PROVE  /\ Without(s, i) \in Seq(S)
         /\ Len(Without(s, i)) = Len(s) - 1
         /\ \A k \in 1 .. Len(s) - 1 : Without(s, i)[k] = IF k < i THEN s[k] ELSE s[k + 1]
<1>1. Len(s) \in Nat /\ i \in Nat /\ i <= Len(s) /\ i >= 1
  BY LenProperties
<1> DEFINE left == SubSeq(s, 1, i - 1)
           right == SubSeq(s, i + 1, Len(s))
<1>2. /\ left \in Seq(S) /\ Len(left) = i - 1
      /\ \A k \in 1 .. i - 1 : left[k] = s[k]
  <2>1. CASE i = 1
    <3>1. left = << >>
      BY <2>1, SubSeqEmpty
    <3> QED
      BY <2>1, <3>1
  <2>2. CASE i > 1
    <3>1. /\ 1 \in 1 .. Len(s) + 1 /\ i - 1 \in 0 .. Len(s) /\ 1 <= i - 1
          /\ \A k \in 1 .. Len(s) : s[k] \in S
      BY <1>1, <2>2, ElementOfSeq
    <3> QED
      BY <1>1, <2>2, <3>1, SubSeqProperties
  <2> QED
    BY <1>1, <2>1, <2>2
<1>3. /\ right \in Seq(S) /\ Len(right) = Len(s) - i
      /\ \A k \in 1 .. Len(s) - i : right[k] = s[i + k]
  <2>1. CASE i = Len(s)
    <3>1. right = << >>
      BY <1>1, <2>1, SubSeqEmpty
    <3> QED
      BY <1>1, <2>1, <3>1
  <2>2. CASE i < Len(s)
    BY <1>1, <2>2, SubSeqProperties
  <2> QED
    BY <1>1, <2>1, <2>2
<1>4. Without(s, i) = left \o right
  BY DEF Without
<1> HIDE DEF left, right
<1>5. /\ Without(s, i) \in Seq(S)
      /\ Len(Without(s, i)) = Len(s) - 1
      /\ \A k \in 1 .. Len(s) - 1 :
            Without(s, i)[k] = IF k <= Len(left) THEN left[k] ELSE right[k - Len(left)]
  <2>1. /\ left \o right \in Seq(S)
        /\ Len(left \o right) = Len(left) + Len(right)
        /\ \A k \in 1 .. Len(left) + Len(right) :
              (left \o right)[k] = IF k <= Len(left) THEN left[k] ELSE right[k - Len(left)]
    BY <1>2, <1>3, ConcatProperties
  <2>2. Len(left) + Len(right) = Len(s) - 1
    BY <1>1, <1>2, <1>3
  <2> QED
    BY <1>4, <2>1, <2>2
<1>6. ASSUME NEW k \in 1 .. Len(s) - 1
      PROVE  Without(s, i)[k] = IF k < i THEN s[k] ELSE s[k + 1]
  <2>1. CASE k < i
    BY <1>1, <1>2, <1>5, <2>1
  <2>2. CASE k >= i
    <3>1. k - (i - 1) \in 1 .. Len(s) - i /\ ~(k <= i - 1)
      BY <1>1, <2>2
    <3>2. Without(s, i)[k] = right[k - (i - 1)]
      BY <1>2, <1>5, <3>1
    <3>3. right[k - (i - 1)] = s[i + (k - (i - 1))]
      BY <1>3, <3>1
    <3>4. i + (k - (i - 1)) = k + 1
      BY <1>1
    <3> QED
      BY <1>1, <2>2, <3>2, <3>3, <3>4
  <2> QED
    BY <1>1, <2>1, <2>2
<1> QED
  BY <1>5, <1>6

\* A dictionary, field by field.
LEMMA DictFields ==
  ASSUME NEW t \in Dict
  PROVE  /\ t = [entries |-> t.entries, hashes |-> t.hashes, index |-> t.index, version |-> t.version]
         /\ t.entries \in Seq(Entry) /\ t.hashes \in Seq(Hash)
         /\ t.index \in [Hash -> Seq(Nat)] /\ t.version \in Nat
         /\ Len(t.entries) \in Nat /\ Len(t.hashes) \in Nat
         /\ \A i \in 1 .. Len(t.entries) : t.entries[i] \in Entry /\ t.entries[i].key \in Objects
         /\ \A i \in 1 .. Len(t.hashes) : t.hashes[i] \in Hash
<1>1. /\ t = [entries |-> t.entries, hashes |-> t.hashes, index |-> t.index, version |-> t.version]
      /\ t.entries \in Seq(Entry) /\ t.hashes \in Seq(Hash)
      /\ t.index \in [Hash -> Seq(Nat)] /\ t.version \in Nat
  BY DEF Dict
<1>2. \A i \in 1 .. Len(t.entries) : t.entries[i] \in Entry
  BY <1>1, ElementOfSeq
<1>3. \A i \in 1 .. Len(t.hashes) : t.hashes[i] \in Hash
  BY <1>1, ElementOfSeq
<1>4. \A e \in Entry : e.key \in Objects
  BY DEF Entry
<1> QED
  BY <1>1, <1>2, <1>3, <1>4, LenProperties

\* The buckets after a new entry.
LEMMA ListsAppended ==
  ASSUME NEW b \in Seq(Nat), NEW hs \in Seq(Hash), NEW h \in Hash, NEW g \in Hash, Lists(b, hs, h)
  PROVE  Lists(IF h = g THEN Append(b, Len(hs) + 1) ELSE b, Append(hs, g), h)
<1> DEFINE n == Len(hs)
           hs1 == Append(hs, g)
<1>1. /\ n \in Nat /\ Len(b) \in Nat
      /\ hs1 \in Seq(Hash) /\ Len(hs1) = n + 1 /\ hs1[n + 1] = g
      /\ \A i \in 1 .. n : hs1[i] = hs[i]
  BY AppendProperties, LenProperties
<1>2. /\ Increases(b)
      /\ \A j \in 1 .. Len(b) : b[j] \in 1 .. n /\ hs[b[j]] = h
      /\ \A i \in 1 .. n : hs[i] = h => \E j \in 1 .. Len(b) : b[j] = i
  BY ListsMembers
<1>3. CASE h = g
  <2> DEFINE c == Append(b, n + 1)
  <2>1. /\ c \in Seq(Nat) /\ Len(c) = Len(b) + 1 /\ c[Len(b) + 1] = n + 1
        /\ \A j \in 1 .. Len(b) : c[j] = b[j]
    BY <1>1, AppendProperties
  <2> HIDE DEF c, hs1
  <2>2. Increases(c)
    <3>1. ASSUME NEW i \in 1 .. Len(c), NEW j \in 1 .. Len(c), i < j
          PROVE  c[i] < c[j]
      <4>1. i \in 1 .. Len(b)
        BY <1>1, <2>1, <3>1
      <4>2. CASE j \in 1 .. Len(b)
        BY <1>2, <2>1, <3>1, <4>1, <4>2 DEF Increases
      <4>3. CASE j = Len(b) + 1
        BY <1>1, <1>2, <2>1, <4>1, <4>3
      <4> QED
        BY <1>1, <2>1, <4>2, <4>3
    <3> QED
      BY <3>1 DEF Increases
  <2>3. ASSUME NEW j \in 1 .. Len(c)
        PROVE  c[j] \in 1 .. Len(hs1) /\ hs1[c[j]] = h
    <3>1. CASE j \in 1 .. Len(b)
      <4>1. c[j] = b[j] /\ b[j] \in 1 .. n /\ hs[b[j]] = h
        BY <1>2, <2>1, <3>1
      <4>2. hs1[b[j]] = hs[b[j]] /\ b[j] \in 1 .. Len(hs1)
        BY <1>1, <4>1
      <4> QED
        BY <4>1, <4>2
    <3>2. CASE j = Len(b) + 1
      BY <1>1, <1>3, <2>1, <3>2
    <3> QED
      BY <1>1, <2>1, <3>1, <3>2
  <2>4. ASSUME NEW i \in 1 .. Len(hs1), hs1[i] = h
        PROVE  \E j \in 1 .. Len(c) : c[j] = i
    <3>1. CASE i \in 1 .. n
      <4>1. PICK j \in 1 .. Len(b) : b[j] = i
        BY <1>1, <1>2, <2>4, <3>1
      <4>2. j \in 1 .. Len(c) /\ c[j] = i
        BY <1>1, <2>1, <4>1
      <4> QED
        BY <4>2
    <3>2. CASE i = n + 1
      <4>1. Len(b) + 1 \in 1 .. Len(c) /\ c[Len(b) + 1] = i
        BY <1>1, <2>1, <3>2
      <4> QED
        BY <4>1
    <3> QED
      BY <1>1, <3>1, <3>2
  <2>5. Lists(c, hs1, h)
    BY <1>1, <2>1, <2>2, <2>3, <2>4, ListsMembers
  <2> QED
    BY <1>3, <2>5 DEF c, hs1
<1>4. CASE h # g
  <2> HIDE DEF hs1
  <2>1. \A j \in 1 .. Len(b) : b[j] \in 1 .. Len(hs1) /\ hs1[b[j]] = h
    BY <1>1, <1>2
  <2>2. ASSUME NEW i \in 1 .. Len(hs1), hs1[i] = h
        PROVE  \E j \in 1 .. Len(b) : b[j] = i
    <3>1. i \in 1 .. n
      BY <1>1, <1>4, <2>2
    <3> QED
      BY <1>1, <1>2, <2>2, <3>1
  <2>3. Lists(b, hs1, h)
    BY <1>1, <1>2, <2>1, <2>2, ListsMembers
  <2> QED
    BY <1>4, <2>3 DEF hs1
<1> QED
  BY <1>3, <1>4

\* A new entry whose key no entry has (hash_set_hashed, dict_set).
LEMMA AppendKeeps ==
  ASSUME NEW t, DictOK(t), NEW key \in Objects, NEW value \in Value, NEW hash \in Hash,
         HashIs(key, hash),
         \A j \in 1 .. Len(t.entries) : ~KeyEqual(t.entries[j].key, key)
  PROVE  DictOK(Append1(t, key, value, hash)) /\ Evolves(t, Append1(t, key, value, hash))
<1> DEFINE u == Append1(t, key, value, hash)
           e == [key |-> key, value |-> value]
           n == Len(t.entries)
<1>1. /\ t \in Dict /\ Len(t.hashes) = n
      /\ \A h \in Hash : Lists(t.index[h], t.hashes, h)
      /\ \A i \in 1 .. n : HashIs(t.entries[i].key, t.hashes[i])
      /\ Distinct(t.entries)
  BY DEF DictOK
<1>2. /\ t.entries \in Seq(Entry) /\ t.hashes \in Seq(Hash)
      /\ t.index \in [Hash -> Seq(Nat)] /\ t.version \in Nat /\ n \in Nat
      /\ \A i \in 1 .. n : t.entries[i].key \in Objects
  BY <1>1, DictFields
<1>3. /\ u.entries = Append(t.entries, e)
      /\ u.hashes = Append(t.hashes, hash)
      /\ u.index = [t.index EXCEPT ![hash] = Append(@, n + 1)]
      /\ u.version = t.version + 1
      /\ u = [entries |-> u.entries, hashes |-> u.hashes, index |-> u.index, version |-> u.version]
  BY DEF Append1
<1> HIDE DEF u
<1>4. e \in Entry /\ e.key = key
  BY DEF Entry
<1> HIDE DEF e
<1>5. /\ u.entries \in Seq(Entry) /\ Len(u.entries) = n + 1
      /\ u.entries[n + 1] = e
      /\ \A i \in 1 .. n : u.entries[i] = t.entries[i]
  BY <1>2, <1>3, <1>4, AppendProperties
<1>6. /\ u.hashes \in Seq(Hash) /\ Len(u.hashes) = n + 1
      /\ u.hashes[n + 1] = hash
      /\ \A i \in 1 .. n : u.hashes[i] = t.hashes[i]
  BY <1>1, <1>2, <1>3, AppendProperties
<1>7. ASSUME NEW h \in Hash
      PROVE  /\ u.index[h] = IF h = hash THEN Append(t.index[h], Len(t.hashes) + 1) ELSE t.index[h]
             /\ u.index[h] \in Seq(Nat)
  <2>1. t.index[h] \in Seq(Nat) /\ n + 1 \in Nat
    BY <1>2
  <2>2. Append(t.index[h], n + 1) \in Seq(Nat)
    BY <2>1, AppendProperties
  <2> QED
    BY <1>1, <1>2, <1>3, <2>1, <2>2
<1>8. u.index \in [Hash -> Seq(Nat)] /\ u.version \in Nat
  <2>1. DOMAIN u.index = Hash /\ u.index = [h \in Hash |-> u.index[h]]
    BY <1>2, <1>3
  <2> QED
    BY <1>2, <1>3, <1>7, <2>1
<1>9. u \in Dict
  BY <1>3, <1>5, <1>6, <1>8 DEF Dict
<1>10. ASSUME NEW h \in Hash
       PROVE  Lists(u.index[h], u.hashes, h)
  <2>1. t.index[h] \in Seq(Nat) /\ Lists(t.index[h], t.hashes, h)
    BY <1>1, <1>2
  <2> QED
    BY <1>2, <1>3, <1>7, <2>1, ListsAppended
<1>11. ASSUME NEW i \in 1 .. n + 1
       PROVE  HashIs(u.entries[i].key, u.hashes[i])
  <2>1. CASE i \in 1 .. n
    BY <1>1, <1>5, <1>6, <2>1
  <2>2. CASE i = n + 1
    BY <1>4, <1>5, <1>6, <2>2
  <2> QED
    BY <1>2, <2>1, <2>2
<1>12. Distinct(u.entries)
  <2>1. ASSUME NEW i \in 1 .. n + 1, NEW j \in 1 .. n + 1, i # j
        PROVE  ~KeyEqual(u.entries[i].key, u.entries[j].key)
    <3>1. CASE i \in 1 .. n /\ j \in 1 .. n
      BY <1>1, <1>5, <2>1, <3>1 DEF Distinct
    <3>2. CASE i \in 1 .. n /\ j = n + 1
      BY <1>4, <1>5, <3>2
    <3>3. CASE i = n + 1 /\ j \in 1 .. n
      <4>1. ~KeyEqual(t.entries[j].key, key) /\ t.entries[j].key \in Objects
        BY <1>2, <3>3
      <4>2. ~KeyEqual(key, t.entries[j].key)
        BY <4>1, KeyEquality
      <4> QED
        BY <1>4, <1>5, <3>3, <4>2
    <3>4. n \in Nat
      BY <1>2
    <3>5. \A m \in 1 .. n + 1 : m \in 1 .. n \/ m = n + 1
      <4> HIDE DEF n
      <4> QED
        BY <3>4
    <3> QED
      BY <2>1, <3>1, <3>2, <3>3, <3>5, Zenon
  <2> QED
    BY <1>5, <2>1 DEF Distinct
<1>13. DictOK(u)
  BY <1>5, <1>6, <1>9, <1>10, <1>11, <1>12 DEF DictOK
<1>14. Evolves(t, u)
  BY <1>2, <1>3 DEF Evolves
<1> QED
  BY <1>13, <1>14 DEF u

\* Another value in an entry (hash_set_hashed, dict_set).
LEMMA ValueKeeps ==
  ASSUME NEW t, DictOK(t), NEW i \in 1 .. Len(t.entries), NEW value \in Value
  PROVE  /\ DictOK([t EXCEPT !.entries[i].value = value])
         /\ Evolves(t, [t EXCEPT !.entries[i].value = value])
<1> DEFINE u == [t EXCEPT !.entries[i].value = value]
           n == Len(t.entries)
<1>1. /\ t \in Dict /\ Len(t.hashes) = n
      /\ \A h \in Hash : Lists(t.index[h], t.hashes, h)
      /\ \A j \in 1 .. n : HashIs(t.entries[j].key, t.hashes[j])
      /\ Distinct(t.entries)
  BY DEF DictOK
<1>2. /\ t = [entries |-> t.entries, hashes |-> t.hashes, index |-> t.index, version |-> t.version]
      /\ t.entries \in Seq(Entry) /\ n \in Nat
      /\ \A j \in 1 .. n : t.entries[j] \in Entry
  BY <1>1, DictFields
<1> DEFINE e == [t.entries[i] EXCEPT !.value = value]
<1>3. e \in Entry /\ e.key = t.entries[i].key
  BY <1>2 DEF Entry
<1>4. /\ u.entries = [t.entries EXCEPT ![i] = e]
      /\ u.hashes = t.hashes /\ u.index = t.index /\ u.version = t.version
      /\ u = [entries |-> u.entries, hashes |-> u.hashes, index |-> u.index, version |-> u.version]
  BY <1>2, SMTT(30)
<1> HIDE DEF u, e
<1>5. u.entries \in Seq(Entry) /\ Len(u.entries) = n
  BY <1>2, <1>3, <1>4, ExceptSeq
<1>6. \A j \in 1 .. n : u.entries[j].key = t.entries[j].key
  <2>1. DOMAIN t.entries = 1 .. n
    BY <1>2, LenProperties
  <2> QED
    BY <1>3, <1>4, <2>1
<1>7. u \in Dict
  BY <1>1, <1>4, <1>5 DEF Dict
<1>8. Distinct(u.entries)
  BY <1>1, <1>5, <1>6, SMTT(30) DEF Distinct
<1>9. DictOK(u)
  BY <1>1, <1>4, <1>5, <1>6, <1>7, <1>8 DEF DictOK
<1>10. Evolves(t, u)
  BY <1>4, <1>5, <1>6 DEF Evolves, SameKeys
<1> QED
  BY <1>9, <1>10 DEF u

\* A dictionary without entries (the storage a dictionary begins with, dict_clear).
LEMMA EmptyOK ==
  ASSUME NEW v \in Nat
  PROVE  DictOK([Empty EXCEPT !.version = v])
<1> DEFINE u == [Empty EXCEPT !.version = v]
<1>1. /\ u.entries = << >> /\ u.hashes = << >> /\ u.index = [h \in Hash |-> << >>] /\ u.version = v
      /\ u = [entries |-> u.entries, hashes |-> u.hashes, index |-> u.index, version |-> u.version]
  BY DEF Empty
<1> HIDE DEF u
<1>2. u \in Dict
  BY <1>1, EmptySeq DEF Dict
<1>3. ASSUME NEW h \in Hash
      PROVE  Lists(u.index[h], u.hashes, h)
  <2>1. u.index[h] = << >> /\ Len(<< >>) = 0
    BY <1>1, EmptySeq
  <2> QED
    BY <1>1, <2>1 DEF Lists, Increases
<1>4. Len(u.entries) = 0 /\ Len(u.hashes) = 0
  BY <1>1, EmptySeq
<1>5. DictOK(u)
  BY <1>2, <1>3, <1>4 DEF DictOK, Distinct
<1> QED
  BY <1>5 DEF u

\* dict_clear.
LEMMA ClearKeeps ==
  ASSUME NEW t, DictOK(t)
  PROVE  DictOK(dict_clear(t)) /\ Evolves(t, dict_clear(t))
<1>1. t.version \in Nat
  BY DictFields DEF DictOK
<1>2. DictOK(dict_clear(t))
  BY <1>1, EmptyOK DEF dict_clear
<1>3. dict_clear(t).version = t.version + 1
  BY DEF dict_clear, Empty
<1> QED
  BY <1>1, <1>2, <1>3 DEF Evolves

\* The position of a removed entry leaves its bucket, and the positions behind it move.
LEMMA ListsShifted ==
  ASSUME NEW c \in Seq(Nat), NEW hs \in Seq(Hash), NEW h \in Hash, NEW i \in 1 .. Len(hs),
         Increases(c),
         \A j \in 1 .. Len(c) : c[j] \in 1 .. Len(hs) /\ hs[c[j]] = h /\ c[j] # i,
         \A k \in 1 .. Len(hs) : hs[k] = h /\ k # i => \E j \in 1 .. Len(c) : c[j] = k
  PROVE  Shifted(c, i) \in Seq(Nat) /\ Lists(Shifted(c, i), Without(hs, i), h)
<1> DEFINE n == Len(hs)
           d == Shifted(c, i)
           gs == Without(hs, i)
<1>1. n \in Nat /\ Len(c) \in Nat
  BY LenProperties
<1>2. /\ gs \in Seq(Hash) /\ Len(gs) = n - 1
      /\ \A k \in 1 .. n - 1 : gs[k] = IF k < i THEN hs[k] ELSE hs[k + 1]
  BY WithoutProperties
<1>3. /\ d = [j \in 1 .. Len(c) |-> IF c[j] > i THEN c[j] - 1 ELSE c[j]]
      /\ \A j \in 1 .. Len(c) : d[j] = IF c[j] > i THEN c[j] - 1 ELSE c[j]
  BY DEF Shifted
<1> HIDE DEF d, gs
<1>4. d \in Seq(Nat) /\ Len(d) = Len(c)
  <2>1. \A j \in 1 .. Len(c) : d[j] \in Nat
    BY <1>1, <1>3
  <2>2. d = [j \in 1 .. Len(c) |-> d[j]]
    BY <1>3
  <2> QED
    BY <1>1, <2>1, <2>2, IsASeq
<1>5. Increases(d)
  <2>1. ASSUME NEW j \in 1 .. Len(c), NEW k \in 1 .. Len(c), j < k
        PROVE  d[j] < d[k]
    <3>1. c[j] < c[k] /\ c[j] # i /\ c[k] # i /\ c[j] \in Nat /\ c[k] \in Nat
      BY <1>1, <2>1 DEF Increases
    <3> QED
      BY <1>3, <3>1
  <2> QED
    BY <1>4, <2>1 DEF Increases
<1>6. ASSUME NEW j \in 1 .. Len(d)
      PROVE  d[j] \in 1 .. Len(gs) /\ gs[d[j]] = h
  <2>1. j \in 1 .. Len(c) /\ c[j] \in 1 .. n /\ hs[c[j]] = h /\ c[j] # i
    BY <1>4
  <2>2. CASE c[j] > i
    <3>1. d[j] = c[j] - 1 /\ c[j] - 1 \in 1 .. n - 1 /\ ~(c[j] - 1 < i)
      BY <1>1, <1>3, <2>1, <2>2
    <3>2. gs[c[j] - 1] = hs[(c[j] - 1) + 1]
      BY <1>2, <3>1
    <3>3. (c[j] - 1) + 1 = c[j]
      BY <2>1
    <3> QED
      BY <1>2, <2>1, <3>1, <3>2, <3>3
  <2>3. CASE c[j] < i
    <3>1. d[j] = c[j] /\ c[j] \in 1 .. n - 1
      BY <1>1, <1>3, <2>1, <2>3
    <3> QED
      BY <1>2, <2>1, <2>3, <3>1
  <2> QED
    BY <1>1, <2>1, <2>2, <2>3
<1>7. ASSUME NEW k \in 1 .. Len(gs), gs[k] = h
      PROVE  \E j \in 1 .. Len(d) : d[j] = k
  <2>1. k \in 1 .. n - 1
    BY <1>2
  <2>2. CASE k < i
    <3>1. k \in 1 .. n /\ hs[k] = h /\ k # i
      BY <1>1, <1>2, <1>7, <2>1, <2>2
    <3>2. PICK j \in 1 .. Len(c) : c[j] = k
      BY <3>1
    <3>3. d[j] = k
      BY <1>3, <2>2, <3>1, <3>2
    <3> QED
      BY <1>4, <3>3
  <2>3. CASE ~(k < i)
    <3>1. k + 1 \in 1 .. n /\ hs[k + 1] = h /\ k + 1 # i /\ k + 1 > i
      BY <1>1, <1>2, <1>7, <2>1, <2>3
    <3>2. PICK j \in 1 .. Len(c) : c[j] = k + 1
      BY <3>1
    <3>3. d[j] = k
      BY <1>3, <2>1, <3>1, <3>2
    <3> QED
      BY <1>4, <3>3
  <2> QED
    BY <2>2, <2>3
<1>8. Lists(d, gs, h)
  BY <1>2, <1>4, <1>5, <1>6, <1>7, ListsMembers
<1> QED
  BY <1>4, <1>8 DEF d, gs

\* A removed entry (dict_delete_at).
LEMMA DeleteKeeps ==
  ASSUME NEW t, DictOK(t), NEW i \in 1 .. Len(t.entries)
  PROVE  DictOK(dict_delete_at(t, i)) /\ Evolves(t, dict_delete_at(t, i))
<1> DEFINE u == dict_delete_at(t, i)
           n == Len(t.entries)
           hs == t.hashes
           es == t.entries
<1>1. /\ t \in Dict /\ Len(hs) = n
      /\ \A h \in Hash : Lists(t.index[h], hs, h)
      /\ \A k \in 1 .. n : HashIs(es[k].key, hs[k])
      /\ Distinct(es)
  BY DEF DictOK
<1>2. /\ es \in Seq(Entry) /\ hs \in Seq(Hash)
      /\ t.index \in [Hash -> Seq(Nat)] /\ t.version \in Nat /\ n \in Nat
      /\ \A k \in 1 .. n : hs[k] \in Hash
  BY <1>1, DictFields
<1>3. /\ u.entries = Without(es, i) /\ u.hashes = Without(hs, i)
      /\ u.index = [h \in Hash |-> Shifted(Unlisted(t, i)[h], i)]
      /\ u.version = t.version + 1
      /\ u = [entries |-> u.entries, hashes |-> u.hashes, index |-> u.index, version |-> u.version]
  BY DEF dict_delete_at
<1> HIDE DEF u
<1>4. /\ u.entries \in Seq(Entry) /\ Len(u.entries) = n - 1
      /\ \A k \in 1 .. n - 1 : u.entries[k] = IF k < i THEN es[k] ELSE es[k + 1]
  <2>1. /\ Without(es, i) \in Seq(Entry) /\ Len(Without(es, i)) = n - 1
        /\ \A k \in 1 .. n - 1 : Without(es, i)[k] = IF k < i THEN es[k] ELSE es[k + 1]
    BY <1>2, WithoutProperties, Zenon
  <2> QED
    BY <1>3, <2>1, Zenon
<1>5. /\ u.hashes \in Seq(Hash) /\ Len(u.hashes) = n - 1
      /\ \A k \in 1 .. n - 1 : u.hashes[k] = IF k < i THEN hs[k] ELSE hs[k + 1]
  <2>1. /\ Without(hs, i) \in Seq(Hash) /\ Len(Without(hs, i)) = Len(hs) - 1
        /\ \A k \in 1 .. Len(hs) - 1 : Without(hs, i)[k] = IF k < i THEN hs[k] ELSE hs[k + 1]
    <3>1. i \in 1 .. Len(hs)
      BY <1>1
    <3> QED
      BY <1>2, <3>1, WithoutProperties, Zenon
  <2> QED
    BY <1>1, <1>3, <2>1
<1> DEFINE g == hs[i]
           b == t.index[g]
           slot == CHOOSE j \in 1 .. Len(b) : b[j] = i
<1>6. g \in Hash /\ b \in Seq(Nat) /\ Lists(b, hs, g)
  BY <1>1, <1>2
<1>7. slot \in 1 .. Len(b) /\ b[slot] = i
  <2>1. \A k \in 1 .. Len(hs) : hs[k] = g => \E j \in 1 .. Len(b) : b[j] = k
    <3>1. hs \in Seq(Hash)
      BY <1>2
    <3> HIDE DEF b, hs, g
    <3> QED
      BY <1>6, <3>1, ListsMembers
  <2>2. i \in 1 .. Len(hs)
    BY <1>1
  <2>3. \E j \in 1 .. Len(b) : b[j] = i
    BY <2>1, <2>2
  <2> QED
    BY <2>3
<1>8. Unlisted(t, i) = [t.index EXCEPT ![g] = Without(b, slot)]
  BY DEF Unlisted
<1> HIDE DEF slot
<1>9. ASSUME NEW h \in Hash
      PROVE  Shifted(Unlisted(t, i)[h], i) \in Seq(Nat) /\ Lists(Shifted(Unlisted(t, i)[h], i), u.hashes, h)
  <2> DEFINE c == Unlisted(t, i)[h]
             o == t.index[h]
  <2>1. o \in Seq(Nat) /\ Lists(o, hs, h) /\ Len(o) \in Nat
    BY <1>1, <1>2, LenProperties
  <2>2. /\ Increases(o)
        /\ \A j \in 1 .. Len(o) : o[j] \in 1 .. n /\ hs[o[j]] = h
        /\ \A k \in 1 .. n : hs[k] = h => \E j \in 1 .. Len(o) : o[j] = k
    <3>1. /\ Increases(o)
          /\ \A j \in 1 .. Len(o) : o[j] \in 1 .. Len(hs) /\ hs[o[j]] = h
          /\ \A k \in 1 .. Len(hs) : hs[k] = h => \E j \in 1 .. Len(o) : o[j] = k
      <4>1. hs \in Seq(Hash)
        BY <1>2
      <4> HIDE DEF o, hs
      <4> QED
        BY <2>1, <4>1, ListsMembers
    <3> QED
      BY <1>1, <3>1
  <2>5. ASSUME c \in Seq(Nat), Increases(c),
               \A j \in 1 .. Len(c) : c[j] \in 1 .. n /\ hs[c[j]] = h /\ c[j] # i,
               \A k \in 1 .. n : hs[k] = h /\ k # i => \E j \in 1 .. Len(c) : c[j] = k
        PROVE  Shifted(c, i) \in Seq(Nat) /\ Lists(Shifted(c, i), u.hashes, h)
    <3> HIDE DEF c
    <3>1. i \in 1 .. Len(hs)
      BY <1>1
    <3>2. /\ \A j \in 1 .. Len(c) : c[j] \in 1 .. Len(hs) /\ hs[c[j]] = h /\ c[j] # i
          /\ \A k \in 1 .. Len(hs) : hs[k] = h /\ k # i => \E j \in 1 .. Len(c) : c[j] = k
      BY <1>1, <2>5
    <3>3. Shifted(c, i) \in Seq(Nat) /\ Lists(Shifted(c, i), Without(hs, i), h)
      BY <1>2, <2>5, <3>1, <3>2, ListsShifted, Zenon
    <3> QED
      BY <1>3, <3>3
  <2>3. CASE h # g
    <3>1. c = o
      BY <1>2, <1>6, <1>8, <2>3
    <3>2. \A j \in 1 .. Len(o) : o[j] # i
      BY <2>2, <2>3
    <3>3. /\ c \in Seq(Nat) /\ Increases(c)
          /\ \A j \in 1 .. Len(c) : c[j] \in 1 .. n /\ hs[c[j]] = h /\ c[j] # i
          /\ \A k \in 1 .. n : hs[k] = h /\ k # i => \E j \in 1 .. Len(c) : c[j] = k
      BY <2>1, <2>2, <3>1, <3>2
    <3> QED
      BY <2>5, <3>3
  <2>4. CASE h = g
    <3>1. c = Without(o, slot) /\ slot \in 1 .. Len(o) /\ o[slot] = i
      BY <1>2, <1>6, <1>7, <1>8, <2>4
    <3> HIDE DEF c, o
    <3>2. /\ c \in Seq(Nat) /\ Len(c) = Len(o) - 1
          /\ \A k \in 1 .. Len(o) - 1 : c[k] = IF k < slot THEN o[k] ELSE o[k + 1]
      BY <2>1, <3>1, WithoutProperties
    <3>3. ASSUME NEW k \in 1 .. Len(c)
          PROVE  \E m \in 1 .. Len(o) : c[k] = o[m] /\ m # slot /\ m = IF k < slot THEN k ELSE k + 1
      <4>1. k \in 1 .. Len(o) - 1 /\ k \in 1 .. Len(o) /\ k + 1 \in 1 .. Len(o)
        BY <2>1, <3>2
      <4>2. CASE k < slot
        BY <3>1, <3>2, <4>1, <4>2
      <4>3. CASE ~(k < slot)
        <5>1. k + 1 # slot
          BY <3>1, <4>1, <4>3
        <5> QED
          BY <3>2, <4>1, <4>3, <5>1
      <4> QED
        BY <4>2, <4>3
    <3>4. Increases(c)
      <4>1. ASSUME NEW j \in 1 .. Len(c), NEW k \in 1 .. Len(c), j < k
            PROVE  c[j] < c[k]
        <5>1. PICK p \in 1 .. Len(o) : c[j] = o[p] /\ p = IF j < slot THEN j ELSE j + 1
          BY <3>3
        <5>2. PICK q \in 1 .. Len(o) : c[k] = o[q] /\ q = IF k < slot THEN k ELSE k + 1
          BY <3>3
        <5>3. p < q
          BY <2>1, <3>1, <4>1, <5>1, <5>2
        <5> QED
          BY <2>2, <5>1, <5>2, <5>3 DEF Increases
      <4> QED
        BY <4>1 DEF Increases
    <3>5. ASSUME NEW j \in 1 .. Len(c)
          PROVE  c[j] \in 1 .. n /\ hs[c[j]] = h /\ c[j] # i
      <4>1. PICK m \in 1 .. Len(o) : c[j] = o[m] /\ m # slot
        BY <3>3
      <4>2. o[m] # o[slot]
        <5>1. m < slot \/ slot < m
          BY <2>1, <3>1, <4>1
        <5>2. o[m] < o[slot] \/ o[slot] < o[m]
          BY <2>2, <3>1, <5>1 DEF Increases
        <5>3. o[m] \in 1 .. n /\ o[slot] \in 1 .. n
          BY <2>2, <3>1
        <5> QED
          BY <5>2, <5>3
      <4> QED
        BY <2>2, <3>1, <4>1, <4>2
    <3>6. ASSUME NEW k \in 1 .. n, hs[k] = h, k # i
          PROVE  \E j \in 1 .. Len(c) : c[j] = k
      <4>1. PICK m \in 1 .. Len(o) : o[m] = k
        BY <2>2, <3>6
      <4>2. m # slot
        BY <3>1, <3>6, <4>1
      <4>3. CASE m < slot
        <5>1. m \in 1 .. Len(c) /\ c[m] = k
          BY <2>1, <3>1, <3>2, <4>1, <4>3, SMTT(30)
        <5> QED
          BY <5>1
      <4>4. CASE m > slot
        <5>1. m - 1 \in 1 .. Len(c) /\ ~(m - 1 < slot) /\ (m - 1) + 1 = m
          BY <2>1, <3>1, <3>2, <4>4
        <5>2. c[m - 1] = k
          BY <3>2, <4>1, <5>1
        <5> QED
          BY <5>1, <5>2
      <4> QED
        BY <2>1, <3>1, <4>2, <4>3, <4>4
    <3> QED
      BY <2>5, <3>2, <3>4, <3>5, <3>6 DEF c
  <2> QED
    BY <2>3, <2>4
<1>10. u.index \in [Hash -> Seq(Nat)] /\ \A h \in Hash : Lists(u.index[h], u.hashes, h)
  BY <1>3, <1>9
<1>11. u \in Dict
  BY <1>2, <1>3, <1>4, <1>5, <1>10 DEF Dict
<1>12. ASSUME NEW k \in 1 .. n - 1
       PROVE  \E m \in 1 .. n : /\ u.entries[k] = es[m] /\ u.hashes[k] = hs[m]
                                /\ m = IF k < i THEN k ELSE k + 1
  <2>1. CASE k < i
    BY <1>2, <1>4, <1>5, <2>1
  <2>2. CASE ~(k < i)
    <3>1. k + 1 \in 1 .. n
      BY <1>2
    <3> QED
      BY <1>4, <1>5, <2>2, <3>1
  <2> QED
    BY <2>1, <2>2
<1>13. \A k \in 1 .. n - 1 : HashIs(u.entries[k].key, u.hashes[k])
  BY <1>1, <1>12
<1>14. Distinct(u.entries)
  <2>1. ASSUME NEW j \in 1 .. n - 1, NEW k \in 1 .. n - 1, j # k
        PROVE  ~KeyEqual(u.entries[j].key, u.entries[k].key)
    <3>1. PICK p \in 1 .. n : u.entries[j] = es[p] /\ p = IF j < i THEN j ELSE j + 1
      BY <1>12
    <3>2. PICK q \in 1 .. n : u.entries[k] = es[q] /\ q = IF k < i THEN k ELSE k + 1
      BY <1>12
    <3>3. p # q
      BY <1>2, <2>1, <3>1, <3>2
    <3> QED
      BY <1>1, <3>1, <3>2, <3>3 DEF Distinct
  <2> QED
    BY <1>4, <2>1 DEF Distinct
<1>15. DictOK(u)
  BY <1>4, <1>5, <1>10, <1>11, <1>13, <1>14 DEF DictOK
<1>16. Evolves(t, u)
  BY <1>2, <1>3 DEF Evolves
<1> QED
  BY <1>15, <1>16 DEF u

\* Storing under a hash that the protocol has computed.
LEMMA SetHashedKeeps ==
  ASSUME NEW t, DictOK(t), NEW key \in Objects, NEW value \in Value, NEW hash \in Hash,
         HashIs(key, hash), NEW i,
         IF i # 0 THEN i \in 1 .. Len(t.entries)
         ELSE \A j \in 1 .. Len(t.entries) : ~KeyEqual(t.entries[j].key, key)
  PROVE  /\ DictOK(hash_set_hashed(t, key, value, hash, i))
         /\ Evolves(t, hash_set_hashed(t, key, value, hash, i))
<1>1. CASE i # 0
  BY <1>1, ValueKeeps DEF hash_set_hashed
<1>2. CASE i = 0
  BY <1>2, AppendKeeps DEF hash_set_hashed
<1> QED
  BY <1>1, <1>2

\* Storing under the name of a keyword argument: no entry with an equal key is overlooked.
LEMMA DictSetKeeps ==
  ASSUME NEW t, DictOK(t), NEW key \in Objects, key \notin Guest, ~IsTuple(key),
         \A o \in Guest : ClassOf[o] # ClassOf[key], NEW value \in Value
  PROVE  DictOK(dict_set(t, key, value)) /\ Evolves(t, dict_set(t, key, value))
<1> DEFINE h == HashOf[key]
           b == t.index[h]
           es == t.entries
           n == Len(es)
           found == {i \in 1 .. Len(b) : dict_key(es[b[i]].key) = dict_key(key)}
           first == CHOOSE i \in found : \A j \in found : i <= j
<1>1. key_hash(key) = h
  BY DEF key_hash
<1>2. h \in Hash /\ HashIs(key, h)
  BY ObjectHash DEF HashIs
<1>3. /\ t.index \in [Hash -> Seq(Nat)] /\ t.hashes \in Seq(Hash) /\ Len(t.hashes) = n
      /\ \A i \in 1 .. n : es[i].key \in Objects /\ HashIs(es[i].key, t.hashes[i])
      /\ Lists(b, t.hashes, h)
  BY <1>2, DictFields DEF DictOK
<1>4. /\ \A j \in 1 .. Len(b) : b[j] \in 1 .. n
      /\ \A i \in 1 .. n : t.hashes[i] = h => \E j \in 1 .. Len(b) : b[j] = i
  <2>1. b \in Seq(Nat)
    BY <1>2, <1>3
  <2>2. t.hashes \in Seq(Hash) /\ Lists(b, t.hashes, h)
    BY <1>3
  <2> HIDE DEF b, h
  <2>3. /\ \A j \in 1 .. Len(b) : b[j] \in 1 .. Len(t.hashes)
        /\ \A i \in 1 .. Len(t.hashes) : t.hashes[i] = h => \E j \in 1 .. Len(b) : b[j] = i
    BY <2>1, <2>2, ListsMembers
  <2> QED
    BY <1>3, <2>3
<1>5. find_material(t, key) = IF found = {} THEN 0 ELSE b[first]
  BY <1>1 DEF find_material
<1>6. CASE found = {}
  <2>1. ASSUME NEW j \in 1 .. n, KeyEqual(es[j].key, key)
        PROVE  FALSE
    <3> DEFINE e == es[j].key
    <3>1. e \in Objects /\ HashIs(e, t.hashes[j])
      BY <1>3
    <3>2. EqualAtoms(e, key)
      BY <2>1 DEF KeyEqual
    <3>3. ~IsTuple(e) /\ ClassOf[e] = ClassOf[key] /\ HashOf[e] = h
      BY <3>1, <3>2, EqualityAssumption DEF EqualAtoms
    <3>4. e \notin Guest
      BY <3>3
    <3>5. dict_key(e) = dict_key(key)
      BY <3>3, <3>4 DEF dict_key, AtomMaterial
    <3>6. t.hashes[j] = h
      BY <3>1, <3>3 DEF HashIs
    <3>7. PICK i \in 1 .. Len(b) : b[i] = j
      BY <1>4, <3>6
    <3>8. i \in found
      BY <3>5, <3>7
    <3> QED
      BY <1>6, <3>8
  <2>2. dict_set(t, key, value) = Append1(t, key, value, h)
    BY <1>1, <1>5, <1>6 DEF dict_set
  <2> QED
    BY <1>2, <2>1, <2>2, AppendKeeps
<1>7. CASE found # {}
  <2>1. first \in found
    <3>1. found \in SUBSET Nat
      OBVIOUS
    <3> HIDE DEF found
    <3>2. \E i \in found : \A j \in found : i <= j
      BY <1>7, <3>1, LeastNatural
    <3> QED
      BY <3>2
  <2>2. b[first] \in 1 .. n
    BY <1>4, <2>1
  <2> HIDE DEF first
  <2>3. find_material(t, key) = b[first] /\ b[first] # 0
    BY <1>5, <1>7, <2>2
  <2>4. dict_set(t, key, value) = [t EXCEPT !.entries[b[first]].value = value]
    BY <2>3 DEF dict_set
  <2> HIDE DEF b, found, n, es
  <2>5. b[first] \in 1 .. Len(t.entries)
    BY <2>2 DEF n, es
  <2>6. /\ DictOK([t EXCEPT !.entries[b[first]].value = value])
        /\ Evolves(t, [t EXCEPT !.entries[b[first]].value = value])
    BY <2>5, ValueKeeps, SMTT(30)
  <2> QED
    BY <2>4, <2>6
<1> QED
  BY <1>6, <1>7

\* An operation changes one dictionary.
LEMMA StoreChange ==
  ASSUME NEW st, StoreOK(st), NEW d \in Dicts, NEW u, DictOK(u), Evolves(st[d], u)
  PROVE  StoreOK([st EXCEPT ![d] = u]) /\ StoreEvolves(st, [st EXCEPT ![d] = u])
<1> DEFINE su == [st EXCEPT ![d] = u]
<1>1. st \in [Dicts -> Dict] /\ \A e \in Dicts : DictOK(st[e])
  BY DEF StoreOK
<1>2. u \in Dict
  BY DEF DictOK
<1>3. su \in [Dicts -> Dict] /\ \A e \in Dicts : su[e] = IF e = d THEN u ELSE st[e]
  BY <1>1, <1>2
<1>4. \A e \in Dicts : Evolves(st[e], st[e])
  BY DEF Evolves, SameKeys
<1> HIDE DEF su
<1>5. StoreOK(su)
  BY <1>1, <1>3 DEF StoreOK
<1>6. StoreEvolves(st, su)
  BY <1>3, <1>4 DEF StoreEvolves
<1> QED
  BY <1>5, <1>6 DEF su

-----------------------------------------------------------------------------
(* Continuations outlive what happens to the dictionaries. *)

\* A dictionary with the version that was noted is the one that was seen.
LEMMA NotedVersion ==
  ASSUME NEW st, StoreOK(st), NEW su, StoreOK(su), StoreEvolves(st, su),
         NEW d \in Dicts, NEW v \in 0 .. st[d].version
  PROVE  /\ v \in 0 .. su[d].version
         /\ su[d].version = v => /\ st[d].version = v
                                 /\ su[d].index = st[d].index
                                 /\ Len(su[d].entries) = Len(st[d].entries)
                                 /\ \A i \in 1 .. Len(st[d].entries) :
                                       su[d].entries[i].key = st[d].entries[i].key
<1>1. st[d].version \in Nat /\ su[d].version \in Nat
  BY DictFields DEF StoreOK
<1>2. Evolves(st[d], su[d])
  BY DEF StoreEvolves
<1> QED
  BY <1>1, <1>2 DEF Evolves, SameKeys

\* A comparison of dictionaries is not misled by what happens to them.
LEMMA EntriesOutlive ==
  ASSUME NEW st, StoreOK(st), NEW su, StoreOK(su), StoreEvolves(st, su),
         NEW E, NEW a, EntriesOK(st, E, a)
  PROVE  /\ EntriesOK(su, E, a)
         /\ \A m \in Nat : Found(st, a, m) => Found(su, a, m)
<1>1. /\ EntriesRecord(a)
      /\ a.left \in Dicts /\ a.right \in Dicts
      /\ a.entries \in Seq(Entry)
      /\ a.next \in 2 .. Len(a.entries) + 1
      /\ a.left_version \in 0 .. st[a.left].version
      /\ a.right_version \in 0 .. st[a.right].version
      /\ EntriesKept(st, a) =>
            /\ SameKeys(st[a.left].entries, a.entries)
            /\ Len(st[a.right].entries) = Len(a.entries)
      /\ <<a.left, a.right, a.outer>> \in E
  BY DEF EntriesOK
<1>2. a.left_version \in 0 .. su[a.left].version /\ a.right_version \in 0 .. su[a.right].version
  BY <1>1, NotedVersion
<1>3. EntriesKept(su, a) =>
         /\ EntriesKept(st, a)
         /\ Len(su[a.left].entries) = Len(st[a.left].entries)
         /\ \A i \in 1 .. Len(st[a.left].entries) :
               su[a.left].entries[i].key = st[a.left].entries[i].key
         /\ Len(su[a.right].entries) = Len(st[a.right].entries)
         /\ \A i \in 1 .. Len(st[a.right].entries) :
               su[a.right].entries[i].key = st[a.right].entries[i].key
  <2>1. SUFFICES ASSUME EntriesKept(su, a)
                 PROVE  /\ EntriesKept(st, a)
                        /\ Len(su[a.left].entries) = Len(st[a.left].entries)
                        /\ \A i \in 1 .. Len(st[a.left].entries) :
                              su[a.left].entries[i].key = st[a.left].entries[i].key
                        /\ Len(su[a.right].entries) = Len(st[a.right].entries)
                        /\ \A i \in 1 .. Len(st[a.right].entries) :
                              su[a.right].entries[i].key = st[a.right].entries[i].key
    OBVIOUS
  <2>2. su[a.left].version = a.left_version /\ su[a.right].version = a.right_version
    BY <2>1 DEF EntriesKept
  <2>3. /\ st[a.left].version = a.left_version
        /\ Len(su[a.left].entries) = Len(st[a.left].entries)
        /\ \A i \in 1 .. Len(st[a.left].entries) :
              su[a.left].entries[i].key = st[a.left].entries[i].key
    <3>1. a.left \in Dicts /\ a.left_version \in 0 .. st[a.left].version
      BY <1>1
    <3> QED
      BY <2>2, <3>1, NotedVersion
  <2>4. /\ st[a.right].version = a.right_version
        /\ Len(su[a.right].entries) = Len(st[a.right].entries)
        /\ \A i \in 1 .. Len(st[a.right].entries) :
              su[a.right].entries[i].key = st[a.right].entries[i].key
    <3>1. a.right \in Dicts /\ a.right_version \in 0 .. st[a.right].version
      BY <1>1
    <3> QED
      BY <2>2, <3>1, NotedVersion
  <2> QED
    BY <2>3, <2>4 DEF EntriesKept
<1>4. EntriesKept(su, a) =>
         /\ SameKeys(su[a.left].entries, a.entries)
         /\ Len(su[a.right].entries) = Len(a.entries)
  BY <1>1, <1>3 DEF SameKeys
<1>5. EntriesOK(su, E, a)
  BY <1>1, <1>2, <1>4 DEF EntriesOK
<1>6. ASSUME NEW m \in Nat, Found(st, a, m)
      PROVE  Found(su, a, m)
  BY <1>3, <1>6 DEF Found
<1> QED
  BY <1>5, <1>6

\* What an operation goes on with stays what it is.
LEMMA KindOutlives ==
  ASSUME NEW st, StoreOK(st), NEW su, StoreOK(su), StoreEvolves(st, su),
         NEW E, NEW kind, NEW owner, NEW key, KindOK(st, E, kind, owner, key)
  PROVE  KindOK(su, E, kind, owner, key)
<1>1. CASE kind.op = "CompareValue"
  <2>1. /\ EntriesOK(st, E, kind.action)
        /\ Found(st, kind.action, kind.action.next - 2)
        /\ owner = kind.action.right
        /\ key = kind.action.entries[kind.action.next - 1].key
    BY <1>1 DEF KindOK
  <2>2. kind.action.next - 2 \in Nat
    BY <2>1, LenProperties DEF EntriesOK
  <2>3. EntriesOK(su, E, kind.action) /\ Found(su, kind.action, kind.action.next - 2)
    BY <2>1, <2>2, EntriesOutlive
  <2> QED
    BY <1>1, <2>1, <2>3 DEF KindOK
<1>2. CASE kind.op # "CompareValue"
  BY <1>2 DEF KindOK
<1> QED
  BY <1>1, <1>2

\* A lookup is not misled by what happens to its dictionary: its version tells.
LEMMA LookupOutlives ==
  ASSUME NEW st, StoreOK(st), NEW su, StoreOK(su), StoreEvolves(st, su),
         NEW E, NEW s, LookupOK(st, E, s)
  PROVE  /\ LookupOK(su, E, s)
         /\ \A m \in Nat : Tried(st, s, m) => Tried(su, s, m)
         /\ su[s.owner].version = s.version =>
               /\ st[s.owner].version = s.version
               /\ su[s.owner].index = st[s.owner].index
               /\ Len(su[s.owner].entries) = Len(st[s.owner].entries)
               /\ \A i \in 1 .. Len(st[s.owner].entries) :
                     su[s.owner].entries[i].key = st[s.owner].entries[i].key
               /\ \A j \in 1 .. Len(s.candidates) : s.candidates[j] \in 1 .. Len(st[s.owner].entries)
<1>1. /\ s = [owner |-> s.owner, key |-> s.key, kind |-> s.kind, hash |-> s.hash, version |-> s.version,
              candidates |-> s.candidates, next |-> s.next, depth |-> s.depth]
      /\ s.owner \in Dicts /\ s.key \in Objects
      /\ s.hash \in Hash /\ HashIs(s.key, s.hash)
      /\ s.version \in 0 .. st[s.owner].version
      /\ s.next \in Nat \ {0}
      /\ st[s.owner].version = s.version => s.candidates = st[s.owner].index[s.hash]
      /\ KindOK(st, E, s.kind, s.owner, s.key)
  BY DEF LookupOK
<1>2. /\ s.version \in 0 .. su[s.owner].version
      /\ su[s.owner].version = s.version =>
            /\ st[s.owner].version = s.version
            /\ su[s.owner].index = st[s.owner].index
            /\ Len(su[s.owner].entries) = Len(st[s.owner].entries)
            /\ \A i \in 1 .. Len(st[s.owner].entries) :
                  su[s.owner].entries[i].key = st[s.owner].entries[i].key
  BY <1>1, NotedVersion
<1>3. LookupOK(su, E, s)
  BY <1>1, <1>2, KindOutlives DEF LookupOK
<1>4. ASSUME st[s.owner].version = s.version, NEW j \in 1 .. Len(s.candidates)
      PROVE  s.candidates[j] \in 1 .. Len(st[s.owner].entries)
  <2> DEFINE t == st[s.owner]
             b == t.index[s.hash]
             hs == t.hashes
  <2>1. DictOK(t) /\ t \in Dict
    BY <1>1 DEF StoreOK, DictOK
  <2>2. b \in Seq(Nat) /\ hs \in Seq(Hash) /\ Lists(b, hs, s.hash) /\ Len(hs) = Len(t.entries)
    BY <1>1, <2>1, DictFields DEF DictOK
  <2>3. s.candidates = b
    BY <1>1, <1>4
  <2> HIDE DEF b, hs, t
  <2>4. \A k \in 1 .. Len(b) : b[k] \in 1 .. Len(hs)
    BY <2>2, ListsMembers
  <2> QED
    BY <1>4, <2>2, <2>3, <2>4 DEF t
<1>5. ASSUME NEW m \in Nat, Tried(st, s, m)
      PROVE  Tried(su, s, m)
  <2>1. SUFFICES ASSUME su[s.owner].version = s.version
                 PROVE  /\ m <= Len(s.candidates)
                        /\ \A j \in 1 .. m : ~KeyEqual(su[s.owner].entries[s.candidates[j]].key, s.key)
    BY DEF Tried
  <2>2. /\ m <= Len(s.candidates)
        /\ \A j \in 1 .. m : ~KeyEqual(st[s.owner].entries[s.candidates[j]].key, s.key)
    BY <1>2, <1>5, <2>1 DEF Tried
  <2>3. Len(s.candidates) \in Nat
    <3>1. st[s.owner].index[s.hash] \in Seq(Nat)
      BY <1>1, DictFields DEF StoreOK
    <3> QED
      BY <1>1, <1>2, <2>1, <3>1, LenProperties
  <2>4. \A j \in 1 .. m : s.candidates[j] \in 1 .. Len(st[s.owner].entries)
    BY <1>2, <1>4, <2>1, <2>2, <2>3
  <2> QED
    BY <1>2, <2>1, <2>2, <2>4
<1> QED
  BY <1>2, <1>3, <1>4, <1>5

\* What waits goes on waiting for the same, whatever happens to the dictionaries.
LEMMA ClosedOutlives ==
  ASSUME NEW st, StoreOK(st), NEW su, StoreOK(su), StoreEvolves(st, su),
         NEW H, NEW E, Closed(st, H, E)
  PROVE  Closed(su, H, E)
<1>1. ASSUME NEW v, NEW a, <<v, a>> \in H
      PROVE  HashWait(su, H, E, v, a)
  <2>1. HashWait(st, H, E, v, a)
    BY <1>1 DEF Closed
  <2>2. CASE KeyHashed(st, E, v, a)
    <3>1. KeyHashed(su, E, v, a)
      BY <2>2, KindOutlives DEF KeyHashed
    <3> QED
      BY <2>1, <3>1 DEF HashWait
  <2>3. CASE ElementHashed(H, v, a)
    BY <2>1, <2>3 DEF HashWait
  <2> QED
    BY <2>1, <2>2, <2>3 DEF HashWait
<1>2. ASSUME NEW l, NEW r, NEW a, <<l, r, a>> \in E
      PROVE  EqualityWait(su, E, l, r, a)
  <2>1. EqualityWait(st, E, l, r, a)
    BY <1>2 DEF Closed
  <2>2. CASE a.tag = "Return" \/ ElementCompared(E, l, r, a)
    BY <2>1, <2>2 DEF EqualityWait
  <2>3. CASE CandidateCompared(st, E, l, r, a)
    <3> DEFINE s == a.state
    <3>1. /\ LookupOK(st, E, s) /\ s.next >= 2 /\ Tried(st, s, s.next - 2) /\ l \in Objects /\ r = s.key
          /\ a = [tag |-> "DictCandidate", state |-> s, index |-> a.index]
          /\ st[s.owner].version = s.version =>
                /\ s.next - 1 <= Len(s.candidates)
                /\ a.index = s.candidates[s.next - 1]
                /\ l = st[s.owner].entries[a.index].key
      BY <2>3 DEF CandidateCompared
    <3> HIDE DEF s
    <3>2. s.next \in Nat /\ s.next - 2 \in Nat /\ s.next - 1 \in Nat \ {0}
      BY <3>1 DEF LookupOK
    <3>3. LookupOK(su, E, s) /\ Tried(su, s, s.next - 2)
      BY <3>1, <3>2, LookupOutlives
    <3>4. su[s.owner].version = s.version =>
             /\ st[s.owner].version = s.version
             /\ \A i \in 1 .. Len(st[s.owner].entries) :
                   su[s.owner].entries[i].key = st[s.owner].entries[i].key
             /\ \A j \in 1 .. Len(s.candidates) : s.candidates[j] \in 1 .. Len(st[s.owner].entries)
      BY <3>1, LookupOutlives
    <3>5. su[s.owner].version = s.version =>
             /\ s.next - 1 <= Len(s.candidates)
             /\ a.index = s.candidates[s.next - 1]
             /\ l = su[s.owner].entries[a.index].key
      <4>1. SUFFICES ASSUME su[s.owner].version = s.version
                     PROVE  l = su[s.owner].entries[a.index].key
        BY <3>1, <3>4
      <4>2. s.owner \in Dicts /\ s.hash \in Hash /\ s.candidates = st[s.owner].index[s.hash]
        BY <3>1, <3>4, <4>1 DEF LookupOK
      <4>3. Len(s.candidates) \in Nat
        BY <4>2, DictFields, LenProperties DEF StoreOK
      <4>4. s.next - 1 \in 1 .. Len(s.candidates)
        BY <3>1, <3>2, <3>4, <4>1, <4>3
      <4>5. a.index \in 1 .. Len(st[s.owner].entries)
        BY <3>1, <3>4, <4>1, <4>4
      <4> QED
        BY <3>1, <3>4, <4>1, <4>5
    <3>6. CandidateCompared(su, E, l, r, a)
      BY <3>1, <3>3, <3>5 DEF CandidateCompared, s
    <3> QED
      BY <2>1, <3>6 DEF EqualityWait
  <2>4. CASE EntriesOK(st, E, a) /\ Found(st, a, a.next - 1)
    <3>1. a.next - 1 \in Nat
      BY <2>4, LenProperties DEF EntriesOK
    <3>2. EntriesOK(su, E, a) /\ Found(su, a, a.next - 1)
      BY <2>4, <3>1, EntriesOutlive
    <3> QED
      BY <2>1, <3>2 DEF EqualityWait
  <2> QED
    BY <2>1, <2>2, <2>3, <2>4 DEF EqualityWait
<1> QED
  BY <1>1, <1>2 DEF Closed

\* More waiting actions change nothing for the others.
LEMMA KindGrows ==
  ASSUME NEW st, NEW E, NEW F, E \subseteq F,
         NEW kind, NEW owner, NEW key, KindOK(st, E, kind, owner, key)
  PROVE  KindOK(st, F, kind, owner, key)
  BY DEF KindOK, EntriesOK

\* As KindGrows, for a lookup.
LEMMA LookupGrows ==
  ASSUME NEW st, NEW E, NEW F, E \subseteq F, NEW s, LookupOK(st, E, s)
  PROVE  LookupOK(st, F, s)
  BY KindGrows DEF LookupOK

\* As KindGrows, for what waits for a hash.
LEMMA HashWaitGrows ==
  ASSUME NEW st, NEW H, NEW G, H \subseteq G, NEW E, NEW F, E \subseteq F,
         NEW v, NEW a, HashWait(st, H, E, v, a)
  PROVE  HashWait(st, G, F, v, a)
<1>1. CASE KeyHashed(st, E, v, a)
  BY <1>1, KindGrows DEF HashWait, KeyHashed
<1>2. CASE ElementHashed(H, v, a)
  BY <1>2 DEF HashWait, ElementHashed
<1> QED
  BY <1>1, <1>2 DEF HashWait

\* As KindGrows, for what waits for a comparison.
LEMMA EqualityWaitGrows ==
  ASSUME NEW st, NEW E, NEW F, E \subseteq F, NEW l, NEW r, NEW a, EqualityWait(st, E, l, r, a)
  PROVE  EqualityWait(st, F, l, r, a)
<1>1. CASE ElementCompared(E, l, r, a)
  BY <1>1 DEF EqualityWait, ElementCompared
<1>2. CASE CandidateCompared(st, E, l, r, a)
  BY <1>2, LookupGrows DEF EqualityWait, CandidateCompared
<1>3. CASE EntriesOK(st, E, a) /\ Found(st, a, a.next - 1)
  BY <1>3 DEF EqualityWait, EntriesOK
<1>4. CASE a.tag = "Return"
  BY <1>4 DEF EqualityWait
<1> QED
  BY <1>1, <1>2, <1>3, <1>4 DEF EqualityWait

\* An action that begins to wait for a hash.
LEMMA AddHash ==
  ASSUME NEW st, NEW H, NEW E, Closed(st, H, E), NEW v, NEW a, HashWait(st, H, E, v, a)
  PROVE  Closed(st, H \cup {<<v, a>>}, E)
<1> DEFINE G == H \cup {<<v, a>>}
<1>1. ASSUME NEW w, NEW b, <<w, b>> \in G
      PROVE  HashWait(st, G, E, w, b)
  <2>1. HashWait(st, H, E, w, b)
    <3>1. CASE <<w, b>> \in H
      BY <3>1 DEF Closed
    <3>2. CASE w = v /\ b = a
      BY <3>2
    <3> QED
      BY <1>1, <3>1, <3>2
  <2>2. H \subseteq G
    OBVIOUS
  <2> HIDE DEF G
  <2> QED
    BY <2>1, <2>2, HashWaitGrows
<1>2. ASSUME NEW l, NEW r, NEW b, <<l, r, b>> \in E
      PROVE  EqualityWait(st, E, l, r, b)
  BY <1>2 DEF Closed
<1> QED
  BY <1>1, <1>2 DEF Closed

\* An action that begins to wait for a comparison.
LEMMA AddEquality ==
  ASSUME NEW st, NEW H, NEW E, Closed(st, H, E), NEW l, NEW r, NEW a, EqualityWait(st, E, l, r, a)
  PROVE  Closed(st, H, E \cup {<<l, r, a>>})
<1> DEFINE F == E \cup {<<l, r, a>>}
<1>1. E \subseteq F
  OBVIOUS
<1>2. ASSUME NEW v, NEW b, <<v, b>> \in H
      PROVE  HashWait(st, H, F, v, b)
  <2>1. HashWait(st, H, E, v, b)
    BY <1>2 DEF Closed
  <2> HIDE DEF F
  <2> QED
    BY <1>1, <2>1, HashWaitGrows
<1>3. ASSUME NEW x, NEW y, NEW b, <<x, y, b>> \in F
      PROVE  EqualityWait(st, F, x, y, b)
  <2>1. EqualityWait(st, E, x, y, b)
    <3>1. CASE <<x, y, b>> \in E
      BY <3>1 DEF Closed
    <3>2. CASE x = l /\ y = r /\ b = a
      BY <3>2
    <3> QED
      BY <1>3, <3>1, <3>2
  <2> HIDE DEF F
  <2> QED
    BY <1>1, <2>1, EqualityWaitGrows
<1> QED
  BY <1>2, <1>3 DEF Closed

-----------------------------------------------------------------------------
(* The shapes of a step. *)

\* As KindGrows, for the frames.
LEMMA FramesGrow ==
  ASSUME NEW H, NEW G, H \subseteq G, NEW E, NEW F, E \subseteq F, NEW fs, FramesOK(H, E, fs)
  PROVE  FramesOK(G, F, fs)
  BY DEF FramesOK, FrameOK

\* What is right already follows.
LEMMA FollowsNow ==
  ASSUME NEW st, NEW H, NEW E, Closed(st, H, E), NEW c, CallOK(st, H, E, c)
  PROVE  Follows(st, H, E, c)
  BY DEF Follows

\* A hash that something waits for (HashCall).
LEMMA FollowsHash ==
  ASSUME NEW st, NEW H, NEW E, Closed(st, H, E), NEW v, NEW depth, NEW a, HashWait(st, H, E, v, a)
  PROVE  Follows(st, H, E, HashCall(v, depth, a))
<1> DEFINE G == H \cup {<<v, a>>}
           c == HashCall(v, depth, a)
<1>1. Closed(st, G, E)
  BY AddHash
<1>2. c.at = "hash" /\ <<c.value, c.action>> \in G
  BY DEF HashCall
<1>3. H \subseteq G
  OBVIOUS
<1> HIDE DEF G, c
<1>4. CallOK(st, G, E, c)
  BY <1>2 DEF CallOK
<1>5. Follows(st, H, E, c)
  BY <1>1, <1>3, <1>4 DEF Follows
<1> QED
  BY <1>5 DEF c

\* A comparison that something waits for (EqualityCall).
LEMMA FollowsEquality ==
  ASSUME NEW st, NEW H, NEW E, Closed(st, H, E), NEW l, NEW r, NEW a, EqualityWait(st, E, l, r, a)
  PROVE  Follows(st, H, E, EqualityCall(l, r, a))
<1> DEFINE F == E \cup {<<l, r, a>>}
           c == EqualityCall(l, r, a)
<1>1. Closed(st, H, F)
  BY AddEquality
<1>2. c.at = "equality" /\ <<c.left, c.right, c.action>> \in F
  BY DEF EqualityCall
<1>3. E \subseteq F
  OBVIOUS
<1> HIDE DEF F, c
<1>4. CallOK(st, H, F, c)
  BY <1>2 DEF CallOK
<1>5. Follows(st, H, E, c)
  BY <1>1, <1>3, <1>4 DEF Follows
<1> QED
  BY <1>5 DEF c

\* The hash of a key, which every operation begins with (invoke_dict_operation).
LEMMA FollowsOperation ==
  ASSUME NEW st, NEW H, NEW E, Closed(st, H, E),
         NEW owner \in Dicts, NEW key \in Operand, NEW kind, KindOK(st, E, kind, owner, key)
  PROVE  Follows(st, H, E, invoke_dict_operation(owner, key, kind))
<1> DEFINE a == [tag |-> "Dict", owner |-> owner, key |-> key, kind |-> kind]
<1>1. a.owner = owner /\ a.key = key /\ a.kind = kind
      /\ a = [tag |-> "Dict", owner |-> a.owner, key |-> a.key, kind |-> a.kind]
  OBVIOUS
<1> HIDE DEF a
<1>2. HashWait(st, H, E, key, a)
  BY <1>1 DEF HashWait, KeyHashed
<1>3. Follows(st, H, E, HashCall(key, 0, a))
  BY <1>2, FollowsHash
<1> QED
  BY <1>3 DEF invoke_dict_operation, a

\* The answer to a comparison that something waits for (CompleteEquality).
LEMMA FollowsAnswer ==
  ASSUME NEW st, NEW H, NEW E, Closed(st, H, E), NEW l, NEW r, NEW a, <<l, r, a>> \in E,
         NEW equal, AnswerOK(l, r, equal)
  PROVE  Follows(st, H, E, CompleteEquality(equal, a))
<1> DEFINE c == CompleteEquality(equal, a)
<1>1. c.at = "complete_equality" /\ c.equal = equal /\ c.action = a
  BY DEF CompleteEquality
<1> HIDE DEF c
<1>2. CallOK(st, H, E, c)
  BY <1>1 DEF CallOK
<1>3. Follows(st, H, E, c)
  BY <1>2, FollowsNow
<1> QED
  BY <1>3 DEF c

\* A hash that something waits for is known (CompleteHash).
LEMMA FollowsHashed ==
  ASSUME NEW st, NEW H, NEW E, Closed(st, H, E), NEW v \in Objects, NEW a, <<v, a>> \in H,
         NEW h \in Hash, HashIs(v, h)
  PROVE  Follows(st, H, E, CompleteHash(h, a))
<1> DEFINE c == CompleteHash(h, a)
<1>1. c.at = "complete_hash" /\ c.hash = h /\ c.action = a
  BY DEF CompleteHash
<1> HIDE DEF c
<1>2. CallOK(st, H, E, c)
  BY <1>1 DEF CallOK
<1>3. Follows(st, H, E, c)
  BY <1>2, FollowsNow
<1> QED
  BY <1>3 DEF c

\* Bytecode may run at any time.
LEMMA FollowsGuest ==
  ASSUME NEW st, NEW H, NEW E, Closed(st, H, E)
  PROVE  Follows(st, H, E, GuestCode)
<1>1. CallOK(st, H, E, GuestCode)
  BY DEF CallOK, GuestCode
<1> QED
  BY <1>1, FollowsNow

\* A step that only decides about the next call (Jump, Fail).
LEMMA JumpKeeps ==
  ASSUME NEW H, NEW E, Context(H, E), UNCHANGED <<program, store, frames>>,
         Follows(store, H, E, now')
  PROVE  Inductive'
<1>1. PICK G, F : H \subseteq G /\ E \subseteq F /\ Closed(store, G, F) /\ CallOK(store, G, F, now')
  BY DEF Follows
<1>2. /\ program' \in Programs /\ StoreOK(store') /\ Closed(store', G, F)
      /\ FramesOK(G, F, frames') /\ CallOK(store', G, F, now')
      /\ \E S : frames' \in Seq(S)
  BY <1>1, FramesGrow DEF Context
<1> QED
  BY <1>2 DEF Inductive, Context

\* What an operation had left to do is dropped.
LEMMA FailKeeps ==
  ASSUME NEW H, NEW E, Context(H, E), Fail
  PROVE  Inductive'
<1>1. Follows(store, H, E, GuestCode)
  BY FollowsGuest DEF Context
<1> QED
  BY <1>1, JumpKeeps DEF Fail

\* A method begins to run (Push).
LEMMA PushKeeps ==
  ASSUME NEW H, NEW E, Context(H, E), NEW STATE f, FrameOK(H, E, f), Push(f)
  PROVE  Inductive'
<1>1. CASE Len(frames) = RecursionLimit
  BY <1>1, FailKeeps DEF Push
<1>2. CASE Len(frames) # RecursionLimit
  <2>1. frames' = Append(frames, f) /\ now' = GuestCode /\ UNCHANGED <<program, store>>
    BY <1>2 DEF Push
  <2>2. PICK S : frames \in Seq(S)
    BY DEF Context
  <2>3. frames \in Seq(S \cup {f}) /\ Len(frames) \in Nat
    BY <2>2, SeqMonotonic, LenProperties
  <2>4. /\ frames' \in Seq(S \cup {f}) /\ Len(frames') = Len(frames) + 1
        /\ frames'[Len(frames) + 1] = f
        /\ \A i \in 1 .. Len(frames) : frames'[i] = frames[i]
    BY <2>1, <2>3, AppendProperties
  <2>5. FramesOK(H, E, frames')
    BY <2>3, <2>4 DEF FramesOK, Context
  <2>6. CallOK(store', H, E, now')
    BY <2>1 DEF CallOK, GuestCode
  <2> QED
    BY <2>1, <2>4, <2>5, <2>6 DEF Inductive, Context
<1> QED
  BY <1>1, <1>2

\* A step that changes one dictionary.
LEMMA StoreKeeps ==
  ASSUME NEW H, NEW E, Context(H, E), UNCHANGED <<program, frames>>,
         StoreOK(store'), StoreEvolves(store, store'), CallOK(store', H, E, now')
  PROVE  Inductive'
<1>1. Closed(store', H, E)
  BY ClosedOutlives DEF Context
<1> QED
  BY <1>1 DEF Inductive, Context

-----------------------------------------------------------------------------
(* The steps of the program. *)

\* What the program of a run uses.
LEMMA ProgramUses ==
  ASSUME program \in Programs
  PROVE  /\ program.keys \subseteq Operand
         /\ program.values \subseteq Operand
         /\ program.dicts \subseteq Dicts
  BY ProgramAssumption

\* An operation that hashes its key first.
LEMMA OperationStep ==
  ASSUME NEW H, NEW E, Context(H, E), NEW op, NEW d \in Dicts, NEW k \in Operand,
         NEW kind, KindOK(store, E, kind, d, k),
         Begin(op, invoke_dict_operation(d, k, kind)), UNCHANGED store
  PROVE  Inductive'
<1>1. Follows(store, H, E, invoke_dict_operation(d, k, kind))
  BY FollowsOperation DEF Context
<1>2. now' = invoke_dict_operation(d, k, kind) /\ UNCHANGED <<program, store, frames>>
  BY DEF Begin
<1>3. Follows(store, H, E, now')
  BY <1>1, <1>2
<1> QED
  BY <1>2, <1>3, JumpKeeps

\* A comparison of two values.
LEMMA CompareStep ==
  ASSUME NEW H, NEW E, Context(H, E), NEW a \in Operand, NEW b \in Operand, Compare(a, b)
  PROVE  Inductive'
<1> DEFINE r == [tag |-> "Return"]
<1>1. EqualityWait(store, E, a, b, r)
  BY DEF EqualityWait, Value
<1>2. now' = EqualityCall(a, b, r) /\ UNCHANGED <<program, store, frames>>
  BY DEF Compare, Begin
<1> HIDE DEF r
<1>3. Follows(store, H, E, EqualityCall(a, b, r))
  BY <1>1, FollowsEquality DEF Context
<1>4. Follows(store, H, E, now')
  BY <1>2, <1>3
<1> QED
  BY <1>2, <1>4, JumpKeeps

\* A merge begins with a copy of the entries of its source (invoke_dict_merge).
LEMMA MergeBegins ==
  ASSUME StoreOK(store), NEW d \in Dicts, NEW e \in Dicts, NEW finish \in Starts \cup {None}
  PROVE  /\ invoke_dict_merge(d, e, finish).at = "merge"
         /\ invoke_dict_merge(d, e, finish).state \in MergeStates
<1>1. store[e].entries \in Seq(Entry)
  BY DictFields DEF StoreOK
<1> QED
  BY <1>1 DEF invoke_dict_merge, MergeStates

\* dict.__init__.
LEMMA InitStep ==
  ASSUME NEW H, NEW E, Context(H, E), NEW d \in Dicts, NEW source, NEW keywords \in Keywords,
         DictInit(d, source, keywords)
  PROVE  Inductive'
<1> DEFINE start == [result |-> d, keywords |-> keywords]
<1>1. start \in Starts
  BY DEF Starts
<1>2. StoreOK(store)
  BY DEF Context
<1>3. /\ now' = IF source \in DOMAIN Sources
                THEN [at |-> "construction", state |-> [start |-> start, iterator |-> Sources[source]]]
                ELSE IF source \in Dicts \ {d} THEN invoke_dict_merge(d, source, start)
                ELSE [at |-> "construction_done", start |-> start]
      /\ UNCHANGED <<program, frames>>
      /\ store' = IF source = d THEN store ELSE [store EXCEPT ![d] = dict_clear(@)]
  BY DEF DictInit, Begin
<1> HIDE DEF start
<1>4. \/ now'.at = "construction" /\ now'.state \in ConstructionStates
      \/ now'.at = "merge" /\ now'.state \in MergeStates
      \/ now'.at = "construction_done" /\ now'.start \in Starts
  <2>1. CASE source \in DOMAIN Sources
    <3>1. Sources[source] \in Iterators
      BY <2>1, ProgramAssumption
    <3> QED
      BY <1>1, <1>3, <2>1, <3>1 DEF ConstructionStates
  <2>2. CASE source \notin DOMAIN Sources /\ source \in Dicts \ {d}
    <3>1. now' = invoke_dict_merge(d, source, start)
      BY <1>3, <2>2
    <3>2. start \in Starts \cup {None}
      BY <1>1
    <3> QED
      BY <1>2, <2>2, <3>1, <3>2, MergeBegins
  <2>3. CASE source \notin DOMAIN Sources /\ source \notin Dicts \ {d}
    BY <1>1, <1>3, <2>3
  <2> QED
    BY <2>1, <2>2, <2>3
<1>5. CallOK(store', H, E, now')
  BY <1>4 DEF CallOK
<1>6. StoreOK(store') /\ StoreEvolves(store, store')
  <2>1. CASE source = d
    <3>1. \A e \in Dicts : Evolves(store[e], store[e])
      BY DEF Evolves, SameKeys
    <3> QED
      BY <1>2, <1>3, <2>1, <3>1 DEF StoreEvolves
  <2>2. CASE source # d
    <3>1. DictOK(dict_clear(store[d])) /\ Evolves(store[d], dict_clear(store[d]))
      BY <1>2, ClearKeeps DEF StoreOK
    <3>2. store' = [store EXCEPT ![d] = dict_clear(store[d])]
      BY <1>3, <2>2
    <3> QED
      BY <1>2, <3>1, <3>2, StoreChange
  <2> QED
    BY <2>1, <2>2
<1> QED
  BY <1>3, <1>5, <1>6, StoreKeeps

\* The operations that bytecode begins.
LEMMA ProgramKeeps ==
  ASSUME Inductive, Program
  PROVE  Inductive'
<1>1. PICK H, E : Context(H, E)
  BY DEF Inductive
<1>2. /\ program.keys \subseteq Operand
      /\ program.values \subseteq Operand
      /\ program.dicts \subseteq Dicts
  BY <1>1, ProgramUses DEF Context
<1>3. ASSUME NEW d \in Dicts, NEW k \in Operand,
             \/ ContainsKey(d, k) \/ SetAdd(d, k) \/ GetItem(d, k) \/ DelItem(d, k)
             \/ MatchKey(d, k) \/ MatchUnique(d, k)
      PROVE  Inductive'
  <2>1. ASSUME NEW op, Begin(op, invoke_dict_operation(d, k, [op |-> op])), UNCHANGED store,
               op \in {"Get", "MatchKey", "Contains", "Delete", "SetAdd", "MatchUnique"}
        PROVE  Inductive'
    <3>1. KindOK(store, E, [op |-> op], d, k)
      BY <2>1 DEF KindOK
    <3> QED
      BY <1>1, <2>1, <3>1, OperationStep
  <2> QED
    BY <1>3, <2>1 DEF ContainsKey, SetAdd, GetItem, DelItem, MatchKey, MatchUnique
<1>4. ASSUME NEW d \in Dicts, NEW k \in Operand, NEW v \in Operand, SetItem(d, k, v)
      PROVE  Inductive'
  <2>1. KindOK(store, E, [op |-> "Set", value |-> v], d, k)
    BY DEF KindOK, Value
  <2> QED
    BY <1>1, <1>4, <2>1, OperationStep DEF SetItem
<1>5. ASSUME NEW d \in Dicts, NEW e \in Dicts, DictMerge(d, e)
      PROVE  Inductive'
  <2>1. now' = invoke_dict_merge(d, e, None) /\ UNCHANGED <<program, store, frames>>
    BY <1>5 DEF DictMerge, Begin
  <2>2. now'.at = "merge" /\ now'.state \in MergeStates
    BY <1>1, <2>1, MergeBegins DEF Context
  <2>3. CallOK(store, H, E, now')
    BY <2>2 DEF CallOK
  <2>4. Follows(store, H, E, now')
    BY <1>1, <2>3, FollowsNow DEF Context
  <2> QED
    BY <1>1, <2>1, <2>4, JumpKeeps
<1>6. ASSUME NEW a \in Operand, NEW b \in Operand, Compare(a, b)
      PROVE  Inductive'
  BY <1>1, <1>6, CompareStep
<1>7. ASSUME NEW d \in Dicts, NEW s, NEW k \in Keywords, DictInit(d, s, k)
      PROVE  Inductive'
  BY <1>1, <1>7, InitStep
<1> QED
  BY <1>2, <1>3, <1>4, <1>5, <1>6, <1>7 DEF Program, Operand

-----------------------------------------------------------------------------
(* The ends of methods. *)

\* The method at the top of the stack has ended.
LEMMA PopKeeps ==
  ASSUME NEW H, NEW E, Context(H, E), frames # <<>>, Pop, UNCHANGED <<program, store>>,
         CallOK(store, H, E, now')
  PROVE  Inductive'
<1>1. PICK S : frames \in Seq(S)
  BY DEF Context
<1>2. Len(frames) \in Nat \ {0}
  BY <1>1, EmptySeq, LenProperties
<1>3. /\ frames' \in Seq(S) /\ Len(frames') = Len(frames) - 1
      /\ \A i \in 1 .. Len(frames) - 1 : frames'[i] = frames[i]
  <2> DEFINE n == Len(frames) - 1
  <2>1. n \in Nat /\ n <= Len(frames) /\ frames' = SubSeq(frames, 1, n)
    BY <1>2 DEF Pop
  <2> HIDE DEF n
  <2>2. /\ SubSeq(frames, 1, n) \in Seq(S) /\ Len(SubSeq(frames, 1, n)) = n
        /\ \A i \in 1 .. n : SubSeq(frames, 1, n)[i] = frames[i]
    BY <1>1, <1>2, <2>1
  <2> QED
    BY <2>1, <2>2 DEF n
<1>4. FramesOK(H, E, frames')
  BY <1>2, <1>3 DEF FramesOK, Context
<1> QED
  BY <1>3, <1>4 DEF Inductive, Context

\* What waits for the method at the top of the stack.
LEMMA TopFrame ==
  ASSUME NEW H, NEW E, Context(H, E), frames # <<>>
  PROVE  FrameOK(H, E, Top)
<1>1. PICK S : frames \in Seq(S)
  BY DEF Context
<1>2. Len(frames) \in 1 .. Len(frames)
  BY <1>1, EmptySeq, LenProperties
<1> QED
  BY <1>2 DEF FramesOK, Context, Top

\* The first element of what is left, and the others.
LEMMA HeadAndTail ==
  ASSUME NEW S, NEW s \in Seq(S), s # <<>>
  PROVE  Head(s) \in S /\ Tail(s) \in Seq(S)
  BY HeadTailProperties

\* The next pair of a construction.
LEMMA PairBegins ==
  ASSUME NEW s \in ConstructionStates, NEW rest \in Seq(Pairs)
  PROVE  [outer |-> [s EXCEPT !.iterator.rest = rest], items |-> <<>>] \in PairStates
<1>1. s = [start |-> s.start, iterator |-> s.iterator] /\ s.start \in Starts /\ s.iterator \in Iterators
  BY DEF ConstructionStates
<1>2. [s.iterator EXCEPT !.rest = rest] \in Iterators
  BY <1>1 DEF Iterators
<1>3. [s EXCEPT !.iterator.rest = rest] = [start |-> s.start, iterator |-> [s.iterator EXCEPT !.rest = rest]]
  BY <1>1
<1>4. [s EXCEPT !.iterator.rest = rest] \in ConstructionStates
  BY <1>1, <1>2, <1>3 DEF ConstructionStates
<1>5. <<>> \in Seq(Operand)
  BY EmptySeq
<1> QED
  BY <1>4, <1>5 DEF PairStates

\* More elements of a pair.
LEMMA PairGrows ==
  ASSUME NEW s \in PairStates, NEW items \in Seq(Operand)
  PROVE  [s EXCEPT !.items = items] \in PairStates
  BY DEF PairStates

\* A method returns.
LEMMA ReturnKeeps ==
  ASSUME Inductive, Return
  PROVE  Inductive'
<1>1. PICK H, E : Context(H, E)
  BY DEF Inductive
<1> DEFINE f == Top
           a == f.action
<1>2. FrameOK(H, E, f)
  BY <1>1, TopFrame DEF Return
<1>3. /\ frames # <<>> /\ Pop /\ UNCHANGED <<program, store>>
      /\ f.method = "next" => f.rest # <<>>
      /\ now' = IF f.method = "hash" THEN CompleteHash(HashOf[f.value], a)
                ELSE IF f.method = "eq" THEN CompleteEquality(f.equal, a)
                ELSE IF a.tag = "DictIterableNext"
                THEN [at |-> "pair", iterator |-> Head(f.rest),
                      state |-> [outer |-> [a.state EXCEPT !.iterator.rest = Tail(f.rest)], items |-> <<>>]]
                ELSE [at |-> "pair", iterator |-> [guest |-> TRUE, rest |-> Tail(f.rest)],
                      state |-> [a.state EXCEPT !.items = Append(@, Head(f.rest))]]
  BY DEF Return
<1> HIDE DEF f
<1>4. CASE f.method = "hash"
  <2>1. f.value \in Objects /\ f.value \in Guest /\ <<f.value, a>> \in H
    BY <1>2, <1>4, ObjectAssumption DEF FrameOK
  <2>2. HashOf[f.value] \in Hash /\ HashIs(f.value, HashOf[f.value])
    BY <2>1, ObjectHash, ObjectAssumption DEF HashIs
  <2>3. now'.at = "complete_hash" /\ now'.action = a /\ now'.hash = HashOf[f.value]
    BY <1>3, <1>4 DEF CompleteHash
  <2>4. CallOK(store, H, E, now')
    BY <2>1, <2>2, <2>3 DEF CallOK
  <2> QED
    BY <1>1, <1>3, <2>4, PopKeeps
<1>5. CASE f.method = "eq"
  <2>1. \E l, r : <<l, r, a>> \in E /\ AnswerOK(l, r, f.equal)
    BY <1>2, <1>5 DEF FrameOK
  <2>2. now'.at = "complete_equality" /\ now'.action = a /\ now'.equal = f.equal
    BY <1>3, <1>5 DEF CompleteEquality
  <2>3. CallOK(store, H, E, now')
    BY <2>1, <2>2 DEF CallOK
  <2> QED
    BY <1>1, <1>3, <2>3, PopKeeps
<1>6. CASE f.method = "next" /\ a.tag = "DictIterableNext"
  <2>1. a.state \in ConstructionStates /\ f.rest \in Seq(Pairs) /\ f.rest # <<>>
    BY <1>2, <1>3, <1>6 DEF FrameOK
  <2>2. Head(f.rest) \in Pairs /\ Tail(f.rest) \in Seq(Pairs)
    BY <2>1, HeadAndTail
  <2>3. [outer |-> [a.state EXCEPT !.iterator.rest = Tail(f.rest)], items |-> <<>>] \in PairStates
    BY <2>1, <2>2, PairBegins
  <2>4. now'.at = "pair" /\ now'.iterator \in Pairs /\ now'.state \in PairStates
    BY <1>3, <1>6, <2>2, <2>3
  <2>5. CallOK(store, H, E, now')
    BY <2>4 DEF CallOK
  <2> QED
    BY <1>1, <1>3, <2>5, PopKeeps
<1>7. CASE f.method = "next" /\ a.tag = "DictPairNext"
  <2>1. a.state \in PairStates /\ f.rest \in Seq(Operand) /\ f.rest # <<>>
    BY <1>2, <1>3, <1>7 DEF FrameOK
  <2>2. Head(f.rest) \in Operand /\ Tail(f.rest) \in Seq(Operand)
    BY <2>1, HeadAndTail
  <2>3. a.state.items \in Seq(Operand)
    BY <2>1 DEF PairStates
  <2>4. Append(a.state.items, Head(f.rest)) \in Seq(Operand)
    BY <2>2, <2>3, AppendProperties
  <2>5. [a.state EXCEPT !.items = Append(@, Head(f.rest))] \in PairStates
    BY <2>1, <2>4, PairGrows
  <2>6. [guest |-> TRUE, rest |-> Tail(f.rest)] \in Pairs
    BY <2>2 DEF Pairs
  <2>7. now'.at = "pair" /\ now'.iterator \in Pairs /\ now'.state \in PairStates
    BY <1>3, <1>7, <2>5, <2>6
  <2>8. CallOK(store, H, E, now')
    BY <2>7 DEF CallOK
  <2> QED
    BY <1>1, <1>3, <2>8, PopKeeps
<1> QED
  BY <1>2, <1>4, <1>5, <1>6, <1>7 DEF FrameOK

\* A __next__ has no more elements.
LEMMA StopKeeps ==
  ASSUME Inductive, Stop
  PROVE  Inductive'
<1>1. PICK H, E : Context(H, E)
  BY DEF Inductive
<1> DEFINE f == Top
           a == f.action
<1>2. FrameOK(H, E, f)
  BY <1>1, TopFrame DEF Stop
<1>3. /\ frames # <<>> /\ Pop /\ UNCHANGED <<program, store>> /\ f.method = "next"
      /\ now' = IF a.tag = "DictIterableNext" THEN [at |-> "construction_done", start |-> a.state.start]
                ELSE [at |-> "pair_done", state |-> a.state]
  BY DEF Stop
<1> HIDE DEF f
<1>4. \/ now'.at = "construction_done" /\ now'.start \in Starts
      \/ now'.at = "pair_done" /\ now'.state \in PairStates
  BY <1>2, <1>3 DEF FrameOK, ConstructionStates
<1>5. CallOK(store, H, E, now')
  BY <1>4 DEF CallOK
<1> QED
  BY <1>1, <1>3, <1>5, PopKeeps

\* An exception leaves a method.
LEMMA RaiseKeeps ==
  ASSUME Inductive, Raise
  PROVE  Inductive'
<1>1. PICK H, E : Context(H, E)
  BY DEF Inductive
<1>2. frames # <<>> /\ Pop /\ UNCHANGED <<program, store, now>> /\ now.at = "guest"
  BY DEF Raise, Running
<1>3. CallOK(store, H, E, now')
  BY <1>2 DEF CallOK
<1> QED
  BY <1>1, <1>2, <1>3, PopKeeps

-----------------------------------------------------------------------------
(* The steps of hashing. *)

\* Tuples have elements, and they are atoms.
LEMMA TupleItems ==
  ASSUME NEW o \in Objects
  PROVE  /\ Items[o] \in Seq(Objects) /\ Len(Items[o]) \in Nat
         /\ IsTuple(o) => Len(Items[o]) >= 1
         /\ \A i \in 1 .. Len(Items[o]) : Items[o][i] \in Objects /\ ~IsTuple(Items[o][i])
<1>1. Items[o] \in Seq(Objects)
  BY ObjectAssumption
<1>2. \A i \in 1 .. Len(Items[o]) : Items[o][i] \in Objects
  BY <1>1
<1>3. Items[o] # <<>> => Len(Items[o]) # 0
  BY <1>1, EmptySeq
<1>4. Len(Items[o]) \in Nat
  BY <1>1, LenProperties
<1> QED
  BY <1>1, <1>2, <1>3, <1>4, ObjectAssumption DEF IsTuple

\* The hash of the first element of a tuple.
LEMMA FirstElement ==
  ASSUME NEW st, NEW H, NEW E, NEW v \in Objects, IsTuple(v), NEW a, <<v, a>> \in H, NEW depth
  PROVE  HashWait(st, H, E, Items[v][1], [tag |-> "Sequence", values |-> Items[v], next |-> 2,
                                          acc |-> sequence_start, depth |-> depth, outer |-> a])
<1> DEFINE b == [tag |-> "Sequence", values |-> Items[v], next |-> 2, acc |-> sequence_start,
                 depth |-> depth, outer |-> a]
<1>1. /\ b = [tag |-> "Sequence", values |-> b.values, next |-> b.next, acc |-> b.acc, depth |-> b.depth,
              outer |-> b.outer]
      /\ b.values = Items[v] /\ b.next = 2 /\ b.acc = sequence_start /\ b.outer = a
  OBVIOUS
<1> HIDE DEF b
<1>2. Len(Items[v]) \in Nat /\ Len(Items[v]) >= 1 /\ Items[v][1] \in Objects
  BY TupleItems
<1>3. sequence_start \in Hash
  <2>1. HashOf[v] \in Hash
    BY ObjectHash
  <2> QED
    BY <2>1, HashAssumption DEF Hash, sequence_start
<1>4. Partial(Items[v], 0, sequence_start)
  <2> DEFINE f == [k \in 0 .. 0 |-> sequence_start]
  <2>1. f \in [0 .. 0 -> Hash] /\ f[0] = sequence_start
    BY <1>3
  <2>2. \A k \in 1 .. 0 : f[k] = sequence_step(f[k - 1], HashOf[Items[v][k]])
    OBVIOUS
  <2> HIDE DEF f
  <2> QED
    BY <2>1, <2>2 DEF Partial
<1>5. ElementHashed(H, Items[v][1], b)
  BY <1>1, <1>2, <1>3, <1>4 DEF ElementHashed
<1>6. HashWait(st, H, E, Items[v][1], b)
  BY <1>2, <1>5 DEF HashWait, Operand
<1> QED
  BY <1>6 DEF b

\* A hash begins.
LEMMA HashKeeps ==
  ASSUME Inductive, invoke_hash_protocol
  PROVE  Inductive'
<1> DEFINE v == now.value
           a == now.action
<1>1. PICK H, E : Context(H, E) /\ CallOK(store, H, E, now)
  BY DEF Inductive
<1>2. now.at = "hash"
  BY DEF invoke_hash_protocol
<1>3. <<v, a>> \in H
  BY <1>1, <1>2 DEF CallOK
<1>4. Closed(store, H, E)
  BY <1>1 DEF Context
<1>5. v \in Operand
  BY <1>3, <1>4 DEF Closed, HashWait
<1>6. CASE now.depth > NestingLimit
  BY <1>1, <1>6, FailKeeps DEF invoke_hash_protocol
<1>7. CASE ~(now.depth > NestingLimit) /\ v \in Guest
  <2> DEFINE f == [method |-> "hash", value |-> v, action |-> a]
  <2>1. FrameOK(H, E, f)
    BY <1>3, <1>7 DEF FrameOK
  <2>2. Push(f)
    BY <1>7 DEF invoke_hash_protocol
  <2> HIDE DEF f
  <2> QED
    BY <1>1, <2>1, <2>2, PushKeeps
<1>8. CASE ~(now.depth > NestingLimit) /\ v \notin Guest
  <2>1. invoke_native_hash(v, now.depth, a)
    BY <1>8 DEF invoke_hash_protocol
  <2>2. CASE v \in Dicts
    BY <1>1, <2>1, <2>2, FailKeeps DEF invoke_native_hash
  <2>3. CASE v \notin Dicts /\ IsTuple(v)
    <3> DEFINE b == [tag |-> "Sequence", values |-> Items[v], next |-> 2, acc |-> sequence_start,
                     depth |-> now.depth + 1, outer |-> a]
    <3>1. v \in Objects
      BY <2>3 DEF IsTuple
    <3>2. Head(Items[v]) = Items[v][1]
      BY <2>3, <3>1, TupleItems, HeadTailProperties DEF IsTuple
    <3>3. Jump(HashCall(Items[v][1], now.depth + 1, b))
      BY <2>1, <2>3, <3>2 DEF invoke_native_hash, begin_hash_sequence
    <3>4. HashWait(store, H, E, Items[v][1], b)
      BY <1>3, <2>3, <3>1, FirstElement
    <3> HIDE DEF b
    <3>5. Follows(store, H, E, HashCall(Items[v][1], now.depth + 1, b))
      BY <1>4, <3>4, FollowsHash
    <3>6. Follows(store, H, E, now') /\ UNCHANGED <<program, store, frames>>
      BY <3>3, <3>5 DEF Jump
    <3> QED
      BY <1>1, <3>6, JumpKeeps
  <2>4. CASE v \notin Dicts /\ ~IsTuple(v)
    <3>1. v \in Objects
      BY <1>5, <2>4 DEF Operand
    <3>2. HashOf[v] \in Hash /\ HashIs(v, HashOf[v])
      BY <2>4, <3>1, ObjectHash DEF HashIs
    <3>3. Follows(store, H, E, CompleteHash(HashOf[v], a))
      BY <1>3, <1>4, <3>1, <3>2, FollowsHashed
    <3>4. Jump(CompleteHash(HashOf[v], a))
      BY <2>1, <2>4 DEF invoke_native_hash
    <3>5. Follows(store, H, E, now') /\ UNCHANGED <<program, store, frames>>
      BY <3>3, <3>4 DEF Jump
    <3> QED
      BY <1>1, <3>5, JumpKeeps
  <2> QED
    BY <2>2, <2>3, <2>4
<1> QED
  BY <1>6, <1>7, <1>8

\* An operation takes the candidates of its key (begin_dict_operation).
LEMMA CandidatesTaken ==
  ASSUME NEW st, StoreOK(st), NEW E, NEW a, NEW v \in Objects, KeyHashed(st, E, v, a),
         NEW h \in Hash, HashIs(v, h), NEW depth
  PROVE  LET s == [owner |-> a.owner, key |-> a.key, kind |-> a.kind, hash |-> h,
                   version |-> st[a.owner].version,
                   candidates |-> hash_candidates(st[a.owner], h), next |-> 1, depth |-> depth]
         IN  LookupOK(st, E, s) /\ Tried(st, s, s.next - 1)
<1> DEFINE s == [owner |-> a.owner, key |-> a.key, kind |-> a.kind, hash |-> h,
                 version |-> st[a.owner].version,
                 candidates |-> hash_candidates(st[a.owner], h), next |-> 1, depth |-> depth]
<1>1. /\ s = [owner |-> s.owner, key |-> s.key, kind |-> s.kind, hash |-> s.hash, version |-> s.version,
              candidates |-> s.candidates, next |-> s.next, depth |-> s.depth]
      /\ s.owner = a.owner /\ s.key = a.key /\ s.kind = a.kind /\ s.hash = h
      /\ s.version = st[a.owner].version /\ s.candidates = st[a.owner].index[h] /\ s.next = 1
  BY DEF hash_candidates
<1> HIDE DEF s
<1>2. a.owner \in Dicts /\ a.key = v /\ KindOK(st, E, a.kind, a.owner, a.key)
  BY DEF KeyHashed
<1>3. st[a.owner].version \in Nat /\ st[a.owner].index[h] \in Seq(Nat)
  BY <1>2, DictFields DEF StoreOK
<1>4. LookupOK(st, E, s)
  BY <1>1, <1>2, <1>3 DEF LookupOK
<1>5. Tried(st, s, s.next - 1)
  BY <1>1, <1>3, LenProperties DEF Tried
<1> QED
  BY <1>4, <1>5 DEF s

\* One more element of a tuple is hashed.
LEMMA NextElement ==
  ASSUME NEW st, NEW H, NEW E, Closed(st, H, E), NEW a, NEW v \in Objects, ElementHashed(H, v, a),
         NEW h \in Hash, HashIs(v, h)
  PROVE  LET acc == sequence_step(a.acc, h)
         IN  /\ a.next <= Len(a.values) =>
                   Follows(st, H, E, HashCall(a.values[a.next], a.depth, [a EXCEPT !.next = @ + 1, !.acc = acc]))
             /\ ~(a.next <= Len(a.values)) =>
                   Follows(st, H, E, CompleteHash(sequence_finish(acc, Len(a.values)), a.outer))
<1> DEFINE acc == sequence_step(a.acc, h)
           b == [a EXCEPT !.next = @ + 1, !.acc = acc]
<1>1. /\ a = [tag |-> "Sequence", values |-> a.values, next |-> a.next, acc |-> a.acc, depth |-> a.depth,
              outer |-> a.outer]
      /\ a.next \in 2 .. Len(a.values) + 1
      /\ v = a.values[a.next - 1]
      /\ a.acc \in Hash /\ Partial(a.values, a.next - 2, a.acc)
  BY DEF ElementHashed
<1>2. PICK tuple \in Objects : IsTuple(tuple) /\ a.values = Items[tuple] /\ <<tuple, a.outer>> \in H
  BY DEF ElementHashed
<1>3. /\ Len(a.values) \in Nat
      /\ \A i \in 1 .. Len(a.values) : a.values[i] \in Objects /\ ~IsTuple(a.values[i])
  BY <1>2, TupleItems
<1>4. a.next \in Nat /\ a.next - 2 \in Nat /\ (a.next - 2) + 1 = a.next - 1
  BY <1>1, <1>3
<1>5. h = HashOf[a.values[a.next - 1]]
  BY <1>1, <1>3, <1>4 DEF HashIs
<1>6. acc \in Hash /\ Partial(a.values, a.next - 1, acc)
  <2> DEFINE n == a.next - 2
  <2>1. n \in Nat /\ n + 1 = a.next - 1 /\ Partial(a.values, n, a.acc) /\ h = HashOf[a.values[n + 1]]
    BY <1>1, <1>4, <1>5
  <2> HIDE DEF n
  <2>2. /\ sequence_step(a.acc, HashOf[a.values[n + 1]]) \in Hash
        /\ Partial(a.values, n + 1, sequence_step(a.acc, HashOf[a.values[n + 1]]))
    BY <1>1, <2>1, PartialNext
  <2> QED
    BY <2>1, <2>2
<1> HIDE DEF acc
<1>7. ASSUME a.next <= Len(a.values)
      PROVE  Follows(st, H, E, HashCall(a.values[a.next], a.depth, b))
  <2>1. /\ b = [tag |-> "Sequence", values |-> b.values, next |-> b.next, acc |-> b.acc, depth |-> b.depth,
                outer |-> b.outer]
        /\ b.values = a.values /\ b.next = a.next + 1 /\ b.acc = acc /\ b.outer = a.outer
    <3>1. ASSUME NEW vs, NEW n, NEW c, NEW depth, NEW o,
                 a = [tag |-> "Sequence", values |-> vs, next |-> n, acc |-> c, depth |-> depth, outer |-> o]
          PROVE  b = [tag |-> "Sequence", values |-> vs, next |-> n + 1, acc |-> acc, depth |-> depth,
                      outer |-> o]
      <4> DEFINE b1 == [a EXCEPT !.next = @ + 1]
      <4>1. b1 = [tag |-> "Sequence", values |-> vs, next |-> n + 1, acc |-> c, depth |-> depth, outer |-> o]
        BY <3>1
      <4>2. b = [b1 EXCEPT !.acc = acc]
        BY Zenon
      <4> HIDE DEF b, b1
      <4> QED
        BY <4>1, <4>2
    <3> QED
      BY <1>1, <3>1
  <2> HIDE DEF b
  <2>2. /\ b.next \in 2 .. Len(a.values) + 1
        /\ b.next - 1 = a.next /\ b.next - 2 = a.next - 1
        /\ a.next \in 1 .. Len(a.values)
    BY <1>3, <1>4, <1>7, <2>1
  <2>3. ElementHashed(H, a.values[a.next], b)
    BY <1>2, <1>6, <2>1, <2>2 DEF ElementHashed
  <2>4. a.values[a.next] \in Operand
    BY <1>3, <2>2 DEF Operand
  <2>5. HashWait(st, H, E, a.values[a.next], b)
    BY <2>3, <2>4 DEF HashWait
  <2> QED
    BY <2>5, FollowsHash
<1>8. ASSUME ~(a.next <= Len(a.values))
      PROVE  Follows(st, H, E, CompleteHash(sequence_finish(acc, Len(a.values)), a.outer))
  <2>1. a.next - 1 = Len(a.values)
    BY <1>1, <1>3, <1>4, <1>8
  <2>2. HashIs(tuple, sequence_finish(acc, Len(a.values)))
    BY <1>2, <1>6, <2>1 DEF HashIs
  <2>3. sequence_finish(acc, Len(a.values)) \in Hash
    BY <1>3, <1>6, StepHash
  <2> QED
    BY <1>2, <2>2, <2>3, FollowsHashed
<1> QED
  BY <1>7, <1>8 DEF acc

\* A hash is known.
LEMMA HashedKeeps ==
  ASSUME Inductive, complete_hash
  PROVE  Inductive'
<1> DEFINE a == now.action
           h == now.hash
<1>1. PICK H, E : Context(H, E) /\ CallOK(store, H, E, now)
  BY DEF Inductive
<1>2. now.at = "complete_hash"
  BY DEF complete_hash
<1>3. PICK v \in Objects : <<v, a>> \in H /\ h \in Hash /\ HashIs(v, h)
  BY <1>1, <1>2 DEF CallOK
<1>4. Closed(store, H, E) /\ StoreOK(store)
  BY <1>1 DEF Context
<1>5. HashWait(store, H, E, v, a)
  BY <1>3, <1>4 DEF Closed
<1>6. CASE KeyHashed(store, E, v, a)
  <2>1. a.tag = "Dict"
    BY <1>6 DEF KeyHashed
  <2>2. begin_dict_operation(a, h)
    BY <2>1 DEF complete_hash
  <2> DEFINE depth == IF a.kind.op = "CompareValue" THEN a.kind.action.depth ELSE 0
             s == [owner |-> a.owner, key |-> a.key, kind |-> a.kind, hash |-> h,
                   version |-> store[a.owner].version,
                   candidates |-> hash_candidates(store[a.owner], h), next |-> 1, depth |-> depth]
  <2>3. Jump([at |-> "candidates", state |-> s])
    BY <2>2 DEF begin_dict_operation
  <2> HIDE DEF depth
  <2>4. LookupOK(store, E, s) /\ Tried(store, s, s.next - 1)
    BY <1>3, <1>4, <1>6, CandidatesTaken
  <2> HIDE DEF s
  <2>5. now'.at = "candidates" /\ now'.state = s /\ UNCHANGED <<program, store, frames>>
    BY <2>3 DEF Jump
  <2>6. CallOK(store, H, E, now')
    BY <2>4, <2>5 DEF CallOK
  <2>7. Follows(store, H, E, now')
    BY <1>4, <2>6, FollowsNow
  <2> QED
    BY <1>1, <2>5, <2>7, JumpKeeps
<1>7. CASE ElementHashed(H, v, a)
  <2> DEFINE acc == sequence_step(a.acc, h)
  <2>1. a.tag # "Dict"
    BY <1>7 DEF ElementHashed
  <2>2. Jump(IF a.next <= Len(a.values)
             THEN HashCall(a.values[a.next], a.depth, [a EXCEPT !.next = @ + 1, !.acc = acc])
             ELSE CompleteHash(sequence_finish(acc, Len(a.values)), a.outer))
    BY <2>1 DEF complete_hash, Jump
  <2>3. /\ a.next <= Len(a.values) =>
              Follows(store, H, E, HashCall(a.values[a.next], a.depth, [a EXCEPT !.next = @ + 1, !.acc = acc]))
        /\ ~(a.next <= Len(a.values)) =>
              Follows(store, H, E, CompleteHash(sequence_finish(acc, Len(a.values)), a.outer))
    BY <1>3, <1>4, <1>7, NextElement
  <2> HIDE DEF acc
  <2>4. Follows(store, H, E, now') /\ UNCHANGED <<program, store, frames>>
    BY <2>2, <2>3 DEF Jump
  <2> QED
    BY <1>1, <2>4, JumpKeeps
<1> QED
  BY <1>5, <1>6, <1>7 DEF HashWait

-----------------------------------------------------------------------------
(* The steps of a lookup. *)

\* The candidates that begin_dict_operation has taken stay right while the version is the same.
LEMMA CandidateFacts ==
  ASSUME NEW st, StoreOK(st), NEW E, NEW s, LookupOK(st, E, s), st[s.owner].version = s.version
  PROVE  CandidatesListed(st, s)
<1> DEFINE t == st[s.owner]
           b == t.index[s.hash]
           hs == t.hashes
           n == Len(t.entries)
<1>1. /\ s.owner \in Dicts /\ s.key \in Objects /\ s.hash \in Hash /\ HashIs(s.key, s.hash)
      /\ s.candidates = b
  BY DEF LookupOK
<1>2. DictOK(t) /\ t \in Dict
  BY <1>1 DEF StoreOK, DictOK
<1>3. /\ b \in Seq(Nat) /\ hs \in Seq(Hash) /\ Lists(b, hs, s.hash) /\ Len(hs) = n
      /\ \A i \in 1 .. n : HashIs(t.entries[i].key, hs[i])
  BY <1>1, <1>2, DictFields DEF DictOK
<1>4. \A i \in 1 .. n : t.entries[i].key \in Objects
  BY <1>2, DictFields
<1> HIDE DEF b, hs, n
<1>5. /\ \A j \in 1 .. Len(b) : b[j] \in 1 .. Len(hs)
      /\ \A i \in 1 .. Len(hs) : hs[i] = s.hash => \E j \in 1 .. Len(b) : b[j] = i
  BY <1>3, ListsMembers
<1>6. ASSUME NEW i \in 1 .. n, KeyEqual(t.entries[i].key, s.key)
      PROVE  \E j \in 1 .. Len(b) : b[j] = i
  <2>1. hs[i] = s.hash
    BY <1>1, <1>3, <1>4, <1>6, EqualKeysHashAlike
  <2> QED
    BY <1>3, <1>5, <2>1
<1>7. Len(b) \in Nat
  BY <1>3, LenProperties
<1> QED
  BY <1>1, <1>3, <1>4, <1>5, <1>6, <1>7 DEF CandidatesListed, n

\* A lookup goes on to the next candidate.
LEMMA LookupAdvances ==
  ASSUME NEW st, NEW E, NEW s, LookupOK(st, E, s)
  PROVE  LET rest == [s EXCEPT !.next = @ + 1]
         IN  /\ LookupOK(st, E, rest)
             /\ rest.owner = s.owner /\ rest.key = s.key /\ rest.version = s.version
             /\ rest.candidates = s.candidates /\ rest.next = s.next + 1
<1> DEFINE rest == [s EXCEPT !.next = @ + 1]
<1>1. /\ s = [owner |-> s.owner, key |-> s.key, kind |-> s.kind, hash |-> s.hash, version |-> s.version,
              candidates |-> s.candidates, next |-> s.next, depth |-> s.depth]
      /\ s.next \in Nat \ {0}
  BY DEF LookupOK
<1>2. /\ rest = [owner |-> rest.owner, key |-> rest.key, kind |-> rest.kind, hash |-> rest.hash,
                 version |-> rest.version, candidates |-> rest.candidates, next |-> rest.next,
                 depth |-> rest.depth]
      /\ rest.owner = s.owner /\ rest.key = s.key /\ rest.kind = s.kind /\ rest.hash = s.hash
      /\ rest.version = s.version /\ rest.candidates = s.candidates /\ rest.next = s.next + 1
  BY <1>1
<1> HIDE DEF rest
<1>3. LookupOK(st, E, rest)
  BY <1>1, <1>2 DEF LookupOK
<1> QED
  BY <1>2, <1>3 DEF rest

\* A lookup takes its next candidate.
LEMMA LookupKeeps ==
  ASSUME Inductive, continue_dict_operation
  PROVE  Inductive'
<1> DEFINE s == now.state
           t == store[s.owner]
           i == s.candidates[s.next]
           c == t.entries[i].key
           rest == [s EXCEPT !.next = @ + 1]
<1>1. PICK H, E : Context(H, E) /\ CallOK(store, H, E, now)
  BY DEF Inductive
<1>2. now.at = "candidates"
  BY DEF continue_dict_operation
<1>3. LookupOK(store, E, s) /\ Tried(store, s, s.next - 1)
  BY <1>1, <1>2 DEF CallOK
<1>4. Closed(store, H, E) /\ StoreOK(store)
  BY <1>1 DEF Context
<1>5. CASE DictChanged(s)
  BY <1>1, <1>5, FailKeeps DEF continue_dict_operation
<1>6. CASE ~DictChanged(s)
  <2>1. t.version = s.version
    BY <1>6 DEF DictChanged
  <2>2. /\ Len(s.candidates) \in Nat
        /\ \A j \in 1 .. Len(s.candidates) : s.candidates[j] \in 1 .. Len(t.entries)
        /\ \A j \in 1 .. Len(t.entries) :
              /\ t.entries[j].key \in Objects
              /\ KeyEqual(t.entries[j].key, s.key) =>
                    \E k \in 1 .. Len(s.candidates) : s.candidates[k] = j
    <3>1. CandidatesListed(store, s)
      BY <1>3, <1>4, <2>1, CandidateFacts
    <3> QED
      BY <3>1 DEF CandidatesListed
  <2>3. s.next \in Nat \ {0} /\ s.key \in Objects
    BY <1>3 DEF LookupOK
  <2>4. /\ s.next - 1 <= Len(s.candidates)
        /\ \A j \in 1 .. s.next - 1 : ~KeyEqual(t.entries[s.candidates[j]].key, s.key)
    BY <1>3, <2>1 DEF Tried
  <2>5. CASE s.next > Len(s.candidates)
    <3>1. Jump([at |-> "finish", state |-> s, matched |-> 0])
      BY <1>6, <2>5 DEF continue_dict_operation
    <3>2. \A j \in 1 .. Len(s.candidates) : j \in 1 .. s.next - 1
      BY <2>2, <2>3, <2>5
    <3>3. \A j \in 1 .. Len(t.entries) : ~KeyEqual(t.entries[j].key, s.key)
      BY <2>2, <2>4, <3>2
    <3>4. Exact(store, s, 0)
      BY <3>3 DEF Exact
    <3>5. now'.at = "finish" /\ now'.state = s /\ now'.matched = 0 /\ UNCHANGED <<program, store, frames>>
      BY <3>1 DEF Jump
    <3>6. CallOK(store, H, E, now')
      BY <1>3, <3>4, <3>5 DEF CallOK
    <3>7. Follows(store, H, E, now')
      BY <1>4, <3>6, FollowsNow
    <3> QED
      BY <1>1, <3>5, <3>7, JumpKeeps
  <2>6. CASE ~(s.next > Len(s.candidates))
    <3>1. s.next \in 1 .. Len(s.candidates)
      BY <2>2, <2>3, <2>6
    <3>2. i \in 1 .. Len(t.entries) /\ c \in Objects
      BY <2>2, <3>1
    <3>3. /\ LookupOK(store, E, rest)
          /\ rest.owner = s.owner /\ rest.key = s.key /\ rest.version = s.version
          /\ rest.candidates = s.candidates /\ rest.next = s.next + 1
      BY <1>3, LookupAdvances
    <3>4. CASE c = s.key
      <4>1. Jump([at |-> "finish", state |-> rest, matched |-> i])
        BY <1>6, <2>6, <3>4 DEF continue_dict_operation
      <4> HIDE DEF rest
      <4>2. Exact(store, rest, i)
        <5>1. i # 0
          BY <3>2
        <5> QED
          BY <3>2, <3>3, <3>4, <5>1, KeyEquality DEF Exact
      <4>3. now'.at = "finish" /\ now'.state = rest /\ now'.matched = i /\ UNCHANGED <<program, store, frames>>
        BY <4>1 DEF Jump
      <4>4. CallOK(store, H, E, now')
        BY <3>3, <4>2, <4>3 DEF CallOK
      <4>5. Follows(store, H, E, now')
        BY <1>4, <4>4, FollowsNow
      <4> QED
        BY <1>1, <4>3, <4>5, JumpKeeps
    <3>5. CASE c # s.key
      <4> DEFINE a == [tag |-> "DictCandidate", state |-> rest, index |-> i]
      <4>1. Jump(EqualityCall(c, s.key, a))
        BY <1>6, <2>6, <3>5 DEF continue_dict_operation
      <4>2. /\ a = [tag |-> "DictCandidate", state |-> a.state, index |-> a.index]
            /\ a.state = rest /\ a.index = i
        OBVIOUS
      <4>3. rest.next >= 2 /\ rest.next - 1 = s.next /\ rest.next - 2 = s.next - 1
        BY <2>3, <3>3
      <4> HIDE DEF rest, a, i
      <4>4. Tried(store, rest, rest.next - 2)
        BY <1>3, <3>3, <4>3 DEF Tried
      <4>5. CandidateCompared(store, E, c, s.key, a)
        <5>1. /\ rest.next - 1 <= Len(rest.candidates)
              /\ a.index = rest.candidates[rest.next - 1]
              /\ c = store[rest.owner].entries[a.index].key
          BY <3>1, <3>3, <4>2, <4>3 DEF i
        <5> HIDE DEF c, s
        <5>2. /\ LookupOK(store, E, a.state) /\ a.state.next >= 2
              /\ Tried(store, a.state, a.state.next - 2)
              /\ s.key = a.state.key /\ c \in Objects
          BY <3>2, <3>3, <4>2, <4>3, <4>4
        <5>3. /\ a.state.next - 1 <= Len(a.state.candidates)
              /\ a.index = a.state.candidates[a.state.next - 1]
              /\ c = store[a.state.owner].entries[a.index].key
          BY <4>2, <5>1
        <5> QED
          BY <4>2, <5>2, <5>3 DEF CandidateCompared
      <4>6. EqualityWait(store, E, c, s.key, a)
        BY <2>3, <3>2, <4>5 DEF EqualityWait, Value, Operand
      <4> HIDE DEF c
      <4>7. Follows(store, H, E, EqualityCall(c, s.key, a))
        BY <1>4, <4>6, FollowsEquality
      <4>8. Follows(store, H, E, now') /\ UNCHANGED <<program, store, frames>>
        BY <4>1, <4>7 DEF Jump
      <4> QED
        BY <1>1, <4>8, JumpKeeps
    <3> QED
      BY <3>4, <3>5
  <2> QED
    BY <2>5, <2>6
<1> QED
  BY <1>5, <1>6

-----------------------------------------------------------------------------
(* The ends of operations. *)

\* The entry that an operation has matched, or none (the hypothesis of SetHashedKeeps).
LEMMA ExactEntry ==
  ASSUME NEW st, NEW s, NEW i, Exact(st, s, i)
  PROVE  IF i # 0 THEN i \in 1 .. Len(st[s.owner].entries)
         ELSE \A j \in 1 .. Len(st[s.owner].entries) : ~KeyEqual(st[s.owner].entries[j].key, s.key)
  BY DEF Exact

\* An operation stores under its key.
LEMMA StoredKeeps ==
  ASSUME NEW H, NEW E, Context(H, E), NEW s, LookupOK(store, E, s), NEW i, Exact(store, s, i),
         NEW value \in Value,
         store' = [store EXCEPT ![s.owner] = hash_set_hashed(store[s.owner], s.key, value, s.hash, i)],
         UNCHANGED <<program, frames>>,
         \A st : CallOK(st, H, E, now')
  PROVE  Inductive'
<1> DEFINE u == hash_set_hashed(store[s.owner], s.key, value, s.hash, i)
<1>1. s.owner \in Dicts /\ s.key \in Objects /\ s.hash \in Hash /\ HashIs(s.key, s.hash)
  BY DEF LookupOK
<1>2. StoreOK(store) /\ DictOK(store[s.owner])
  BY <1>1 DEF Context, StoreOK
<1>3. IF i # 0 THEN i \in 1 .. Len(store[s.owner].entries)
      ELSE \A j \in 1 .. Len(store[s.owner].entries) : ~KeyEqual(store[s.owner].entries[j].key, s.key)
  BY ExactEntry
<1>4. DictOK(u) /\ Evolves(store[s.owner], u)
  BY <1>1, <1>2, <1>3, SetHashedKeeps
<1> HIDE DEF u
<1>5. StoreOK([store EXCEPT ![s.owner] = u]) /\ StoreEvolves(store, [store EXCEPT ![s.owner] = u])
  BY <1>1, <1>2, <1>4, StoreChange
<1>6. StoreOK(store') /\ StoreEvolves(store, store')
  BY <1>5 DEF u
<1> QED
  BY <1>6, StoreKeeps

\* An operation removes the entry of its key.
LEMMA DeletedKeeps ==
  ASSUME NEW H, NEW E, Context(H, E), NEW s, LookupOK(store, E, s), NEW i, Exact(store, s, i), i # 0,
         store' = [store EXCEPT ![s.owner] = dict_delete_at(store[s.owner], i)],
         UNCHANGED <<program, frames>>, now' = GuestCode
  PROVE  Inductive'
<1> DEFINE u == dict_delete_at(store[s.owner], i)
<1>1. s.owner \in Dicts
  BY DEF LookupOK
<1>2. StoreOK(store) /\ DictOK(store[s.owner])
  BY <1>1 DEF Context, StoreOK
<1>3. i \in 1 .. Len(store[s.owner].entries)
  BY ExactEntry
<1>4. DictOK(u) /\ Evolves(store[s.owner], u)
  BY <1>2, <1>3, DeleteKeeps
<1> HIDE DEF u
<1>5. StoreOK([store EXCEPT ![s.owner] = u]) /\ StoreEvolves(store, [store EXCEPT ![s.owner] = u])
  BY <1>1, <1>2, <1>4, StoreChange
<1>6. StoreOK(store') /\ StoreEvolves(store, store')
  BY <1>5 DEF u
<1>7. CallOK(store', H, E, now')
  BY DEF CallOK, GuestCode
<1> QED
  BY <1>6, <1>7, StoreKeeps

\* The values of a key that both dictionaries have are compared (DictOperation::CompareValue).
LEMMA ValuesCompared ==
  ASSUME NEW st, StoreOK(st), NEW E, NEW s, LookupOK(st, E, s), s.kind.op = "CompareValue",
         NEW i, Exact(st, s, i), i # 0
  PROVE  EqualityWait(st, E, st[s.owner].entries[i].value, s.kind.expected, s.kind.action)
<1> DEFINE a == s.kind.action
           es == st[s.owner].entries
<1>1. KindOK(st, E, s.kind, s.owner, s.key) /\ s.owner \in Dicts /\ s.key \in Objects
  BY DEF LookupOK
<1>2. /\ s.kind.expected \in Value
      /\ EntriesOK(st, E, a) /\ Found(st, a, a.next - 2)
      /\ s.owner = a.right /\ s.key = a.entries[a.next - 1].key
  BY <1>1 DEF KindOK
<1>3. i \in 1 .. Len(es) /\ KeyEqual(es[i].key, s.key)
  BY DEF Exact
<1>4. es \in Seq(Entry) /\ es[i] \in Entry
  BY <1>1, <1>3, DictFields DEF StoreOK
<1>5. es[i].value \in Value /\ es[i].key \in Objects
  BY <1>4 DEF Entry
<1>6. KeyEqual(s.key, es[i].key)
  BY <1>1, <1>3, <1>5, KeyEquality
<1>7. a.next \in Nat /\ a.next >= 2
  BY <1>2, LenProperties DEF EntriesOK
<1>8. Found(st, a, a.next - 1)
  <2>1. SUFFICES ASSUME EntriesKept(st, a), NEW j \in 1 .. a.next - 1
                 PROVE  \E k \in 1 .. Len(st[a.right].entries) :
                           KeyEqual(a.entries[j].key, st[a.right].entries[k].key)
    BY DEF Found
  <2>2. CASE j = a.next - 1
    BY <1>2, <1>3, <1>6, <2>2
  <2>3. CASE j \in 1 .. a.next - 2
    BY <1>2, <2>1, <2>3 DEF Found
  <2> QED
    BY <1>7, <2>2, <2>3
<1> QED
  BY <1>2, <1>5, <1>8 DEF EqualityWait

\* An operation is carried out.
LEMMA FinishKeeps ==
  ASSUME Inductive, finish_dict_operation
  PROVE  Inductive'
<1> DEFINE s == now.state
           kind == s.kind
           i == now.matched
           d == store[s.owner]
           Stored(value, next) ==
             IF s.key \in Unkeyed THEN Fail
             ELSE /\ store' = [store EXCEPT ![s.owner] = hash_set_hashed(d, s.key, value, s.hash, i)]
                  /\ now' = next
                  /\ UNCHANGED <<program, frames, operations>>
<1>1. PICK H, E : Context(H, E) /\ CallOK(store, H, E, now)
  BY DEF Inductive
<1>2. now.at = "finish"
  BY DEF finish_dict_operation
<1>3. LookupOK(store, E, s) /\ Exact(store, s, i)
  BY <1>1, <1>2 DEF CallOK
<1>4. Closed(store, H, E) /\ StoreOK(store)
  BY <1>1 DEF Context
<1>5. KindOK(store, E, kind, s.owner, s.key)
  BY <1>3 DEF LookupOK
<1>6. \A st : CallOK(st, H, E, GuestCode)
  BY DEF CallOK, GuestCode
<1>7. CASE kind.op \in Answers /\ Jump(GuestCode)
  <2>1. Follows(store, H, E, now') /\ UNCHANGED <<program, store, frames>>
    BY <1>4, <1>7, FollowsGuest DEF Jump
  <2> QED
    BY <1>1, <2>1, JumpKeeps
<1>8. CASE kind.op = "Set" /\ Stored(kind.value, GuestCode)
  <2>1. kind.value \in Value
    BY <1>5, <1>8 DEF KindOK
  <2>2. CASE s.key \in Unkeyed
    BY <1>1, <1>8, <2>2, FailKeeps
  <2>3. CASE s.key \notin Unkeyed
    BY <1>1, <1>3, <1>6, <1>8, <2>1, <2>3, StoredKeeps
  <2> QED
    BY <2>2, <2>3
<1>9. CASE kind.op = "SetAdd" /\ Stored(None, GuestCode)
  <2>1. None \in Value
    BY DEF Value
  <2>2. CASE s.key \in Unkeyed
    BY <1>1, <1>9, <2>2, FailKeeps
  <2>3. CASE s.key \notin Unkeyed
    BY <1>1, <1>3, <1>6, <1>9, <2>1, <2>3, StoredKeeps
  <2> QED
    BY <2>2, <2>3
<1>10. CASE kind.op = "MatchUnique" /\ (IF i # 0 THEN Fail ELSE Stored(None, GuestCode))
  <2>1. None \in Value
    BY DEF Value
  <2>2. CASE i # 0 \/ s.key \in Unkeyed
    BY <1>1, <1>10, <2>2, FailKeeps
  <2>3. CASE ~(i # 0 \/ s.key \in Unkeyed)
    BY <1>1, <1>3, <1>6, <1>10, <2>1, <2>3, StoredKeeps
  <2> QED
    BY <2>2, <2>3
<1>11. CASE kind.op = "SetAndMerge" /\ Stored(kind.value, [at |-> "merge", state |-> kind.state])
  <2> DEFINE n == [at |-> "merge", state |-> kind.state]
  <2>1. kind.value \in Value /\ kind.state \in MergeStates
    BY <1>5, <1>11 DEF KindOK
  <2>2. n.at = "merge" /\ n.state \in MergeStates
    BY <2>1
  <2>3. CASE s.key \in Unkeyed
    BY <1>1, <1>11, <2>3, FailKeeps
  <2>4. CASE s.key \notin Unkeyed
    <3> HIDE DEF n
    <3>1. \A st : CallOK(st, H, E, n)
      BY <2>2 DEF CallOK
    <3>2. /\ store' = [store EXCEPT ![s.owner] = hash_set_hashed(d, s.key, kind.value, s.hash, i)]
          /\ now' = n
          /\ UNCHANGED <<program, frames>>
      BY <1>11, <2>4 DEF n
    <3>3. \A st : CallOK(st, H, E, now')
      BY <3>1, <3>2
    <3> QED
      BY <1>1, <1>3, <2>1, <3>2, <3>3, StoredKeeps
  <2> QED
    BY <2>3, <2>4
<1>12. CASE kind.op = "SetAndContinue" /\ Stored(kind.value, [at |-> "construction", state |-> kind.state])
  <2> DEFINE n == [at |-> "construction", state |-> kind.state]
  <2>1. kind.value \in Value /\ kind.state \in ConstructionStates
    BY <1>5, <1>12 DEF KindOK
  <2>2. n.at = "construction" /\ n.state \in ConstructionStates
    BY <2>1
  <2>3. CASE s.key \in Unkeyed
    BY <1>1, <1>12, <2>3, FailKeeps
  <2>4. CASE s.key \notin Unkeyed
    <3> HIDE DEF n
    <3>1. \A st : CallOK(st, H, E, n)
      BY <2>2 DEF CallOK
    <3>2. /\ store' = [store EXCEPT ![s.owner] = hash_set_hashed(d, s.key, kind.value, s.hash, i)]
          /\ now' = n
          /\ UNCHANGED <<program, frames>>
      BY <1>12, <2>4 DEF n
    <3>3. \A st : CallOK(st, H, E, now')
      BY <3>1, <3>2
    <3> QED
      BY <1>1, <1>3, <2>1, <3>2, <3>3, StoredKeeps
  <2> QED
    BY <2>3, <2>4
<1>13. CASE /\ kind.op = "Delete"
            /\ IF i = 0 THEN Fail
               ELSE /\ store' = [store EXCEPT ![s.owner] = dict_delete_at(d, i)]
                    /\ now' = GuestCode
                    /\ UNCHANGED <<program, frames, operations>>
  <2>1. CASE i = 0
    BY <1>1, <1>13, <2>1, FailKeeps
  <2>2. CASE i # 0
    BY <1>1, <1>3, <1>13, <2>2, DeletedKeeps
  <2> QED
    BY <2>1, <2>2
<1>14. CASE /\ kind.op = "CompareValue"
            /\ Jump(IF i = 0 THEN CompleteEquality(FALSE, kind.action)
                    ELSE EqualityCall(d.entries[i].value, kind.expected, kind.action))
  <2>1. EntriesOK(store, E, kind.action)
    BY <1>5, <1>14 DEF KindOK
  <2>2. UNCHANGED <<program, store, frames>>
    BY <1>14 DEF Jump
  <2>3. CASE i = 0
    <3>1. now' = CompleteEquality(FALSE, kind.action)
      BY <1>14, <2>3 DEF Jump
    <3>2. now'.at = "complete_equality" /\ now'.equal = FALSE /\ now'.action = kind.action
      BY <3>1 DEF CompleteEquality
    <3>3. CallOK(store, H, E, now')
      BY <2>1, <3>2 DEF CallOK
    <3>4. Follows(store, H, E, now')
      BY <1>4, <3>3, FollowsNow
    <3> QED
      BY <1>1, <2>2, <3>4, JumpKeeps
  <2>4. CASE i # 0
    <3>1. now' = EqualityCall(d.entries[i].value, kind.expected, kind.action)
      BY <1>14, <2>4 DEF Jump
    <3>2. EqualityWait(store, E, d.entries[i].value, kind.expected, kind.action)
      BY <1>3, <1>4, <1>14, <2>4, ValuesCompared
    <3>3. Follows(store, H, E, EqualityCall(d.entries[i].value, kind.expected, kind.action))
      BY <1>4, <3>2, FollowsEquality
    <3>4. Follows(store, H, E, now')
      BY <3>1, <3>3
    <3> QED
      BY <1>1, <2>2, <3>4, JumpKeeps
  <2> QED
    BY <2>3, <2>4
<1> QED
  BY <1>7, <1>8, <1>9, <1>10, <1>11, <1>12, <1>13, <1>14 DEF finish_dict_operation

-----------------------------------------------------------------------------
(* The steps of a comparison. *)

\* Two tuples are compared element by element (begin_equality_sequence).
LEMMA SequenceBegins ==
  ASSUME NEW st, NEW H, NEW E, Closed(st, H, E), NEW l \in Objects, NEW r \in Objects,
         IsTuple(l), IsTuple(r), NEW a, <<l, r, a>> \in E, NEW depth
  PROVE  /\ Len(Items[l]) # Len(Items[r]) => Follows(st, H, E, CompleteEquality(FALSE, a))
         /\ Len(Items[l]) = Len(Items[r]) =>
               Follows(st, H, E, EqualityCall(Items[l][1], Items[r][1],
                  [tag |-> "Sequence", left |-> Items[l], right |-> Items[r], next |-> 2, depth |-> depth,
                   outer |-> a]))
<1>1. ASSUME Len(Items[l]) # Len(Items[r])
      PROVE  Follows(st, H, E, CompleteEquality(FALSE, a))
  <2>1. AnswerOK(l, r, FALSE)
    BY <1>1 DEF AnswerOK, KeyEqual
  <2> QED
    BY <2>1, FollowsAnswer
<1>2. ASSUME Len(Items[l]) = Len(Items[r])
      PROVE  Follows(st, H, E, EqualityCall(Items[l][1], Items[r][1],
                [tag |-> "Sequence", left |-> Items[l], right |-> Items[r], next |-> 2, depth |-> depth,
                 outer |-> a]))
  <2> DEFINE b == [tag |-> "Sequence", left |-> Items[l], right |-> Items[r], next |-> 2, depth |-> depth,
                   outer |-> a]
  <2>1. /\ b = [tag |-> "Sequence", left |-> b.left, right |-> b.right, next |-> b.next, depth |-> b.depth,
                outer |-> b.outer]
        /\ b.left = Items[l] /\ b.right = Items[r] /\ b.next = 2 /\ b.outer = a
    OBVIOUS
  <2> HIDE DEF b
  <2>2. /\ Len(Items[l]) \in Nat /\ Len(Items[l]) >= 1
        /\ Items[l][1] \in Objects /\ Items[r][1] \in Objects
    BY <1>2, TupleItems
  <2>3. ElementCompared(E, Items[l][1], Items[r][1], b)
    <3>1. \E tl, tr \in Objects :
             /\ IsTuple(tl) /\ IsTuple(tr)
             /\ b.left = Items[tl] /\ b.right = Items[tr] /\ <<tl, tr, b.outer>> \in E
      BY <2>1
    <3>2. /\ Len(b.left) = Len(b.right) /\ b.next \in 2 .. Len(b.left) + 1
          /\ b.next - 1 = 1 /\ b.next - 2 = 0
      BY <1>2, <2>1, <2>2
    <3> QED
      BY <2>1, <3>1, <3>2 DEF ElementCompared
  <2>4. EqualityWait(st, E, Items[l][1], Items[r][1], b)
    BY <2>2, <2>3 DEF EqualityWait, Value, Operand
  <2> QED
    BY <2>4, FollowsEquality DEF b
<1> QED
  BY <1>1, <1>2

\* What remains of a comparison of two dictionaries looks the key at next - 1 up.
LEMMA EntryCompared ==
  ASSUME NEW st, NEW H, NEW E, Closed(st, H, E), NEW a, EntriesOK(st, E, a),
         Found(st, a, a.next - 2)
  PROVE  Follows(st, H, E, invoke_dict_operation(a.right, a.entries[a.next - 1].key,
            [op |-> "CompareValue", expected |-> a.entries[a.next - 1].value, action |-> a]))
<1> DEFINE e == a.entries[a.next - 1]
           kind == [op |-> "CompareValue", expected |-> e.value, action |-> a]
<1>1. a.right \in Dicts /\ a.entries \in Seq(Entry) /\ a.next \in 2 .. Len(a.entries) + 1
  BY DEF EntriesOK
<1>2. e \in Entry
  BY <1>1, LenProperties
<1>3. e.key \in Operand /\ e.value \in Value
  BY <1>2 DEF Entry, Operand
<1>4. kind.op = "CompareValue" /\ kind.expected = e.value /\ kind.action = a
  OBVIOUS
<1> HIDE DEF kind
<1>5. KindOK(st, E, kind, a.right, e.key)
  BY <1>3, <1>4 DEF KindOK
<1>6. Follows(st, H, E, invoke_dict_operation(a.right, e.key, kind))
  BY <1>1, <1>3, <1>5, FollowsOperation
<1> QED
  BY <1>6 DEF kind

\* Two dictionaries of the same length are compared (EntriesEquality).
LEMMA EntriesBegin ==
  ASSUME NEW st, StoreOK(st), NEW H, NEW E, Closed(st, H, E), NEW l \in Dicts, NEW r \in Dicts,
         NEW a, <<l, r, a>> \in E, NEW depth,
         Len(st[l].entries) = Len(st[r].entries), st[l].entries # <<>>
  PROVE  Follows(st, H, E, invoke_dict_operation(r, st[l].entries[1].key,
            [op |-> "CompareValue", expected |-> st[l].entries[1].value,
             action |-> [tag |-> "DictEntries", left |-> l, right |-> r, entries |-> st[l].entries, next |-> 2,
                         left_version |-> st[l].version, right_version |-> st[r].version,
                         depth |-> depth, outer |-> a]]))
<1> DEFINE b == [tag |-> "DictEntries", left |-> l, right |-> r, entries |-> st[l].entries, next |-> 2,
                 left_version |-> st[l].version, right_version |-> st[r].version,
                 depth |-> depth, outer |-> a]
<1>1. EntriesRecord(b)
  BY DEF EntriesRecord
<1>2. /\ b.left = l /\ b.right = r /\ b.entries = st[l].entries /\ b.next = 2
      /\ b.left_version = st[l].version /\ b.right_version = st[r].version /\ b.outer = a
  OBVIOUS
<1> HIDE DEF b
<1>3. /\ st[l].entries \in Seq(Entry) /\ st[l].version \in Nat /\ st[r].version \in Nat
  BY DictFields DEF StoreOK
<1>4. Len(st[l].entries) \in Nat /\ Len(st[l].entries) >= 1
  BY <1>3, EmptySeq, LenProperties
<1>5. EntriesOK(st, E, b)
  BY <1>1, <1>2, <1>3, <1>4 DEF EntriesOK, SameKeys
<1>6. Found(st, b, b.next - 2)
  BY <1>2 DEF Found
<1>7. Follows(st, H, E, invoke_dict_operation(b.right, b.entries[b.next - 1].key,
         [op |-> "CompareValue", expected |-> b.entries[b.next - 1].value, action |-> b]))
  BY <1>5, <1>6, EntryCompared
<1>8. b.right = r /\ b.entries[b.next - 1] = st[l].entries[1]
  BY <1>2
<1>9. Follows(st, H, E, invoke_dict_operation(r, st[l].entries[1].key,
         [op |-> "CompareValue", expected |-> st[l].entries[1].value, action |-> b]))
  BY <1>7, <1>8
<1> QED
  BY <1>9 DEF b

\* A comparison begins.
LEMMA EqualityKeeps ==
  ASSUME Inductive, invoke_equality
  PROVE  Inductive'
<1> DEFINE l == now.left
           r == now.right
           a == now.action
<1>1. PICK H, E : Context(H, E) /\ CallOK(store, H, E, now)
  BY DEF Inductive
<1>2. now.at = "equality"
  BY DEF invoke_equality
<1>3. <<l, r, a>> \in E
  BY <1>1, <1>2 DEF CallOK
<1>4. Closed(store, H, E) /\ StoreOK(store)
  BY <1>1 DEF Context
<1>5. ASSUME NEW equal, AnswerOK(l, r, equal), Jump(CompleteEquality(equal, a))
      PROVE  Inductive'
  <2>1. Follows(store, H, E, CompleteEquality(equal, a))
    BY <1>3, <1>4, <1>5, FollowsAnswer
  <2>2. Follows(store, H, E, now') /\ UNCHANGED <<program, store, frames>>
    BY <1>5, <2>1 DEF Jump
  <2> QED
    BY <1>1, <2>2, JumpKeeps
<1>6. CASE l = r
  <2>1. AnswerOK(l, r, TRUE)
    BY <1>6, KeyEquality DEF AnswerOK
  <2>2. Jump(CompleteEquality(TRUE, a))
    BY <1>6 DEF invoke_equality
  <2> QED
    BY <1>5, <2>1, <2>2
<1>7. CASE l # r /\ (l \in Guest \/ r \in Guest)
  <2> DEFINE f == [method |-> "eq", equal |-> KeyEqual(l, r), action |-> a]
  <2>1. KeyEqual(l, r) \in BOOLEAN
    BY DEF KeyEqual, EqualAtoms
  <2>2. AnswerOK(l, r, KeyEqual(l, r))
    BY <2>1 DEF AnswerOK
  <2>3. f.method = "eq" /\ f.action = a /\ f.equal = KeyEqual(l, r)
    OBVIOUS
  <2>4. Push(f)
    BY <1>7 DEF invoke_equality
  <2> HIDE DEF f
  <2>5. FrameOK(H, E, f)
    BY <1>3, <2>2, <2>3 DEF FrameOK
  <2> QED
    BY <1>1, <2>4, <2>5, PushKeeps
<1>8. CASE l # r /\ ~(l \in Guest \/ r \in Guest)
  <2> DEFINE depth == comparison_depth(a) + 1
  <2>1. invoke_equality_fallback(l, r, a)
    BY <1>8 DEF invoke_equality
  <2>2. CASE IsTuple(l) /\ IsTuple(r)
    <3> DEFINE b == [tag |-> "Sequence", left |-> Items[l], right |-> Items[r], next |-> 2, depth |-> depth,
                     outer |-> a]
    <3>1. begin_equality_sequence(Items[l], Items[r], depth, a)
      BY <2>1, <2>2 DEF invoke_equality_fallback
    <3>2. l \in Objects /\ r \in Objects
      BY <2>2 DEF IsTuple
    <3>3. /\ Len(Items[l]) # Len(Items[r]) => Follows(store, H, E, CompleteEquality(FALSE, a))
          /\ Len(Items[l]) = Len(Items[r]) =>
                Follows(store, H, E, EqualityCall(Items[l][1], Items[r][1], b))
      BY <1>3, <1>4, <2>2, <3>2, SequenceBegins
    <3> HIDE DEF depth
    <3>4. CASE depth > NestingLimit
      BY <1>1, <3>1, <3>4, FailKeeps DEF begin_equality_sequence
    <3>5. CASE ~(depth > NestingLimit)
      <4>1. Jump(IF Len(Items[l]) # Len(Items[r]) THEN CompleteEquality(FALSE, a)
                 ELSE EqualityCall(Items[l][1], Items[r][1], b))
        BY <3>1, <3>5 DEF begin_equality_sequence, Jump
      <4> HIDE DEF b
      <4>2. Follows(store, H, E, now') /\ UNCHANGED <<program, store, frames>>
        BY <3>3, <4>1 DEF Jump
      <4> QED
        BY <1>1, <4>2, JumpKeeps
    <3> QED
      BY <3>4, <3>5
  <2>3. CASE ~(IsTuple(l) /\ IsTuple(r)) /\ {l, r} \subseteq Dicts /\ (l \in Sets <=> r \in Sets)
    <3>1. EntriesEquality(l, r, depth, a)
      BY <2>1, <2>3 DEF invoke_equality_fallback
    <3>2. l \in Dicts /\ r \in Dicts
      BY <2>3
    <3>3. \A equal \in BOOLEAN : AnswerOK(l, r, equal)
      BY <3>2, ObjectAssumption DEF AnswerOK
    <3> HIDE DEF depth
    <3>4. CASE depth > NestingLimit
      BY <1>1, <3>1, <3>4, FailKeeps DEF EntriesEquality
    <3>5. CASE ~(depth > NestingLimit) /\ Len(store[l].entries) # Len(store[r].entries)
      <4>1. Jump(CompleteEquality(FALSE, a))
        BY <3>1, <3>5 DEF EntriesEquality
      <4> QED
        BY <1>5, <3>3, <4>1
    <3>6. CASE /\ ~(depth > NestingLimit) /\ Len(store[l].entries) = Len(store[r].entries)
               /\ store[l].entries = <<>>
      <4>1. Jump(CompleteEquality(TRUE, a))
        BY <3>1, <3>6 DEF EntriesEquality
      <4> QED
        BY <1>5, <3>3, <4>1
    <3>7. CASE /\ ~(depth > NestingLimit) /\ Len(store[l].entries) = Len(store[r].entries)
               /\ store[l].entries # <<>>
      <4> DEFINE c == invoke_dict_operation(r, store[l].entries[1].key,
                        [op |-> "CompareValue", expected |-> store[l].entries[1].value,
                         action |-> [tag |-> "DictEntries", left |-> l, right |-> r, entries |-> store[l].entries,
                                     next |-> 2, left_version |-> store[l].version,
                                     right_version |-> store[r].version, depth |-> depth, outer |-> a]])
      <4>1. Jump(c)
        BY <3>1, <3>7 DEF EntriesEquality
      <4>2. Follows(store, H, E, c)
        BY <1>3, <1>4, <3>2, <3>7, EntriesBegin
      <4> HIDE DEF c
      <4>3. Follows(store, H, E, now') /\ UNCHANGED <<program, store, frames>>
        BY <4>1, <4>2 DEF Jump
      <4> QED
        BY <1>1, <4>3, JumpKeeps
    <3> QED
      BY <3>4, <3>5, <3>6, <3>7
  <2>4. CASE ~(IsTuple(l) /\ IsTuple(r)) /\ ~({l, r} \subseteq Dicts /\ (l \in Sets <=> r \in Sets))
    <3>1. Jump(CompleteEquality(EqualAtoms(l, r), a))
      BY <2>1, <2>4 DEF invoke_equality_fallback
    <3>2. EqualAtoms(l, r) \in BOOLEAN /\ (KeyEqual(l, r) <=> EqualAtoms(l, r))
      BY <2>4 DEF KeyEqual, EqualAtoms
    <3>3. AnswerOK(l, r, EqualAtoms(l, r))
      BY <3>2 DEF AnswerOK
    <3> QED
      BY <1>5, <3>1, <3>3
  <2> QED
    BY <2>2, <2>3, <2>4
<1> QED
  BY <1>6, <1>7, <1>8

-----------------------------------------------------------------------------
(* The answers of comparisons. *)

\* One more element of two tuples was compared (EqualityAction::Sequence).
LEMMA ElementsAnswered ==
  ASSUME NEW st, NEW H, NEW E, Closed(st, H, E), NEW l, NEW r, NEW a, ElementCompared(E, l, r, a),
         NEW equal, AnswerOK(l, r, equal)
  PROVE  /\ equal = FALSE => Follows(st, H, E, CompleteEquality(FALSE, a.outer))
         /\ equal = TRUE /\ a.next <= Len(a.left) =>
               Follows(st, H, E, EqualityCall(a.left[a.next], a.right[a.next], [a EXCEPT !.next = @ + 1]))
         /\ equal = TRUE /\ ~(a.next <= Len(a.left)) => Follows(st, H, E, CompleteEquality(TRUE, a.outer))
<1> DEFINE b == [a EXCEPT !.next = @ + 1]
           n == a.next - 1
<1>1. /\ a = [tag |-> "Sequence", left |-> a.left, right |-> a.right, next |-> a.next, depth |-> a.depth,
              outer |-> a.outer]
      /\ Len(a.left) = Len(a.right)
      /\ a.next \in 2 .. Len(a.left) + 1
      /\ l = a.left[n] /\ r = a.right[n]
      /\ \A j \in 1 .. a.next - 2 : EqualAtoms(a.left[j], a.right[j])
  BY DEF ElementCompared
<1>2. PICK tl \in Objects, tr \in Objects :
         /\ IsTuple(tl) /\ IsTuple(tr)
         /\ a.left = Items[tl] /\ a.right = Items[tr] /\ <<tl, tr, a.outer>> \in E
  BY DEF ElementCompared
<1>3. /\ Len(a.left) \in Nat
      /\ \A i \in 1 .. Len(a.left) : a.left[i] \in Objects /\ ~IsTuple(a.left[i])
      /\ \A i \in 1 .. Len(a.left) : a.right[i] \in Objects /\ ~IsTuple(a.right[i])
  BY <1>1, <1>2, TupleItems
<1>4. n \in 1 .. Len(a.left) /\ a.next \in Nat
  BY <1>1, <1>3
<1>5. equal \in BOOLEAN /\ (equal <=> EqualAtoms(l, r))
  <2>1. l \in Objects /\ r \in Objects /\ ~IsTuple(l)
    BY <1>1, <1>3, <1>4
  <2> QED
    BY <2>1 DEF AnswerOK, KeyEqual
<1> HIDE DEF n
<1>6. ASSUME equal = FALSE
      PROVE  Follows(st, H, E, CompleteEquality(FALSE, a.outer))
  <2>1. ~KeyEqual(tl, tr)
    BY <1>1, <1>2, <1>4, <1>5, <1>6 DEF KeyEqual
  <2>2. AnswerOK(tl, tr, FALSE)
    BY <2>1 DEF AnswerOK
  <2> QED
    BY <1>2, <2>2, FollowsAnswer
<1>7. ASSUME equal = TRUE
      PROVE  \A j \in 1 .. n : EqualAtoms(a.left[j], a.right[j])
  <2>1. \A j \in 1 .. n : j = n \/ j \in 1 .. a.next - 2
    BY <1>4 DEF n
  <2> QED
    BY <1>1, <1>5, <1>7, <2>1
<1>8. ASSUME equal = TRUE, a.next <= Len(a.left)
      PROVE  Follows(st, H, E, EqualityCall(a.left[a.next], a.right[a.next], b))
  <2>1. /\ b = [tag |-> "Sequence", left |-> b.left, right |-> b.right, next |-> b.next, depth |-> b.depth,
                outer |-> b.outer]
        /\ b.left = a.left /\ b.right = a.right /\ b.next = a.next + 1 /\ b.outer = a.outer
    BY <1>1
  <2> HIDE DEF b
  <2>2. /\ a.next \in 1 .. Len(a.left)
        /\ b.next \in 2 .. Len(b.left) + 1 /\ b.next - 1 = a.next /\ b.next - 2 = n
    BY <1>1, <1>3, <1>4, <1>8, <2>1 DEF n
  <2>3. \E x, y \in Objects :
           /\ IsTuple(x) /\ IsTuple(y)
           /\ b.left = Items[x] /\ b.right = Items[y] /\ <<x, y, b.outer>> \in E
    BY <1>2, <2>1
  <2>4. ElementCompared(E, a.left[a.next], a.right[a.next], b)
    <3>1. Len(b.left) = Len(b.right)
      BY <1>1, <2>1
    <3>2. a.left[a.next] = b.left[b.next - 1] /\ a.right[a.next] = b.right[b.next - 1]
      BY <2>1, <2>2
    <3>3. \A j \in 1 .. b.next - 2 : EqualAtoms(b.left[j], b.right[j])
      BY <1>7, <1>8, <2>1, <2>2
    <3> QED
      BY <2>1, <2>2, <2>3, <3>1, <3>2, <3>3 DEF ElementCompared
  <2>5. EqualityWait(st, E, a.left[a.next], a.right[a.next], b)
    BY <1>3, <2>2, <2>4 DEF EqualityWait, Value, Operand
  <2> QED
    BY <2>5, FollowsEquality
<1>9. ASSUME equal = TRUE, ~(a.next <= Len(a.left))
      PROVE  Follows(st, H, E, CompleteEquality(TRUE, a.outer))
  <2>1. n = Len(a.left)
    BY <1>1, <1>3, <1>4, <1>9 DEF n
  <2>2. KeyEqual(tl, tr)
    BY <1>1, <1>2, <1>7, <1>9, <2>1 DEF KeyEqual
  <2>3. AnswerOK(tl, tr, TRUE)
    BY <2>2 DEF AnswerOK
  <2> QED
    BY <1>2, <2>3, FollowsAnswer
<1> QED
  BY <1>6, <1>8, <1>9

\* A candidate was compared with the key (EqualityAction::DictCandidate).
LEMMA CandidateAnswered ==
  ASSUME NEW st, StoreOK(st), NEW H, NEW E, Closed(st, H, E), NEW l, NEW r, NEW a,
         CandidateCompared(st, E, l, r, a), NEW equal, AnswerOK(l, r, equal),
         st[a.state.owner].version = a.state.version
  PROVE  /\ equal => Follows(st, H, E, [at |-> "finish", state |-> a.state, matched |-> a.index])
         /\ ~equal => Follows(st, H, E, [at |-> "candidates", state |-> a.state])
<1> DEFINE s == a.state
           es == st[s.owner].entries
           n == s.next - 1
<1>1. /\ LookupOK(st, E, s) /\ s.next >= 2 /\ Tried(st, s, s.next - 2) /\ l \in Objects /\ r = s.key
      /\ n <= Len(s.candidates) /\ a.index = s.candidates[n] /\ l = es[a.index].key
  BY DEF CandidateCompared
<1>2. s.next \in Nat \ {0} /\ s.key \in Objects
  BY <1>1 DEF LookupOK
<1>3. equal \in BOOLEAN /\ (equal <=> KeyEqual(es[a.index].key, s.key))
  BY <1>1, <1>2 DEF AnswerOK
<1>4. CandidatesListed(st, s)
  BY <1>1, CandidateFacts
<1>5. n \in 1 .. Len(s.candidates)
  <2>1. Len(s.candidates) \in Nat
    BY <1>4 DEF CandidatesListed
  <2>2. s.next >= 2 /\ n <= Len(s.candidates)
    BY <1>1
  <2> QED
    BY <1>2, <2>1, <2>2
<1>6. ASSUME equal
      PROVE  Follows(st, H, E, [at |-> "finish", state |-> s, matched |-> a.index])
  <2> DEFINE c == [at |-> "finish", state |-> s, matched |-> a.index]
  <2>1. a.index \in 1 .. Len(es)
    BY <1>1, <1>4, <1>5 DEF CandidatesListed
  <2>2. a.index # 0
    BY <2>1
  <2>3. Exact(st, s, a.index)
    BY <1>3, <1>6, <2>1, <2>2 DEF Exact
  <2>4. c.at = "finish" /\ c.state = s /\ c.matched = a.index
    OBVIOUS
  <2> HIDE DEF c, s
  <2>5. CallOK(st, H, E, c)
    BY <1>1, <2>3, <2>4 DEF CallOK
  <2>6. Follows(st, H, E, c)
    BY <2>5, FollowsNow
  <2> QED
    BY <2>6 DEF c
<1>7. ASSUME ~equal
      PROVE  Follows(st, H, E, [at |-> "candidates", state |-> s])
  <2> DEFINE c == [at |-> "candidates", state |-> s]
  <2>1. c.at = "candidates" /\ c.state = s
    OBVIOUS
  <2>2. /\ n <= Len(s.candidates)
        /\ \A j \in 1 .. n : ~KeyEqual(es[s.candidates[j]].key, s.key)
    <3>1. \A j \in 1 .. n : j = n \/ j \in 1 .. s.next - 2
      BY <1>2
    <3>2. \A j \in 1 .. s.next - 2 : ~KeyEqual(es[s.candidates[j]].key, s.key)
      BY <1>1 DEF Tried
    <3> HIDE DEF n, es
    <3> QED
      BY <1>1, <1>3, <1>7, <3>1, <3>2
  <2>3. Tried(st, s, s.next - 1)
    BY <2>2 DEF Tried
  <2> HIDE DEF c, s
  <2>4. CallOK(st, H, E, c)
    BY <1>1, <2>1, <2>3 DEF CallOK
  <2>5. Follows(st, H, E, c)
    BY <2>4, FollowsNow
  <2> QED
    BY <2>5 DEF c
<1> QED
  BY <1>6, <1>7

\* The values of a key were compared (EqualityAction::DictEntries).
LEMMA EntriesAnswered ==
  ASSUME NEW st, StoreOK(st), NEW H, NEW E, Closed(st, H, E), NEW a, EntriesOK(st, E, a)
  PROVE  /\ \A equal \in BOOLEAN : Follows(st, H, E, CompleteEquality(equal, a.outer))
         /\ Found(st, a, a.next - 1) /\ a.next <= Len(a.entries) =>
               Follows(st, H, E, invoke_dict_operation(a.right, a.entries[a.next].key,
                  [op |-> "CompareValue", expected |-> a.entries[a.next].value,
                   action |-> [a EXCEPT !.next = @ + 1]]))
<1> DEFINE b == [a EXCEPT !.next = @ + 1]
<1>1. /\ EntriesRecord(a)
      /\ a.left \in Dicts /\ a.right \in Dicts
      /\ a.entries \in Seq(Entry)
      /\ a.next \in 2 .. Len(a.entries) + 1
      /\ a.left_version \in 0 .. st[a.left].version
      /\ a.right_version \in 0 .. st[a.right].version
      /\ EntriesKept(st, a) =>
            /\ SameKeys(st[a.left].entries, a.entries)
            /\ Len(st[a.right].entries) = Len(a.entries)
      /\ <<a.left, a.right, a.outer>> \in E
  BY DEF EntriesOK
<1>2. ASSUME NEW equal \in BOOLEAN
      PROVE  Follows(st, H, E, CompleteEquality(equal, a.outer))
  <2>1. AnswerOK(a.left, a.right, equal)
    BY <1>1, ObjectAssumption DEF AnswerOK
  <2> QED
    BY <1>1, <2>1, FollowsAnswer
<1>3. ASSUME Found(st, a, a.next - 1), a.next <= Len(a.entries)
      PROVE  Follows(st, H, E, invoke_dict_operation(a.right, a.entries[a.next].key,
                [op |-> "CompareValue", expected |-> a.entries[a.next].value, action |-> b]))
  <2>1. /\ EntriesRecord(b)
        /\ b.left = a.left /\ b.right = a.right /\ b.entries = a.entries /\ b.next = a.next + 1
        /\ b.left_version = a.left_version /\ b.right_version = a.right_version /\ b.outer = a.outer
    BY <1>1 DEF EntriesRecord
  <2> HIDE DEF b
  <2>2. Len(a.entries) \in Nat /\ a.next \in Nat
    BY <1>1, LenProperties
  <2>3. b.next \in 2 .. Len(a.entries) + 1 /\ b.next - 1 = a.next /\ b.next - 2 = a.next - 1
    BY <1>1, <1>3, <2>1, <2>2
  <2>4. EntriesOK(st, E, b)
    BY <1>1, <2>1, <2>3 DEF EntriesOK, EntriesKept
  <2>5. Found(st, b, b.next - 2)
    BY <1>3, <2>1, <2>3 DEF Found, EntriesKept
  <2>6. Follows(st, H, E, invoke_dict_operation(b.right, b.entries[b.next - 1].key,
           [op |-> "CompareValue", expected |-> b.entries[b.next - 1].value, action |-> b]))
    BY <2>4, <2>5, EntryCompared
  <2>7. b.right = a.right /\ b.entries[b.next - 1] = a.entries[a.next]
    BY <2>1, <2>3
  <2> QED
    BY <2>6, <2>7
<1> QED
  BY <1>2, <1>3

\* The result of a comparison reaches what asked for it.
LEMMA AnswerKeeps ==
  ASSUME Inductive, complete_equality
  PROVE  Inductive'
<1> DEFINE a == now.action
           equal == now.equal
<1>1. PICK H, E : Context(H, E) /\ CallOK(store, H, E, now)
  BY DEF Inductive
<1>2. now.at = "complete_equality"
  BY DEF complete_equality
<1>3. \/ \E l, r : <<l, r, a>> \in E /\ AnswerOK(l, r, equal)
      \/ equal = FALSE /\ EntriesOK(store, E, a)
  BY <1>1, <1>2 DEF CallOK
<1>4. Closed(store, H, E) /\ StoreOK(store)
  BY <1>1 DEF Context
<1>5. \/ \E l, r : <<l, r, a>> \in E /\ AnswerOK(l, r, equal) /\ EqualityWait(store, E, l, r, a)
      \/ equal = FALSE /\ EntriesOK(store, E, a)
  BY <1>3, <1>4 DEF Closed
<1>6. EntriesOK(store, E, a) => a.tag = "DictEntries"
  BY DEF EntriesOK, EntriesRecord
<1>7. CASE a.tag = "Return" /\ Jump(GuestCode)
  <2>1. Follows(store, H, E, now') /\ UNCHANGED <<program, store, frames>>
    BY <1>4, <1>7, FollowsGuest DEF Jump
  <2> QED
    BY <1>1, <2>1, JumpKeeps
<1>8. CASE /\ a.tag = "Sequence"
           /\ Jump(IF ~equal THEN CompleteEquality(FALSE, a.outer)
                   ELSE IF a.next <= Len(a.left)
                        THEN EqualityCall(a.left[a.next], a.right[a.next], [a EXCEPT !.next = @ + 1])
                        ELSE CompleteEquality(TRUE, a.outer))
  <2>1. PICK l, r : <<l, r, a>> \in E /\ AnswerOK(l, r, equal) /\ EqualityWait(store, E, l, r, a)
    BY <1>5, <1>6, <1>8
  <2>2. ElementCompared(E, l, r, a)
    BY <1>6, <1>8, <2>1 DEF EqualityWait, CandidateCompared
  <2>3. /\ equal = FALSE => Follows(store, H, E, CompleteEquality(FALSE, a.outer))
        /\ equal = TRUE /\ a.next <= Len(a.left) =>
              Follows(store, H, E, EqualityCall(a.left[a.next], a.right[a.next], [a EXCEPT !.next = @ + 1]))
        /\ equal = TRUE /\ ~(a.next <= Len(a.left)) => Follows(store, H, E, CompleteEquality(TRUE, a.outer))
    <3>1. Closed(store, H, E) /\ AnswerOK(l, r, equal)
      BY <1>4, <2>1
    <3> QED
      BY <2>2, <3>1, ElementsAnswered
  <2>4. UNCHANGED <<program, store, frames>>
    BY <1>8 DEF Jump
  <2>5. CASE equal = FALSE
    BY <1>1, <1>8, <2>3, <2>4, <2>5, JumpKeeps DEF Jump
  <2>6. CASE equal = TRUE /\ a.next <= Len(a.left)
    BY <1>1, <1>8, <2>3, <2>4, <2>6, JumpKeeps DEF Jump
  <2>7. CASE equal = TRUE /\ ~(a.next <= Len(a.left))
    BY <1>1, <1>8, <2>3, <2>4, <2>7, JumpKeeps DEF Jump
  <2> QED
    BY <2>1, <2>5, <2>6, <2>7 DEF AnswerOK
<1>9. CASE /\ a.tag = "DictCandidate"
           /\ IF DictChanged(a.state) THEN Fail
              ELSE Jump(IF equal THEN [at |-> "finish", state |-> a.state, matched |-> a.index]
                        ELSE [at |-> "candidates", state |-> a.state])
  <2>1. PICK l, r : <<l, r, a>> \in E /\ AnswerOK(l, r, equal) /\ EqualityWait(store, E, l, r, a)
    BY <1>5, <1>6, <1>9
  <2>2. CandidateCompared(store, E, l, r, a)
    BY <1>6, <1>9, <2>1 DEF EqualityWait, ElementCompared
  <2>3. CASE DictChanged(a.state)
    BY <1>1, <1>9, <2>3, FailKeeps
  <2>4. CASE ~DictChanged(a.state)
    <3>1. /\ equal => Follows(store, H, E, [at |-> "finish", state |-> a.state, matched |-> a.index])
          /\ ~equal => Follows(store, H, E, [at |-> "candidates", state |-> a.state])
      BY <1>4, <2>1, <2>2, <2>4, CandidateAnswered DEF DictChanged
    <3>2. UNCHANGED <<program, store, frames>>
      BY <1>9, <2>4 DEF Jump
    <3>3. CASE equal
      BY <1>1, <1>9, <2>4, <3>1, <3>2, <3>3, JumpKeeps DEF Jump
    <3>4. CASE ~equal
      BY <1>1, <1>9, <2>4, <3>1, <3>2, <3>4, JumpKeeps DEF Jump
    <3> QED
      BY <3>3, <3>4
  <2> QED
    BY <2>3, <2>4
<1>10. CASE /\ a.tag = "DictEntries"
            /\ IF EntriesChanged(a) THEN Fail
               ELSE Jump(IF ~equal THEN CompleteEquality(FALSE, a.outer)
                         ELSE IF a.next <= Len(a.entries)
                              THEN invoke_dict_operation(a.right, a.entries[a.next].key,
                                      [op |-> "CompareValue", expected |-> a.entries[a.next].value,
                                       action |-> [a EXCEPT !.next = @ + 1]])
                              ELSE CompleteEquality(TRUE, a.outer))
  <2>1. EntriesOK(store, E, a) /\ (equal => Found(store, a, a.next - 1))
    <3>1. CASE equal = FALSE /\ EntriesOK(store, E, a)
      BY <3>1
    <3>2. CASE \E l, r : EqualityWait(store, E, l, r, a)
      <4>1. PICK l, r : EqualityWait(store, E, l, r, a)
        BY <3>2
      <4>2. ~ElementCompared(E, l, r, a)
        BY <1>10 DEF ElementCompared
      <4>3. ~CandidateCompared(store, E, l, r, a)
        BY <1>10 DEF CandidateCompared
      <4> QED
        BY <1>10, <4>1, <4>2, <4>3 DEF EqualityWait
    <3> QED
      BY <1>5, <3>1, <3>2
  <2>2. CASE EntriesChanged(a)
    BY <1>1, <1>10, <2>2, FailKeeps
  <2>3. CASE ~EntriesChanged(a)
    <3>1. /\ \A e \in BOOLEAN : Follows(store, H, E, CompleteEquality(e, a.outer))
          /\ Found(store, a, a.next - 1) /\ a.next <= Len(a.entries) =>
                Follows(store, H, E, invoke_dict_operation(a.right, a.entries[a.next].key,
                   [op |-> "CompareValue", expected |-> a.entries[a.next].value,
                    action |-> [a EXCEPT !.next = @ + 1]]))
      BY <1>4, <2>1, EntriesAnswered
    <3>2. UNCHANGED <<program, store, frames>>
      BY <1>10, <2>3 DEF Jump
    <3>3. CASE ~equal
      BY <1>1, <1>10, <2>3, <3>1, <3>2, <3>3, JumpKeeps DEF Jump
    <3>4. CASE equal /\ a.next <= Len(a.entries)
      BY <1>1, <1>10, <2>1, <2>3, <3>1, <3>2, <3>4, JumpKeeps DEF Jump
    <3>5. CASE equal /\ ~(a.next <= Len(a.entries))
      BY <1>1, <1>10, <2>3, <3>1, <3>2, <3>5, JumpKeeps DEF Jump
    <3> QED
      BY <3>3, <3>4, <3>5
  <2> QED
    BY <2>2, <2>3
<1> QED
  BY <1>7, <1>8, <1>9, <1>10 DEF complete_equality

-----------------------------------------------------------------------------
(* The steps of merging and construction. *)

\* A merge sets its next entry.
LEMMA MergeKeeps ==
  ASSUME Inductive, continue_dict_merge
  PROVE  Inductive'
<1> DEFINE s == now.state
           b == [s EXCEPT !.next = @ + 1]
           e == s.entries[s.next]
<1>1. PICK H, E : Context(H, E) /\ CallOK(store, H, E, now)
  BY DEF Inductive
<1>2. now.at = "merge"
  BY DEF continue_dict_merge
<1>3. s \in MergeStates
  BY <1>1, <1>2 DEF CallOK
<1>4. Closed(store, H, E)
  BY <1>1 DEF Context
<1>5. UNCHANGED <<program, store, frames>>
  BY DEF continue_dict_merge, Jump
<1>6. /\ s.target \in Dicts /\ s.entries \in Seq(Entry) /\ s.next \in Nat \ {0}
      /\ s.finish \in Starts \cup {None}
      /\ b \in MergeStates
  BY <1>3 DEF MergeStates
<1> HIDE DEF b
<1>7. CASE s.next <= Len(s.entries)
  <2> DEFINE kind == [op |-> "SetAndMerge", value |-> e.value, state |-> b]
  <2>1. s.next \in 1 .. Len(s.entries)
    BY <1>6, <1>7, LenProperties
  <2>2. e \in Entry
    BY <1>6, <2>1
  <2>3. e.key \in Operand /\ e.value \in Value
    BY <2>2 DEF Entry, Operand
  <2>4. KindOK(store, E, kind, s.target, e.key)
    BY <1>6, <2>3 DEF KindOK
  <2>5. now' = invoke_dict_operation(s.target, e.key, kind)
    BY <1>7 DEF continue_dict_merge, Jump, b
  <2> HIDE DEF kind, e
  <2>6. Follows(store, H, E, invoke_dict_operation(s.target, e.key, kind))
    BY <1>4, <1>6, <2>3, <2>4, FollowsOperation
  <2>7. Follows(store, H, E, now')
    BY <2>5, <2>6
  <2> QED
    BY <1>1, <1>5, <2>7, JumpKeeps
<1>8. CASE ~(s.next <= Len(s.entries))
  <2>1. \/ now'.at = "guest"
        \/ now'.at = "construction_done" /\ now'.start \in Starts
    BY <1>6, <1>8 DEF continue_dict_merge, Jump, GuestCode
  <2>2. CallOK(store, H, E, now')
    BY <2>1 DEF CallOK
  <2>3. Follows(store, H, E, now')
    BY <1>4, <2>2, FollowsNow
  <2> QED
    BY <1>1, <1>5, <2>3, JumpKeeps
<1> QED
  BY <1>7, <1>8

\* The keyword arguments of a construction are stored.
LEMMA ConstructedKeeps ==
  ASSUME Inductive, finish_dict_construction
  PROVE  Inductive'
<1> DEFINE start == now.start
           d == start.result
           k == start.keywords
           u == IF k = None THEN store[d] ELSE dict_set(store[d], k.key, k.value)
<1>1. PICK H, E : Context(H, E) /\ CallOK(store, H, E, now)
  BY DEF Inductive
<1>2. now.at = "construction_done"
  BY DEF finish_dict_construction
<1>3. d \in Dicts /\ k \in Keywords
  BY <1>1, <1>2 DEF CallOK, Starts
<1>4. /\ store' = [store EXCEPT ![d] = IF k = None THEN @ ELSE dict_set(@, k.key, k.value)]
      /\ now' = GuestCode /\ UNCHANGED <<program, frames>>
  BY DEF finish_dict_construction
<1>5. StoreOK(store) /\ DictOK(store[d])
  BY <1>1, <1>3 DEF Context, StoreOK
<1>6. DictOK(u) /\ Evolves(store[d], u)
  <2>1. CASE k = None
    BY <1>5, <2>1 DEF Evolves, SameKeys
  <2>2. CASE k # None
    <3>1. /\ k.key \in Objects /\ k.key \notin Guest /\ ~IsTuple(k.key) /\ k.value \in Value
          /\ \A o \in Guest : ClassOf[o] # ClassOf[k.key]
      BY <1>3, <2>2, KeywordAssumption DEF Value
    <3> QED
      BY <1>5, <2>2, <3>1, DictSetKeeps
  <2> QED
    BY <2>1, <2>2
<1>7. store' = [store EXCEPT ![d] = u]
  BY <1>4
<1> HIDE DEF u, d
<1>8. StoreOK(store') /\ StoreEvolves(store, store')
  BY <1>3, <1>5, <1>6, <1>7, StoreChange
<1>9. CallOK(store', H, E, now')
  BY <1>4 DEF CallOK, GuestCode
<1> QED
  BY <1>1, <1>4, <1>8, <1>9, StoreKeeps

\* A construction takes its next pair.
LEMMA ConstructionKeeps ==
  ASSUME Inductive, continue_dict_construction
  PROVE  Inductive'
<1> DEFINE s == now.state
           i == s.iterator
<1>1. PICK H, E : Context(H, E) /\ CallOK(store, H, E, now)
  BY DEF Inductive
<1>2. now.at = "construction"
  BY DEF continue_dict_construction
<1>3. s \in ConstructionStates
  BY <1>1, <1>2 DEF CallOK
<1>4. Closed(store, H, E)
  BY <1>1 DEF Context
<1>5. s.start \in Starts /\ i \in Iterators /\ i.rest \in Seq(Pairs)
  BY <1>3 DEF ConstructionStates, Iterators
<1>6. CASE i.guest
  <2> DEFINE f == [method |-> "next", rest |-> i.rest, action |-> [tag |-> "DictIterableNext", state |-> s]]
  <2>1. /\ f.method = "next" /\ f.action.tag = "DictIterableNext" /\ f.action.state = s
        /\ f.rest = i.rest
    OBVIOUS
  <2>2. Push(f)
    BY <1>6 DEF continue_dict_construction
  <2> HIDE DEF f
  <2>3. FrameOK(H, E, f)
    BY <1>3, <1>5, <2>1 DEF FrameOK
  <2> QED
    BY <1>1, <2>2, <2>3, PushKeeps
<1>7. CASE ~i.guest
  <2>1. /\ now' = IF i.rest = <<>> THEN [at |-> "construction_done", start |-> s.start]
                  ELSE [at |-> "pair", iterator |-> Head(i.rest),
                        state |-> [outer |-> [s EXCEPT !.iterator.rest = Tail(i.rest)], items |-> <<>>]]
        /\ UNCHANGED <<program, store, frames>>
    BY <1>7 DEF continue_dict_construction, Jump
  <2>2. \/ now'.at = "construction_done" /\ now'.start \in Starts
        \/ now'.at = "pair" /\ now'.iterator \in Pairs /\ now'.state \in PairStates
    <3>1. CASE i.rest = <<>>
      BY <1>5, <2>1, <3>1
    <3>2. CASE i.rest # <<>>
      <4>1. Head(i.rest) \in Pairs /\ Tail(i.rest) \in Seq(Pairs)
        BY <1>5, <3>2, HeadAndTail
      <4>2. [outer |-> [s EXCEPT !.iterator.rest = Tail(i.rest)], items |-> <<>>] \in PairStates
        BY <1>3, <4>1, PairBegins
      <4> QED
        BY <2>1, <3>2, <4>1, <4>2
    <3> QED
      BY <3>1, <3>2
  <2>3. CallOK(store, H, E, now')
    BY <2>2 DEF CallOK
  <2>4. Follows(store, H, E, now')
    BY <1>4, <2>3, FollowsNow
  <2> QED
    BY <1>1, <2>1, <2>4, JumpKeeps
<1> QED
  BY <1>6, <1>7

\* A pair hands out its elements.
LEMMA PairKeeps ==
  ASSUME Inductive, continue_dict_pair
  PROVE  Inductive'
<1> DEFINE s == now.state
           i == now.iterator
<1>1. PICK H, E : Context(H, E) /\ CallOK(store, H, E, now)
  BY DEF Inductive
<1>2. now.at = "pair"
  BY DEF continue_dict_pair
<1>3. s \in PairStates /\ i \in Pairs
  BY <1>1, <1>2 DEF CallOK
<1>4. Closed(store, H, E)
  BY <1>1 DEF Context
<1>5. s.items \in Seq(Operand) /\ i.rest \in Seq(Operand)
  BY <1>3 DEF PairStates, Pairs
<1>6. CASE i.guest
  <2> DEFINE f == [method |-> "next", rest |-> i.rest, action |-> [tag |-> "DictPairNext", state |-> s]]
  <2>1. /\ f.method = "next" /\ f.action.tag = "DictPairNext" /\ f.action.state = s
        /\ f.rest = i.rest
    OBVIOUS
  <2>2. Push(f)
    BY <1>6 DEF continue_dict_pair
  <2> HIDE DEF f
  <2>3. FrameOK(H, E, f)
    BY <1>3, <1>5, <2>1 DEF FrameOK
  <2> QED
    BY <1>1, <2>2, <2>3, PushKeeps
<1>7. CASE ~i.guest
  <2>1. /\ now' = [at |-> "pair_done", state |-> [s EXCEPT !.items = @ \o i.rest]]
        /\ UNCHANGED <<program, store, frames>>
    BY <1>7 DEF continue_dict_pair, Jump
  <2>2. s.items \o i.rest \in Seq(Operand)
    BY <1>5, ConcatProperties
  <2>3. [s EXCEPT !.items = @ \o i.rest] \in PairStates
    BY <1>3, <2>2, PairGrows
  <2>4. now'.at = "pair_done" /\ now'.state \in PairStates
    BY <2>1, <2>3
  <2>5. CallOK(store, H, E, now')
    BY <2>4 DEF CallOK
  <2>6. Follows(store, H, E, now')
    BY <1>4, <2>5, FollowsNow
  <2> QED
    BY <1>1, <2>1, <2>6, JumpKeeps
<1> QED
  BY <1>6, <1>7

\* A pair is set.
LEMMA PairDoneKeeps ==
  ASSUME Inductive, finish_dict_pair
  PROVE  Inductive'
<1> DEFINE s == now.state
           d == s.outer.start.result
           kind == [op |-> "SetAndContinue", value |-> s.items[2], state |-> s.outer]
<1>1. PICK H, E : Context(H, E) /\ CallOK(store, H, E, now)
  BY DEF Inductive
<1>2. now.at = "pair_done"
  BY DEF finish_dict_pair
<1>3. s \in PairStates
  BY <1>1, <1>2 DEF CallOK
<1>4. Closed(store, H, E)
  BY <1>1 DEF Context
<1>5. CASE Len(s.items) # 2
  BY <1>1, <1>5, FailKeeps DEF finish_dict_pair
<1>6. CASE Len(s.items) = 2
  <2>1. s.items \in Seq(Operand) /\ s.outer \in ConstructionStates
    BY <1>3 DEF PairStates
  <2>2. s.items[1] \in Operand /\ s.items[2] \in Value
    BY <1>6, <2>1 DEF Value
  <2>3. d \in Dicts
    BY <2>1 DEF ConstructionStates, Starts
  <2>4. KindOK(store, E, kind, d, s.items[1])
    BY <2>1, <2>2 DEF KindOK
  <2>5. now' = invoke_dict_operation(d, s.items[1], kind) /\ UNCHANGED <<program, store, frames>>
    BY <1>6 DEF finish_dict_pair, Jump
  <2> HIDE DEF kind, d
  <2>6. Follows(store, H, E, invoke_dict_operation(d, s.items[1], kind))
    BY <1>4, <2>2, <2>3, <2>4, FollowsOperation
  <2>7. Follows(store, H, E, now')
    BY <2>5, <2>6
  <2> QED
    BY <1>1, <2>5, <2>7, JumpKeeps
<1> QED
  BY <1>5, <1>6

-----------------------------------------------------------------------------
(* The invariant. *)

\* Empty dictionaries and no continuations.
LEMMA InitInductive ==
  ASSUME Init
  PROVE  Inductive
<1>1. DictOK([Empty EXCEPT !.version = 0])
  BY EmptyOK
<1>2. [Empty EXCEPT !.version = 0] = Empty
  BY DEF Empty
<1>3. DictOK(Empty)
  BY <1>1, <1>2
<1> HIDE DEF Empty
<1>4. StoreOK(store)
  BY <1>3 DEF Init, StoreOK, DictOK
<1>5. frames \in Seq({}) /\ Len(frames) = 0
  BY EmptySeq DEF Init
<1>6. Closed(store, {}, {}) /\ FramesOK({}, {}, frames)
  BY <1>5 DEF Closed, FramesOK
<1>7. CallOK(store, {}, {}, now)
  BY DEF CallOK, Init, GuestCode
<1>8. program \in Programs
  BY DEF Init
<1>9. Context({}, {})
  BY <1>4, <1>5, <1>6, <1>8 DEF Context
<1> QED
  BY <1>7, <1>9 DEF Inductive

\* Every step keeps it.
LEMMA NextInductive ==
  ASSUME Inductive, [Next]_vars
  PROVE  Inductive'
<1>1. CASE Program
  BY <1>1, ProgramKeeps
<1>2. CASE Return
  BY <1>2, ReturnKeeps
<1>3. CASE Stop
  BY <1>3, StopKeeps
<1>4. CASE Raise
  BY <1>4, RaiseKeeps
<1>5. CASE invoke_hash_protocol
  BY <1>5, HashKeeps
<1>6. CASE complete_hash
  BY <1>6, HashedKeeps
<1>7. CASE continue_dict_operation
  BY <1>7, LookupKeeps
<1>8. CASE finish_dict_operation
  BY <1>8, FinishKeeps
<1>9. CASE invoke_equality
  BY <1>9, EqualityKeeps
<1>10. CASE complete_equality
  BY <1>10, AnswerKeeps
<1>11. CASE continue_dict_merge
  BY <1>11, MergeKeeps
<1>12. CASE finish_dict_construction
  BY <1>12, ConstructedKeeps
<1>13. CASE continue_dict_construction
  BY <1>13, ConstructionKeeps
<1>14. CASE continue_dict_pair
  BY <1>14, PairKeeps
<1>15. CASE finish_dict_pair
  BY <1>15, PairDoneKeeps
<1>16. CASE UNCHANGED vars
  BY <1>16 DEF vars, Inductive, Context
<1> QED
  BY <1>1, <1>2, <1>3, <1>4, <1>5, <1>6, <1>7, <1>8, <1>9, <1>10, <1>11, <1>12, <1>13, <1>14, <1>15,
     <1>16 DEF Next

\* The entries and buckets of every dictionary, and every continuation that is waiting, agree
\* in every reachable state (dict.rs, protocols.rs).
THEOREM SpecInductive == Spec => []Inductive
<1>1. Init => Inductive
  BY InitInductive
<1>2. Inductive /\ [Next]_vars => Inductive'
  BY NextInductive
<1> QED
  BY <1>1, <1>2, PTL DEF Spec

\* The buckets and the entries of every dictionary agree, and its keys are different.
THEOREM IndexIsConsistent == Spec => []IndexConsistent
<1>1. ASSUME Inductive
      PROVE  IndexConsistent
  <2>1. StoreOK(store)
    BY <1>1 DEF Inductive, Context
  <2>2. ASSUME NEW d \in Dicts
        PROVE  LET t == store[d]
               IN  /\ Len(t.hashes) = Len(t.entries)
                   /\ \A h \in Hash :
                         /\ Increases(t.index[h])
                         /\ {t.index[h][j] : j \in 1 .. Len(t.index[h])} = {i \in 1 .. Len(t.entries) : t.hashes[i] = h}
                   /\ \A i, j \in 1 .. Len(t.entries) :
                         i # j => ~KeyEqual(t.entries[i].key, t.entries[j].key)
    <3>1. DictOK(store[d])
      BY <2>1 DEF StoreOK
    <3> QED
      BY <3>1 DEF DictOK, Lists, Distinct
  <2> QED
    BY <2>2 DEF IndexConsistent
<1> QED
  BY <1>1, SpecInductive, PTL

\* The entry that an operation uses or changes is the entry of its key, however long ago it was
\* matched (finish_dict_operation).
THEOREM MatchIsExact == Spec => []MatchExact
<1>1. ASSUME Inductive
      PROVE  MatchExact
  <2>1. CASE now.at # "finish"
    BY <2>1 DEF MatchExact
  <2>2. CASE now.at = "finish"
    <3>1. Exact(store, now.state, now.matched)
      BY <1>1, <2>2 DEF Inductive, CallOK
    <3> QED
      BY <3>1 DEF Exact, MatchExact
  <2> QED
    BY <2>1, <2>2
<1> QED
  BY <1>1, SpecInductive, PTL

\* As many different keys, all of them in the other dictionary, are all of its keys.
LEMMA KeysOnto ==
  ASSUME NEW es \in Seq(Entry), NEW fs \in Seq(Entry), Len(es) = Len(fs), Distinct(es),
         \A i \in 1 .. Len(es) : \E k \in 1 .. Len(fs) : KeyEqual(es[i].key, fs[k].key)
  PROVE  \A k \in 1 .. Len(fs) : \E i \in 1 .. Len(es) : KeyEqual(fs[k].key, es[i].key)
<1> DEFINE n == Len(es)
           f == [i \in 1 .. n |-> CHOOSE k \in 1 .. n : KeyEqual(es[i].key, fs[k].key)]
<1>1. n \in Nat
  BY LenProperties
<1>2. \A i \in 1 .. n : es[i].key \in Objects /\ fs[i].key \in Objects
  <2>1. \A i \in 1 .. n : es[i] \in Entry /\ fs[i] \in Entry
    OBVIOUS
  <2> QED
    BY <2>1 DEF Entry
<1>3. \A i \in 1 .. n : f[i] \in 1 .. n /\ KeyEqual(es[i].key, fs[f[i]].key)
  OBVIOUS
<1>4. f \in [1 .. n -> 1 .. n]
  BY <1>3
<1> HIDE DEF f
<1>5. ASSUME NEW i \in 1 .. n, NEW j \in 1 .. n, f[i] = f[j]
      PROVE  i = j
  <2>1. KeyEqual(es[i].key, fs[f[i]].key) /\ KeyEqual(es[j].key, fs[f[i]].key)
    BY <1>3, <1>5
  <2>2. KeyEqual(fs[f[i]].key, es[j].key)
    BY <1>2, <1>3, <2>1, KeyEquality
  <2>3. KeyEqual(es[i].key, es[j].key)
    BY <1>2, <1>3, <2>1, <2>2, KeyEquality, ZenonT(30)
  <2> QED
    BY <2>3 DEF Distinct
<1> HIDE DEF n
<1>6. f \in Injection(1 .. n, 1 .. n)
  BY <1>4, <1>5, Fun_IsInj
<1>7. IsFiniteSet(1 .. n)
  BY <1>1, FS_Interval
<1>8. f \in Surjection(1 .. n, 1 .. n)
  BY <1>6, <1>7, FS_Injection
<1>9. \A k \in 1 .. n : \E i \in 1 .. n : f[i] = k
  BY <1>8, Fun_SurjectionProperties, ZenonT(30)
<1>10. ASSUME NEW k \in 1 .. n
       PROVE  \E i \in 1 .. n : KeyEqual(fs[k].key, es[i].key)
  <2>1. PICK i \in 1 .. n : f[i] = k
    BY <1>9
  <2>2. KeyEqual(es[i].key, fs[k].key)
    BY <1>3, <2>1
  <2> QED
    BY <1>2, <2>2, KeyEquality
<1> QED
  BY <1>10 DEF n

\* Only the answer to the last comparison of two dictionaries says that they are equal.
LEMMA EntriesEqual ==
  ASSUME Next, now.at = "complete_equality", now'.at = "complete_equality",
         now.action.tag = "DictEntries", now'.equal
  PROVE  ~EntriesChanged(now.action) /\ now.equal /\ ~(now.action.next <= Len(now.action.entries))
<1> DEFINE a == now.action
<1>1. complete_equality
  <2>1. ~Running
    BY DEF Running
  <2>2. ~Program
    BY <2>1 DEF Program, ContainsKey, SetAdd, GetItem, DelItem, MatchKey, MatchUnique, SetItem,
               DictMerge, Compare, DictInit, Begin
  <2>3. ~Return /\ ~Stop /\ ~Raise
    BY <2>1 DEF Return, Stop, Raise
  <2>4. ~invoke_hash_protocol /\ ~complete_hash /\ ~continue_dict_operation /\ ~finish_dict_operation
    BY DEF invoke_hash_protocol, complete_hash, continue_dict_operation, finish_dict_operation
  <2>5. ~invoke_equality /\ ~continue_dict_merge /\ ~finish_dict_construction
    BY DEF invoke_equality, continue_dict_merge, finish_dict_construction
  <2>6. ~continue_dict_construction /\ ~continue_dict_pair /\ ~finish_dict_pair
    BY DEF continue_dict_construction, continue_dict_pair, finish_dict_pair
  <2> QED
    BY <2>2, <2>3, <2>4, <2>5, <2>6 DEF Next
<1>2. IF EntriesChanged(a) THEN Fail
      ELSE Jump(IF ~now.equal THEN CompleteEquality(FALSE, a.outer)
                ELSE IF a.next <= Len(a.entries)
                     THEN invoke_dict_operation(a.right, a.entries[a.next].key,
                             [op |-> "CompareValue", expected |-> a.entries[a.next].value,
                              action |-> [a EXCEPT !.next = @ + 1]])
                     ELSE CompleteEquality(TRUE, a.outer))
  BY <1>1 DEF complete_equality
<1>3. ~EntriesChanged(a)
  <2>1. SUFFICES ASSUME EntriesChanged(a)
                 PROVE  FALSE
    OBVIOUS
  <2>2. now' = GuestCode
    BY <1>2, <2>1 DEF Fail
  <2>3. now'.at = "guest"
    BY <2>2 DEF GuestCode
  <2> QED
    BY <2>3
<1>4. now' = IF ~now.equal THEN CompleteEquality(FALSE, a.outer)
             ELSE IF a.next <= Len(a.entries)
                  THEN invoke_dict_operation(a.right, a.entries[a.next].key,
                          [op |-> "CompareValue", expected |-> a.entries[a.next].value,
                           action |-> [a EXCEPT !.next = @ + 1]])
                  ELSE CompleteEquality(TRUE, a.outer)
  BY <1>2, <1>3 DEF Jump
<1>5. now.equal
  BY <1>4 DEF CompleteEquality
<1>6. ~(a.next <= Len(a.entries))
  BY <1>4, <1>5 DEF invoke_dict_operation, HashCall
<1> QED
  BY <1>3, <1>5, <1>6

\* Dictionaries found equal have the same keys, whatever the comparisons of their values did
\* (EqualityAction::DictEntries).
THEOREM EqualDictionaries == Spec => EqualHaveSameKeys
<1> DEFINE a == now.action
           es == store[a.left].entries
           fs == store[a.right].entries
           KeysOf(d) == {store[d].entries[i].key : i \in 1 .. Len(store[d].entries)}
           Covers(d, e) == \A k \in KeysOf(d) : \E m \in KeysOf(e) : KeyEqual(k, m)
           Step == (now.at = "complete_equality" /\ now'.at = "complete_equality") =>
                      ((a.tag = "DictEntries" /\ now'.equal) =>
                         Covers(a.left, a.right) /\ Covers(a.right, a.left))
<1>1. ASSUME Inductive, Next, now.at = "complete_equality", now'.at = "complete_equality",
             a.tag = "DictEntries", now'.equal
      PROVE  Covers(a.left, a.right) /\ Covers(a.right, a.left)
  <2>1. ~EntriesChanged(a) /\ now.equal /\ ~(a.next <= Len(a.entries))
    BY <1>1, EntriesEqual
  <2>2. PICK H, E : Context(H, E) /\ CallOK(store, H, E, now)
    BY <1>1 DEF Inductive
  <2>3. StoreOK(store) /\ Closed(store, H, E)
    BY <2>2 DEF Context
  <2>4. EntriesOK(store, E, a) /\ Found(store, a, a.next - 1)
    <3>1. now.equal # FALSE
      BY <2>1
    <3>2. PICK l, r : <<l, r, a>> \in E
      BY <1>1, <2>2, <3>1 DEF CallOK
    <3>3. EqualityWait(store, E, l, r, a)
      BY <2>3, <3>2 DEF Closed
    <3>4. ~ElementCompared(E, l, r, a)
      BY <1>1 DEF ElementCompared
    <3>5. ~CandidateCompared(store, E, l, r, a)
      BY <1>1 DEF CandidateCompared
    <3> QED
      BY <1>1, <3>3, <3>4, <3>5 DEF EqualityWait
  <2>5. EntriesKept(store, a)
    BY <2>1 DEF EntriesChanged, EntriesKept
  <2>6. /\ a.left \in Dicts /\ a.right \in Dicts
        /\ a.entries \in Seq(Entry) /\ a.next \in 2 .. Len(a.entries) + 1
        /\ SameKeys(es, a.entries) /\ Len(fs) = Len(a.entries)
    BY <2>4, <2>5 DEF EntriesOK
  <2>7. a.next - 1 = Len(a.entries)
    BY <2>1, <2>6, LenProperties
  <2>8. \A j \in 1 .. Len(a.entries) : \E i \in 1 .. Len(fs) : KeyEqual(a.entries[j].key, fs[i].key)
    BY <2>4, <2>5, <2>7 DEF Found
  <2>9. Len(es) = Len(fs) /\ \A j \in 1 .. Len(es) : es[j].key = a.entries[j].key
    BY <2>6 DEF SameKeys
  <2>10. \A j \in 1 .. Len(es) : \E i \in 1 .. Len(fs) : KeyEqual(es[j].key, fs[i].key)
    BY <2>6, <2>8, <2>9
  <2>11. es \in Seq(Entry) /\ fs \in Seq(Entry) /\ Distinct(es)
    BY <2>3, <2>6, DictFields DEF StoreOK, DictOK
  <2> HIDE DEF es, fs
  <2>12. \A k \in 1 .. Len(fs) : \E i \in 1 .. Len(es) : KeyEqual(fs[k].key, es[i].key)
    BY <2>9, <2>10, <2>11, KeysOnto
  <2> QED
    BY <2>10, <2>12 DEF es, fs
<1>2. Inductive /\ [Next]_vars => [Step]_vars
  BY <1>1
<1> QED
  BY <1>2, SpecInductive, PTL DEF Spec, EqualHaveSameKeys

=============================================================================
