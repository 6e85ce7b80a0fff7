-------------------------- MODULE TonicDictionaries --------------------------
(***************************************************************************)
(* Dictionaries and sets, and the operations on them that run guest code.  *)
(* A dictionary keeps its entries in order and, for every hash, the        *)
(* positions of the entries with that hash.  An operation hashes its key,  *)
(* takes the candidates of that hash and compares them with the key one    *)
(* after the other; hashes and comparisons may be __hash__ and __eq__      *)
(* methods of the program, which may operate on the same dictionary before *)
(* they return.  What is left of an operation is a continuation stored in  *)
(* the frame of the method it waits for.                                   *)
(*                                                                         *)
(* now is the call the machine is about to make (every function of the     *)
(* protocol ends in one), or "guest" while bytecode of the program runs.   *)
(***************************************************************************)
EXTENDS Integers, Sequences

CONSTANTS
    Dicts,          \* dictionaries and sets
    Sets,           \* those that are sets
    Objects,        \* the values that may be keys
    Guest,          \* objects of classes with __hash__ and __eq__ in bytecode
    Unkeyed,        \* objects that are hashed by identity and refused as keys
    Items,          \* Items[o]: the elements of a tuple, <<>> for an atom
    HashOf,         \* HashOf[o]: the hash of an atom, as __hash__ computes it
    IdentityHash,   \* IdentityHash[o]: the hash of the identity of an object
    ClassOf,        \* ClassOf[o]: atoms with the same class are equal
    Hashes,         \* the hashes are the numbers below Hashes
    Programs,       \* programs: the operations, keys, values and dictionaries they use
                    \* and the bound on the operations they carry out
    Sources,        \* Sources[n]: a sequence of pairs that dict.__init__ is given
    Keywords,       \* the keyword arguments of dict.__init__
    NestingLimit,   \* PROTOCOL_NESTING_LIMIT
    RecursionLimit, \* methods that may run inside one another
    None

ASSUME HashAssumption ==
    /\ Hashes \in Nat
    /\ HashOf \in [Objects -> 0..(Hashes - 1)]

VARIABLES program, store, frames, now, operations

vars == <<program, store, frames, now, operations>>

-----------------------------------------------------------------------------
(* Keys. *)

Hash == 0..(Hashes - 1)

IsTuple(o) == o \in Objects /\ Items[o] # <<>>

\* What operations are given; the entries of a set have no value.
Operand == Objects \cup Dicts

Value == Operand \cup {None}

\* The elements of a tuple are atoms; the objects with methods of their own are atoms.
ASSUME ObjectAssumption ==
    /\ Objects \cap Dicts = {}
    /\ Items \in [Objects -> Seq(Objects)]
    /\ \A o \in Objects : \A i \in 1..Len(Items[o]) : ~IsTuple(Items[o][i])
    /\ Guest \subseteq {o \in Objects : ~IsTuple(o)}

\* The contract of __eq__ and __hash__, which the methods of a program keep: atoms that are
\* equal have the same hash, and no atom is equal to a tuple.
ASSUME EqualityAssumption ==
    \A a, b \in Objects :
        ClassOf[a] = ClassOf[b] => (IsTuple(a) <=> IsTuple(b)) /\ HashOf[a] = HashOf[b]

\* Whether two values are equal for the program.
EqualAtoms(a, b) == a = b \/ (a \in Objects /\ b \in Objects /\ ClassOf[a] = ClassOf[b])

KeyEqual(a, b) ==
    IF IsTuple(a) /\ IsTuple(b)
    THEN /\ Len(Items[a]) = Len(Items[b])
         /\ \A i \in 1..Len(Items[a]) : EqualAtoms(Items[a][i], Items[b][i])
    ELSE EqualAtoms(a, b)

\* The structural key of a value: instances count by identity.
AtomMaterial(o) == IF o \in Guest THEN <<"Identity", o>> ELSE <<"Value", ClassOf[o]>>

dict_key(o) == IF IsTuple(o) THEN <<"Tuple", [i \in 1..Len(Items[o]) |-> AtomMaterial(Items[o][i])]>>
               ELSE AtomMaterial(o)

sequence_start == 0

sequence_step(acc, h) == (3 * acc + h) % Hashes

sequence_finish(acc, length) == (acc + length) % Hashes

\* The hash of a structural key.
key_hash(o) ==
    LET atom(a) == IF a \in Guest THEN IdentityHash[a] ELSE HashOf[a]
        acc[n \in 0..Len(Items[o])] ==
            IF n = 0 THEN sequence_start ELSE sequence_step(acc[n - 1], atom(Items[o][n]))
    IN  IF IsTuple(o) THEN sequence_finish(acc[Len(Items[o])], Len(Items[o])) ELSE atom(o)

\* A pair of a source is an iterator too.
Pairs == [guest : BOOLEAN, rest : Seq(Operand)]

Iterators == [guest : BOOLEAN, rest : Seq(Pairs)]

ASSUME ProgramAssumption ==
    /\ Sets \subseteq Dicts
    /\ \A p \in Programs : p.keys \subseteq Operand /\ p.values \subseteq Operand /\ p.dicts \subseteq Dicts
    /\ \A n \in DOMAIN Sources : Sources[n] \in Iterators

\* The names of keyword arguments are strings.  dict_set looks them up by their structure,
\* which is the whole of their equality only while no __eq__ of the program holds for them.
ASSUME KeywordAssumption ==
    \A k \in Keywords :
        k # None => /\ k.key \in Objects \ Guest /\ ~IsTuple(k.key) /\ k.value \in Operand
                    /\ \A o \in Guest : ClassOf[o] # ClassOf[k.key]

-----------------------------------------------------------------------------
(* Storage. *)

Empty == [entries |-> <<>>, hashes |-> <<>>, index |-> [h \in Hash |-> <<>>], version |-> 0]

\* A new entry at the end.
Append1(d, key, value, hash) ==
    [entries |-> Append(d.entries, [key |-> key, value |-> value]),
     hashes |-> Append(d.hashes, hash),
     index |-> [d.index EXCEPT ![hash] = Append(@, Len(d.entries) + 1)],
     version |-> d.version + 1]

Without(s, i) == SubSeq(s, 1, i - 1) \o SubSeq(s, i + 1, Len(s))

hash_candidates(d, hash) == d.index[hash]

\* The position of the first entry with the structural key of key, or 0.
find_material(d, key) ==
    LET bucket == d.index[key_hash(key)]
        found == {i \in 1..Len(bucket) : dict_key(d.entries[bucket[i]].key) = dict_key(key)}
    IN  IF found = {} THEN 0 ELSE bucket[CHOOSE i \in found : \A j \in found : i <= j]

\* dict_set, which looks a key up by its structure: keyword arguments, which are
\* strings, are stored with it.
dict_set(d, key, value) ==
    LET i == find_material(d, key)
    IN  IF i # 0 THEN [d EXCEPT !.entries[i].value = value]
        ELSE Append1(d, key, value, key_hash(key))

\* Stores under a hash that the protocol has computed, at the entry it has matched.
hash_set_hashed(d, key, value, hash, matched) ==
    IF matched # 0 THEN [d EXCEPT !.entries[matched].value = value]
    ELSE Append1(d, key, value, hash)

\* The buckets without a position: only the bucket of the hash of its entry lists it.
Unlisted(d, i) ==
    LET bucket == d.index[d.hashes[i]]
        slot == CHOOSE j \in 1..Len(bucket) : bucket[j] = i
    IN  [d.index EXCEPT ![d.hashes[i]] = Without(bucket, slot)]

\* A fault: the positions behind a removed entry stay where they were.
DeleteWithoutShift(d, i) ==
    [entries |-> Without(d.entries, i),
     hashes |-> Without(d.hashes, i),
     index |-> Unlisted(d, i),
     version |-> d.version + 1]

\* The positions of a bucket, the ones behind a removed entry moved.
Shifted(bucket, i) == [j \in 1..Len(bucket) |-> IF bucket[j] > i THEN bucket[j] - 1 ELSE bucket[j]]

\* Removes an entry and moves the positions behind it.
dict_delete_at(d, i) ==
    [entries |-> Without(d.entries, i),
     hashes |-> Without(d.hashes, i),
     index |-> [h \in Hash |-> Shifted(Unlisted(d, i)[h], i)],
     version |-> d.version + 1]

dict_clear(d) == [Empty EXCEPT !.version = d.version + 1]

-----------------------------------------------------------------------------
(* Control. *)

GuestCode == [at |-> "guest"]

\* An error reaches the bytecode that issued the operation; what the operation had
\* left to do is dropped.
Fail == now' = GuestCode /\ UNCHANGED <<program, store, frames, operations>>

Jump(call) == now' = call /\ UNCHANGED <<program, store, frames, operations>>

\* The method of a value is called, unless there are too many frames; the action of the
\* frame is what its result is for.
Push(frame) ==
    IF Len(frames) = RecursionLimit THEN Fail
    ELSE /\ frames' = Append(frames, frame)
         /\ now' = GuestCode
         /\ UNCHANGED <<program, store, operations>>

HashCall(value, depth, action) == [at |-> "hash", value |-> value, depth |-> depth, action |-> action]

EqualityCall(left, right, action) == [at |-> "equality", left |-> left, right |-> right, action |-> action]

CompleteEquality(equal, action) == [at |-> "complete_equality", equal |-> equal, action |-> action]

CompleteHash(hash, action) == [at |-> "complete_hash", hash |-> hash, action |-> action]

\* Hashing the key is the first part of every operation on a dictionary or a set.
invoke_dict_operation(owner, key, kind) ==
    HashCall(key, 0, [tag |-> "Dict", owner |-> owner, key |-> key, kind |-> kind])

\* dict.__init__ and dict() with a dictionary, and ** in a display.
invoke_dict_merge(target, source, finish) ==
    [at |-> "merge", state |-> [target |-> target, entries |-> store[source].entries, next |-> 1, finish |-> finish]]

-----------------------------------------------------------------------------
(* Hashing. *)

\* A tuple hashes its elements first.
begin_hash_sequence(values, depth, action) ==
    Jump(HashCall(Head(values), depth + 1,
                  [tag |-> "Sequence", values |-> values, next |-> 2, acc |-> sequence_start,
                   depth |-> depth + 1, outer |-> action]))

\* Values without a method of their own; a dictionary is not hashable.
invoke_native_hash(value, depth, action) ==
    IF value \in Dicts THEN Fail
    ELSE IF IsTuple(value) THEN begin_hash_sequence(Items[value], depth, action)
    ELSE Jump(CompleteHash(HashOf[value], action))

invoke_hash_protocol ==
    /\ now.at = "hash"
    /\ IF now.depth > NestingLimit THEN Fail
       ELSE IF now.value \in Guest
       THEN Push([method |-> "hash", value |-> now.value, action |-> now.action])
       ELSE invoke_native_hash(now.value, now.depth, now.action)

\* The candidates of a key are taken when its hash is known, with the version that they
\* are valid for.
begin_dict_operation(a, hash) ==
    LET d == store[a.owner]
    IN  Jump([at |-> "candidates",
              state |-> [owner |-> a.owner, key |-> a.key, kind |-> a.kind, hash |-> hash, version |-> d.version,
                         candidates |-> hash_candidates(d, hash), next |-> 1,
                         depth |-> IF a.kind.op = "CompareValue" THEN a.kind.action.depth ELSE 0]])

complete_hash ==
    /\ now.at = "complete_hash"
    /\ LET a == now.action
           acc == sequence_step(a.acc, now.hash)
       IN  IF a.tag = "Dict" THEN begin_dict_operation(a, now.hash)
           ELSE IF a.next <= Len(a.values)
           THEN Jump(HashCall(a.values[a.next], a.depth, [a EXCEPT !.next = @ + 1, !.acc = acc]))
           ELSE Jump(CompleteHash(sequence_finish(acc, Len(a.values)), a.outer))

-----------------------------------------------------------------------------
(* Looking a key up. *)

\* A fault: a comparison that changes the dictionary goes unnoticed.
NeverChanged(state) == FALSE

DictChanged(state) == store[state.owner].version # state.version

\* The next candidate is compared with the key, unless it is the key.
continue_dict_operation ==
    /\ now.at = "candidates"
    /\ LET s == now.state
       IN  IF DictChanged(s) THEN Fail
           ELSE IF s.next > Len(s.candidates)
                THEN Jump([at |-> "finish", state |-> s, matched |-> 0])
                ELSE LET i == s.candidates[s.next]
                         candidate == store[s.owner].entries[i].key
                         rest == [s EXCEPT !.next = @ + 1]
                     IN  IF candidate = s.key
                         THEN Jump([at |-> "finish", state |-> rest, matched |-> i])
                         ELSE Jump(EqualityCall(candidate, s.key, [tag |-> "DictCandidate", state |-> rest, index |-> i]))

\* What the program sees of an operation that does not change the dictionary.
Answers == {"Get", "MatchKey", "Contains"}

\* The operation itself, at the entry that was matched.
finish_dict_operation ==
    /\ now.at = "finish"
    /\ LET s == now.state
           kind == s.kind
           i == now.matched
           d == store[s.owner]
           Store(value, next) ==
               IF s.key \in Unkeyed THEN Fail
               ELSE /\ store' = [store EXCEPT ![s.owner] = hash_set_hashed(d, s.key, value, s.hash, i)]
                    /\ now' = next
                    /\ UNCHANGED <<program, frames, operations>>
       IN  \/ kind.op \in Answers /\ Jump(GuestCode)
           \/ kind.op = "Set" /\ Store(kind.value, GuestCode)
           \/ kind.op = "SetAdd" /\ Store(None, GuestCode)
           \/ kind.op = "MatchUnique" /\ IF i # 0 THEN Fail ELSE Store(None, GuestCode)
           \/ kind.op = "SetAndMerge" /\ Store(kind.value, [at |-> "merge", state |-> kind.state])
           \/ kind.op = "SetAndContinue" /\ Store(kind.value, [at |-> "construction", state |-> kind.state])
           \/ /\ kind.op = "Delete"
              /\ IF i = 0 THEN Fail
                 ELSE /\ store' = [store EXCEPT ![s.owner] = dict_delete_at(d, i)]
                      /\ now' = GuestCode
                      /\ UNCHANGED <<program, frames, operations>>
           \/ /\ kind.op = "CompareValue"
              /\ Jump(IF i = 0 THEN CompleteEquality(FALSE, kind.action)
                      ELSE EqualityCall(d.entries[i].value, kind.expected, kind.action))

-----------------------------------------------------------------------------
(* Equality. *)

comparison_depth(action) ==
    CASE action.tag = "DictCandidate" -> action.state.depth
      [] action.tag \in {"Sequence", "DictEntries"} -> action.depth
      [] OTHER -> 0

\* Two tuples of the same length are compared element by element.
begin_equality_sequence(left, right, depth, action) ==
    IF depth > NestingLimit THEN Fail
    ELSE IF Len(left) # Len(right) THEN Jump(CompleteEquality(FALSE, action))
    ELSE Jump(EqualityCall(left[1], right[1],
                 [tag |-> "Sequence", left |-> left, right |-> right, next |-> 2, depth |-> depth, outer |-> action]))

\* Two dictionaries, or two sets, of the same length are equal if every entry of the one is
\* found in the other.
EntriesEquality(l, r, depth, action) ==
    LET left == store[l]
        right == store[r]
    IN  IF depth > NestingLimit THEN Fail
        ELSE IF Len(left.entries) # Len(right.entries) THEN Jump(CompleteEquality(FALSE, action))
        ELSE IF left.entries = <<>> THEN Jump(CompleteEquality(TRUE, action))
        ELSE Jump(invoke_dict_operation(r, left.entries[1].key,
                     [op |-> "CompareValue", expected |-> left.entries[1].value,
                      action |-> [tag |-> "DictEntries", left |-> l, right |-> r, entries |-> left.entries, next |-> 2,
                                  left_version |-> left.version, right_version |-> right.version,
                                  depth |-> depth, outer |-> action]]))

\* Without an __eq__ in bytecode, values are compared by their structure.
invoke_equality_fallback(l, r, action) ==
    LET depth == comparison_depth(action) + 1
    IN  IF IsTuple(l) /\ IsTuple(r) THEN begin_equality_sequence(Items[l], Items[r], depth, action)
        ELSE IF {l, r} \subseteq Dicts /\ (l \in Sets <=> r \in Sets) THEN EntriesEquality(l, r, depth, action)
        ELSE Jump(CompleteEquality(EqualAtoms(l, r), action))

invoke_equality ==
    /\ now.at = "equality"
    /\ LET l == now.left
           r == now.right
       IN  IF l = r THEN Jump(CompleteEquality(TRUE, now.action))
           ELSE IF l \in Guest \/ r \in Guest
           THEN Push([method |-> "eq", equal |-> KeyEqual(l, r), action |-> now.action])
           ELSE invoke_equality_fallback(l, r, now.action)

\* A fault: only the first dictionary of a comparison is checked.
LeftChanged(a) == store[a.left].version # a.left_version

\* One of the two dictionaries of a comparison has other keys than at its begin.
EntriesChanged(a) ==
    store[a.left].version # a.left_version \/ store[a.right].version # a.right_version

\* The result of a comparison goes to what asked for it.
complete_equality ==
    /\ now.at = "complete_equality"
    /\ LET a == now.action
       IN  \/ a.tag = "Return" /\ Jump(GuestCode)
           \/ /\ a.tag = "Sequence"
              /\ Jump(IF ~now.equal THEN CompleteEquality(FALSE, a.outer)
                      ELSE IF a.next <= Len(a.left)
                           THEN EqualityCall(a.left[a.next], a.right[a.next], [a EXCEPT !.next = @ + 1])
                           ELSE CompleteEquality(TRUE, a.outer))
           \/ /\ a.tag = "DictCandidate"
              /\ IF DictChanged(a.state) THEN Fail
                 ELSE Jump(IF now.equal THEN [at |-> "finish", state |-> a.state, matched |-> a.index]
                           ELSE [at |-> "candidates", state |-> a.state])
           \/ /\ a.tag = "DictEntries"
              /\ IF EntriesChanged(a) THEN Fail
                 ELSE Jump(IF ~now.equal THEN CompleteEquality(FALSE, a.outer)
                           ELSE IF a.next <= Len(a.entries)
                                THEN invoke_dict_operation(a.right, a.entries[a.next].key,
                                        [op |-> "CompareValue", expected |-> a.entries[a.next].value,
                                         action |-> [a EXCEPT !.next = @ + 1]])
                                ELSE CompleteEquality(TRUE, a.outer))

-----------------------------------------------------------------------------
(* Merging and construction. *)

\* The keyword arguments come last.
finish_dict_construction ==
    /\ now.at = "construction_done"
    /\ LET start == now.start
       IN  store' = [store EXCEPT ![start.result] =
                        IF start.keywords = None THEN @ ELSE dict_set(@, start.keywords.key, start.keywords.value)]
    /\ now' = GuestCode
    /\ UNCHANGED <<program, frames, operations>>

\* One entry of the source after the other is set; the source was copied at the begin.
continue_dict_merge ==
    /\ now.at = "merge"
    /\ LET s == now.state
       IN  Jump(IF s.next <= Len(s.entries)
                THEN invoke_dict_operation(s.target, s.entries[s.next].key,
                        [op |-> "SetAndMerge", value |-> s.entries[s.next].value,
                         state |-> [s EXCEPT !.next = @ + 1]])
                ELSE IF s.finish = None THEN GuestCode
                ELSE [at |-> "construction_done", start |-> s.finish])

\* The next pair of the source: of a list at once, of an iterator in bytecode by a call
\* of its __next__.
continue_dict_construction ==
    /\ now.at = "construction"
    /\ LET s == now.state
           i == s.iterator
       IN  IF i.guest
           THEN Push([method |-> "next", rest |-> i.rest, action |-> [tag |-> "DictIterableNext", state |-> s]])
           ELSE Jump(IF i.rest = <<>> THEN [at |-> "construction_done", start |-> s.start]
                     ELSE [at |-> "pair", iterator |-> Head(i.rest),
                           state |-> [outer |-> [s EXCEPT !.iterator.rest = Tail(i.rest)], items |-> <<>>]])

\* The elements of a pair: an iterator in bytecode hands them out one by one.
continue_dict_pair ==
    /\ now.at = "pair"
    /\ LET s == now.state
           i == now.iterator
       IN  IF i.guest
           THEN Push([method |-> "next", rest |-> i.rest, action |-> [tag |-> "DictPairNext", state |-> s]])
           ELSE Jump([at |-> "pair_done", state |-> [s EXCEPT !.items = @ \o i.rest]])

finish_dict_pair ==
    /\ now.at = "pair_done"
    /\ LET s == now.state
       IN  IF Len(s.items) # 2 THEN Fail
           ELSE Jump(invoke_dict_operation(s.outer.start.result, s.items[1],
                        [op |-> "SetAndContinue", value |-> s.items[2], state |-> s.outer]))

-----------------------------------------------------------------------------
(* Bytecode of the program: the top level, and the methods that were called. *)

Running == now.at = "guest"

Begin(op, call) ==
    /\ Running
    /\ op \in program.operations
    /\ operations < program.limit
    /\ operations' = operations + 1
    /\ now' = call
    /\ UNCHANGED <<program, frames>>

GetItem(d, k) == Begin("Get", invoke_dict_operation(d, k, [op |-> "Get"])) /\ UNCHANGED store

SetItem(d, k, v) == Begin("Set", invoke_dict_operation(d, k, [op |-> "Set", value |-> v])) /\ UNCHANGED store

DelItem(d, k) == Begin("Delete", invoke_dict_operation(d, k, [op |-> "Delete"])) /\ UNCHANGED store

ContainsKey(d, k) == Begin("Contains", invoke_dict_operation(d, k, [op |-> "Contains"])) /\ UNCHANGED store

SetAdd(d, k) == Begin("SetAdd", invoke_dict_operation(d, k, [op |-> "SetAdd"])) /\ UNCHANGED store

MatchKey(d, k) == Begin("MatchKey", invoke_dict_operation(d, k, [op |-> "MatchKey"])) /\ UNCHANGED store

MatchUnique(d, k) == Begin("MatchUnique", invoke_dict_operation(d, k, [op |-> "MatchUnique"])) /\ UNCHANGED store

DictMerge(d, e) == Begin("Merge", invoke_dict_merge(d, e, None)) /\ UNCHANGED store

Compare(a, b) == Begin("Eq", EqualityCall(a, b, [tag |-> "Return"])) /\ UNCHANGED store

\* dict.__init__: a dictionary is emptied, unless it is its own source, and filled from
\* another one or from a sequence of pairs, and from keyword arguments.
DictInit(d, source, keywords) ==
    LET start == [result |-> d, keywords |-> keywords]
    IN  /\ Begin("Init", IF source \in DOMAIN Sources
                         THEN [at |-> "construction", state |-> [start |-> start, iterator |-> Sources[source]]]
                         ELSE IF source \in Dicts \ {d} THEN invoke_dict_merge(d, source, start)
                         ELSE [at |-> "construction_done", start |-> start])
        /\ store' = IF source = d THEN store ELSE [store EXCEPT ![d] = dict_clear(@)]

Top == frames[Len(frames)]

Pop == frames' = SubSeq(frames, 1, Len(frames) - 1)

\* The method at the top of the stack returns, and the continuation in its frame goes on.
Return ==
    /\ Running /\ frames # <<>>
    /\ Top.method = "next" => Top.rest # <<>>
    /\ Pop
    /\ UNCHANGED <<program, store, operations>>
    /\ LET a == Top.action
       IN  now' = IF Top.method = "hash" THEN CompleteHash(HashOf[Top.value], a)
                  ELSE IF Top.method = "eq" THEN CompleteEquality(Top.equal, a)
                  ELSE IF a.tag = "DictIterableNext"
                  THEN [at |-> "pair", iterator |-> Head(Top.rest),
                        state |-> [outer |-> [a.state EXCEPT !.iterator.rest = Tail(Top.rest)], items |-> <<>>]]
                  ELSE [at |-> "pair", iterator |-> [guest |-> TRUE, rest |-> Tail(Top.rest)],
                        state |-> [a.state EXCEPT !.items = Append(@, Head(Top.rest))]]

\* StopIteration of a __next__ ends its iteration.
Stop ==
    /\ Running /\ frames # <<>>
    /\ Top.method = "next" /\ Top.rest = <<>>
    /\ Pop
    /\ UNCHANGED <<program, store, operations>>
    /\ LET a == Top.action
       IN  now' = IF a.tag = "DictIterableNext" THEN [at |-> "construction_done", start |-> a.state.start]
                  ELSE [at |-> "pair_done", state |-> a.state]

\* A method raises another exception, which reaches the bytecode below.
Raise ==
    /\ Running /\ frames # <<>>
    /\ Pop
    /\ UNCHANGED <<program, store, now, operations>>

-----------------------------------------------------------------------------
(* Specification. *)

Init ==
    /\ program \in Programs
    /\ store = [d \in Dicts |-> Empty]
    /\ frames = <<>>
    /\ now = GuestCode
    /\ operations = 0

Program ==
    \/ \E d \in program.dicts, k \in program.keys : ContainsKey(d, k)
    \/ \E d \in program.dicts \cap Sets, k \in program.keys : SetAdd(d, k)
    \/ \E d \in program.dicts \ Sets, k \in program.keys :
           GetItem(d, k) \/ DelItem(d, k) \/ MatchKey(d, k) \/ MatchUnique(d, k)
    \/ \E d \in program.dicts \ Sets, k \in program.keys, v \in program.values : SetItem(d, k, v)
    \/ \E d, e \in program.dicts \ Sets : DictMerge(d, e)
    \/ \E d, e \in program.dicts : Compare(d, e)
    \/ \E a, b \in program.keys : Compare(a, b)
    \/ \E d \in program.dicts \ Sets, s \in (program.dicts \ Sets) \cup DOMAIN Sources \cup {"none"}, k \in Keywords : DictInit(d, s, k)

Next ==
    \/ Program
    \/ Return \/ Stop \/ Raise
    \/ invoke_hash_protocol \/ complete_hash
    \/ continue_dict_operation \/ finish_dict_operation
    \/ invoke_equality \/ complete_equality
    \/ continue_dict_merge \/ finish_dict_construction
    \/ continue_dict_construction \/ continue_dict_pair \/ finish_dict_pair

Spec == Init /\ [][Next]_vars

-----------------------------------------------------------------------------
(* Properties. *)

Increases(s) == \A i, j \in 1..Len(s) : i < j => s[i] < s[j]

\* Every entry has its hash, and the buckets list each position exactly once, in order, under
\* the hash of its entry: what both ways of storing, dict_delete_at and dict_clear keep up.
\* No dictionary has two entries with equal keys, whatever the __eq__ and __hash__ methods
\* that ran between the begin of an operation and its end did to it.
IndexConsistent ==
    \A d \in Dicts :
        LET t == store[d]
        IN  /\ Len(t.hashes) = Len(t.entries)
            /\ \A h \in Hash :
                   /\ Increases(t.index[h])
                   /\ {t.index[h][j] : j \in 1..Len(t.index[h])} = {i \in 1..Len(t.entries) : t.hashes[i] = h}
            /\ \A i, j \in 1..Len(t.entries) :
                   i # j => ~KeyEqual(t.entries[i].key, t.entries[j].key)

\* When an operation is carried out, the position that was matched, maybe long before, holds a
\* key equal to its own, and no match means that there is none (finish_dict_operation).
MatchExact ==
    now.at = "finish" =>
        LET es == store[now.state.owner].entries
        IN  IF now.matched # 0
            THEN now.matched \in 1..Len(es) /\ KeyEqual(es[now.matched].key, now.state.key)
            ELSE \A i \in 1..Len(es) : ~KeyEqual(es[i].key, now.state.key)

\* Two dictionaries are found equal only when they have the same keys, although the methods
\* that compare their values may change both (EqualityAction::DictEntries).
EqualHaveSameKeys ==
    [][(now.at = "complete_equality" /\ now'.at = "complete_equality") =>
           ((now.action.tag = "DictEntries" /\ now'.equal) =>
               LET KeysOf(d) == {store[d].entries[i].key : i \in 1..Len(store[d].entries)}
                   Covers(d, e) == \A k \in KeysOf(d) : \E m \in KeysOf(e) : KeyEqual(k, m)
               IN  Covers(now.action.left, now.action.right) /\ Covers(now.action.right, now.action.left))]_vars

=============================================================================
