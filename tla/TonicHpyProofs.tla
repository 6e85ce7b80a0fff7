--------------------------- MODULE TonicHpyProofs ---------------------------
(***************************************************************************)
(* Proofs about TonicHpy, for any number of threads, modules, values and   *)
(* tokens and for programs of any kind: what a local handle stands for,    *)
(* what a builder holds, that fields and edges agree, and that a value is  *)
(* returned only by a call with nothing left to report.                    *)
(*                                                                         *)
(* The argument: an operation of native code leaves one shape of step,     *)
(* Worked, on the call that it belongs to, and the shape keeps each part   *)
(* of the invariant.  What makes it apply to the return of guest code is   *)
(* the discipline of the stack: below nested guest code there is always    *)
(* the native code whose call is active.                                   *)
(***************************************************************************)
EXTENDS TonicHpy, SequenceTheorems, TLAPS

-----------------------------------------------------------------------------
(* The inductive invariant.                                                *)

Activations ==
  {Guest(op) : op \in {"run", "status", "handle", "attribute"}}
    \cup {Wait(m) : m \in Modules} \cup {Native(m) : m \in Modules}

CallFields == {"module", "handles", "utf8", "builders", "trackers", "exception"}

IsCall(c) ==
  /\ DOMAIN c = CallFields
  /\ c.module \in Modules
  /\ c.exception \in {None, "host", "extension"}

\* A stack and the call it belongs to: guest code, then a method that waits for
\* its module or runs, then guest code that it runs, then a nested call, which
\* only waits.
Stacked(s, c) ==
  /\ s \in Seq(Activations) /\ Len(s) \in 1..4
  /\ s[1].kind = "guest"
  /\ Len(s) >= 2 => s[2].kind # "guest"
  /\ Len(s) >= 3 => s[2].kind = "native" /\ s[3].kind = "guest"
  /\ Len(s) = 4 => s[4].kind = "wait"
  /\ c # NoCall <=> Len(s) >= 2 /\ s[2].kind = "native"
  /\ c # NoCall => IsCall(c)

Stacks ==
  /\ DOMAIN stack = Threads /\ DOMAIN call = Threads
  /\ \A t \in Threads : Stacked(stack[t], call[t])

Counters == [{"local", "builder", "tracker", "field"} -> Nat \ {0}]

\* Handles were issued below the counter, for the value that they have, and
\* neither closed nor issued to another call.
Tokens ==
  /\ next \in Counters /\ next.local <= MaxToken.local
  /\ DOMAIN named \subseteq 1..next.local - 1
  /\ dead \subseteq DOMAIN named
  /\ \A t \in Threads : call[t] # NoCall =>
       /\ DOMAIN call[t].handles \subseteq DOMAIN named \ dead
       /\ \A h \in DOMAIN call[t].handles : call[t].handles[h] = named[h]
  /\ \A t, u \in Threads : (t # u /\ call[t] # NoCall /\ call[u] # NoCall) =>
       DOMAIN call[t].handles \cap DOMAIN call[u].handles = {}

\* The builders bs hold what was intended for them; n is the next token.
Holds(bs, intents, n) ==
  \A b \in DOMAIN bs :
    /\ b \in Nat /\ b < n /\ b \in DOMAIN intents
    /\ DOMAIN bs[b] = {"kind", "items"}
    /\ \A i \in DOMAIN bs[b].items :
         /\ i \in DOMAIN intents[b]
         /\ bs[b].items[i] # None =>
              /\ "value" \in DOMAIN bs[b].items[i]
              /\ bs[b].items[i].value = intents[b][i].value

Builders ==
  /\ DOMAIN intended = Threads
  /\ \A t \in Threads : call[t] # NoCall =>
       Holds(call[t].builders, intended[t], next.builder)

Fields ==
  /\ DOMAIN edges = Threads /\ DOMAIN field = Threads
  /\ FieldsMatchEdges

\* A failure that the call has not cleared has left an exception.
Debts ==
  /\ DOMAIN owed = Threads /\ DOMAIN last = Threads
  /\ \A t \in Threads : (call[t] # NoCall /\ owed[t]) => call[t].exception # None

HpyInv == Stacks /\ Tokens /\ Builders /\ Fields /\ Debts

-----------------------------------------------------------------------------
(* Stacks.                                                                 *)

\* What a push makes of a stack.
LEMMA Pushed ==
  ASSUME NEW S, NEW s \in Seq(S), NEW a \in S
  PROVE  /\ Append(s, a) \in Seq(S) /\ Len(Append(s, a)) = Len(s) + 1
         /\ \A i \in 1..Len(s) : Append(s, a)[i] = s[i]
         /\ Append(s, a)[Len(s) + 1] = a
  OBVIOUS

\* What Pop makes of a stack.
LEMMA Popped ==
  ASSUME NEW S, NEW s \in Seq(S), Len(s) >= 1
  PROVE  /\ Pop(s) \in Seq(S) /\ Len(Pop(s)) = Len(s) - 1
         /\ \A i \in 1..Len(s) - 1 : Pop(s)[i] = s[i]
<1>1. Len(s) \in Nat /\ \A i \in 1..Len(s) : s[i] \in S
  BY LenProperties, ElementOfSeq
<1> DEFINE n == Len(s) - 1
           r == SubSeq(s, 1, n)
<1>2. n \in Nat /\ \A i \in 1..n : s[i] \in S
  BY <1>1
<1>3. Len(s) = n + 1
  BY <1>1
<1> HIDE DEF n
<1>4. /\ r \in Seq(S) /\ Len(r) = IF 1 <= n THEN n - 1 + 1 ELSE 0
      /\ \A i \in 1..n - 1 + 1 : r[i] = s[1 + i - 1]
  BY <1>2, SubSeqProperties
<1> HIDE DEF r
<1>5. r \in Seq(S) /\ Len(r) = n /\ \A i \in 1..n : r[i] = s[i]
  BY <1>2, <1>4
<1>. QED
  BY <1>5 DEF n, r, Pop

\* The same for short stacks.
LEMMA PoppedPair ==
  ASSUME NEW S, NEW s \in Seq(S), Len(s) = 2
  PROVE  Pop(s) \in Seq(S) /\ Len(Pop(s)) = 1 /\ Pop(s)[1] = s[1]
<1>1. PICK r : r = Pop(s)
  OBVIOUS
<1>2. r \in Seq(S) /\ Len(r) = Len(s) - 1 /\ \A i \in 1..Len(s) - 1 : r[i] = s[i]
  BY <1>1, Popped, Len(s) >= 1
<1>. QED
  BY <1>1, <1>2

LEMMA PoppedTriple ==
  ASSUME NEW S, NEW s \in Seq(S), Len(s) = 3
  PROVE  Pop(s) \in Seq(S) /\ Len(Pop(s)) = 2 /\ Pop(s)[1] = s[1] /\ Pop(s)[2] = s[2]
<1>1. PICK r : r = Pop(s)
  OBVIOUS
<1>2. r \in Seq(S) /\ Len(r) = Len(s) - 1 /\ \A i \in 1..Len(s) - 1 : r[i] = s[i]
  BY <1>1, Popped, Len(s) >= 1
<1>. QED
  BY <1>1, <1>2

\* The activations by their kind.
LEMMA ActivationKinds ==
  /\ \A op : Guest(op).kind = "guest" /\ Guest(op).op = op
  /\ \A m : Wait(m).kind = "wait" /\ Wait(m).module = m
  /\ \A m : Native(m).kind = "native" /\ Native(m).module = m
  /\ \A a \in Activations : a.kind = "wait" => a.module \in Modules
  /\ \A a \in Activations : a.kind \in {"guest", "wait", "native"}
  BY DEF Guest, Wait, Native, Activations

\* A real call is not the absent one.
LEMMA CallsAreReal ==
  /\ \A c : IsCall(c) => c # NoCall
  /\ \A m \in Modules : IsCall(NewCall(m))
<1>1. NoCall.module = None
  BY DEF NoCall
<1>2. \A c : IsCall(c) => c # NoCall
  BY <1>1, HpyAssumption DEF IsCall
<1>3. \A m \in Modules : IsCall(NewCall(m))
  BY DEF IsCall, NewCall, CallFields
<1>. QED
  BY <1>2, <1>3

\* Guest code calls a method.
LEMMA StackedWait ==
  ASSUME NEW s, NEW c, Stacked(s, c), s[Len(s)].kind = "guest", NEW m \in Modules
  PROVE  Stacked(Append(s, Wait(m)), c)
<1>1. Wait(m) \in Activations /\ Wait(m).kind = "wait"
  BY ActivationKinds DEF Activations
<1>2. s \in Seq(Activations) /\ Len(s) \in 1..4
  BY DEF Stacked
<1>3. Len(s) \in {1, 3}
  <2>1. Len(s) # 2
    BY DEF Stacked
  <2>2. Len(s) # 4
    BY DEF Stacked
  <2>. QED
    BY <1>2, <2>1, <2>2
<1>4. PICK r : r = Append(s, Wait(m))
  OBVIOUS
<1>5. /\ r \in Seq(Activations) /\ Len(r) = Len(s) + 1
      /\ \A i \in 1..Len(s) : r[i] = s[i]
      /\ r[Len(s) + 1] = Wait(m)
  BY <1>1, <1>2, <1>4, Pushed
<1>6. Stacked(r, c)
  <2>1. CASE Len(s) = 1
    BY <1>1, <1>5, <2>1 DEF Stacked
  <2>2. CASE Len(s) = 3
    BY <1>1, <1>5, <2>2 DEF Stacked
  <2>. QED
    BY <1>3, <2>1, <2>2
<1>. QED
  BY <1>4, <1>6

\* The wait for a module ends without the method.
LEMMA StackedRefused ==
  ASSUME NEW s, NEW c, Stacked(s, c), s[Len(s)].kind = "wait"
  PROVE  Stacked(Pop(s), c)
<1>2. s \in Seq(Activations) /\ Len(s) \in 1..4
  BY DEF Stacked
<1>3. Len(s) \in {2, 4}
  <2>1. Len(s) # 1 /\ Len(s) # 3
    BY DEF Stacked
  <2>. QED
    BY <1>2, <2>1
<1>4. PICK r : r = Pop(s)
  OBVIOUS
<1>5. /\ r \in Seq(Activations) /\ Len(r) = Len(s) - 1
      /\ \A i \in 1..Len(s) - 1 : r[i] = s[i]
  <2>1. Len(s) >= 1
    BY <1>3
  <2>. QED
    BY <1>2, <1>4, <2>1, Popped
<1>6. Stacked(r, c)
  <2>1. CASE Len(s) = 2
    BY <1>5, <2>1 DEF Stacked
  <2>2. CASE Len(s) = 4
    BY <1>5, <2>2 DEF Stacked
  <2>. QED
    BY <1>3, <2>1, <2>2
<1>. QED
  BY <1>4, <1>6

\* The method starts, with a call of its own.
LEMMA StackedEntered ==
  ASSUME NEW s, Stacked(s, NoCall), s[Len(s)].kind = "wait",
         NEW m \in Modules, NEW d, IsCall(d)
  PROVE  Stacked(Append(Pop(s), Native(m)), d)
<1>1. Native(m) \in Activations /\ Native(m).kind = "native"
  BY ActivationKinds DEF Activations
<1>2. s \in Seq(Activations) /\ Len(s) \in 1..4
  BY DEF Stacked
<1>3. Len(s) = 2
  <2>1. Len(s) # 1 /\ Len(s) # 3 /\ Len(s) # 4
    BY DEF Stacked
  <2>. QED
    BY <1>2, <2>1
<1>4. PICK r : r = Pop(s)
  OBVIOUS
<1>5. r \in Seq(Activations) /\ Len(r) = 1 /\ r[1] = s[1]
  BY <1>2, <1>3, <1>4, PoppedPair
<1>6. PICK q : q = Append(r, Native(m))
  OBVIOUS
<1>7. q \in Seq(Activations) /\ Len(q) = 2 /\ q[1] = s[1] /\ q[2] = Native(m)
  <2>1. r \in Seq(Activations)
    BY <1>5
  <2>2. /\ q \in Seq(Activations) /\ Len(q) = Len(r) + 1
        /\ \A i \in 1..Len(r) : q[i] = r[i]
        /\ q[Len(r) + 1] = Native(m)
    BY <1>1, <1>6, <2>1, Pushed
  <2>. QED
    BY <1>5, <2>2
<1>8. Stacked(q, d)
  BY <1>1, <1>7, CallsAreReal DEF Stacked
<1>. QED
  BY <1>4, <1>6, <1>8

\* Native code runs guest code.
LEMMA StackedGuest ==
  ASSUME NEW s, NEW c, Stacked(s, c), s[Len(s)].kind = "native",
         NEW op \in {"status", "handle", "attribute"}
  PROVE  Stacked(Append(s, Guest(op)), c)
<1>1. Guest(op) \in Activations /\ Guest(op).kind = "guest"
  BY ActivationKinds DEF Activations
<1>2. s \in Seq(Activations) /\ Len(s) \in 1..4
  BY DEF Stacked
<1>3. Len(s) = 2
  <2>1. Len(s) # 1
    BY DEF Stacked
  <2>2. Len(s) # 3
    BY DEF Stacked
  <2>3. Len(s) # 4
    BY DEF Stacked
  <2>. QED
    BY <1>2, <2>1, <2>2, <2>3
<1>4. PICK r : r = Append(s, Guest(op))
  OBVIOUS
<1>5. /\ r \in Seq(Activations) /\ Len(r) = 3
      /\ r[1] = s[1] /\ r[2] = s[2] /\ r[3] = Guest(op)
  <2>1. s \in Seq(Activations)
    BY <1>2
  <2>2. /\ r \in Seq(Activations) /\ Len(r) = Len(s) + 1
        /\ \A i \in 1..Len(s) : r[i] = s[i]
        /\ r[Len(s) + 1] = Guest(op)
    BY <1>1, <1>4, <2>1, Pushed
  <2>. QED
    BY <1>3, <2>2
<1>6. Stacked(r, c)
  BY <1>1, <1>3, <1>5 DEF Stacked
<1>. QED
  BY <1>4, <1>6

\* Nested guest code returns to the native code, whose call is active.
LEMMA StackedReturned ==
  ASSUME NEW s, NEW c, Stacked(s, c), s[Len(s)].kind = "guest", Len(s) > 1
  PROVE  c # NoCall /\ \A d : IsCall(d) => Stacked(Pop(s), d)
<1>2. s \in Seq(Activations) /\ Len(s) \in 1..4
  BY DEF Stacked
<1>3. Len(s) = 3
  <2>1. Len(s) # 2 /\ Len(s) # 4
    BY DEF Stacked
  <2>. QED
    BY <1>2, <2>1
<1>4. c # NoCall
  BY <1>3 DEF Stacked
<1>5. PICK r : r = Pop(s)
  OBVIOUS
<1>6. r \in Seq(Activations) /\ Len(r) = 2 /\ r[1] = s[1] /\ r[2] = s[2]
  BY <1>2, <1>3, <1>5, PoppedTriple
<1>7. ASSUME NEW d, IsCall(d) PROVE Stacked(r, d)
  BY <1>3, <1>6, <1>7, CallsAreReal DEF Stacked
<1>. QED
  BY <1>4, <1>5, <1>7

\* The native method returns.
LEMMA StackedLeft ==
  ASSUME NEW s, NEW c, Stacked(s, c), s[Len(s)].kind = "native"
  PROVE  Stacked(Pop(s), NoCall)
<1>2. s \in Seq(Activations) /\ Len(s) \in 1..4
  BY DEF Stacked
<1>3. Len(s) = 2
  <2>1. Len(s) # 1
    BY DEF Stacked
  <2>2. Len(s) # 3
    <3>1. Len(s) = 3 => s[3].kind = "guest"
      BY DEF Stacked
    <3>. QED
      BY <3>1
  <2>3. Len(s) # 4
    BY DEF Stacked
  <2>. QED
    BY <1>2, <2>1, <2>2, <2>3
<1>4. PICK r : r = Pop(s)
  OBVIOUS
<1>5. r \in Seq(Activations) /\ Len(r) = 1 /\ r[1] = s[1]
  BY <1>2, <1>3, <1>4, PoppedPair
<1>6. Stacked(r, NoCall)
  BY <1>5 DEF Stacked
<1>. QED
  BY <1>4, <1>6

\* An operation changes the call below the same stack.
LEMMA StackedRecall ==
  ASSUME NEW s, NEW c, Stacked(s, c), c # NoCall, NEW d, IsCall(d)
  PROVE  Stacked(s, d)
  BY CallsAreReal DEF Stacked

-----------------------------------------------------------------------------
(* Steps on a call.                                                        *)

\* The step of an operation on the call of thread t, which it does not end: the
\* handles that are closed are dead, one may be new, and what builders hold and
\* what is owed are as the call says.
Worked(t) ==
  /\ DOMAIN call' = Threads /\ DOMAIN intended' = Threads /\ DOMAIN owed' = Threads
  /\ \A u \in Threads \ {t} :
       call'[u] = call[u] /\ intended'[u] = intended[u] /\ owed'[u] = owed[u]
  /\ IsCall(call'[t])
  /\ next' \in Counters /\ next'.builder >= next.builder
  /\ dead' = dead \cup (DOMAIN call[t].handles \ DOMAIN call'[t].handles)
  /\ \/ /\ DOMAIN call'[t].handles \subseteq DOMAIN call[t].handles
        /\ \A h \in DOMAIN call'[t].handles : call'[t].handles[h] = call[t].handles[h]
        /\ named' = named /\ next'.local = next.local
     \/ /\ next.local < MaxToken.local /\ next'.local = next.local + 1
        /\ \E v : /\ call'[t].handles = Put(call[t].handles, next.local, v)
                  /\ named' = Put(named, next.local, v)
  /\ Holds(call'[t].builders, intended'[t], next'.builder)
  /\ owed'[t] => call'[t].exception # None
  /\ last' = last

\* Builders stay what they are when tokens are issued.
LEMMA HoldsLonger ==
  ASSUME NEW bs, NEW intents, NEW n \in Nat, NEW m \in Nat, n <= m, Holds(bs, intents, n)
  PROVE  Holds(bs, intents, m)
  BY DEF Holds

\* What a table is with one entry more, and with one entry less.
LEMMA PutDomain == \A f, k, v : DOMAIN Put(f, k, v) = DOMAIN f \cup {k}
  BY DEF Put

LEMMA PutNew == \A f, k, v : Put(f, k, v)[k] = v
  BY DEF Put

LEMMA PutOld == \A f, k, v : \A x \in DOMAIN f : x # k => Put(f, k, v)[x] = f[x]
  BY DEF Put

LEMMA WithoutDomain == \A f, k : DOMAIN Without(f, k) = DOMAIN f \ {k}
  BY DEF Without, Restrict

LEMMA WithoutOld == \A f, k : \A x \in DOMAIN f \ {k} : Without(f, k)[x] = f[x]
  BY DEF Without, Restrict

\* The shape of an operation keeps what tokens, builders and debts are.
LEMMA WorkedKeeps ==
  ASSUME HpyInv, NEW t \in Threads, call[t] # NoCall, Worked(t)
  PROVE  Tokens' /\ Builders' /\ Debts'
<1>1. Tokens'
  <2>1. /\ next' \in Counters
        /\ \A u \in Threads \ {t} : call'[u] = call[u]
        /\ dead' = dead \cup (DOMAIN call[t].handles \ DOMAIN call'[t].handles)
    BY DEF Worked
  <2>2. /\ next \in Counters /\ next.local <= MaxToken.local
        /\ DOMAIN named \subseteq 1..next.local - 1
        /\ dead \subseteq DOMAIN named
        /\ next.local \in Nat \ {0} /\ MaxToken.local \in Nat
    BY HpyAssumption DEF HpyInv, Tokens, Counters
  <2>3. \A u \in Threads : call[u] # NoCall =>
          /\ DOMAIN call[u].handles \subseteq DOMAIN named \ dead
          /\ \A h \in DOMAIN call[u].handles : call[u].handles[h] = named[h]
    BY DEF HpyInv, Tokens
  <2>4. \A w, u \in Threads : (w # u /\ call[w] # NoCall /\ call[u] # NoCall) =>
          DOMAIN call[w].handles \cap DOMAIN call[u].handles = {}
    BY DEF HpyInv, Tokens
  <2>5. CASE /\ DOMAIN call'[t].handles \subseteq DOMAIN call[t].handles
             /\ \A h \in DOMAIN call'[t].handles : call'[t].handles[h] = call[t].handles[h]
             /\ named' = named /\ next'.local = next.local
    <3>1. dead' \subseteq DOMAIN named'
      BY <2>1, <2>2, <2>3, <2>5
    <3>2. ASSUME NEW u \in Threads, call'[u] # NoCall
          PROVE  /\ DOMAIN call'[u].handles \subseteq DOMAIN named' \ dead'
                 /\ \A h \in DOMAIN call'[u].handles : call'[u].handles[h] = named'[h]
      <4>1. CASE u = t
        BY <2>1, <2>3, <2>5, <4>1
      <4>2. CASE u # t
        <5>1. call'[u] = call[u] /\ call[u] # NoCall
          BY <2>1, <3>2, <4>2
        <5>. QED
          BY <2>1, <2>3, <2>4, <2>5, <4>2, <5>1
      <4>. QED
        BY <4>1, <4>2
    <3>3. ASSUME NEW w \in Threads, NEW u \in Threads,
                 w # u, call'[w] # NoCall, call'[u] # NoCall
          PROVE  DOMAIN call'[w].handles \cap DOMAIN call'[u].handles = {}
      <4>1. call[w] # NoCall /\ call[u] # NoCall
        BY <2>1, <3>3
      <4>2. /\ DOMAIN call'[w].handles \subseteq DOMAIN call[w].handles
            /\ DOMAIN call'[u].handles \subseteq DOMAIN call[u].handles
        BY <2>1, <2>5
      <4>. QED
        BY <2>4, <3>3, <4>1, <4>2
    <3>. QED
      BY <2>1, <2>2, <2>5, <3>1, <3>2, <3>3 DEF Tokens
  <2>6. CASE /\ next.local < MaxToken.local /\ next'.local = next.local + 1
             /\ \E v : /\ call'[t].handles = Put(call[t].handles, next.local, v)
                       /\ named' = Put(named, next.local, v)
    <3>1. PICK v : /\ call'[t].handles = Put(call[t].handles, next.local, v)
                   /\ named' = Put(named, next.local, v)
      BY <2>6
    <3>2. next.local \notin DOMAIN named
      BY <2>2
    <3>3. /\ DOMAIN named' = DOMAIN named \cup {next.local}
          /\ named'[next.local] = v
          /\ \A h \in DOMAIN named : named'[h] = named[h]
      <4>. DEFINE p == Put(named, next.local, v)
      <4>1. /\ DOMAIN p = DOMAIN named \cup {next.local} /\ p[next.local] = v
            /\ \A h \in DOMAIN named : h # next.local => p[h] = named[h]
        <5>1. DOMAIN p = DOMAIN named \cup {next.local}
          BY PutDomain
        <5>2. p[next.local] = v
          BY PutNew
        <5>3. \A h \in DOMAIN named : h # next.local => p[h] = named[h]
          BY PutOld
        <5>. QED
          BY <5>1, <5>2, <5>3
      <4>. HIDE DEF p
      <4>2. named' = p
        BY <3>1 DEF p
      <4>. QED
        BY <3>2, <4>1, <4>2
    <3>4. /\ DOMAIN call'[t].handles = DOMAIN call[t].handles \cup {next.local}
          /\ call'[t].handles[next.local] = v
          /\ \A h \in DOMAIN call[t].handles : call'[t].handles[h] = call[t].handles[h]
      <4>. DEFINE q == call[t].handles
                  p == Put(q, next.local, v)
      <4>1. /\ DOMAIN p = DOMAIN q \cup {next.local} /\ p[next.local] = v
            /\ \A h \in DOMAIN q : h # next.local => p[h] = q[h]
        <5>1. DOMAIN p = DOMAIN q \cup {next.local}
          BY PutDomain
        <5>2. p[next.local] = v
          BY PutNew
        <5>3. \A h \in DOMAIN q : h # next.local => p[h] = q[h]
          BY PutOld
        <5>. QED
          BY <5>1, <5>2, <5>3
      <4>2. next.local \notin DOMAIN q
        BY <2>3, <3>2
      <4>. HIDE DEF p
      <4>3. call'[t].handles = p
        BY <3>1 DEF p
      <4>. QED
        BY <4>1, <4>2, <4>3
    <3>5. dead' = dead
      BY <2>1, <3>4
    <3>6. DOMAIN named' \subseteq 1..next'.local - 1 /\ next'.local <= MaxToken.local
      BY <2>2, <2>6, <3>3
    <3>7. ASSUME NEW u \in Threads, call'[u] # NoCall
          PROVE  /\ DOMAIN call'[u].handles \subseteq DOMAIN named' \ dead'
                 /\ \A h \in DOMAIN call'[u].handles : call'[u].handles[h] = named'[h]
      <4>1. CASE u = t
        <5>1. next.local \notin dead
          BY <2>2, <3>2
        <5>2. /\ DOMAIN call[t].handles \subseteq DOMAIN named \ dead
              /\ \A h \in DOMAIN call[t].handles : call[t].handles[h] = named[h]
          BY <2>3
        <5>. QED
          BY <3>3, <3>4, <3>5, <4>1, <5>1, <5>2
      <4>2. CASE u # t
        <5>1. call'[u] = call[u] /\ call[u] # NoCall
          BY <2>1, <3>7, <4>2
        <5>2. /\ DOMAIN call[u].handles \subseteq DOMAIN named \ dead
              /\ \A h \in DOMAIN call[u].handles : call[u].handles[h] = named[h]
          BY <2>3, <5>1
        <5>. QED
          BY <3>3, <3>5, <5>1, <5>2
      <4>. QED
        BY <4>1, <4>2
    <3>8. ASSUME NEW w \in Threads, NEW u \in Threads,
                 w # u, call'[w] # NoCall, call'[u] # NoCall
          PROVE  DOMAIN call'[w].handles \cap DOMAIN call'[u].handles = {}
      <4>1. call[w] # NoCall /\ call[u] # NoCall
        BY <2>1, <3>8
      <4>2. DOMAIN call[w].handles \cap DOMAIN call[u].handles = {}
        BY <2>4, <3>8, <4>1
      <4>3. next.local \notin DOMAIN call[w].handles /\ next.local \notin DOMAIN call[u].handles
        BY <2>3, <3>2, <4>1
      <4>4. \A x \in {w, u} : x # t => call'[x] = call[x]
        BY <2>1
      <4>. QED
        BY <3>4, <3>8, <4>2, <4>3, <4>4
    <3>9. dead' \subseteq DOMAIN named'
      BY <2>2, <3>3, <3>5
    <3>. QED
      BY <2>1, <3>6, <3>7, <3>8, <3>9 DEF Tokens
  <2>. QED
    BY <2>5, <2>6 DEF Worked
<1>2. Builders'
  <2>1. DOMAIN intended' = Threads
    BY DEF Worked
  <2>2. next.builder \in Nat /\ next'.builder \in Nat /\ next'.builder >= next.builder
    BY DEF Worked, HpyInv, Tokens, Counters
  <2>3. ASSUME NEW u \in Threads, call'[u] # NoCall
        PROVE  Holds(call'[u].builders, intended'[u], next'.builder)
    <3>1. CASE u = t
      BY <3>1 DEF Worked
    <3>2. CASE u # t
      <4>1. call'[u] = call[u] /\ intended'[u] = intended[u]
        BY <3>2 DEF Worked
      <4>2. Holds(call[u].builders, intended[u], next.builder)
        BY <2>3, <4>1 DEF HpyInv, Builders
      <4>. QED
        BY <2>2, <4>1, <4>2, HoldsLonger
    <3>. QED
      BY <3>1, <3>2
  <2>. QED
    BY <2>1, <2>3 DEF Builders
<1>3. Debts'
  BY DEF Worked, HpyInv, Debts
<1>. QED
  BY <1>1, <1>2, <1>3

-----------------------------------------------------------------------------
(* What the operations are made of.                                        *)

\* A call that differs in what the proofs do not look at, that lost builders,
\* or that failed.
Like(c, d) ==
  /\ IsCall(d)
  /\ d.handles = c.handles
  /\ DOMAIN d.builders \subseteq DOMAIN c.builders
  /\ \A b \in DOMAIN d.builders : d.builders[b] = c.builders[b]
  /\ c.exception # None => d.exception # None

\* What a step intends for the builders bs of the call of t.
Intends(t, bs) ==
  /\ DOMAIN intended' = Threads
  /\ \A u \in Threads \ {t} : intended'[u] = intended[u]
  /\ Holds(bs, intended'[t], next'.builder)

\* A failed call has an exception and is otherwise the same.
LEMMA FailIsLike ==
  ASSUME NEW c, IsCall(c)
  PROVE  Like(c, fail(c)) /\ fail(c).exception # None /\ fail(c).builders = c.builders
<1>1. CASE c.exception = None
  <2>. DEFINE d == [c EXCEPT !.exception = "host"]
  <2>1. DOMAIN d = CallFields /\ "exception" \in DOMAIN c
    BY DEF IsCall, CallFields
  <2>2. d.exception = "host"
    BY <2>1
  <2>3. d.handles = c.handles /\ d.builders = c.builders /\ d.module = c.module
    BY DEF IsCall, CallFields
  <2>4. None # "host"
    BY HpyAssumption
  <2>5. fail(c) = d
    BY <1>1 DEF fail
  <2>. HIDE DEF d
  <2>6. IsCall(d)
    BY <2>1, <2>2, <2>3 DEF IsCall
  <2>. QED
    BY <2>2, <2>3, <2>4, <2>5, <2>6 DEF Like
<1>2. CASE c.exception # None
  BY <1>2 DEF Like, fail
<1>. QED
  BY <1>1, <1>2

\* The relation is transitive, and holds of the call itself.
LEMMA LikeTwice ==
  ASSUME NEW c, NEW d, NEW e, Like(c, d), Like(d, e)
  PROVE  Like(c, e)
  BY DEF Like

LEMMA LikeItself ==
  ASSUME NEW c, IsCall(c)
  PROVE  Like(c, c)
  BY DEF Like

\* Fewer builders hold what was intended.
LEMMA HoldsFewer ==
  ASSUME NEW c, NEW d, Like(c, d), NEW intents, NEW n, Holds(c.builders, intents, n)
  PROVE  Holds(d.builders, intents, n)
<1>. DEFINE cs == c.builders
            ds == d.builders
<1>1. \A b \in DOMAIN ds : b \in DOMAIN cs /\ ds[b] = cs[b]
  BY DEF Like
<1>2. Holds(cs, intents, n)
  OBVIOUS
<1>. HIDE DEF cs, ds
<1>3. Holds(ds, intents, n)
  BY <1>1, <1>2 DEF Holds
<1>. QED
  BY <1>3 DEF ds

\* What is known of an active call.
LEMMA ActiveCall ==
  ASSUME HpyInv, NEW t \in Threads, call[t] # NoCall
  PROVE  /\ IsCall(call[t]) /\ DOMAIN call = Threads
         /\ DOMAIN intended = Threads /\ DOMAIN owed = Threads
         /\ Holds(call[t].builders, intended[t], next.builder)
         /\ owed[t] => call[t].exception # None
         /\ next \in Counters
  BY DEF HpyInv, Stacks, Stacked, Builders, Debts, Tokens

\* A step that closes handles at most.
LEMMA Becoming ==
  ASSUME HpyInv, NEW t \in Threads, call[t] # NoCall,
         NEW d, IsCall(d), Becomes(t, d),
         DOMAIN d.handles \subseteq DOMAIN call[t].handles,
         \A h \in DOMAIN d.handles : d.handles[h] = call[t].handles[h],
         named' = named, next' \in Counters,
         next'.local = next.local, next'.builder >= next.builder,
         Intends(t, d.builders),
         DOMAIN owed' = Threads, \A u \in Threads \ {t} : owed'[u] = owed[u],
         owed'[t] => d.exception # None
  PROVE  Worked(t)
<1>1. DOMAIN call = Threads
  BY ActiveCall
<1>2. DOMAIN call' = Threads /\ call'[t] = d /\ \A u \in Threads \ {t} : call'[u] = call[u]
  BY <1>1 DEF Becomes
<1>3. dead' = dead \cup (DOMAIN call[t].handles \ DOMAIN d.handles) /\ last' = last
  BY DEF Becomes, Closed, Domain
<1>. QED
  BY <1>2, <1>3, Zenon DEF Worked, Intends

\* An operation that fails.
LEMMA Failing ==
  ASSUME HpyInv, NEW t \in Threads, call[t] # NoCall,
         NEW c, Like(call[t], c), Fails(t, c), Intends(t, c.builders)
  PROVE  Worked(t)
<1>1. IsCall(c) /\ c.handles = call[t].handles
  BY DEF Like
<1>2. /\ IsCall(fail(c)) /\ fail(c).handles = c.handles
      /\ fail(c).exception # None /\ fail(c).builders = c.builders
  BY <1>1, FailIsLike DEF Like
<1>3. Becomes(t, fail(c)) /\ next' = next /\ named' = named /\ owed' = [owed EXCEPT ![t] = TRUE]
  BY DEF Fails
<1>4. next \in Counters /\ DOMAIN owed = Threads
  BY ActiveCall
<1>5. next'.builder >= next.builder
  BY <1>3, <1>4 DEF Counters
<1>6. DOMAIN owed' = Threads /\ \A u \in Threads \ {t} : owed'[u] = owed[u]
  BY <1>3, <1>4
<1>7. /\ DOMAIN fail(c).handles \subseteq DOMAIN call[t].handles
      /\ \A h \in DOMAIN fail(c).handles : fail(c).handles[h] = call[t].handles[h]
  BY <1>1, <1>2
<1>8. Intends(t, fail(c).builders)
  BY <1>2
<1>9. next' \in Counters /\ next'.local = next.local
  BY <1>3, <1>4
<1>. QED
  BY <1>2, <1>3, <1>5, <1>6, <1>7, <1>8, <1>9, Becoming

\* An operation that makes a handle.
LEMMA Inserting ==
  ASSUME HpyInv, NEW t \in Threads, call[t] # NoCall,
         NEW c, Like(call[t], c), NEW v, Inserts(t, c, v), Intends(t, c.builders)
  PROVE  Worked(t)
<1>1. CASE NewToken(c) = 0
  <2>1. Fails(t, c)
    BY <1>1 DEF Inserts
  <2>. QED
    BY <2>1, Failing
<1>2. CASE NewToken(c) # 0
  <2>1. next \in Counters /\ DOMAIN owed = Threads /\ DOMAIN call = Threads
    BY ActiveCall
  <2>2. next.local < MaxToken.local /\ NewToken(c) = next.local
    BY <1>2 DEF NewToken
  <2>3. next.local \notin DOMAIN named
    <3>1. DOMAIN named \subseteq 1..next.local - 1 /\ next.local \in Nat
      BY <2>1 DEF HpyInv, Tokens, Counters
    <3>. QED
      BY <3>1
  <2>. DEFINE n == next.local
              d == [c EXCEPT !.handles = Put(@, n, v)]
  <2>4. /\ Becomes(t, d) /\ owed' = owed
        /\ named' = Put(named, n, v)
        /\ next' = [next EXCEPT !.local = @ + 1]
    <3>1. /\ Becomes(t, [c EXCEPT !.handles = Put(@, NewToken(c), v)])
          /\ named' = IF NewToken(c) \in DOMAIN named THEN named ELSE Put(named, NewToken(c), v)
          /\ next' = [next EXCEPT !.local = IF @ < MaxToken.local THEN @ + 1 ELSE @]
          /\ UNCHANGED owed
      BY <1>2, Zenon DEF Inserts
    <3>2. next' = [next EXCEPT !.local = @ + 1]
      BY <2>2, <3>1
    <3>. QED
      BY <2>2, <2>3, <3>1, <3>2
  <2>5. c.handles = call[t].handles /\ IsCall(c)
    BY DEF Like
  <2>6. /\ DOMAIN d = CallFields /\ d.handles = Put(c.handles, n, v)
        /\ d.module = c.module /\ d.builders = c.builders /\ d.exception = c.exception
    BY <2>5 DEF IsCall, CallFields
  <2>. HIDE DEF d
  <2>7. IsCall(d)
    BY <2>5, <2>6 DEF IsCall
  <2>8. DOMAIN call' = Threads /\ call'[t] = d /\ \A u \in Threads \ {t} : call'[u] = call[u]
    BY <2>1, <2>4 DEF Becomes
  <2>9. dead' = dead \cup (DOMAIN call[t].handles \ DOMAIN d.handles) /\ last' = last
    BY <2>4 DEF Becomes, Closed, Domain
  <2>10. /\ next' \in Counters /\ next'.local = n + 1
         /\ next'.builder = next.builder /\ next'.builder >= next.builder
    BY <2>1, <2>4 DEF Counters
  <2>11. owed'[t] => d.exception # None
    BY <2>4, <2>6, ActiveCall DEF Like
  <2>12. Holds(d.builders, intended'[t], next'.builder)
    BY <2>6 DEF Intends
  <2>13. \E w : d.handles = Put(call[t].handles, n, w) /\ named' = Put(named, n, w)
    BY <2>4, <2>5, <2>6
  <2>14. /\ DOMAIN intended' = Threads /\ DOMAIN owed' = Threads
         /\ \A u \in Threads \ {t} : intended'[u] = intended[u] /\ owed'[u] = owed[u]
    BY <2>1, <2>4 DEF Intends
  <2>. QED
    BY <2>2, <2>4, <2>7, <2>8, <2>9, <2>10, <2>11, <2>12, <2>13, <2>14 DEF Worked
<1>. QED
  BY <1>1, <1>2

\* The steps that most operations take: a failure, a new handle, or neither.
Plain(t) ==
  \E c : /\ Like(call[t], c)
         /\ \/ Fails(t, c)
            \/ \E v : Inserts(t, c, v)
            \/ Becomes(t, c) /\ UNCHANGED <<next, named, owed>>

\* What is intended stays as it is for builders that stay.
LEMMA IntendsAgain ==
  ASSUME HpyInv, NEW t \in Threads, call[t] # NoCall, NEW c, Like(call[t], c),
         UNCHANGED intended, next' \in Counters, next'.builder >= next.builder
  PROVE  Intends(t, c.builders)
<1>1. Holds(call[t].builders, intended[t], next.builder) /\ DOMAIN intended = Threads
  BY ActiveCall
<1>2. Holds(c.builders, intended[t], next.builder)
  BY <1>1, HoldsFewer
<1>3. next.builder \in Nat /\ next'.builder \in Nat
  BY ActiveCall DEF Counters
<1>4. Holds(c.builders, intended[t], next'.builder)
  BY <1>2, <1>3, HoldsLonger
<1>. QED
  BY <1>1, <1>4 DEF Intends

\* The counters of a failure and of a new handle.
LEMMA CountersMove ==
  ASSUME HpyInv, NEW t, NEW c,
         Fails(t, c) \/ (\E v : Inserts(t, c, v)) \/ UNCHANGED next
  PROVE  next' \in Counters /\ next'.builder = next.builder /\ next'.builder >= next.builder
<1>1. next \in Counters
  BY DEF HpyInv, Tokens
<1>2. CASE UNCHANGED next
  BY <1>1, <1>2 DEF Counters
<1>3. CASE Fails(t, c)
  BY <1>2, <1>3 DEF Fails
<1>4. CASE \E v : Inserts(t, c, v)
  <2>1. PICK v : Inserts(t, c, v)
    BY <1>4
  <2>2. CASE Fails(t, c)
    BY <1>3, <2>2
  <2>3. CASE next' = [next EXCEPT !.local = IF @ < MaxToken.local THEN @ + 1 ELSE @]
    BY <1>1, <2>3 DEF Counters
  <2>. QED
    BY <2>1, <2>2, <2>3, Zenon DEF Inserts
<1>. QED
  BY <1>2, <1>3, <1>4

LEMMA PlainWorks ==
  ASSUME HpyInv, NEW t \in Threads, call[t] # NoCall, Plain(t), UNCHANGED intended
  PROVE  Worked(t)
<1>1. PICK c : /\ Like(call[t], c)
               /\ \/ Fails(t, c)
                  \/ \E v : Inserts(t, c, v)
                  \/ Becomes(t, c) /\ UNCHANGED <<next, named, owed>>
  BY Zenon DEF Plain
<1>2. next' \in Counters /\ next'.builder >= next.builder
  BY <1>1, CountersMove
<1>3. Intends(t, c.builders)
  BY <1>1, <1>2, IntendsAgain
<1>4. CASE Fails(t, c)
  BY <1>1, <1>3, <1>4, Failing
<1>5. CASE \E v : Inserts(t, c, v)
  BY <1>1, <1>3, <1>5, Inserting
<1>6. CASE Becomes(t, c) /\ UNCHANGED <<next, named, owed>>
  <2>1. DOMAIN owed = Threads /\ (owed[t] => call[t].exception # None)
    BY ActiveCall
  <2>2. IsCall(c) /\ c.handles = call[t].handles /\ (owed'[t] => c.exception # None)
    BY <1>1, <1>6, <2>1 DEF Like
  <2>3. /\ DOMAIN c.handles \subseteq DOMAIN call[t].handles
        /\ \A h \in DOMAIN c.handles : c.handles[h] = call[t].handles[h]
    BY <2>2
  <2>4. /\ named' = named /\ next'.local = next.local
        /\ DOMAIN owed' = Threads /\ \A u \in Threads \ {t} : owed'[u] = owed[u]
    BY <1>6, <2>1
  <2>. QED
    BY <1>2, <1>3, <1>6, <2>2, <2>3, <2>4, Becoming
<1>. QED
  BY <1>1, <1>4, <1>5, <1>6

-----------------------------------------------------------------------------
(* The operations.                                                         *)

\* What an operation of native code does: it works on its call, may run guest
\* code, and leaves fields and edges in agreement.
Resumed(t) ==
  /\ DOMAIN stack' = Threads /\ \A u \in Threads \ {t} : stack'[u] = stack[u]
  /\ \/ stack'[t] = stack[t]
     \/ \E op \in {"status", "handle", "attribute"} :
          stack'[t] = Append(stack[t], Guest(op))
NativeStep(t) == Worked(t) /\ Resumed(t) /\ Fields'

LEMMA FieldsStay ==
  ASSUME HpyInv, UNCHANGED <<edges, field>>
  PROVE  Fields'
  BY Zenon DEF HpyInv, Fields, FieldsMatchEdges, Domain

LEMMA ResumedOnly ==
  ASSUME HpyInv, NEW t \in Threads,
         \/ stack' = stack
         \/ \E op \in {"status", "handle", "attribute"} :
              stack' = [stack EXCEPT ![t] = Append(@, Guest(op))]
  PROVE  Resumed(t)
<1>1. DOMAIN stack = Threads
  BY DEF HpyInv, Stacks
<1>. QED
  BY <1>1 DEF Resumed

LEMMA PlainStep ==
  ASSUME HpyInv, NEW t \in Threads, call[t] # NoCall, Plain(t), Stays(t)
  PROVE  NativeStep(t)
<1>1. UNCHANGED <<edges, field>> /\ stack' = stack /\ UNCHANGED intended
  BY DEF Stays, storage
<1>. QED
  BY <1>1, PlainWorks, FieldsStay, ResumedOnly DEF NativeStep

\* Calls that differ in their copies of texts, in trackers, or by a builder.
LEMMA LikeUpdates ==
  ASSUME NEW c, IsCall(c), NEW x
  PROVE  /\ Like(c, [c EXCEPT !.utf8 = x])
         /\ Like(c, [c EXCEPT !.trackers = x])
         /\ Like(c, [c EXCEPT !.builders = Without(@, x)])
<1>1. Like(c, [c EXCEPT !.utf8 = x])
  BY DEF Like, IsCall, CallFields
<1>2. Like(c, [c EXCEPT !.trackers = x])
  BY DEF Like, IsCall, CallFields
<1>3. Like(c, [c EXCEPT !.builders = Without(@, x)])
  <2>. DEFINE bs == Without(c.builders, x)
              d == [c EXCEPT !.builders = bs]
  <2>1. DOMAIN bs \subseteq DOMAIN c.builders
    BY WithoutDomain
  <2>2. \A b \in DOMAIN bs : bs[b] = c.builders[b]
    <3>1. DOMAIN bs = DOMAIN c.builders \ {x}
      BY WithoutDomain
    <3>2. \A b \in DOMAIN c.builders \ {x} : bs[b] = c.builders[b]
      BY WithoutOld
    <3>. QED
      BY <3>1, <3>2
  <2>. HIDE DEF bs
  <2>3. /\ DOMAIN d = CallFields /\ d.builders = bs /\ d.module = c.module
        /\ d.exception = c.exception /\ d.handles = c.handles
    BY DEF IsCall, CallFields
  <2>. HIDE DEF d
  <2>4. Like(c, d)
    BY <2>1, <2>2, <2>3 DEF Like, IsCall
  <2>. QED
    BY <2>4 DEF d, bs
<1>. QED
  BY <1>1, <1>2, <1>3

\* Failures, new handles and calls that stay as they are.
LEMMA PlainFails ==
  ASSUME NEW t, IsCall(call[t]), Fails(t, call[t]) PROVE Plain(t)
  BY LikeItself, Zenon DEF Plain

LEMMA PlainInserts ==
  ASSUME NEW t, IsCall(call[t]), NEW v, Inserts(t, call[t], v) PROVE Plain(t)
  BY LikeItself, Zenon DEF Plain

LEMMA PlainStays ==
  ASSUME NEW t, IsCall(call[t]), Becomes(t, call[t]), UNCHANGED <<next, named, owed>>
  PROVE  Plain(t)
  BY LikeItself, Zenon DEF Plain

\* The operations that only take plain steps.
LEMMA PlainOperations ==
  ASSUME HpyInv, NEW t \in Threads, call[t] # NoCall, NEW h, NEW k,
         \/ WrongContext(t) \/ hpy_dup(t, h) \/ hpy_long_from(t) \/ hpy_long_as(t, h)
         \/ hpy_float(t, h) \/ hpy_unicode_from_string(t)
         \/ hpy_unicode_as_utf8_and_size(t, h) \/ BadName(t)
         \/ hpy_err_exception_matches(t, h) \/ hpy_container(t, h)
         \/ cancel(t, k) \/ hpy_tracker_add(t, k, h) \/ hpy_tracker_forget_all(t, k)
         \/ hpy_field_load(t) \/ hpy_global_load(t, k)
  PROVE  NativeStep(t)
<1>. DEFINE c == call[t]
<1>0. IsCall(c)
  BY ActiveCall
<1>1. Stays(t)
  BY Zenon DEF WrongContext, hpy_dup, hpy_long_from, hpy_long_as, hpy_float,
    hpy_unicode_from_string, hpy_unicode_as_utf8_and_size, BadName,
    hpy_err_exception_matches, hpy_container, cancel, hpy_tracker_add,
    hpy_tracker_forget_all, hpy_field_load, hpy_global_load
<1>2. \/ Fails(t, c) \/ (\E v : Inserts(t, c, v))
      \/ \E d : /\ Like(c, d) /\ Becomes(t, d) /\ UNCHANGED <<next, named, owed>>
  <2>1. CASE WrongContext(t) \/ BadName(t) \/ hpy_err_exception_matches(t, h)
    BY <2>1, Zenon DEF WrongContext, BadName, hpy_err_exception_matches
  <2>2. CASE hpy_dup(t, h) \/ hpy_long_from(t) \/ hpy_long_as(t, h) \/ hpy_float(t, h)
    BY <2>2, Zenon DEF hpy_dup, hpy_long_from, hpy_long_as, hpy_float
  <2>3. CASE hpy_unicode_from_string(t) \/ hpy_container(t, h)
    BY <2>3, Zenon DEF hpy_unicode_from_string, hpy_container
  <2>4. CASE hpy_unicode_as_utf8_and_size(t, h)
    <3>1. \/ /\ Becomes(t, [c EXCEPT !.utf8 = @ \cup {h}])
             /\ UNCHANGED <<next, named, owed>>
          \/ Fails(t, c)
      BY <2>4, Zenon DEF hpy_unicode_as_utf8_and_size
    <3>2. Like(c, [c EXCEPT !.utf8 = @ \cup {h}])
      BY <1>0, LikeUpdates
    <3>. QED
      BY <3>1, <3>2, Zenon
  <2>5. CASE cancel(t, k)
    <3>1. \/ /\ Becomes(t, [c EXCEPT !.builders = Without(@, k)])
             /\ UNCHANGED <<next, named, owed>>
          \/ Fails(t, c)
      BY <2>5, Zenon DEF cancel
    <3>2. Like(c, [c EXCEPT !.builders = Without(@, k)])
      BY <1>0, LikeUpdates
    <3>. QED
      BY <3>1, <3>2, Zenon
  <2>6. CASE hpy_tracker_add(t, k, h)
    <3>1. \/ /\ Becomes(t, [c EXCEPT !.trackers[k] = Append(@, h)])
             /\ UNCHANGED <<next, named, owed>>
          \/ Fails(t, c)
      BY <2>6, Zenon DEF hpy_tracker_add
    <3>2. Like(c, [c EXCEPT !.trackers[k] = Append(@, h)])
      BY <1>0 DEF Like, IsCall, CallFields
    <3>. QED
      BY <3>1, <3>2, Zenon
  <2>7. CASE hpy_tracker_forget_all(t, k)
    <3>1. \/ /\ Becomes(t, [c EXCEPT !.trackers = Without(@, k)])
             /\ UNCHANGED <<next, named, owed>>
          \/ Fails(t, c)
      BY <2>7, Zenon DEF hpy_tracker_forget_all
    <3>2. Like(c, [c EXCEPT !.trackers = Without(@, k)])
      BY <1>0, LikeUpdates
    <3>. QED
      BY <3>1, <3>2, Zenon
  <2>8. CASE hpy_field_load(t) \/ hpy_global_load(t, k)
    <3>1. \/ Fails(t, c) \/ (\E v : Inserts(t, c, v))
          \/ Becomes(t, c) /\ UNCHANGED <<next, named, owed>>
      BY <2>8, Zenon DEF hpy_field_load, hpy_global_load
    <3>2. Like(c, c)
      BY <1>0, LikeItself
    <3>. QED
      BY <3>1, <3>2, Zenon
  <2>. QED
    BY <2>1, <2>2, <2>3, <2>4, <2>5, <2>6, <2>7, <2>8
<1>3. Plain(t)
  BY <1>0, <1>2, LikeItself, Zenon DEF Plain
<1>. QED
  BY <1>1, <1>3, PlainStep

\* A call without some of its handles, and with the failures there were.
Lost(c, d) ==
  /\ IsCall(d)
  /\ DOMAIN d.handles \subseteq DOMAIN c.handles
  /\ \A h \in DOMAIN d.handles : d.handles[h] = c.handles[h]
  /\ d.builders = c.builders

\* A step that loses handles, and may change what is owed.
LEMMA Losing ==
  ASSUME HpyInv, NEW t \in Threads, call[t] # NoCall,
         NEW d, Lost(call[t], d), Becomes(t, d), UNCHANGED <<next, named>>, Stays(t),
         NEW o, owed' = [owed EXCEPT ![t] = o], o => d.exception # None
  PROVE  NativeStep(t)
<1>1. /\ UNCHANGED <<edges, field>> /\ stack' = stack /\ UNCHANGED intended
  BY DEF Stays, storage
<1>2. /\ next \in Counters /\ DOMAIN owed = Threads /\ DOMAIN intended = Threads
      /\ Holds(call[t].builders, intended[t], next.builder)
  BY ActiveCall
<1>3. /\ next' \in Counters /\ next'.local = next.local /\ named' = named
      /\ next'.builder = next.builder /\ next'.builder >= next.builder
  BY <1>2 DEF Counters
<1>4. /\ DOMAIN owed' = Threads /\ \A u \in Threads \ {t} : owed'[u] = owed[u]
      /\ owed'[t] => d.exception # None
  BY <1>2
<1>5. Intends(t, d.builders)
  BY <1>1, <1>2, <1>3 DEF Intends, Lost
<1>6. Worked(t)
  BY <1>3, <1>4, <1>5, Becoming DEF Lost
<1>. QED
  BY <1>1, <1>6, FieldsStay, ResumedOnly DEF NativeStep

\* An EXCEPT on the handles and the copies of texts of a call.
LEMMA LosingHandles ==
  ASSUME NEW c, IsCall(c), NEW D, D \subseteq DOMAIN c.handles, NEW x, NEW f,
         DOMAIN f = D, \A h \in D : f[h] = c.handles[h]
  PROVE  Lost(c, [c EXCEPT !.utf8 = x, !.handles = f])
<1>. DEFINE d == [c EXCEPT !.utf8 = x, !.handles = f]
<1>1. /\ DOMAIN d = CallFields /\ d.handles = f
      /\ d.module = c.module /\ d.builders = c.builders /\ d.exception = c.exception
  BY DEF IsCall, CallFields
<1>. HIDE DEF d
<1>2. Lost(c, d)
  BY <1>1 DEF Lost, IsCall
<1>. QED
  BY <1>2 DEF d

\* A failed call has lost nothing.
LEMMA LostLater ==
  ASSUME NEW c, IsCall(c), NEW d, Lost(fail(c), d)
  PROVE  Lost(c, d)
<1>1. /\ fail(c).handles = c.handles /\ fail(c).builders = c.builders
  BY FailIsLike DEF Like
<1>. QED
  BY <1>1 DEF Lost

LEMMA CloseLoses ==
  ASSUME NEW c, IsCall(c), NEW h
  PROVE  /\ Lost(c, Close(c, h))
         /\ h \notin {Null, Special} \cup DOMAIN c.handles => Close(c, h).exception # None
         /\ c.exception # None => Close(c, h).exception # None
<1>1. CASE h \in {Null, Special}
  <2>1. Close(c, h) = c
    BY <1>1 DEF Close
  <2>. QED
    BY <1>1, <2>1 DEF Lost
<1>2. CASE h \notin {Null, Special} /\ h \in DOMAIN c.handles
  <2>. DEFINE f == Without(c.handles, h)
              x == c.utf8 \ {h}
  <2>1. DOMAIN f = DOMAIN c.handles \ {h}
    BY WithoutDomain
  <2>2. \A k \in DOMAIN c.handles \ {h} : f[k] = c.handles[k]
    BY WithoutOld
  <2>3. Close(c, h) = [c EXCEPT !.utf8 = x, !.handles = f]
    BY <1>2, Zenon DEF Close, Domain
  <2>. DEFINE
              D == DOMAIN c.handles \ {h}
              d == [c EXCEPT !.utf8 = x, !.handles = f]
  <2>4. D \subseteq DOMAIN c.handles
    OBVIOUS
  <2>5. d.exception = c.exception
    BY DEF IsCall, CallFields
  <2>. HIDE DEF f, x, D
  <2>6. DOMAIN f = D /\ \A k \in D : f[k] = c.handles[k]
    BY <2>1, <2>2 DEF D
  <2>7. Lost(c, d)
    BY <2>4, <2>6, LosingHandles
  <2>. HIDE DEF d
  <2>8. Close(c, h) = d
    BY <2>3 DEF d
  <2>. QED
    BY <1>2, <2>5, <2>7, <2>8
<1>3. CASE h \notin {Null, Special} /\ h \notin DOMAIN c.handles
  <2>1. Close(c, h) = fail(c)
    BY <1>3 DEF Close, Domain
  <2>. QED
    BY <2>1, FailIsLike DEF Like, Lost
<1>. QED
  BY <1>1, <1>2, <1>3

LEMMA CloseEachLoses ==
  ASSUME NEW c, IsCall(c), NEW hs
  PROVE  /\ Lost(c, CloseEach(c, hs))
         /\ CloseEach(c, hs).exception # c.exception => CloseEach(c, hs).exception # None
         /\ c.exception # None => CloseEach(c, hs).exception # None
<1>. DEFINE closing == Range(hs) \ {Null, Special}
            again == \E i, j \in DOMAIN hs : i # j /\ hs[i] = hs[j] /\ hs[i] \in closing
            bad == again \/ ~ (closing \subseteq Domain(c.handles))
            e == IF bad THEN fail(c) ELSE c
            D == DOMAIN e.handles \ closing
            f == Restrict(e.handles, D)
            x == e.utf8 \ closing
            d == [e EXCEPT !.utf8 = x, !.handles = f]
<1>1. CloseEach(c, hs) = d
  BY Zenon DEF CloseEach
<1>2. /\ IsCall(e) /\ Like(c, e) /\ (e.exception # c.exception => e.exception # None)
      /\ e.builders = c.builders
  <2>. HIDE DEF bad
  <2>1. CASE bad
    <3>1. e = fail(c)
      BY <2>1
    <3>. QED
      BY <3>1, FailIsLike DEF Like
  <2>2. CASE ~ bad
    <3>1. e = c
      BY <2>2
    <3>. QED
      BY <3>1, LikeItself
  <2>. QED
    BY <2>1, <2>2
<1>3. DOMAIN f = D /\ \A h \in D : f[h] = e.handles[h]
  BY DEF Restrict
<1>4. D \subseteq DOMAIN e.handles
  OBVIOUS
<1>. HIDE DEF e, f, x, D
<1>5. Lost(e, d) /\ d.exception = e.exception
  <2>1. IsCall(e)
    BY <1>2
  <2>2. Lost(e, d)
    BY <1>3, <1>4, <2>1, LosingHandles
  <2>3. d.exception = e.exception
    BY <2>1 DEF IsCall, CallFields
  <2>. QED
    BY <2>2, <2>3
<1>. HIDE DEF d
<1>6. Lost(c, d)
  BY <1>2, <1>5 DEF Lost, Like
<1>. QED
  BY <1>1, <1>2, <1>5, <1>6 DEF Like

LEMMA ClosingSteps ==
  ASSUME HpyInv, NEW t \in Threads, call[t] # NoCall, NEW h, NEW k,
         hpy_close(t, h) \/ hpy_tracker_close(t, k)
  PROVE  NativeStep(t)
<1>. DEFINE c == call[t]
<1>0. IsCall(c) /\ (owed[t] => c.exception # None)
  BY ActiveCall
<1>1. CASE hpy_close(t, h)
  <2>. DEFINE d == Close(c, h)
              o == owed[t] \/ ~ (h \in {Null, Special} \cup Domain(c.handles))
  <2>1. /\ Becomes(t, d) /\ UNCHANGED <<next, named>> /\ Stays(t)
        /\ owed' = [owed EXCEPT ![t] = o]
    BY <1>1, Zenon DEF hpy_close
  <2>2. Lost(c, d)
    BY <1>0, CloseLoses
  <2>3. o => d.exception # None
    BY <1>0, CloseLoses DEF Domain
  <2>. HIDE DEF d, o
  <2>. QED
    BY <2>1, <2>2, <2>3, Losing
<1>2. CASE hpy_tracker_close(t, k)
  <2>1. CASE k \in Domain(c.trackers)
    <3>. DEFINE b == [c EXCEPT !.trackers = Without(@, k)]
                d == CloseEach(b, c.trackers[k])
                o == owed[t] \/ d.exception # c.exception
    <3>1. /\ Becomes(t, d) /\ UNCHANGED <<next, named>> /\ Stays(t)
          /\ owed' = [owed EXCEPT ![t] = o]
      BY <1>2, <2>1, Zenon DEF hpy_tracker_close
    <3>2. Like(c, b)
      BY <1>0, LikeUpdates
    <3>3. b.exception = c.exception /\ b.builders = c.builders
      BY <1>0 DEF IsCall, CallFields
    <3>4. IsCall(b) /\ b.handles = c.handles
      BY <3>2 DEF Like
    <3>. HIDE DEF b
    <3>5. /\ Lost(b, d) /\ (d.exception # b.exception => d.exception # None)
          /\ b.exception # None => d.exception # None
      BY <3>4, CloseEachLoses
    <3>6. o => d.exception # None
      BY <1>0, <3>3, <3>5
    <3>. HIDE DEF d, o
    <3>7. Lost(c, d)
      BY <3>3, <3>4, <3>5 DEF Lost
    <3>. QED
      BY <3>1, <3>6, <3>7, Losing
  <2>2. CASE k \notin Domain(c.trackers)
    <3>1. Fails(t, c) /\ Stays(t)
      BY <1>2, <2>2, Zenon DEF hpy_tracker_close
    <3>. QED
      BY <1>0, <3>1, PlainFails, PlainStep
  <2>. QED
    BY <2>1, <2>2
<1>. QED
  BY <1>1, <1>2

\* The exception is set or cleared.
LEMMA ErrorSteps ==
  ASSUME HpyInv, NEW t \in Threads, call[t] # NoCall, NEW h,
         hpy_err_set(t, h) \/ hpy_err_clear(t)
  PROVE  NativeStep(t)
<1>. DEFINE c == call[t]
            d == [c EXCEPT !.exception = "extension"]
            e == [c EXCEPT !.exception = None]
<1>0. IsCall(c)
  BY ActiveCall
<1>1. /\ DOMAIN d = CallFields /\ d.handles = c.handles /\ d.module = c.module
      /\ d.builders = c.builders /\ d.exception = "extension"
  BY <1>0 DEF IsCall, CallFields
<1>2. /\ DOMAIN e = CallFields /\ e.handles = c.handles /\ e.module = c.module
      /\ e.builders = c.builders /\ e.exception = None
  BY <1>0 DEF IsCall, CallFields
<1>3. \/ Fails(t, c) /\ Stays(t)
      \/ /\ Becomes(t, d) /\ owed' = [owed EXCEPT ![t] = TRUE]
         /\ UNCHANGED <<next, named>> /\ Stays(t)
      \/ /\ Becomes(t, e) /\ owed' = [owed EXCEPT ![t] = FALSE]
         /\ UNCHANGED <<next, named>> /\ Stays(t)
  BY Zenon DEF hpy_err_set, hpy_err_clear
<1>. HIDE DEF d, e
<1>4. Lost(c, d) /\ d.exception # None
  BY <1>0, <1>1, HpyAssumption DEF Lost, IsCall
<1>5. Lost(c, e)
  BY <1>0, <1>2 DEF Lost, IsCall
<1>6. CASE Fails(t, c) /\ Stays(t)
  BY <1>0, <1>6, PlainFails, PlainStep
<1>7. CASE /\ Becomes(t, d) /\ owed' = [owed EXCEPT ![t] = TRUE]
           /\ UNCHANGED <<next, named>> /\ Stays(t)
  BY <1>4, <1>7, Losing
<1>8. CASE /\ Becomes(t, e) /\ owed' = [owed EXCEPT ![t] = FALSE]
           /\ UNCHANGED <<next, named>> /\ Stays(t)
  BY <1>5, <1>8, Losing
<1>. QED
  BY <1>3, <1>6, <1>7, <1>8

\* A tracker is made.
LEMMA TrackerSteps ==
  ASSUME HpyInv, NEW t \in Threads, call[t] # NoCall, NEW size, hpy_tracker_new(t, size)
  PROVE  NativeStep(t)
<1>. DEFINE c == call[t]
            d == [c EXCEPT !.trackers = Put(@, next.tracker, << >>)]
<1>0. /\ IsCall(c) /\ (owed[t] => c.exception # None) /\ next \in Counters
      /\ DOMAIN owed = Threads
  BY ActiveCall
<1>1. \/ Fails(t, c) /\ Stays(t)
      \/ /\ Becomes(t, d) /\ next' = [next EXCEPT !.tracker = @ + 1]
         /\ UNCHANGED <<named, owed>> /\ Stays(t)
  BY Zenon DEF hpy_tracker_new
<1>2. Like(c, d)
  BY <1>0, LikeUpdates
<1>. HIDE DEF d
<1>3. CASE Fails(t, c) /\ Stays(t)
  BY <1>0, <1>3, PlainFails, PlainStep
<1>4. CASE /\ Becomes(t, d) /\ next' = [next EXCEPT !.tracker = @ + 1]
           /\ UNCHANGED <<named, owed>> /\ Stays(t)
  <2>1. /\ next' \in Counters /\ next'.local = next.local
        /\ next'.builder = next.builder /\ next'.builder >= next.builder
    BY <1>0, <1>4 DEF Counters
  <2>2. UNCHANGED <<edges, field, intended>> /\ stack' = stack
    BY <1>4 DEF Stays, storage
  <2>3. Intends(t, d.builders)
    BY <1>2, <2>1, <2>2, IntendsAgain
  <2>4. /\ IsCall(d) /\ DOMAIN d.handles \subseteq DOMAIN c.handles
        /\ \A h \in DOMAIN d.handles : d.handles[h] = c.handles[h]
        /\ owed'[t] => d.exception # None
    BY <1>0, <1>2, <1>4 DEF Like
  <2>5. DOMAIN owed' = Threads /\ \A u \in Threads \ {t} : owed'[u] = owed[u]
    BY <1>0, <1>4
  <2>6. Worked(t)
    BY <1>4, <2>1, <2>3, <2>4, <2>5, Becoming
  <2>. QED
    BY <2>2, <2>6, FieldsStay, ResumedOnly DEF NativeStep
<1>. QED
  BY <1>1, <1>3, <1>4

\* Guest code is run, at once or with a key that gets a handle.
LEMMA EntersStep ==
  ASSUME HpyInv, NEW t \in Threads, call[t] # NoCall,
         NEW op \in {"status", "handle", "attribute"}, NEW hs, Enters(t, op, hs)
  PROVE  NativeStep(t)
<1>0. IsCall(call[t]) /\ DOMAIN call = Threads
  BY ActiveCall
<1>1. UNCHANGED <<edges, field, intended, last>>
  BY Zenon DEF Enters, storage
<1>2. CASE /\ stack' = [stack EXCEPT ![t] = Append(@, Guest(op))]
           /\ UNCHANGED <<call, tokens, owed>>
  <2>1. DOMAIN call' = Threads /\ DOMAIN intended' = Threads /\ DOMAIN owed' = Threads
    BY <1>1, <1>2, ActiveCall
  <2>2. /\ next' \in Counters /\ next'.builder = next.builder
        /\ next'.builder >= next.builder /\ next'.local = next.local
        /\ named' = named /\ dead' = dead
    BY <1>2, ActiveCall DEF tokens, Counters
  <2>3. Holds(call'[t].builders, intended'[t], next'.builder)
    BY <1>1, <1>2, <2>2, ActiveCall
  <2>4. owed'[t] => call'[t].exception # None
    BY <1>2, ActiveCall
  <2>5. Worked(t)
    BY <1>0, <1>1, <1>2, <2>1, <2>2, <2>3, <2>4 DEF Worked
  <2>. QED
    BY <1>1, <1>2, <2>5, FieldsStay, ResumedOnly DEF NativeStep
<1>3. CASE Fails(t, call[t]) /\ UNCHANGED stack
  <2>1. Stays(t)
    BY <1>3, Zenon DEF Stays, Enters
  <2>. QED
    BY <1>0, <1>3, <2>1, PlainFails, PlainStep
<1>. QED
  BY <1>2, <1>3, Zenon DEF Enters

LEMMA EntersWithKeyStep ==
  ASSUME HpyInv, NEW t \in Threads, call[t] # NoCall,
         NEW op \in {"status", "handle", "attribute"}, NEW h, EntersWithKey(t, op, h)
  PROVE  NativeStep(t)
<1>. DEFINE c == call[t]
            n == NewToken(c)
            enters == n # 0 /\ Resolves(c, h)
<1>0. IsCall(c) /\ next \in Counters /\ DOMAIN owed = Threads
  BY ActiveCall
<1>1. /\ UNCHANGED <<edges, field, intended>>
      /\ stack' = [stack EXCEPT ![t] = IF enters THEN Append(@, Guest(op)) ELSE @]
  BY Zenon DEF EntersWithKey, storage
<1>2. Resumed(t)
  <2>1. DOMAIN stack = Threads
    BY DEF HpyInv, Stacks
  <2>2. DOMAIN stack' = Threads /\ \A u \in Threads \ {t} : stack'[u] = stack[u]
    BY <1>1, <2>1
  <2>3. stack'[t] = IF enters THEN Append(stack[t], Guest(op)) ELSE stack[t]
    BY <1>1, <2>1
  <2>. HIDE DEF enters
  <2>4. stack'[t] = stack[t] \/ stack'[t] = Append(stack[t], Guest(op))
    BY <2>3
  <2>. QED
    BY <2>2, <2>4 DEF Resumed
<1>3. PICK v \in Values :
        \/ Inserts(t, c, v)
        \/ Fails(t, c)
        \/ /\ n # 0
           /\ Becomes(t, fail([c EXCEPT !.handles = Put(@, n, v)]))
           /\ named' = Put(named, n, v)
           /\ next' = [next EXCEPT !.local = @ + 1]
           /\ owed' = [owed EXCEPT ![t] = TRUE]
  BY Zenon DEF EntersWithKey
<1>4. CASE Inserts(t, c, v) \/ Fails(t, c)
  <2>1. Plain(t)
    BY <1>0, <1>4, PlainFails, PlainInserts
  <2>2. Worked(t)
    BY <1>1, <2>1, PlainWorks
  <2>. QED
    BY <1>1, <1>2, <2>2, FieldsStay DEF NativeStep
<1>5. CASE /\ n # 0
           /\ Becomes(t, fail([c EXCEPT !.handles = Put(@, n, v)]))
           /\ named' = Put(named, n, v)
           /\ next' = [next EXCEPT !.local = @ + 1]
           /\ owed' = [owed EXCEPT ![t] = TRUE]
  <2>1. next.local < MaxToken.local /\ n = next.local
    BY <1>5 DEF NewToken
  <2>. DEFINE d == [c EXCEPT !.handles = Put(@, n, v)]
              e == fail(d)
  <2>2. /\ DOMAIN d = CallFields /\ d.handles = Put(c.handles, n, v) /\ d.module = c.module
        /\ d.builders = c.builders /\ d.exception = c.exception
    BY <1>0 DEF IsCall, CallFields
  <2>3. Becomes(t, e)
    BY <1>5
  <2>. HIDE DEF d
  <2>4. IsCall(d)
    BY <1>0, <2>2 DEF IsCall
  <2>5. /\ IsCall(e) /\ e.handles = Put(c.handles, n, v) /\ e.builders = c.builders
        /\ e.exception # None
    BY <2>2, <2>4, FailIsLike DEF Like
  <2>. HIDE DEF e, n
  <2>6. DOMAIN call' = Threads /\ call'[t] = e /\ \A u \in Threads \ {t} : call'[u] = call[u]
    BY <2>3, ActiveCall DEF Becomes
  <2>7. dead' = dead \cup (DOMAIN call[t].handles \ DOMAIN e.handles) /\ last' = last
    BY <2>3 DEF Becomes, Closed, Domain
  <2>8. /\ next' \in Counters /\ next'.local = next.local + 1
        /\ next'.builder = next.builder /\ next'.builder >= next.builder
    BY <1>0, <1>5 DEF Counters
  <2>9. /\ DOMAIN intended' = Threads /\ DOMAIN owed' = Threads
        /\ \A u \in Threads \ {t} : intended'[u] = intended[u] /\ owed'[u] = owed[u]
    BY <1>0, <1>1, <1>5, ActiveCall
  <2>10. Holds(e.builders, intended'[t], next'.builder)
    BY <1>1, <2>5, <2>8, ActiveCall
  <2>11. \E w : /\ call'[t].handles = Put(call[t].handles, next.local, w)
                /\ named' = Put(named, next.local, w)
    BY <1>5, <2>1, <2>5, <2>6
  <2>12. Worked(t)
    BY <2>1, <2>5, <2>6, <2>7, <2>8, <2>9, <2>10, <2>11 DEF Worked
  <2>. QED
    BY <1>1, <1>2, <2>12, FieldsStay DEF NativeStep
<1>. QED
  BY <1>3, <1>4, <1>5

\* Builders with one more, without one, and with one item more.
LEMMA HoldsNew ==
  ASSUME NEW bs, NEW intents, NEW n \in Nat \ {0}, Holds(bs, intents, n),
         NEW kind, NEW items, \A i \in DOMAIN items : items[i] = None
  PROVE  Holds(Put(bs, n, [kind |-> kind, items |-> items]), Put(intents, n, items), n + 1)
<1>. DEFINE new == [kind |-> kind, items |-> items]
            cs == Put(bs, n, new)
            js == Put(intents, n, items)
<1>1. DOMAIN new = {"kind", "items"} /\ new.items = items
  OBVIOUS
<1>. HIDE DEF new
<1>2. DOMAIN cs = DOMAIN bs \cup {n}
  BY PutDomain
<1>3. cs[n] = new
  BY PutNew
<1>4. \A b \in DOMAIN bs : b # n => cs[b] = bs[b]
  BY PutOld
<1>5. DOMAIN js = DOMAIN intents \cup {n}
  BY PutDomain
<1>6. js[n] = items
  BY PutNew
<1>7. \A b \in DOMAIN intents : b # n => js[b] = intents[b]
  BY PutOld
<1>. HIDE DEF cs, js
<1>8. Holds(cs, js, n + 1)
  <2>. SUFFICES ASSUME NEW b \in DOMAIN cs
                PROVE  /\ b \in Nat /\ b < n + 1 /\ b \in DOMAIN js
                       /\ DOMAIN cs[b] = {"kind", "items"}
                       /\ \A i \in DOMAIN cs[b].items :
                            /\ i \in DOMAIN js[b]
                            /\ cs[b].items[i] # None =>
                                 /\ "value" \in DOMAIN cs[b].items[i]
                                 /\ cs[b].items[i].value = js[b][i].value
    BY DEF Holds
  <2>1. CASE b = n
    BY <1>1, <1>3, <1>5, <1>6, <2>1
  <2>2. CASE b # n
    <3>1. b \in DOMAIN bs /\ cs[b] = bs[b]
      BY <1>2, <1>4, <2>2
    <3>2. /\ b \in Nat /\ b < n /\ b \in DOMAIN intents
          /\ DOMAIN bs[b] = {"kind", "items"}
          /\ \A i \in DOMAIN bs[b].items :
               /\ i \in DOMAIN intents[b]
               /\ bs[b].items[i] # None =>
                    /\ "value" \in DOMAIN bs[b].items[i]
                    /\ bs[b].items[i].value = intents[b][i].value
      BY <3>1 DEF Holds
    <3>3. js[b] = intents[b] /\ b \in DOMAIN js /\ b < n + 1
      BY <1>5, <1>7, <2>2, <3>2
    <3>. QED
      BY <3>1, <3>2, <3>3
  <2>. QED
    BY <2>1, <2>2
<1>. QED
  BY <1>8 DEF cs, js, new

LEMMA HoldsWithout ==
  ASSUME NEW bs, NEW intents, NEW n, Holds(bs, intents, n), NEW b
  PROVE  Holds(Without(bs, b), Without(intents, b), n)
<1>. DEFINE cs == Without(bs, b)
            js == Without(intents, b)
<1>1. DOMAIN cs = DOMAIN bs \ {b}
  BY WithoutDomain
<1>2. \A x \in DOMAIN bs \ {b} : cs[x] = bs[x]
  BY WithoutOld
<1>3. DOMAIN js = DOMAIN intents \ {b}
  BY WithoutDomain
<1>4. \A x \in DOMAIN intents \ {b} : js[x] = intents[x]
  BY WithoutOld
<1>. HIDE DEF cs, js
<1>5. Holds(cs, js, n)
  BY <1>1, <1>2, <1>3, <1>4 DEF Holds
<1>. QED
  BY <1>5 DEF cs, js

LEMMA HoldsItem ==
  ASSUME NEW bs, NEW intents, NEW n, Holds(bs, intents, n),
         NEW b \in DOMAIN bs, NEW i, NEW x, NEW y, "value" \in DOMAIN x, x.value = y.value
  PROVE  Holds([bs EXCEPT ![b].items[i] = x], [intents EXCEPT ![b][i] = y], n)
<1>. DEFINE cs == [bs EXCEPT ![b].items[i] = x]
            js == [intents EXCEPT ![b][i] = y]
<1>1. /\ b \in DOMAIN intents /\ "items" \in DOMAIN bs[b]
  BY DEF Holds
<1>2. /\ DOMAIN cs = DOMAIN bs
      /\ \A k \in DOMAIN bs : k # b => cs[k] = bs[k]
  OBVIOUS
<1>3. DOMAIN cs[b] = DOMAIN bs[b] /\ DOMAIN cs[b].items = DOMAIN bs[b].items
  BY <1>1
<1>4. \A k \in DOMAIN bs[b].items : cs[b].items[k] = IF k = i THEN x ELSE bs[b].items[k]
  BY <1>1
<1>5. /\ DOMAIN js = DOMAIN intents /\ DOMAIN js[b] = DOMAIN intents[b]
      /\ \A k \in DOMAIN intents : k # b => js[k] = intents[k]
  BY <1>1
<1>6. \A k \in DOMAIN intents[b] : js[b][k] = IF k = i THEN y ELSE intents[b][k]
  BY <1>1
<1>. HIDE DEF cs, js
<1>7. Holds(cs, js, n)
  <2>. SUFFICES ASSUME NEW k \in DOMAIN cs
                PROVE  /\ k \in Nat /\ k < n /\ k \in DOMAIN js
                       /\ DOMAIN cs[k] = {"kind", "items"}
                       /\ \A j \in DOMAIN cs[k].items :
                            /\ j \in DOMAIN js[k]
                            /\ cs[k].items[j] # None =>
                                 /\ "value" \in DOMAIN cs[k].items[j]
                                 /\ cs[k].items[j].value = js[k][j].value
    BY DEF Holds
  <2>0. /\ k \in DOMAIN bs
        /\ k \in Nat /\ k < n /\ k \in DOMAIN intents
        /\ DOMAIN bs[k] = {"kind", "items"}
        /\ \A j \in DOMAIN bs[k].items :
             /\ j \in DOMAIN intents[k]
             /\ bs[k].items[j] # None =>
                  /\ "value" \in DOMAIN bs[k].items[j]
                  /\ bs[k].items[j].value = intents[k][j].value
    BY <1>2 DEF Holds
  <2>1. CASE k = b
    <3>. SUFFICES ASSUME NEW j \in DOMAIN bs[b].items
                  PROVE  /\ j \in DOMAIN js[b]
                         /\ cs[b].items[j] # None =>
                              /\ "value" \in DOMAIN cs[b].items[j]
                              /\ cs[b].items[j].value = js[b][j].value
      BY <1>3, <1>5, <2>0, <2>1
    <3>1. j \in DOMAIN intents[b]
      BY <2>0, <2>1
    <3>2. CASE j = i
      BY <1>4, <1>5, <1>6, <3>1, <3>2
    <3>3. CASE j # i
      BY <1>4, <1>5, <1>6, <2>0, <2>1, <3>1, <3>3
    <3>. QED
      BY <3>2, <3>3
  <2>2. CASE k # b
    <3>1. cs[k] = bs[k] /\ js[k] = intents[k]
      BY <1>2, <1>5, <2>0, <2>2
    <3>. QED
      BY <1>5, <2>0, <3>1
  <2>. QED
    BY <2>1, <2>2
<1>. QED
  BY <1>7 DEF cs, js

\* A step that changes the builders of its call and what is intended for them.
LEMMA Building ==
  ASSUME HpyInv, NEW t \in Threads, call[t] # NoCall,
         NEW bs, Becomes(t, [call[t] EXCEPT !.builders = bs]),
         NEW is, intended' = [intended EXCEPT ![t] = is], Holds(bs, is, next'.builder),
         next' \in Counters, next'.local = next.local, next'.builder >= next.builder,
         UNCHANGED <<named, owed, stack, storage>>
  PROVE  NativeStep(t)
<1>. DEFINE c == call[t]
            d == [c EXCEPT !.builders = bs]
<1>0. /\ IsCall(c) /\ (owed[t] => c.exception # None)
      /\ DOMAIN owed = Threads /\ DOMAIN intended = Threads
  BY ActiveCall
<1>1. /\ DOMAIN d = CallFields /\ d.handles = c.handles /\ d.module = c.module
      /\ d.builders = bs /\ d.exception = c.exception
  BY <1>0 DEF IsCall, CallFields
<1>2. Becomes(t, d)
  OBVIOUS
<1>. HIDE DEF d
<1>3. /\ IsCall(d) /\ DOMAIN d.handles \subseteq DOMAIN c.handles
      /\ \A h \in DOMAIN d.handles : d.handles[h] = c.handles[h]
      /\ owed'[t] => d.exception # None
  BY <1>0, <1>1 DEF IsCall
<1>4. Intends(t, d.builders)
  BY <1>0, <1>1 DEF Intends
<1>5. DOMAIN owed' = Threads /\ \A u \in Threads \ {t} : owed'[u] = owed[u]
  BY <1>0
<1>6. Worked(t)
  BY <1>2, <1>3, <1>4, <1>5, Becoming
<1>. QED
  BY <1>6, FieldsStay, ResumedOnly DEF NativeStep, storage

LEMMA NewBuilderStep ==
  ASSUME HpyInv, NEW t \in Threads, call[t] # NoCall, NEW kind, NEW size,
         new_builder(t, kind, size)
  PROVE  NativeStep(t)
<1>. DEFINE c == call[t]
            b == next.builder
            items == [i \in 1..size |-> None]
            bs == Put(c.builders, b, [kind |-> kind, items |-> items])
            is == Put(intended[t], b, items)
<1>0. IsCall(c) /\ next \in Counters /\ Holds(c.builders, intended[t], b)
  BY ActiveCall
<1>1. \/ Fails(t, c) /\ Stays(t)
      \/ /\ Becomes(t, [c EXCEPT !.builders = bs])
         /\ intended' = [intended EXCEPT ![t] = is]
         /\ next' = [next EXCEPT !.builder = b + 1]
         /\ UNCHANGED <<named, owed, stack, storage>>
  BY Zenon DEF new_builder, Stays
<1>2. CASE Fails(t, c) /\ Stays(t)
  BY <1>0, <1>2, PlainFails, PlainStep
<1>3. CASE /\ Becomes(t, [c EXCEPT !.builders = bs])
           /\ intended' = [intended EXCEPT ![t] = is]
           /\ next' = [next EXCEPT !.builder = b + 1]
           /\ UNCHANGED <<named, owed, stack, storage>>
  <2>1. /\ next' \in Counters /\ next'.local = next.local
        /\ next'.builder = b + 1 /\ next'.builder >= next.builder /\ b \in Nat \ {0}
    BY <1>0, <1>3 DEF Counters
  <2>2. \A i \in DOMAIN items : items[i] = None
    OBVIOUS
  <2>. HIDE DEF items
  <2>3. Holds(bs, is, b + 1)
    BY <1>0, <2>1, <2>2, HoldsNew
  <2>. HIDE DEF bs, is
  <2>. QED
    BY <1>3, <2>1, <2>3, Building
<1>. QED
  BY <1>1, <1>2, <1>3

LEMMA SetItemStep ==
  ASSUME HpyInv, NEW t \in Threads, call[t] # NoCall, NEW b, NEW kind, NEW i, NEW h,
         set_builder_item(t, b, kind, i, h)
  PROVE  NativeStep(t)
<1>. DEFINE c == call[t]
            x == Item(c, h)
            y == [value |-> resolve(c, h)]
            bs == [c.builders EXCEPT ![b].items[i] = x]
            is == [intended[t] EXCEPT ![b][i] = y]
<1>0. IsCall(c) /\ next \in Counters /\ Holds(c.builders, intended[t], next.builder)
  BY ActiveCall
<1>1. \/ Fails(t, c) /\ Stays(t)
      \/ /\ b \in DOMAIN c.builders
         /\ Becomes(t, [c EXCEPT !.builders[b].items[i] = x])
         /\ intended' = [intended EXCEPT ![t][b][i] = y]
         /\ UNCHANGED <<next, named, owed, stack, storage>>
  <2>1. \/ Fails(t, c) /\ UNCHANGED intended
        \/ /\ b \in {z \in Domain(c.builders) : c.builders[z].kind = kind}
           /\ Becomes(t, [c EXCEPT !.builders[b].items[i] = x])
           /\ intended' = [intended EXCEPT ![t][b][i] = y]
           /\ UNCHANGED <<next, named, owed>>
    BY Zenon DEF set_builder_item
  <2>2. UNCHANGED <<stack, storage>>
    BY Zenon DEF set_builder_item
  <2>. HIDE DEF x, y
  <2>. QED
    BY <2>1, <2>2 DEF Stays, Domain
<1>2. CASE Fails(t, c) /\ Stays(t)
  BY <1>0, <1>2, PlainFails, PlainStep
<1>3. CASE /\ b \in DOMAIN c.builders
           /\ Becomes(t, [c EXCEPT !.builders[b].items[i] = x])
           /\ intended' = [intended EXCEPT ![t][b][i] = y]
           /\ UNCHANGED <<next, named, owed, stack, storage>>
  <2>1. "value" \in DOMAIN x /\ x.value = y.value
    BY DEF Item
  <2>. HIDE DEF x, y
  <2>2. Holds(bs, is, next.builder)
    BY <1>0, <1>3, <2>1, HoldsItem
  <2>3. [c EXCEPT !.builders[b].items[i] = x] = [c EXCEPT !.builders = bs]
    OBVIOUS
  <2>4. Becomes(t, [c EXCEPT !.builders = bs])
    BY <1>3, <2>3
  <2>5. intended' = [intended EXCEPT ![t] = is]
    BY <1>3
  <2>6. /\ next' \in Counters /\ next'.local = next.local
        /\ next'.builder = next.builder /\ next'.builder >= next.builder
    BY <1>0, <1>3 DEF Counters
  <2>. HIDE DEF bs, is
  <2>7. Holds(bs, is, next'.builder)
    BY <2>2, <2>6
  <2>. QED
    BY <1>3, <2>4, <2>5, <2>6, <2>7, Building
<1>. QED
  BY <1>1, <1>2, <1>3

LEMMA BuildStep ==
  ASSUME HpyInv, NEW t \in Threads, call[t] # NoCall, NEW b, NEW kind, build(t, b, kind)
  PROVE  NativeStep(t)
<1>. DEFINE c == call[t]
            d == [c EXCEPT !.builders = Without(@, b)]
<1>0. /\ IsCall(c) /\ next \in Counters /\ Holds(c.builders, intended[t], next.builder)
      /\ DOMAIN intended = Threads
  BY ActiveCall
<1>1. UNCHANGED <<edges, field>> /\ stack' = stack
  BY Zenon DEF build, storage
<1>2. Like(c, d) /\ Like(c, c)
  BY <1>0, LikeUpdates, LikeItself
<1>3. d.builders = Without(c.builders, b)
  BY <1>0 DEF IsCall, CallFields
<1>4. \/ Fails(t, c) /\ UNCHANGED intended
      \/ Fails(t, d) /\ UNCHANGED intended
      \/ /\ \E v : Inserts(t, d, v)
         /\ intended' = [intended EXCEPT ![t] = Without(@, b)]
  BY Zenon DEF build
<1>. HIDE DEF d
<1>5. Worked(t)
  <2>1. CASE UNCHANGED intended /\ (Fails(t, c) \/ Fails(t, d))
    <3>1. Plain(t)
      BY <1>2, <2>1, Zenon DEF Plain
    <3>. QED
      BY <2>1, <3>1, PlainWorks
  <2>2. CASE /\ \E v : Inserts(t, d, v)
             /\ intended' = [intended EXCEPT ![t] = Without(@, b)]
    <3>1. next'.builder = next.builder
      BY <2>2, CountersMove
    <3>2. Holds(Without(c.builders, b), Without(intended[t], b), next.builder)
      BY <1>0, HoldsWithout
    <3>3. intended'[t] = Without(intended[t], b)
      BY <1>0, <2>2
    <3>4. Intends(t, d.builders)
      BY <1>0, <1>3, <2>2, <3>1, <3>2, <3>3 DEF Intends
    <3>. QED
      BY <1>2, <2>2, <3>4, Inserting
  <2>. QED
    BY <1>4, <2>1, <2>2
<1>. QED
  BY <1>1, <1>5, FieldsStay, ResumedOnly DEF NativeStep

LEMMA GlobalStoreStep ==
  ASSUME HpyInv, NEW t \in Threads, call[t] # NoCall, NEW declared, NEW h,
         hpy_global_store(t, declared, h)
  PROVE  NativeStep(t)
<1>0. IsCall(call[t])
  BY ActiveCall
<1>1. /\ UNCHANGED <<edges, field>> /\ stack' = stack /\ UNCHANGED intended
      /\ \/ Fails(t, call[t])
         \/ Becomes(t, call[t]) /\ UNCHANGED <<next, named, owed>>
  BY Zenon DEF hpy_global_store
<1>2. Plain(t)
  BY <1>0, <1>1, PlainFails, PlainStays
<1>. QED
  BY <1>1, <1>2, PlainWorks, FieldsStay, ResumedOnly DEF NativeStep

\* The edge of a field that is stored agrees with its bits.
LEMMA FieldStored ==
  ASSUME HpyInv, NEW t \in Threads, NEW value,
         edges' = [edges EXCEPT ![t] = Edge(t, FieldToken(t, value), value)],
         field' = [field EXCEPT ![t] = IF value = None THEN 0 ELSE FieldToken(t, value)]
  PROVE  Fields'
<1>. DEFINE token == FieldToken(t, value)
            edge == Edge(t, token, value)
            bits == IF value = None THEN 0 ELSE token
<1>1. /\ DOMAIN edges = Threads /\ DOMAIN field = Threads
      /\ \A u \in Threads : DOMAIN edges[u] = {field[u]} \ {0}
  BY DEF HpyInv, Fields, FieldsMatchEdges, Domain
<1>2. next.field \in Nat \ {0}
  BY DEF HpyInv, Tokens, Counters
<1>3. DOMAIN edge = {bits} \ {0}
  <2>1. CASE value = None
    <3>1. token = field[t] /\ bits = 0
      BY <2>1 DEF FieldToken
    <3>2. CASE token = 0
      <4>1. edge = edges[t]
        BY <3>2 DEF Edge
      <4>. QED
        BY <1>1, <3>1, <3>2, <4>1
    <3>3. CASE token # 0
      <4>1. edge = Without(edges[t], token)
        BY <2>1, <3>3 DEF Edge
      <4>2. DOMAIN Without(edges[t], token) = DOMAIN edges[t] \ {token}
        BY WithoutDomain
      <4>. QED
        BY <1>1, <3>1, <4>1, <4>2
    <3>. QED
      BY <3>2, <3>3
  <2>2. CASE value # None
    <3>1. bits = token /\ token # 0
      BY <1>2, <2>2 DEF FieldToken
    <3>2. edge = Put(edges[t], token, value)
      BY <2>2, <3>1 DEF Edge
    <3>3. DOMAIN Put(edges[t], token, value) = DOMAIN edges[t] \cup {token}
      BY PutDomain
    <3>4. field[t] \in {0, token}
      BY <2>2 DEF FieldToken
    <3>. QED
      BY <1>1, <3>1, <3>2, <3>3, <3>4
  <2>. QED
    BY <2>1, <2>2
<1>4. edges' = [edges EXCEPT ![t] = edge] /\ field' = [field EXCEPT ![t] = bits]
  OBVIOUS
<1>. HIDE DEF edge, bits, token
<1>5. DOMAIN edges' = Threads /\ DOMAIN field' = Threads
  BY <1>1, <1>4
<1>6. \A u \in Threads : DOMAIN edges'[u] = {field'[u]} \ {0}
  BY <1>1, <1>3, <1>4
<1>. QED
  BY <1>5, <1>6 DEF Fields, FieldsMatchEdges, Domain

LEMMA FieldStoreStep ==
  ASSUME HpyInv, NEW t \in Threads, call[t] # NoCall, NEW h, hpy_field_store(t, h)
  PROVE  NativeStep(t)
<1>. DEFINE c == call[t]
            value == IF h = Null THEN None ELSE resolve(c, h)
            token == FieldToken(t, value)
            fresh == field[t] = 0 /\ value # None
<1>0. /\ IsCall(c) /\ next \in Counters /\ DOMAIN owed = Threads
      /\ (owed[t] => c.exception # None)
  BY ActiveCall
<1>1. UNCHANGED <<stack, intended>>
  BY Zenon DEF hpy_field_store
<1>2. \/ Fails(t, c) /\ UNCHANGED <<edges, field>>
      \/ /\ edges' = [edges EXCEPT ![t] = Edge(t, token, value)]
         /\ field' = [field EXCEPT ![t] = IF value = None THEN 0 ELSE token]
         /\ next' = [next EXCEPT !.field = IF fresh THEN @ + 1 ELSE @]
         /\ Becomes(t, c) /\ UNCHANGED <<named, owed>>
      \/ /\ Becomes(t, fail(c))
         /\ next' = [next EXCEPT !.field = IF fresh THEN @ + 1 ELSE @]
         /\ owed' = [owed EXCEPT ![t] = TRUE]
         /\ UNCHANGED <<named, edges, field>>
  BY Zenon DEF hpy_field_store
<1>3. Resumed(t)
  BY <1>1, ResumedOnly
<1>4. CASE Fails(t, c) /\ UNCHANGED <<edges, field>>
  <2>1. Plain(t)
    BY <1>0, <1>4, PlainFails
  <2>. QED
    BY <1>1, <1>3, <1>4, <2>1, PlainWorks, FieldsStay DEF NativeStep
<1>5. ASSUME next' = [next EXCEPT !.field = IF fresh THEN @ + 1 ELSE @]
      PROVE  /\ next' \in Counters /\ next'.local = next.local
             /\ next'.builder = next.builder /\ next'.builder >= next.builder
  <2>. HIDE DEF fresh
  <2>. QED
    BY <1>0, <1>5 DEF Counters
<1>6. CASE /\ edges' = [edges EXCEPT ![t] = Edge(t, token, value)]
           /\ field' = [field EXCEPT ![t] = IF value = None THEN 0 ELSE token]
           /\ next' = [next EXCEPT !.field = IF fresh THEN @ + 1 ELSE @]
           /\ Becomes(t, c) /\ UNCHANGED <<named, owed>>
  <2>1. /\ next' \in Counters /\ next'.local = next.local
        /\ next'.builder >= next.builder
    BY <1>5, <1>6
  <2>2. Like(c, c)
    BY <1>0, LikeItself
  <2>3. Intends(t, c.builders)
    BY <1>1, <2>1, <2>2, IntendsAgain
  <2>4. /\ DOMAIN owed' = Threads /\ \A u \in Threads \ {t} : owed'[u] = owed[u]
        /\ owed'[t] => c.exception # None
        /\ DOMAIN c.handles \subseteq DOMAIN call[t].handles
        /\ \A k \in DOMAIN c.handles : c.handles[k] = call[t].handles[k]
        /\ named' = named /\ Becomes(t, c)
    BY <1>0, <1>6
  <2>5. Worked(t)
    BY <1>0, <2>1, <2>3, <2>4, Becoming
  <2>. HIDE DEF value
  <2>6. Fields'
    BY <1>6, FieldStored
  <2>. QED
    BY <1>3, <2>5, <2>6 DEF NativeStep
<1>7. CASE /\ Becomes(t, fail(c))
           /\ next' = [next EXCEPT !.field = IF fresh THEN @ + 1 ELSE @]
           /\ owed' = [owed EXCEPT ![t] = TRUE]
           /\ UNCHANGED <<named, edges, field>>
  <2>. DEFINE d == fail(c)
  <2>1. /\ next' \in Counters /\ next'.local = next.local
        /\ next'.builder >= next.builder
    BY <1>5, <1>7
  <2>2. /\ IsCall(d) /\ Like(c, d) /\ d.exception # None /\ d.handles = c.handles
    BY <1>0, FailIsLike DEF Like
  <2>. HIDE DEF d
  <2>3. Intends(t, d.builders)
    BY <1>1, <2>1, <2>2, IntendsAgain
  <2>4. /\ DOMAIN owed' = Threads /\ \A u \in Threads \ {t} : owed'[u] = owed[u]
        /\ owed'[t] => d.exception # None
    BY <1>0, <1>7, <2>2
  <2>5. /\ DOMAIN d.handles \subseteq DOMAIN call[t].handles
        /\ \A k \in DOMAIN d.handles : d.handles[k] = call[t].handles[k]
    BY <2>2
  <2>6. named' = named /\ Becomes(t, d)
    BY <1>7 DEF d
  <2>7. Worked(t)
    BY <2>1, <2>2, <2>3, <2>4, <2>5, <2>6, Becoming
  <2>. QED
    BY <1>3, <1>7, <2>7, FieldsStay DEF NativeStep
<1>. QED
  BY <1>2, <1>4, <1>6, <1>7

-----------------------------------------------------------------------------
(* The invariant.                                                          *)

\* Every operation of native code is such a step.
LEMMA OperationSteps ==
  ASSUME HpyInv, NEW t \in Threads, call[t] # NoCall, NEW h, NEW k,
         HandleOperation(t, h) \/ PairOperation(t, h, k) \/ OtherOperation(t)
  PROVE  NativeStep(t)
<1>1. CASE HandleOperation(t, h)
  <2>1. CASE \/ hpy_dup(t, h) \/ hpy_long_as(t, h) \/ hpy_float(t, h)
             \/ hpy_unicode_as_utf8_and_size(t, h)
             \/ hpy_err_exception_matches(t, h) \/ hpy_container(t, h)
             \/ \E j \in 1..next.tracker : hpy_tracker_add(t, j, h)
    BY <2>1, PlainOperations, Zenon
  <2>2. CASE hpy_close(t, h)
    BY <2>2, ClosingSteps
  <2>3. CASE \/ hpy_length(t, h) \/ hpy_get_attr(t, h) \/ hpy_has_attr(t, h)
             \/ hpy_repr(t, h) \/ hpy_call_method(t, h)
    <3>1. \E op \in {"status", "handle", "attribute"} : Enters(t, op, {h})
      BY <2>3 DEF hpy_length, hpy_get_attr, hpy_has_attr, hpy_repr, hpy_call_method
    <3>. QED
      BY <3>1, EntersStep, Zenon
  <2>4. CASE hpy_err_set(t, h)
    BY <2>4, ErrorSteps
  <2>5. CASE \E b \in 1..next.builder, kind \in {"list", "tuple"}, i \in 0..MaxItems :
               set_builder_item(t, b, kind, i, h)
    BY <2>5, SetItemStep, Zenon
  <2>6. CASE \E declared \in BOOLEAN : hpy_global_store(t, declared, h)
    BY <2>6, GlobalStoreStep, Zenon
  <2>7. CASE hpy_field_store(t, h)
    BY <2>7, FieldStoreStep
  <2>. QED
    BY <1>1, <2>1, <2>2, <2>3, <2>4, <2>5, <2>6, <2>7, Zenon DEF HandleOperation
<1>2. CASE PairOperation(t, h, k)
  <2>1. \E op \in {"status", "handle"} : Enters(t, op, {h, k}) \/ EntersWithKey(t, op, h)
    BY <1>2 DEF PairOperation, hpy_set_attr, hpy_get_item, hpy_set_item, hpy_del_item,
      hpy_call_tuple_dict, hpy_call
  <2>2. PICK op \in {"status", "handle", "attribute"} :
          Enters(t, op, {h, k}) \/ EntersWithKey(t, op, h)
    BY <2>1
  <2>. QED
    BY <2>2, EntersStep, EntersWithKeyStep
<1>3. CASE OtherOperation(t)
  <2>1. CASE \/ WrongContext(t) \/ hpy_long_from(t) \/ hpy_unicode_from_string(t)
             \/ BadName(t) \/ hpy_field_load(t)
             \/ \E b \in 1..next.builder : cancel(t, b)
             \/ \E j \in 1..next.tracker : hpy_tracker_forget_all(t, j)
             \/ \E declared \in BOOLEAN : hpy_global_load(t, declared)
    BY <2>1, PlainOperations, Zenon
  <2>2. CASE hpy_err_clear(t)
    BY <2>2, ErrorSteps
  <2>3. CASE \E kind \in {"list", "tuple"}, size \in 0..MaxItems + 1 :
               new_builder(t, kind, size)
    BY <2>3, NewBuilderStep, Zenon
  <2>4. CASE \E b \in 1..next.builder : \E kind \in {"list", "tuple"} : build(t, b, kind)
    BY <2>4, BuildStep, Zenon
  <2>5. CASE \E size \in {0, MaxItems + 1} : hpy_tracker_new(t, size)
    BY <2>5, TrackerSteps, Zenon
  <2>6. CASE \E j \in 1..next.tracker : hpy_tracker_close(t, j)
    BY <2>6, ClosingSteps, Zenon
  <2>. QED
    BY <1>3, <2>1, <2>2, <2>3, <2>4, <2>5, <2>6, Zenon DEF OtherOperation
<1>. QED
  BY <1>1, <1>2, <1>3

\* The parts of a step of Next.
LEMMA NextParts ==
  ASSUME HpyInv, Next
  PROVE  \E t \in Threads :
           \/ \E m \in Modules : register(t, m) \/ invoke_method(t, m)
           \/ Locked(t) \/ MethodReturns(t) \/ GuestReturns(t)
           \/ Active(t) /\ NativeStep(t)
<1>1. PICK t \in Threads :
        \/ \E m \in Modules : register(t, m) \/ invoke_method(t, m)
        \/ Locked(t) \/ MethodReturns(t) \/ GuestReturns(t)
        \/ Active(t) /\ \E h \in Passed(t) : HandleOperation(t, h)
        \/ Active(t) /\ \E h, k \in Passed(t) : PairOperation(t, h, k)
        \/ Active(t) /\ OtherOperation(t)
  BY Zenon DEF Next
<1>2. CASE Active(t) /\ (\/ \E h \in Passed(t) : HandleOperation(t, h)
                         \/ \E h, k \in Passed(t) : PairOperation(t, h, k)
                         \/ OtherOperation(t))
  <2>1. call[t] # NoCall
    BY <1>2 DEF Active
  <2>2. NativeStep(t)
    BY <1>2, <2>1, OperationSteps, Zenon
  <2>. QED
    BY <1>2, <2>2
<1>. QED
  BY <1>1, <1>2

LEMMA HpyInvInit ==
  ASSUME Init
  PROVE  HpyInv
<1>1. Stacks
  <2>1. \A t \in Threads : stack[t] = <<Guest("run")>> /\ call[t] = NoCall
    BY DEF Init
  <2>2. DOMAIN stack = Threads /\ DOMAIN call = Threads
    BY DEF Init
  <2>3. Guest("run") \in Activations /\ Guest("run").kind = "guest"
    BY ActivationKinds DEF Activations
  <2>4. PICK s : s = <<Guest("run")>>
    OBVIOUS
  <2>5. s \in Seq(Activations) /\ Len(s) = 1 /\ s[1] = Guest("run")
    BY <2>3, <2>4
  <2>6. Stacked(s, NoCall)
    BY <2>3, <2>5 DEF Stacked
  <2>. QED
    BY <2>1, <2>2, <2>4, <2>6 DEF Stacks
<1>2. Tokens
  <2>1. next = [local |-> 1, builder |-> 1, tracker |-> 1, field |-> 1]
    BY DEF Init
  <2>2. next \in Counters
    BY <2>1 DEF Counters
  <2>3. next.local <= MaxToken.local
    BY <2>1, HpyAssumption
  <2>4. named = << >> /\ dead = {} /\ \A t \in Threads : call[t] = NoCall
    BY DEF Init, Empty
  <2>5. DOMAIN named = {}
    BY <2>4
  <2>. QED
    BY <2>2, <2>3, <2>4, <2>5 DEF Tokens
<1>3. Builders
  BY DEF Init, Builders
<1>4. Fields
  <2>1. \A t \in Threads : edges[t] = << >> /\ field[t] = 0
    BY DEF Init, Empty
  <2>2. DOMAIN edges = Threads /\ DOMAIN field = Threads
    BY DEF Init
  <2>3. DOMAIN << >> = {}
    OBVIOUS
  <2>. QED
    BY <2>1, <2>2, <2>3 DEF Fields, FieldsMatchEdges, Domain
<1>5. Debts
  BY DEF Init, Debts
<1>. QED
  BY <1>1, <1>2, <1>3, <1>4, <1>5 DEF HpyInv

\* Only the stack and the call of one thread change.
LEMMA StacksStep ==
  ASSUME HpyInv, NEW t \in Threads,
         DOMAIN stack' = Threads, DOMAIN call' = Threads,
         \A u \in Threads \ {t} : stack'[u] = stack[u] /\ call'[u] = call[u],
         Stacked(stack'[t], call'[t])
  PROVE  Stacks'
<1>1. \A u \in Threads : Stacked(stack'[u], call'[u])
  BY DEF HpyInv, Stacks
<1>. QED
  BY <1>1 DEF Stacks

LEMMA TokensStay ==
  ASSUME HpyInv, UNCHANGED <<call, next, named, dead>>
  PROVE  Tokens'
  BY DEF HpyInv, Tokens, Counters

LEMMA BuildersStay ==
  ASSUME HpyInv, UNCHANGED <<call, next, intended>>
  PROVE  Builders'
  BY DEF HpyInv, Builders

LEMMA DebtsStay ==
  ASSUME HpyInv, UNCHANGED <<call, owed>>, DOMAIN last' = DOMAIN last
  PROVE  Debts'
  BY DEF HpyInv, Debts

LEMMA NativeKeeps ==
  ASSUME HpyInv, NEW t \in Threads, Active(t), NativeStep(t)
  PROVE  HpyInv'
<1>1. call[t] # NoCall /\ stack[t][Len(stack[t])].kind = "native"
  BY DEF Active, Top
<1>2. Stacked(stack[t], call[t])
  BY DEF HpyInv, Stacks
<1>3. Worked(t) /\ Resumed(t) /\ Fields'
  BY DEF NativeStep
<1>4. /\ DOMAIN call' = Threads /\ DOMAIN stack' = Threads /\ IsCall(call'[t])
      /\ \A u \in Threads \ {t} : stack'[u] = stack[u] /\ call'[u] = call[u]
  BY <1>3 DEF Worked, Resumed
<1>5. Stacked(stack'[t], call[t])
  <2>1. CASE stack'[t] = stack[t]
    BY <1>2, <2>1
  <2>2. CASE \E op \in {"status", "handle", "attribute"} :
               stack'[t] = Append(stack[t], Guest(op))
    BY <1>1, <1>2, <2>2, StackedGuest
  <2>. QED
    BY <1>3, <2>1, <2>2 DEF Resumed
<1>6. Stacked(stack'[t], call'[t])
  BY <1>1, <1>4, <1>5, StackedRecall
<1>7. Stacks'
  BY <1>4, <1>6, StacksStep
<1>8. Tokens' /\ Builders' /\ Debts'
  BY <1>1, <1>3, WorkedKeeps
<1>. QED
  BY <1>3, <1>7, <1>8 DEF HpyInv

\* Guest code returns to a call, and what it gives is the step of an operation.
LEMMA GuestReturnWorks ==
  ASSUME HpyInv, NEW t \in Threads, GuestReturns(t)
  PROVE  /\ call[t] # NoCall /\ Worked(t)
         /\ stack' = [stack EXCEPT ![t] = Pop(@)]
         /\ UNCHANGED <<edges, field>>
         /\ \A d : IsCall(d) => Stacked(Pop(stack[t]), d)
<1>. DEFINE c == call[t]
<1>1. /\ stack[t][Len(stack[t])].kind = "guest" /\ Len(stack[t]) > 1
      /\ stack' = [stack EXCEPT ![t] = Pop(@)]
      /\ UNCHANGED <<edges, field, intended>>
  BY DEF GuestReturns, InGuest, Top, storage
<1>2. \/ Fails(t, c) \/ (\E v : Inserts(t, c, v))
      \/ Becomes(t, c) /\ UNCHANGED <<next, named, owed>>
  BY Zenon DEF GuestReturns
<1>3. Stacked(stack[t], c)
  BY DEF HpyInv, Stacks
<1>4. c # NoCall /\ \A d : IsCall(d) => Stacked(Pop(stack[t]), d)
  BY <1>1, <1>3, StackedReturned
<1>5. IsCall(c)
  BY <1>4, ActiveCall
<1>6. Plain(t)
  BY <1>2, <1>5, PlainFails, PlainInserts, PlainStays, Zenon
<1>7. Worked(t)
  BY <1>1, <1>4, <1>6, PlainWorks
<1>. QED
  BY <1>1, <1>4, <1>7

LEMMA GuestReturnKeeps ==
  ASSUME HpyInv, NEW t \in Threads, GuestReturns(t)
  PROVE  HpyInv'
<1>1. /\ call[t] # NoCall /\ Worked(t)
      /\ stack' = [stack EXCEPT ![t] = Pop(@)]
      /\ UNCHANGED <<edges, field>>
      /\ \A d : IsCall(d) => Stacked(Pop(stack[t]), d)
  BY GuestReturnWorks
<1>2. /\ DOMAIN call' = Threads /\ IsCall(call'[t])
      /\ \A u \in Threads \ {t} : call'[u] = call[u]
  BY <1>1 DEF Worked
<1>3. DOMAIN stack = Threads
  BY DEF HpyInv, Stacks
<1>4. /\ DOMAIN stack' = Threads /\ stack'[t] = Pop(stack[t])
      /\ \A u \in Threads \ {t} : stack'[u] = stack[u]
  BY <1>1, <1>3
<1>5. Stacked(stack'[t], call'[t])
  BY <1>1, <1>2, <1>4
<1>6. Stacks'
  BY <1>2, <1>4, <1>5, StacksStep
<1>7. Tokens' /\ Builders' /\ Debts'
  BY <1>1, WorkedKeeps
<1>8. Fields'
  BY <1>1, FieldsStay
<1>. QED
  BY <1>6, <1>7, <1>8 DEF HpyInv

LEMMA RegisterKeeps ==
  ASSUME HpyInv, NEW t \in Threads, NEW m \in Modules, register(t, m)
  PROVE  HpyInv'
<1>1. UNCHANGED <<stack, call, next, named, dead, edges, field, intended, owed, last>>
  BY Zenon DEF register, tokens, storage
<1>2. Stacks'
  BY <1>1 DEF HpyInv, Stacks
<1>. QED
  BY <1>1, <1>2, TokensStay, BuildersStay, DebtsStay, FieldsStay DEF HpyInv

LEMMA InvokeKeeps ==
  ASSUME HpyInv, NEW t \in Threads, NEW m \in Modules, invoke_method(t, m)
  PROVE  HpyInv'
<1>1. /\ UNCHANGED <<call, next, named, dead, edges, field, intended, owed, last>>
      /\ stack' = [stack EXCEPT ![t] = Append(@, Wait(m))]
      /\ stack[t][Len(stack[t])].kind = "guest"
  BY Zenon DEF invoke_method, tokens, storage, InGuest, Top
<1>2. DOMAIN stack = Threads /\ DOMAIN call = Threads /\ Stacked(stack[t], call[t])
  BY DEF HpyInv, Stacks
<1>3. Stacked(Append(stack[t], Wait(m)), call[t])
  BY <1>1, <1>2, StackedWait
<1>4. /\ DOMAIN stack' = Threads /\ stack'[t] = Append(stack[t], Wait(m))
      /\ \A u \in Threads \ {t} : stack'[u] = stack[u]
  BY <1>1, <1>2
<1>5. Stacks'
  BY <1>1, <1>2, <1>3, <1>4, StacksStep
<1>. QED
  BY <1>1, <1>5, TokensStay, BuildersStay, DebtsStay, FieldsStay DEF HpyInv

LEMMA MethodReturnKeeps ==
  ASSUME HpyInv, NEW t \in Threads, MethodReturns(t)
  PROVE  HpyInv'
<1>1. /\ stack' = [stack EXCEPT ![t] = Pop(@)] /\ call' = [call EXCEPT ![t] = NoCall]
      /\ dead' = dead \cup DOMAIN call[t].handles
      /\ UNCHANGED <<next, named, edges, field, intended, owed>>
      /\ DOMAIN last' = DOMAIN last
  <2>1. PICK h : /\ stack' = [stack EXCEPT ![t] = Pop(@)]
                 /\ call' = [call EXCEPT ![t] = NoCall]
                 /\ dead' = dead \cup DOMAIN call[t].handles
                 /\ last' = [last EXCEPT ![t] = Finish(call[t], h)]
                 /\ UNCHANGED <<next, named, edges, field, intended, owed>>
    BY Zenon DEF MethodReturns, storage, Domain
  <2>. QED
    BY <2>1
<1>2. call[t] # NoCall /\ stack[t][Len(stack[t])].kind = "native"
  BY DEF MethodReturns, Active, Top
<1>3. DOMAIN stack = Threads /\ DOMAIN call = Threads /\ Stacked(stack[t], call[t])
  BY DEF HpyInv, Stacks
<1>4. Stacked(Pop(stack[t]), NoCall)
  BY <1>2, <1>3, StackedLeft
<1>5. /\ DOMAIN stack' = Threads /\ stack'[t] = Pop(stack[t])
      /\ DOMAIN call' = Threads /\ call'[t] = NoCall
      /\ \A u \in Threads \ {t} : stack'[u] = stack[u] /\ call'[u] = call[u]
  BY <1>1, <1>3
<1>6. Stacks'
  BY <1>4, <1>5, StacksStep
<1>7. Tokens'
  <2>1. /\ next \in Counters /\ next.local <= MaxToken.local
        /\ DOMAIN named \subseteq 1..next.local - 1 /\ dead \subseteq DOMAIN named
        /\ \A u \in Threads : call[u] # NoCall =>
             /\ DOMAIN call[u].handles \subseteq DOMAIN named \ dead
             /\ \A h \in DOMAIN call[u].handles : call[u].handles[h] = named[h]
        /\ \A w, u \in Threads : (w # u /\ call[w] # NoCall /\ call[u] # NoCall) =>
             DOMAIN call[w].handles \cap DOMAIN call[u].handles = {}
    BY DEF HpyInv, Tokens
  <2>2. dead' \subseteq DOMAIN named
    BY <1>1, <1>2, <2>1
  <2>3. ASSUME NEW u \in Threads, call'[u] # NoCall
        PROVE  /\ call'[u] = call[u]
               /\ DOMAIN call[u].handles \subseteq DOMAIN named \ dead'
               /\ \A h \in DOMAIN call[u].handles : call[u].handles[h] = named[h]
    <3>1. u # t /\ call'[u] = call[u]
      BY <1>5, <2>3
    <3>2. DOMAIN call[t].handles \cap DOMAIN call[u].handles = {}
      BY <1>2, <2>1, <2>3, <3>1
    <3>. QED
      BY <1>1, <2>1, <2>3, <3>1, <3>2
  <2>4. ASSUME NEW w \in Threads, NEW u \in Threads, w # u, call'[w] # NoCall, call'[u] # NoCall
        PROVE  DOMAIN call'[w].handles \cap DOMAIN call'[u].handles = {}
    BY <2>1, <2>3, <2>4
  <2>5. next' = next /\ named' = named
    BY <1>1
  <2>. QED
    BY <2>1, <2>2, <2>3, <2>4, <2>5 DEF Tokens, Counters
<1>8. Builders'
  BY <1>1, <1>5 DEF HpyInv, Builders
<1>9. Debts'
  BY <1>1, <1>5 DEF HpyInv, Debts
<1>. QED
  BY <1>1, <1>6, <1>7, <1>8, <1>9, FieldsStay DEF HpyInv

\* The call of a method that starts: its arguments have the next tokens.
Started(m, vs) == [NewCall(m) EXCEPT !.handles = Arguments(vs)]

LEMMA StartedCall ==
  ASSUME NEW m \in Modules, NEW vs
  PROVE  /\ IsCall(Started(m, vs)) /\ Started(m, vs).handles = Arguments(vs)
         /\ Started(m, vs).builders = Empty
  BY DEF Started, NewCall, IsCall, CallFields

\* The last activation is one.
LEMMA LastActivation ==
  ASSUME NEW s \in Seq(Activations), Len(s) \in 1..4
  PROVE  s[Len(s)] \in Activations
<1>1. PICK n : n = Len(s)
  OBVIOUS
<1>2. n \in 1..Len(s)
  BY <1>1
<1>. QED
  BY <1>1, <1>2

\* The parts of a wait that ends.
LEMMA LockedParts ==
  ASSUME HpyInv, NEW t \in Threads, Locked(t)
  PROVE  /\ stack[t][Len(stack[t])].kind = "wait" /\ Top(t).module \in Modules
         /\ UNCHANGED <<edges, field>>
         /\ \/ NotStarted(t) /\ next' = next
            \/ \E vs : Len(vs) \in Nat /\ Exhausted(t, vs)
            \/ /\ call[t] = NoCall
               /\ \E vs : Len(vs) \in Nat /\ Starts(t, Top(t).module, vs)
<1>1. Top(t).kind = "wait" /\ UNCHANGED <<edges, field>>
  BY Zenon DEF Locked, storage
<1>2. Top(t).module \in Modules
  <2>1. stack[t] \in Seq(Activations) /\ Len(stack[t]) \in 1..4
    BY DEF HpyInv, Stacks, Stacked
  <2>2. Top(t) \in Activations
    BY <2>1, LastActivation, Zenon DEF Top
  <2>. QED
    BY <1>1, <2>2, ActivationKinds
<1>3. \/ NotStarted(t) /\ next' = next
      \/ /\ call[t] = NoCall
         /\ \E vs \in ArgumentLists : Starts(t, Top(t).module, vs) \/ Exhausted(t, vs)
  BY DEF Locked
<1>4. \A vs \in ArgumentLists : Len(vs) \in Nat
  BY DEF ArgumentLists
<1>. QED
  BY <1>1, <1>2, <1>3, <1>4, Zenon DEF Top

LEMMA LockedKeeps ==
  ASSUME HpyInv, NEW t \in Threads, Locked(t)
  PROVE  HpyInv'
<1>. DEFINE m == Top(t).module
<1>1. /\ stack[t][Len(stack[t])].kind = "wait" /\ m \in Modules
      /\ UNCHANGED <<edges, field>>
  BY LockedParts
<1>2. DOMAIN stack = Threads /\ DOMAIN call = Threads /\ Stacked(stack[t], call[t])
  BY DEF HpyInv, Stacks
<1>3. /\ next \in Counters /\ next.local <= MaxToken.local
      /\ MaxToken.local \in Nat \ {0} /\ next.local \in Nat \ {0}
      /\ DOMAIN named \subseteq 1..next.local - 1 /\ dead \subseteq DOMAIN named
      /\ \A u \in Threads : call[u] # NoCall =>
           /\ DOMAIN call[u].handles \subseteq DOMAIN named \ dead
           /\ \A h \in DOMAIN call[u].handles : call[u].handles[h] = named[h]
      /\ \A w, u \in Threads : (w # u /\ call[w] # NoCall /\ call[u] # NoCall) =>
           DOMAIN call[w].handles \cap DOMAIN call[u].handles = {}
  BY HpyAssumption DEF HpyInv, Tokens, Counters
<1>4. Fields'
  BY <1>1, FieldsStay
<1>5. ASSUME NotStarted(t), next' = next \/ next' = [next EXCEPT !.local = MaxToken.local]
      PROVE  HpyInv'
  <2>0. /\ stack' = [stack EXCEPT ![t] = Pop(@)]
        /\ UNCHANGED <<call, named, dead, intended, owed>>
        /\ DOMAIN last' = DOMAIN last
    BY <1>5 DEF NotStarted
  <2>1. /\ DOMAIN stack' = Threads /\ stack'[t] = Pop(stack[t])
        /\ \A u \in Threads \ {t} : stack'[u] = stack[u]
    BY <1>2, <2>0
  <2>2. Stacked(Pop(stack[t]), call[t])
    BY <1>1, <1>2, StackedRefused
  <2>3. Stacks'
    BY <1>2, <2>0, <2>1, <2>2, StacksStep
  <2>4. /\ next' \in Counters /\ next'.builder = next.builder
        /\ next'.local >= next.local /\ next'.local <= MaxToken.local
        /\ next'.local \in Nat
    <3>1. CASE next' = next
      BY <1>3, <3>1 DEF Counters
    <3>2. CASE next' = [next EXCEPT !.local = MaxToken.local]
      BY <1>3, <3>2 DEF Counters
    <3>. QED
      BY <1>5, <3>1, <3>2
  <2>5. DOMAIN named' \subseteq 1..next'.local - 1
    BY <1>3, <2>0, <2>4
  <2>6. Tokens'
    BY <1>3, <2>0, <2>4, <2>5 DEF Tokens
  <2>7. Builders'
    BY <2>0, <2>4 DEF HpyInv, Builders
  <2>8. Debts'
    BY <2>0, DebtsStay
  <2>. QED
    BY <1>4, <2>3, <2>6, <2>7, <2>8 DEF HpyInv
<1>6. ASSUME call[t] = NoCall, DOMAIN last' = DOMAIN last,
             stack' = [stack EXCEPT ![t] = Append(Pop(@), Native(m))],
             dead' = dead, intended' = [intended EXCEPT ![t] = Empty],
             owed' = [owed EXCEPT ![t] = FALSE],
             NEW vs, Len(vs) \in Nat, next.local + Len(vs) <= MaxToken.local,
             call' = [call EXCEPT ![t] = Started(m, vs)],
             named' = [i \in DOMAIN named \cup DOMAIN Arguments(vs) |->
                         IF i \in DOMAIN named THEN named[i] ELSE Arguments(vs)[i]],
             next' = [next EXCEPT !.local = @ + Len(vs)]
      PROVE  HpyInv'
  <2>. DEFINE d == Started(m, vs)
              f == Arguments(vs)
  <2>1. IsCall(d) /\ d.handles = f /\ d.builders = Empty
    BY <1>1, StartedCall
  <2>2. DOMAIN f = next.local .. next.local + Len(vs) - 1
    BY DEF Arguments
  <2>3. /\ DOMAIN call' = Threads /\ call'[t] = d
        /\ \A u \in Threads \ {t} : call'[u] = call[u]
    BY <1>2, <1>6
  <2>4. /\ DOMAIN stack' = Threads /\ stack'[t] = Append(Pop(stack[t]), Native(m))
        /\ \A u \in Threads \ {t} : stack'[u] = stack[u]
    BY <1>2, <1>6
  <2>5. Stacked(Append(Pop(stack[t]), Native(m)), d)
    <3>1. Stacked(stack[t], NoCall)
      BY <1>2, <1>6
    <3>. HIDE DEF d
    <3>. QED
      BY <1>1, <2>1, <3>1, StackedEntered
  <2>. HIDE DEF d, f, m
  <2>6. Stacks'
    BY <2>3, <2>4, <2>5, StacksStep
  <2>7. /\ next' \in Counters /\ next'.builder = next.builder
        /\ next'.local = next.local + Len(vs)
    BY <1>3, <1>6 DEF Counters
  <2>8. DOMAIN named \cap DOMAIN f = {}
    BY <1>3, <1>6, <2>2
  <2>9. /\ DOMAIN named' = DOMAIN named \cup DOMAIN f
        /\ \A i \in DOMAIN named : named'[i] = named[i]
        /\ \A i \in DOMAIN f : named'[i] = f[i]
    BY <1>6, <2>8 DEF f
  <2>10. DOMAIN named' \subseteq 1..next'.local - 1 /\ dead' \subseteq DOMAIN named'
    BY <1>3, <1>6, <2>2, <2>7, <2>9
  <2>11. ASSUME NEW u \in Threads, call'[u] # NoCall
         PROVE  /\ DOMAIN call'[u].handles \subseteq DOMAIN named' \ dead'
                /\ \A h \in DOMAIN call'[u].handles : call'[u].handles[h] = named'[h]
    <3>1. CASE u = t
      BY <1>3, <1>6, <2>1, <2>3, <2>8, <2>9, <3>1
    <3>2. CASE u # t
      <4>1. call'[u] = call[u] /\ call[u] # NoCall
        BY <2>3, <2>11, <3>2
      <4>. QED
        BY <1>3, <1>6, <2>9, <4>1
    <3>. QED
      BY <3>1, <3>2
  <2>12. \A u \in Threads \ {t} : call[u] # NoCall => DOMAIN call[u].handles \cap DOMAIN f = {}
    BY <1>3, <2>8
  <2>13. ASSUME NEW w \in Threads, NEW u \in Threads, w # u, call'[w] # NoCall, call'[u] # NoCall
         PROVE  DOMAIN call'[w].handles \cap DOMAIN call'[u].handles = {}
    <3>1. CASE w = t
      BY <2>1, <2>3, <2>12, <2>13, <3>1
    <3>2. CASE u = t
      BY <2>1, <2>3, <2>12, <2>13, <3>2
    <3>3. CASE w # t /\ u # t
      BY <1>3, <2>3, <2>13, <3>3
    <3>. QED
      BY <3>1, <3>2, <3>3
  <2>14. Tokens'
    BY <1>6, <2>7, <2>10, <2>11, <2>13 DEF Tokens
  <2>15. Builders'
    <3>1. DOMAIN intended' = Threads /\ \A u \in Threads \ {t} : intended'[u] = intended[u]
      BY <1>6 DEF HpyInv, Builders
    <3>2. Holds(d.builders, intended'[t], next'.builder)
      <4>1. DOMAIN d.builders = {}
        BY <2>1 DEF Empty
      <4>. QED
        BY <4>1 DEF Holds
    <3>. QED
      BY <2>3, <2>7, <3>1, <3>2 DEF HpyInv, Builders
  <2>16. Debts'
    BY <1>6, <2>3 DEF HpyInv, Debts
  <2>. QED
    BY <1>4, <2>6, <2>14, <2>15, <2>16 DEF HpyInv
<1>7. ASSUME NEW vs, Exhausted(t, vs)
      PROVE  NotStarted(t) /\ next' = [next EXCEPT !.local = MaxToken.local]
  BY <1>7, Zenon DEF Exhausted
<1>8. ASSUME NEW vs, Starts(t, m, vs)
      PROVE  /\ DOMAIN last' = DOMAIN last
             /\ stack' = [stack EXCEPT ![t] = Append(Pop(@), Native(m))]
             /\ dead' = dead /\ intended' = [intended EXCEPT ![t] = Empty]
             /\ owed' = [owed EXCEPT ![t] = FALSE]
             /\ next.local + Len(vs) <= MaxToken.local
             /\ call' = [call EXCEPT ![t] = Started(m, vs)]
             /\ named' = [i \in DOMAIN named \cup DOMAIN Arguments(vs) |->
                            IF i \in DOMAIN named THEN named[i] ELSE Arguments(vs)[i]]
             /\ next' = [next EXCEPT !.local = @ + Len(vs)]
  <2>1. last' = [last EXCEPT ![t] = None]
    BY <1>8, Zenon DEF Starts
  <2>2. DOMAIN last' = DOMAIN last
    BY <2>1
  <2>. QED
    BY <1>8, <2>2, Zenon DEF Starts, Started
<1>9. CASE NotStarted(t) /\ next' = next
  BY <1>5, <1>9
<1>10. CASE \E vs : Len(vs) \in Nat /\ Exhausted(t, vs)
  BY <1>5, <1>7, <1>10
<1>11. CASE call[t] = NoCall /\ \E vs : Len(vs) \in Nat /\ Starts(t, m, vs)
  <2>1. PICK vs : Len(vs) \in Nat /\ Starts(t, m, vs)
    BY <1>11
  <2>. QED
    BY <1>6, <1>8, <1>11, <2>1, Zenon
<1>. QED
  BY <1>9, <1>10, <1>11, LockedParts

LEMMA HpyInvNext ==
  ASSUME HpyInv, [Next]_vars
  PROVE  HpyInv'
<1>1. CASE Next
  <2>1. PICK t \in Threads :
           \/ \E m \in Modules : register(t, m) \/ invoke_method(t, m)
           \/ Locked(t) \/ MethodReturns(t) \/ GuestReturns(t)
           \/ Active(t) /\ NativeStep(t)
    BY <1>1, NextParts
  <2>. QED
    BY <2>1, RegisterKeeps, InvokeKeeps, LockedKeeps, MethodReturnKeeps,
       GuestReturnKeeps, NativeKeeps
<1>2. CASE UNCHANGED vars
  <2>1. UNCHANGED <<stack, call, next, named, dead, edges, field, intended, owed, last>>
    BY <1>2 DEF vars
  <2>2. Stacks'
    BY <2>1 DEF HpyInv, Stacks
  <2>. QED
    BY <2>1, <2>2, TokensStay, BuildersStay, DebtsStay, FieldsStay DEF HpyInv
<1>. QED
  BY <1>1, <1>2

\* The inductive invariant behind the theorems below.
THEOREM HpyInductive == Spec => []HpyInv
<1>1. Init => HpyInv
  BY HpyInvInit
<1>2. HpyInv /\ [Next]_vars => HpyInv'
  BY HpyInvNext
<1>. QED
  BY <1>1, <1>2, PTL DEF Spec

\* A local handle stands for the value it was issued for, is not dead, and
\* belongs to one call: the tokens that the counter issues are never reissued,
\* whichever call, thread or tracker closes them.
THEOREM HpyTokensNameOneValue == Spec => []TokensNameOneValue
<1>1. HpyInv => TokensNameOneValue
  <2>. SUFFICES ASSUME HpyInv, NEW t \in Threads, call[t] # NoCall,
                       NEW h \in DOMAIN call[t].handles
                PROVE  /\ h \notin dead /\ call[t].handles[h] = named[h]
                       /\ \A u \in Threads \ {t} : call[u] = NoCall \/ h \notin DOMAIN call[u].handles
    BY DEF TokensNameOneValue, Domain
  <2>. QED
    BY DEF HpyInv, Tokens
<1>. QED
  BY <1>1, HpyInductive, PTL

\* A builder holds the values that were put into it, whatever became of their
\* handles in the meantime.
THEOREM HpyBuildersKeepItems == Spec => []BuildersKeepItems
<1>1. HpyInv => BuildersKeepItems
  BY DEF HpyInv, Builders, Holds, BuildersKeepItems, ItemValue, Domain
<1>. QED
  BY <1>1, HpyInductive, PTL

\* The bits of a field and the edge in the heap agree, also after a store that
\* failed half way.
THEOREM HpyFieldsMatchEdges == Spec => []FieldsMatchEdges
<1>1. HpyInv => FieldsMatchEdges
  BY DEF HpyInv, Fields
<1>. QED
  BY <1>1, HpyInductive, PTL

\* The step that gives a value to guest code leaves no failure unreported and no
\* builder or tracker open.
LEMMA ValuesStep ==
  ASSUME HpyInv, [Next]_vars, NEW t \in Threads,
         call[t] # NoCall, call'[t] = NoCall, last'[t] = "value"
  PROVE  ~ owed[t] /\ call[t].builders = Empty /\ call[t].trackers = Empty
<1>1. Next
  BY DEF vars
<1>2. PICK u \in Threads :
         \/ \E m \in Modules : register(u, m) \/ invoke_method(u, m)
         \/ Locked(u) \/ MethodReturns(u) \/ GuestReturns(u)
         \/ Active(u) /\ NativeStep(u)
  BY <1>1, NextParts
<1>3. call' # call
  OBVIOUS
<1>4. CASE \E m \in Modules : register(u, m) \/ invoke_method(u, m)
  BY <1>3, <1>4, Zenon DEF register, invoke_method
<1>5. CASE Locked(u)
  <2>1. DOMAIN call = Threads
    BY ActiveCall
  <2>2. call[u] = NoCall /\ \E c : call' = [call EXCEPT ![u] = c]
    BY <1>3, <1>5, LockedParts, Zenon DEF NotStarted, Exhausted, Starts
  <2>3. u # t
    BY <2>2
  <2>. QED
    BY <2>1, <2>2, <2>3
<1>6. CASE GuestReturns(u) \/ NativeStep(u)
  <2>1. Worked(u)
    BY <1>6, GuestReturnWorks DEF NativeStep
  <2>2. IsCall(call'[u]) /\ \A w \in Threads \ {u} : call'[w] = call[w]
    BY <2>1 DEF Worked
  <2>3. call'[u] # NoCall
    BY <2>2, CallsAreReal
  <2>. QED
    BY <2>2, <2>3
<1>7. CASE MethodReturns(u)
  <2>1. PICK h : /\ last' = [last EXCEPT ![u] = Finish(call[u], h)]
                 /\ call' = [call EXCEPT ![u] = NoCall]
    BY <1>7 DEF MethodReturns
  <2>2. u = t
    BY <2>1
  <2>3. Finish(call[t], h) = "value"
    BY <2>1, <2>2 DEF HpyInv, Debts
  <2>4. call[t].exception \in {None, "host", "extension"}
    BY ActiveCall DEF IsCall
  <2>5. call[t].exception = None
    BY <2>3, <2>4 DEF Finish
  <2>6. call[t].builders = Empty /\ call[t].trackers = Empty
    BY <2>3, <2>5 DEF Finish
  <2>. QED
    BY <2>5, <2>6, ActiveCall
<1>. QED
  BY <1>2, <1>4, <1>5, <1>6, <1>7

\* Guest code gets a value only from a call in which nothing is left to report
\* or to finish.
THEOREM HpyValuesAreClean == Spec => ValuesAreClean
<1>1. HpyInv /\ [Next]_vars =>
        \A t \in Threads : (call[t] # NoCall /\ call'[t] = NoCall /\ last'[t] = "value") =>
          /\ ~ owed[t]
          /\ call[t].builders = Empty /\ call[t].trackers = Empty
  BY ValuesStep
<1>2. HpyInv /\ [Next]_vars =>
        [\A t \in Threads : (call[t] # NoCall /\ call'[t] = NoCall /\ last'[t] = "value") =>
          /\ ~ owed[t]
          /\ call[t].builders = Empty /\ call[t].trackers = Empty]_vars
  BY <1>1
<1>. QED
  BY <1>2, HpyInductive, PTL DEF Spec, ValuesAreClean

=============================================================================
