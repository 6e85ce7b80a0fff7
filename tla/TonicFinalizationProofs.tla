----------------------- MODULE TonicFinalizationProofs -----------------------
(***************************************************************************)
(* Theorems about TonicFinalization, for any limits and any number of      *)
(* finalizable objects.                                                    *)
(***************************************************************************)
EXTENDS TonicFinalization, SequenceTheorems, TLAPS

-----------------------------------------------------------------------------
(* The stack of activations.                                               *)

Guest == {"generator", "object"}

\* Activations of code and of drains alternate, the drains are those whose flag
\* is in d, and a drain inside another is one of generators inside objects.
WellNested(s, d) ==
  /\ s \in Seq(Activation)
  /\ d \subseteq Guest
  /\ \A i \in DOMAIN s : s[i].kind # "code" => s[i].kind \in d
  /\ \A c \in d : \E i \in DOMAIN s : s[i].kind = c
  /\ \A i, j \in DOMAIN s :
       (i < j /\ s[i].kind # "code" /\ s[j].kind # "code")
         => (s[i].kind = "object" /\ s[j].kind = "generator")
  /\ \A i \in DOMAIN s : i + 1 \in DOMAIN s => (s[i].kind = "code" <=> s[i + 1].kind # "code")

Front(s) == SubSeq(s, 1, Len(s) - 1)

\* The last activation of a well-formed stack, and what is left without it.
LEMMA FrontFacts ==
  ASSUME NEW s \in Seq(Activation), s # <<>>
  PROVE  /\ Len(s) \in Nat \ {0}
         /\ s[Len(s)] \in Activation
         /\ Front(s) \in Seq(Activation)
         /\ Len(Front(s)) = Len(s) - 1
         /\ DOMAIN Front(s) = 1 .. (Len(s) - 1)
         /\ \A i \in 1 .. (Len(s) - 1) : Front(s)[i] = s[i]
<1>1. Len(s) \in Nat \ {0} /\ DOMAIN s = 1 .. Len(s) /\ \A i \in 1 .. Len(s) : s[i] \in Activation
  <2>1. Len(s) \in Nat /\ DOMAIN s = 1 .. Len(s) /\ s \in [1 .. Len(s) -> Activation]
    BY LenProperties
  <2>2. Len(s) # 0
    BY EmptySeq
  <2>3. QED BY <2>1, <2>2
<1> DEFINE n == Len(s) - 1
<1>2. n \in Int /\ \A i \in 1 .. n : s[i] \in Activation
  BY <1>1
<1>3. /\ SubSeq(s, 1, n) \in Seq(Activation)
      /\ Len(SubSeq(s, 1, n)) = IF 1 <= n THEN n - 1 + 1 ELSE 0
      /\ \A i \in 1 .. n - 1 + 1 : SubSeq(s, 1, n)[i] = s[1 + i - 1]
  BY <1>2, SubSeqProperties
<1>4. Len(SubSeq(s, 1, n)) = n
  BY <1>1, <1>3
<1>5. DOMAIN SubSeq(s, 1, n) = 1 .. n
  BY <1>3, <1>4, LenProperties
<1>6. \A i \in 1 .. n : SubSeq(s, 1, n)[i] = s[i]
  BY <1>1, <1>3
<1>7. QED BY <1>1, <1>3, <1>4, <1>5, <1>6 DEF Front

\* Replacing the last activation is popping it and pushing the new one.
LEMMA ReplaceLast ==
  ASSUME NEW s \in Seq(Activation), s # <<>>, NEW a \in Activation
  PROVE  [s EXCEPT ![Len(s)] = a] = Append(Front(s), a)
<1>1. /\ Len(s) \in Nat \ {0}
      /\ Front(s) \in Seq(Activation)
      /\ Len(Front(s)) = Len(s) - 1
      /\ \A i \in 1 .. (Len(s) - 1) : Front(s)[i] = s[i]
  BY FrontFacts
<1>2. DOMAIN s = 1 .. Len(s)
  BY LenProperties
<1> DEFINE f == Front(s)
<1> HIDE DEF f
<1>3. /\ Append(f, a) \in Seq(Activation)
      /\ Len(Append(f, a)) = Len(s)
      /\ DOMAIN Append(f, a) = 1 .. Len(s)
      /\ \A i \in 1 .. Len(s) : Append(f, a)[i] = IF i = Len(s) THEN a ELSE s[i]
  BY <1>1 DEF f
<1> DEFINE g == Append(f, a)
<1> HIDE DEF g
<1>4. g = [i \in 1 .. Len(s) |-> g[i]]
  <2>1. g \in [1 .. Len(g) -> Activation]
    BY <1>3, LenProperties DEF g
  <2>2. QED BY <1>3, <2>1 DEF g
<1>5. [s EXCEPT ![Len(s)] = a] = [i \in 1 .. Len(s) |-> IF i = Len(s) THEN a ELSE s[i]]
  BY <1>2
<1>6. \A i \in 1 .. Len(s) : g[i] = IF i = Len(s) THEN a ELSE s[i]
  BY <1>3 DEF g
<1>7. [i \in 1 .. Len(s) |-> g[i]] = [i \in 1 .. Len(s) |-> IF i = Len(s) THEN a ELSE s[i]]
  BY <1>6
<1>8. QED BY <1>4, <1>5, <1>7 DEF f, g

\* The kind of an activation decides the places it may be at, and moving it to
\* another place leaves its kind alone.
LEMMA MoveFacts ==
  ASSUME NEW a \in Activation, NEW at,
         IF a.kind = "code" THEN at \in CodePlaces ELSE at \in DrainPlaces
  PROVE  /\ [a EXCEPT !.at = at] \in Activation
         /\ [a EXCEPT !.at = at].kind = a.kind
<1>1. CASE a \in [kind : {"code"}, at : CodePlaces, generatorsPending : BOOLEAN]
  BY <1>1 DEF Activation
<1>2. CASE a \in [kind : Guest, at : DrainPlaces, left : Nat]
  BY <1>2 DEF Activation, Guest
<1>3. QED BY <1>1, <1>2 DEF Activation, Guest

\* An activation runs code or drains one of the two guest categories.
LEMMA KindFacts ==
  ASSUME NEW a \in Activation
  PROVE  a.kind = "code" \/ a.kind \in Guest
BY DEF Activation, Guest

\* The last activation goes on as another one of its kind.
LEMMA GoOn ==
  ASSUME NEW s, NEW d, WellNested(s, d), s # <<>>,
         NEW a \in Activation, a.kind = s[Len(s)].kind
  PROVE  WellNested(Append(Front(s), a), d)
<1> DEFINE t == Append(Front(s), a)
<1>1. s \in Seq(Activation)  BY DEF WellNested
<1>2. /\ t \in Seq(Activation)
      /\ Len(t) = Len(s)
      /\ \A i \in DOMAIN s : t[i] = IF i = Len(s) THEN a ELSE s[i]
      /\ DOMAIN t = DOMAIN s
  <2>1. /\ Len(s) \in Nat \ {0}
        /\ Front(s) \in Seq(Activation)
        /\ Len(Front(s)) = Len(s) - 1
        /\ \A i \in 1 .. (Len(s) - 1) : Front(s)[i] = s[i]
    BY <1>1, FrontFacts
  <2>2. DOMAIN s = 1 .. Len(s)
    BY <1>1, LenProperties
  <2>3. QED BY <2>1, <2>2
<1>3. \A i \in DOMAIN s : t[i].kind = s[i].kind
  BY <1>2
<1> HIDE DEF t
<1>4. WellNested(t, d)
  BY <1>2, <1>3 DEF WellNested
<1>5. QED BY <1>4 DEF t

\* Code is called by a drain, or by the embedder.
LEMMA PushCode ==
  ASSUME NEW s, NEW d, WellNested(s, d), s # <<>> => s[Len(s)].kind # "code"
  PROVE  WellNested(Append(s, NewCode), d)
<1> DEFINE t == Append(s, NewCode)
<1>1. s \in Seq(Activation)  BY DEF WellNested
<1>2. NewCode \in Activation /\ NewCode.kind = "code"
  BY DEF NewCode, Code, Activation, CodePlaces
<1>3. /\ t \in Seq(Activation)
      /\ Len(s) \in Nat
      /\ DOMAIN s = 1 .. Len(s)
      /\ DOMAIN t = 1 .. (Len(s) + 1)
      /\ \A i \in DOMAIN s : t[i] = s[i]
      /\ t[Len(s) + 1].kind = "code"
  BY <1>1, <1>2
<1>4. s = <<>> <=> Len(s) = 0
  BY <1>1
<1> HIDE DEF t
<1>5. WellNested(t, d)
  BY <1>3, <1>4 DEF WellNested
<1>6. QED BY <1>5 DEF t

\* A drain is called by code, or by the embedder, if its flag is not set, and
\* one of objects only if no flag is.
LEMMA PushDrain ==
  ASSUME NEW s, NEW d, WellNested(s, d), s # <<>> => s[Len(s)].kind = "code",
         NEW c \in Guest, c \notin d, c = "object" => d = {}, NEW n \in Nat
  PROVE  WellNested(Append(s, Drain(c, "pop", n)), d \cup {c})
<1> DEFINE t == Append(s, Drain(c, "pop", n))
<1>1. s \in Seq(Activation)  BY DEF WellNested
<1>2. Drain(c, "pop", n) \in Activation /\ Drain(c, "pop", n).kind = c
  BY DEF Drain, Activation, DrainPlaces, Guest
<1>3. /\ t \in Seq(Activation)
      /\ Len(s) \in Nat
      /\ DOMAIN s = 1 .. Len(s)
      /\ DOMAIN t = 1 .. (Len(s) + 1)
      /\ \A i \in DOMAIN s : t[i] = s[i]
      /\ t[Len(s) + 1].kind = c
  BY <1>1, <1>2
<1>4. s = <<>> <=> Len(s) = 0
  BY <1>1
<1> HIDE DEF t
<1>5. WellNested(t, d \cup {c})
  <2>1. \A i \in DOMAIN t : t[i].kind # "code" => t[i].kind \in d \cup {c}
    BY <1>3 DEF WellNested
  <2>2. \A e \in d \cup {c} : \E i \in DOMAIN t : t[i].kind = e
    BY <1>3 DEF WellNested
  <2>3. ASSUME NEW i \in DOMAIN t, NEW j \in DOMAIN t,
               i < j, t[i].kind # "code", t[j].kind # "code"
        PROVE  t[i].kind = "object" /\ t[j].kind = "generator"
    <3>1. CASE j \in DOMAIN s
      BY <1>3, <2>3, <3>1 DEF WellNested
    <3>2. CASE j = Len(s) + 1
      <4>1. i \in DOMAIN s /\ t[i] = s[i] /\ s[i].kind \in d
        BY <1>3, <2>3, <3>2 DEF WellNested
      <4>2. c # "object" /\ c = "generator" /\ s[i].kind = "object"
        BY <4>1, ZenonT(30) DEF WellNested, Guest
      <4>3. QED BY <1>3, <3>2, <4>1, <4>2
    <3>3. QED BY <1>3, <3>1, <3>2
  <2>4. \A i \in DOMAIN t : i + 1 \in DOMAIN t => (t[i].kind = "code" <=> t[i + 1].kind # "code")
    <3>1. c # "code"
      BY DEF Guest
    <3>2. SUFFICES ASSUME NEW i \in DOMAIN t, i + 1 \in DOMAIN t
                   PROVE  t[i].kind = "code" <=> t[i + 1].kind # "code"
      OBVIOUS
    <3>3. CASE i = Len(s)
      BY <1>3, <1>4, <3>1, <3>2, <3>3
    <3>4. CASE i # Len(s)
      BY <1>3, <3>2, <3>4 DEF WellNested
    <3>5. QED BY <3>3, <3>4
  <2>5. QED BY <1>3, <2>1, <2>2, <2>3, <2>4 DEF WellNested
<1>6. QED BY <1>5 DEF t

\* The last activation returns; a drain's flag is reset.
LEMMA Pop ==
  ASSUME NEW s, NEW d, WellNested(s, d), s # <<>>
  PROVE  WellNested(Front(s), d \ {s[Len(s)].kind})
<1> DEFINE t == Front(s)
<1>1. s \in Seq(Activation)  BY DEF WellNested
<1>2. /\ t \in Seq(Activation)
      /\ Len(s) \in Nat \ {0}
      /\ DOMAIN s = 1 .. Len(s)
      /\ DOMAIN t = 1 .. (Len(s) - 1)
      /\ \A i \in DOMAIN t : i \in DOMAIN s /\ t[i] = s[i]
  <2>1. /\ Len(s) \in Nat \ {0}
        /\ t \in Seq(Activation)
        /\ DOMAIN t = 1 .. (Len(s) - 1)
        /\ \A i \in 1 .. (Len(s) - 1) : t[i] = s[i]
    BY <1>1, FrontFacts
  <2>2. DOMAIN s = 1 .. Len(s)
    BY <1>1, LenProperties
  <2>3. QED BY <2>1, <2>2
<1> HIDE DEF t
<1> DEFINE k == s[Len(s)].kind
<1>3. \A i \in DOMAIN t : t[i].kind # "code" => t[i].kind \in d \ {k}
  <2>1. SUFFICES ASSUME NEW i \in DOMAIN t, t[i].kind # "code"
                 PROVE  t[i].kind \in d \ {k}
    OBVIOUS
  <2>2. t[i].kind \in d /\ i < Len(s)
    BY <1>2, <2>1 DEF WellNested
  <2>3. t[i].kind # k
    <3>1. CASE k = "code"
      BY <2>1, <3>1
    <3>2. CASE k # "code"
      BY <1>2, <2>1, <2>2, <3>2 DEF WellNested
    <3>3. QED BY <3>1, <3>2
  <2>4. QED BY <2>2, <2>3
<1>4. \A c \in d \ {k} : \E i \in DOMAIN t : t[i].kind = c
  BY <1>2 DEF WellNested
<1>5. WellNested(t, d \ {k})
  BY <1>2, <1>3, <1>4 DEF WellNested
<1>6. QED BY <1>5 DEF t

\* A drain is called, or returns at once because it is under way.
LEMMA Called ==
  ASSUME NEW c \in Guest, NEW n \in Nat, NEW callers, WellNested(callers, draining),
         callers # <<>> => callers[Len(callers)].kind = "code",
         c = "object" => draining = {},
         CallDrain(c, n, callers)
  PROVE  WellNested(stack', draining')
<1>1. CASE c \in draining
  BY <1>1 DEF CallDrain
<1>2. CASE c \notin draining
  <2>1. WellNested(Append(callers, Drain(c, "pop", n)), draining \cup {c})
    BY <1>2, PushDrain
  <2>2. QED BY <1>2, <2>1 DEF CallDrain
<1>3. QED BY <1>1, <1>2

\* Moving the last activation of the stack to another place.
LEMMA Moved ==
  ASSUME NEW s, NEW d, WellNested(s, d), s # <<>>, NEW at,
         IF s[Len(s)].kind = "code" THEN at \in CodePlaces ELSE at \in DrainPlaces
  PROVE  /\ WellNested([s EXCEPT ![Len(s)].at = at], d)
         /\ [s EXCEPT ![Len(s)].at = at] # <<>>
         /\ Len([s EXCEPT ![Len(s)].at = at]) = Len(s)
         /\ [s EXCEPT ![Len(s)].at = at][Len(s)].kind = s[Len(s)].kind
<1> DEFINE a == [s[Len(s)] EXCEPT !.at = at]
<1>1. s \in Seq(Activation)
  BY DEF WellNested
<1>2. Len(s) \in Nat \ {0} /\ s[Len(s)] \in Activation /\ Len(s) \in DOMAIN s
  BY <1>1, FrontFacts, LenProperties
<1>3. a \in Activation /\ a.kind = s[Len(s)].kind
  BY <1>2, MoveFacts
<1> HIDE DEF a
<1>4. [s EXCEPT ![Len(s)] = a] = Append(Front(s), a)
  BY <1>1, <1>3, ReplaceLast
<1>5. WellNested(Append(Front(s), a), d)
  BY <1>3, GoOn
<1>6. [s EXCEPT ![Len(s)].at = at] = [s EXCEPT ![Len(s)] = a]
  BY DEF a
<1>7. Len([s EXCEPT ![Len(s)] = a]) = Len(s) /\ [s EXCEPT ![Len(s)] = a][Len(s)] = a
  BY <1>1, <1>2, <1>3
<1>8. QED BY <1>2, <1>3, <1>4, <1>5, <1>6, <1>7, EmptySeq

-----------------------------------------------------------------------------
(* The inductive invariant.                                                *)

CountsOK ==
  /\ created \in Counts
  /\ alive \in Counts
  /\ pending \in Counts
  /\ allocated \in BOOLEAN

HostRecord ==
  [op : {"none", "run", "collect", "shutdown"},
   at : {"idle", "code", "generators", "objects", "clear", "foreign"}, ok : BOOLEAN]

\* Where the embedder's operation and the phase allow code on the stack.
HostOK ==
  /\ host \in HostRecord
  /\ phase \in {"Running", "ShuttingDown", "Finalizing", "Dead"}
  /\ cleared \in BOOLEAN
  /\ host.at \in {"idle", "clear", "foreign"} => stack = <<>>
  /\ host.op = "shutdown" => phase \in {"Finalizing", "Dead"}
  /\ host.at = "clear" => host.op = "shutdown"
  /\ cleared => phase \in {"Finalizing", "Dead"} /\ host.at \in {"idle", "foreign"}

FinalizationInv == CountsOK /\ WellNested(stack, draining) /\ HostOK

\* A collection moves objects from one count to another.
LEMMA QueueCounts ==
  ASSUME alive \in Counts, pending \in Counts, NEW found \in Counts, Queue(found)
  PROVE  alive' \in Counts /\ pending' \in Counts
<1>1. \A c \in Categories : alive[c] \in Nat /\ pending[c] \in Nat /\ found[c] \in Nat
  BY DEF Counts
<1>2. \A c \in Categories : alive[c] - found[c] \in Nat /\ pending[c] + found[c] \in Nat
  BY <1>1 DEF Queue
<1>3. QED BY <1>2 DEF Queue, Counts

LEMMA CollectionCounts ==
  ASSUME CountsOK, Collection \/ CollectionWithoutRoots
  PROVE  alive' \in Counts /\ pending' \in Counts
<1>1. PICK g \in 0 .. alive["generator"], o \in 0 .. alive["object"], f \in 0 .. alive["foreign"] :
        Queue([generator |-> g, object |-> o, foreign |-> f])
  BY DEF Collection, CollectionWithoutRoots
<1>2. alive["generator"] \in Nat /\ alive["object"] \in Nat /\ alive["foreign"] \in Nat
  BY DEF CountsOK, Counts, Categories
<1>3. [generator |-> g, object |-> o, foreign |-> f] \in Counts
  BY <1>2 DEF Counts, Categories
<1>4. QED BY <1>1, <1>3, QueueCounts DEF CountsOK

\* The last activation of the stack, where the actions look at it.
LEMMA InnermostFacts ==
  ASSUME FinalizationInv, stack # <<>>
  PROVE  /\ stack \in Seq(Activation)
         /\ Depth \in Nat \ {0}
         /\ Depth \in DOMAIN stack
         /\ Innermost = stack[Len(stack)]
         /\ Innermost \in Activation
         /\ Outer = Front(stack)
         /\ ~ cleared
         /\ host.at \notin {"idle", "clear", "foreign"}
<1>1. stack \in Seq(Activation)
  BY DEF FinalizationInv, WellNested
<1>2. Len(stack) \in Nat \ {0} /\ stack[Len(stack)] \in Activation /\ Len(stack) \in DOMAIN stack
  BY <1>1, FrontFacts, LenProperties
<1>3. QED BY <1>1, <1>2 DEF Depth, Innermost, Outer, Front, FinalizationInv, HostOK

\* Steps that change the stack alone leave the embedder's side as it is.
LEMMA HostStays ==
  ASSUME FinalizationInv, stack # <<>>, UNCHANGED <<host, phase, cleared>>
  PROVE  HostOK'
BY InnermostFacts DEF FinalizationInv, HostOK

-----------------------------------------------------------------------------
(* One lemma for each group of actions.                                    *)

LEMMA PopFinalizerStep ==
  ASSUME FinalizationInv, NEW c \in Guest, PopFinalizer(c)
  PROVE  FinalizationInv'
<1>1. stack # <<>> /\ Innermost.kind = c /\ pending[c] > 0 /\ Innermost.left > 0
  BY DEF PopFinalizer, InDrain
<1>2. CountsOK'
  <2>1. c \in Categories /\ pending \in [Categories -> Nat]
    BY DEF FinalizationInv, CountsOK, Counts, Guest, Categories
  <2>2. pending' \in Counts
    BY <1>1, <2>1 DEF PopFinalizer, Counts
  <2>3. QED BY <2>2 DEF FinalizationInv, CountsOK, PopFinalizer
<1>3. WellNested(stack', draining')
  <2> DEFINE taken == [Innermost EXCEPT !.left = @ - 1]
  <2>1. Innermost \in Activation /\ Outer = Front(stack) /\ Innermost = stack[Len(stack)]
    BY <1>1, InnermostFacts
  <2>2. Innermost \in [kind : Guest, at : DrainPlaces, left : Nat]
    BY <1>1, <2>1 DEF Activation, Guest
  <2>3. taken \in [kind : Guest, at : DrainPlaces, left : Nat] /\ taken.kind = c
    BY <1>1, <2>2
  <2> HIDE DEF taken
  <2>4. \A at \in DrainPlaces : [taken EXCEPT !.at = at] \in Activation
                                /\ [taken EXCEPT !.at = at].kind = c
    BY <2>3 DEF Activation, Guest
  <2>5. \A at \in DrainPlaces : WellNested(Append(Outer, [taken EXCEPT !.at = at]), draining)
    BY <1>1, <2>1, <2>4, GoOn DEF FinalizationInv
  <2>6. CASE \E at \in {"pop", "raise"} : stack' = Append(Outer, [taken EXCEPT !.at = at])
    BY <2>5, <2>6 DEF PopFinalizer, DrainPlaces
  <2>7. CASE stack' = Append(Append(Outer, [taken EXCEPT !.at = "finalizing"]), NewCode)
    <3> DEFINE s == Append(Outer, [taken EXCEPT !.at = "finalizing"])
    <3>1. "finalizing" \in DrainPlaces
      BY DEF DrainPlaces
    <3>2. WellNested(s, draining)
      BY <2>5, <3>1
    <3>3. s[Len(s)].kind # "code"
      <4>1. Outer \in Seq(Activation) /\ [taken EXCEPT !.at = "finalizing"] \in Activation
        BY <1>1, <2>1, <2>4, <3>1, InnermostFacts, FrontFacts
      <4>2. s[Len(s)] = [taken EXCEPT !.at = "finalizing"]
        BY <4>1
      <4>3. QED BY <2>4, <3>1, <4>2 DEF Guest
    <3> HIDE DEF s
    <3>4. WellNested(Append(s, NewCode), draining)
      BY <3>2, <3>3, PushCode
    <3>5. QED BY <2>7, <3>4 DEF s, PopFinalizer
  <2>8. QED BY <2>6, <2>7 DEF PopFinalizer, taken
<1>4. HostOK'
  BY <1>1, HostStays DEF PopFinalizer
<1>5. QED BY <1>2, <1>3, <1>4 DEF FinalizationInv

\* Goto moves the innermost activation.
LEMMA GotoNested ==
  ASSUME FinalizationInv, stack # <<>>, NEW at, Goto(at),
         IF Innermost.kind = "code" THEN at \in CodePlaces ELSE at \in DrainPlaces
  PROVE  WellNested(stack', draining)
BY InnermostFacts, Moved DEF FinalizationInv, Goto, Depth

LEMMA ReportUnraisableStep ==
  ASSUME FinalizationInv, NEW c \in Guest, ReportUnraisable(c)
  PROVE  FinalizationInv'
<1>1. stack # <<>> /\ Innermost.kind = c /\ c # "code"
  BY DEF ReportUnraisable, InDrain, Guest
<1>2. Innermost = stack[Len(stack)]
  BY <1>1, InnermostFacts
<1>3. WellNested(stack', draining')
  <2>1. CASE stack' = Append(stack, NewCode)
    BY <1>1, <1>2, <2>1, PushCode DEF ReportUnraisable, FinalizationInv
  <2>2. CASE \E at \in {"pop", "raise"} : Goto(at)
    BY <1>1, <2>2, GotoNested DEF ReportUnraisable, DrainPlaces
  <2>3. QED BY <2>1, <2>2 DEF ReportUnraisable
<1>4. CountsOK'
  BY DEF FinalizationInv, CountsOK, ReportUnraisable
<1>5. HostOK'
  BY <1>1, HostStays DEF ReportUnraisable
<1>6. QED BY <1>3, <1>4, <1>5 DEF FinalizationInv

\* The activation below the innermost one is of the other sort.
LEMMA CallerFacts ==
  ASSUME FinalizationInv, stack # <<>>, Depth # 1
  PROVE  /\ Outer # <<>>
         /\ Len(Outer) = Depth - 1
         /\ Outer[Len(Outer)] = Caller
         /\ Caller.kind = "code" <=> Innermost.kind # "code"
<1>1. /\ stack \in Seq(Activation)
      /\ Depth \in Nat \ {0}
      /\ Innermost = stack[Len(stack)]
      /\ Outer = Front(stack)
  BY InnermostFacts
<1>2. /\ Outer \in Seq(Activation)
      /\ Len(Outer) = Len(stack) - 1
      /\ \A i \in 1 .. (Len(stack) - 1) : Outer[i] = stack[i]
  BY <1>1, FrontFacts
<1>3. Len(stack) - 1 \in 1 .. (Len(stack) - 1) /\ DOMAIN stack = 1 .. Len(stack)
  <2>1. DOMAIN stack = 1 .. Len(stack)
    BY <1>1, LenProperties
  <2>2. Len(stack) \in Nat /\ Len(stack) # 0 /\ Len(stack) # 1
    BY <1>1 DEF Depth
  <2>3. QED BY <2>1, <2>2
<1>4. Outer # <<>>
  BY <1>2, <1>3, EmptySeq
<1>5. stack[Len(stack) - 1].kind = "code" <=> stack[Len(stack)].kind # "code"
  <2> DEFINE i == Len(stack) - 1
  <2>1. i \in DOMAIN stack /\ i + 1 = Len(stack) /\ i + 1 \in DOMAIN stack
    BY <1>1, <1>3 DEF Depth
  <2>2. \A j \in DOMAIN stack :
          j + 1 \in DOMAIN stack => (stack[j].kind = "code" <=> stack[j + 1].kind # "code")
    BY DEF FinalizationInv, WellNested
  <2>3. stack[i].kind = "code" <=> stack[i + 1].kind # "code"
    BY <2>1, <2>2
  <2>4. QED BY <2>1, <2>3
<1>6. QED BY <1>1, <1>2, <1>3, <1>4, <1>5 DEF Depth, Caller

LEMMA ReturnFromDrainStep ==
  ASSUME FinalizationInv, NEW c \in Guest, ReturnFromDrain(c)
  PROVE  FinalizationInv'
<1>1. stack # <<>> /\ Innermost.kind = c /\ c # "code"
  BY DEF ReturnFromDrain, InDrain, Guest
<1>2. Innermost = stack[Len(stack)] /\ Outer = Front(stack)
  BY <1>1, InnermostFacts
<1>3. WellNested(Outer, draining \ {c})
  BY <1>1, <1>2, Pop DEF FinalizationInv
<1>4. CountsOK'
  BY DEF FinalizationInv, CountsOK, ReturnFromDrain
<1>5. CASE Depth = 1
  <2>1. Outer = <<>>
    <3>1. Outer \in Seq(Activation) /\ Len(Outer) = 0
      BY <1>1, <1>2, <1>5, InnermostFacts, FrontFacts DEF Depth
    <3>2. QED BY <3>1, EmptySeq
  <2>2. WellNested(stack', draining')
    BY <1>3, <1>5, <2>1 DEF ReturnFromDrain
  <2>3. HostOK'
    BY <1>1, <1>5, InnermostFacts DEF ReturnFromDrain, FinalizationInv, HostOK, HostRecord, Finished
  <2>4. QED BY <1>4, <2>2, <2>3 DEF FinalizationInv
<1>6. CASE Depth # 1
  <2>1. /\ Outer # <<>>
        /\ Len(Outer) = Depth - 1
        /\ Outer[Len(Outer)].kind = "code"
    BY <1>1, <1>6, CallerFacts
  <2>2. WellNested([Outer EXCEPT ![Len(Outer)].at = "raise"], draining \ {c})
    BY <1>3, <2>1, Moved DEF CodePlaces
  <2>3. WellNested(stack', draining')
    BY <1>3, <1>6, <2>1, <2>2 DEF ReturnFromDrain
  <2>4. HostOK'
    BY <1>1, <1>6, HostStays DEF ReturnFromDrain
  <2>5. QED BY <1>4, <2>3, <2>4 DEF FinalizationInv
<1>7. QED BY <1>5, <1>6

LEMMA SafepointStep ==
  ASSUME FinalizationInv, FinalizationAssumption, Safepoint
  PROVE  FinalizationInv'
<1>1. stack # <<>> /\ Innermost.kind = "code"
  BY DEF Safepoint, SafepointGenerators, SafepointReads, SafepointObjects, SafepointForeign,
         SafepointCollect, InCode
<1>2. Innermost = stack[Len(stack)] /\ Outer = Front(stack) /\ WellNested(stack, draining)
  BY <1>1, InnermostFacts DEF FinalizationInv
<1>3. \A at \in CodePlaces :
        /\ WellNested([stack EXCEPT ![Depth].at = at], draining)
        /\ [stack EXCEPT ![Depth].at = at] # <<>>
        /\ Len([stack EXCEPT ![Depth].at = at]) = Depth
        /\ [stack EXCEPT ![Depth].at = at][Depth].kind = "code"
  BY <1>1, <1>2, Moved DEF Depth
<1>4. HostOK'
  BY <1>1, HostStays DEF Safepoint, SafepointGenerators, SafepointReads, SafepointObjects,
                         SafepointForeign, SafepointCollect
<1>5. CASE SafepointGenerators
  <2> DEFINE next == [stack EXCEPT ![Depth].at = "drained"]
  <2>1. /\ WellNested(next, draining)
        /\ next[Len(next)].kind = "code"
    BY <1>3 DEF CodePlaces
  <2> HIDE DEF next
  <2>2. ASSUME CallDrain("generator", GENERATOR_FINALIZERS_PER_SAFEPOINT, next)
        PROVE  WellNested(stack', draining')
    BY <2>1, <2>2, Called DEF FinalizationAssumption, Guest
  <2>3. ASSUME stack' = next, UNCHANGED draining
        PROVE  WellNested(stack', draining')
    BY <2>1, <2>3
  <2>4. WellNested(stack', draining')
    BY <1>5, <2>2, <2>3 DEF SafepointGenerators, next
  <2>5. QED BY <1>4, <1>5, <2>4 DEF SafepointGenerators, FinalizationInv, CountsOK
<1>6. CASE SafepointReads
  <2> DEFINE a == Code("objects", pending["generator"] > 0)
  <2>1. a \in Activation /\ a.kind = "code"
    BY DEF Code, Activation, CodePlaces
  <2> HIDE DEF a
  <2>2. WellNested(Append(Front(stack), a), draining)
    BY <1>1, <1>2, <2>1, GoOn
  <2>3. [stack EXCEPT ![Len(stack)] = a] = Append(Front(stack), a)
    BY <1>1, <2>1, InnermostFacts, ReplaceLast
  <2>4. QED BY <1>4, <1>6, <2>2, <2>3 DEF SafepointReads, FinalizationInv, CountsOK, Depth, a
<1>7. CASE SafepointObjects
  <2> DEFINE next == [stack EXCEPT ![Depth].at = "foreign"]
  <2>1. /\ WellNested(next, draining)
        /\ next[Len(next)].kind = "code"
    BY <1>3 DEF CodePlaces
  <2> HIDE DEF next
  <2>2. ASSUME draining = {} /\ CallDrain("object", OBJECT_FINALIZERS_PER_SAFEPOINT, next)
        PROVE  WellNested(stack', draining')
    BY <2>1, <2>2, Called DEF FinalizationAssumption, Guest
  <2>3. ASSUME stack' = next, UNCHANGED draining
        PROVE  WellNested(stack', draining')
    BY <2>1, <2>3
  <2>4. WellNested(stack', draining')
    BY <1>7, <2>2, <2>3 DEF SafepointObjects, next
  <2>5. QED BY <1>4, <1>7, <2>4 DEF SafepointObjects, FinalizationInv, CountsOK
<1>8. CASE SafepointForeign
  <2>1. WellNested(stack', draining')
    BY <1>3, <1>8 DEF SafepointForeign, Goto, CodePlaces
  <2>2. pending' \in Counts
    BY <1>8 DEF SafepointForeign, ForeignDrained, FinalizationInv, CountsOK, Counts
  <2>3. QED BY <1>4, <1>8, <2>1, <2>2 DEF SafepointForeign, FinalizationInv, CountsOK
<1>9. CASE SafepointCollect
  <2>1. WellNested(stack', draining')
    BY <1>3, <1>9 DEF SafepointCollect, Goto, CodePlaces
  <2>2. CountsOK'
    BY <1>9, CollectionCounts DEF SafepointCollect, FinalizationInv, CountsOK, Collection
  <2>3. QED BY <1>4, <2>1, <2>2 DEF FinalizationInv
<1>10. QED BY <1>5, <1>6, <1>7, <1>8, <1>9 DEF Safepoint

LEMMA GuestStepStep ==
  ASSUME FinalizationInv, GuestStep
  PROVE  FinalizationInv'
<1>1. stack # <<>> /\ Innermost.kind = "code"
  BY DEF GuestStep, NextInstruction, Create, CompleteGenerator, JitSafepoint, AtInstruction, InCode
<1>2. WellNested(stack', draining')
  <2>1. \E at \in CodePlaces : Goto(at)
    BY DEF GuestStep, NextInstruction, Create, CompleteGenerator, JitSafepoint, CodePlaces
  <2>2. WellNested(stack', draining)
    BY <1>1, <2>1, GotoNested
  <2>3. QED BY <2>2 DEF GuestStep, NextInstruction, Create, CompleteGenerator, JitSafepoint
<1>3. HostOK'
  BY <1>1, HostStays DEF GuestStep, NextInstruction, Create, CompleteGenerator, JitSafepoint
<1>4. CountsOK'
  <2>1. CASE NextInstruction
    BY <2>1 DEF NextInstruction, FinalizationInv, CountsOK
  <2>2. CASE \E c \in Categories : Create(c)
    BY <2>2 DEF Create, FinalizationInv, CountsOK, Counts
  <2>3. CASE CompleteGenerator
    <3>1. alive \in [Categories -> Nat] /\ "generator" \in Categories /\ alive["generator"] > 0
      BY <2>3 DEF CompleteGenerator, FinalizationInv, CountsOK, Counts, Categories
    <3>2. alive' \in Counts
      BY <2>3, <3>1 DEF CompleteGenerator, Counts
    <3>3. QED BY <2>3, <3>2 DEF CompleteGenerator, FinalizationInv, CountsOK
  <2>4. CASE JitSafepoint
    BY <2>4, CollectionCounts DEF JitSafepoint, FinalizationInv, CountsOK, Collection
  <2>5. QED BY <2>1, <2>2, <2>3, <2>4 DEF GuestStep
<1>5. QED BY <1>2, <1>3, <1>4 DEF FinalizationInv

LEMMA EndCodeStep ==
  ASSUME FinalizationInv, NEW ok \in BOOLEAN, EndCode(ok)
  PROVE  FinalizationInv'
<1>1. stack # <<>> /\ Innermost.kind = "code"
  BY DEF EndCode, InCode
<1>2. Innermost = stack[Len(stack)] /\ Outer = Front(stack)
  BY <1>1, InnermostFacts
<1>3. WellNested(Outer, draining)
  <2>1. WellNested(Outer, draining \ {"code"})
    BY <1>1, <1>2, Pop DEF FinalizationInv
  <2>2. draining \ {"code"} = draining
    BY DEF FinalizationInv, WellNested, Guest
  <2>3. QED BY <2>1, <2>2
<1>4. CountsOK'
  BY DEF FinalizationInv, CountsOK, EndCode
<1>5. CASE Depth = 1
  <2>1. Outer = <<>>
    <3>1. Outer \in Seq(Activation) /\ Len(Outer) = 0
      BY <1>1, <1>2, <1>5, InnermostFacts, FrontFacts DEF Depth
    <3>2. QED BY <3>1, EmptySeq
  <2>2. WellNested(stack', draining')
    BY <1>3, <1>5, <2>1 DEF EndCode
  <2>3. HostOK'
    BY <1>1, <1>5, InnermostFacts
       DEF EndCode, FinalizationInv, HostOK, HostRecord, Finished, HostAt
  <2>4. QED BY <1>4, <2>2, <2>3 DEF FinalizationInv
<1>6. CASE Depth # 1
  <2>1. /\ Outer # <<>>
        /\ Len(Outer) = Depth - 1
        /\ Outer[Len(Outer)].kind # "code"
    BY <1>1, <1>6, CallerFacts
  <2>2. \A at \in DrainPlaces : WellNested([Outer EXCEPT ![Len(Outer)].at = at], draining)
    BY <1>3, <2>1, Moved
  <2>3. AfterFinalizer(ok) \subseteq DrainPlaces
    BY DEF AfterFinalizer, DrainPlaces
  <2>4. WellNested(stack', draining')
    BY <1>6, <2>1, <2>2, <2>3 DEF EndCode
  <2>5. HostOK'
    BY <1>1, <1>6, HostStays DEF EndCode
  <2>6. QED BY <1>4, <2>4, <2>5 DEF FinalizationInv
<1>7. QED BY <1>5, <1>6

LEMMA HostStepStep ==
  ASSUME FinalizationInv, FinalizationAssumption, HostStep
  PROVE  FinalizationInv'
<1>1. <<>> \in Seq(Activation) /\ WellNested(stack, draining)
  BY EmptySeq DEF FinalizationInv
<1>2. stack = <<>> => draining = {}
  BY <1>1 DEF WellNested
<1>3. \A c \in Guest : Unlimited(c) \in Nat
  BY DEF Unlimited, Bound, Guest, FinalizationAssumption
<1>4. CASE HostGenerators
  <2>1. WellNested(stack', draining')
    <3>1. ASSUME CallDrain("generator", Unlimited("generator"), <<>>)
          PROVE  WellNested(stack', draining')
      BY <1>1, <1>3, <1>4, <3>1, Called DEF HostGenerators, Guest
    <3>2. QED BY <1>1, <1>4, <3>1 DEF HostGenerators
  <2>2. HostOK'
    BY <1>4 DEF HostGenerators, FinalizationInv, HostOK, HostRecord, HostAt
  <2>3. QED BY <1>4, <2>1, <2>2 DEF HostGenerators, FinalizationInv, CountsOK
<1>5. CASE HostObjects
  <2>1. WellNested(stack', draining')
    <3>1. ASSUME CallDrain("object", Unlimited("object"), <<>>)
          PROVE  WellNested(stack', draining')
      BY <1>1, <1>2, <1>3, <1>5, <3>1, Called DEF HostObjects, Guest
    <3>2. QED BY <1>1, <1>5, <3>1 DEF HostObjects
  <2>2. HostOK'
    BY <1>5 DEF HostObjects, FinalizationInv, HostOK, HostRecord, HostAt
  <2>3. QED BY <1>5, <2>1, <2>2 DEF HostObjects, FinalizationInv, CountsOK
<1>6. CASE ClearRoots
  <2>1. CountsOK'
    BY <1>6, CollectionCounts DEF ClearRoots, FinalizationInv, CountsOK
  <2>2. HostOK'
    BY <1>6 DEF ClearRoots, FinalizationInv, HostOK, HostRecord, HostAt
  <2>3. QED BY <1>6, <2>1, <2>2 DEF ClearRoots, FinalizationInv
<1>7. CASE HostForeign
  <2>1. pending' \in Counts
    BY <1>7 DEF HostForeign, ForeignDrained, FinalizationInv, CountsOK, Counts
  <2>2. HostOK'
    BY <1>7 DEF HostForeign, FinalizationInv, HostOK, HostRecord, Finished
  <2>3. QED BY <1>7, <2>1, <2>2 DEF HostForeign, FinalizationInv, CountsOK
<1>8. QED BY <1>4, <1>5, <1>6, <1>7 DEF HostStep

LEMMA HostOperationStep ==
  ASSUME FinalizationInv, HostOperation
  PROVE  FinalizationInv'
<1>1. stack = <<>>
  BY DEF HostOperation, HostRun, CollectGarbage, BeginShutdown, FinalizeShutdown,
         FinalizeShutdownFails, CompleteShutdown, Idle, FinalizationInv, HostOK
<1>2. CASE HostRun
  <2>1. WellNested(Append(stack, NewCode), draining)
    BY <1>1, PushCode DEF FinalizationInv
  <2>2. Append(stack, NewCode) = <<NewCode>>
    BY <1>1
  <2>3. HostOK'
    BY <1>2 DEF HostRun, FinalizationInv, HostOK, HostRecord
  <2>4. QED BY <1>2, <2>1, <2>2, <2>3 DEF HostRun, FinalizationInv, CountsOK
<1>3. CASE CollectGarbage
  <2>1. CountsOK'
    BY <1>3, CollectionCounts DEF CollectGarbage, FinalizationInv, CountsOK, Collection
  <2>2. HostOK'
    BY <1>3 DEF CollectGarbage, FinalizationInv, HostOK, HostRecord
  <2>3. QED BY <1>3, <2>1, <2>2 DEF CollectGarbage, FinalizationInv
<1>4. CASE BeginShutdown
  BY <1>4 DEF BeginShutdown, FinalizationInv, HostOK, CountsOK
<1>5. CASE FinalizeShutdown \/ FinalizeShutdownFails
  <2>1. PICK o \in 0 .. alive["object"] : Queue([alive EXCEPT !["object"] = o, !["foreign"] = 0])
                                           \/ Queue([alive EXCEPT !["foreign"] = 0])
    <3>1. 0 \in 0 .. alive["object"]
      BY DEF FinalizationInv, CountsOK, Counts, Categories
    <3>2. QED BY <1>5, <3>1 DEF FinalizeShutdown, FinalizeShutdownFails
  <2>2. /\ [alive EXCEPT !["object"] = o, !["foreign"] = 0] \in Counts
        /\ [alive EXCEPT !["foreign"] = 0] \in Counts
    BY DEF FinalizationInv, CountsOK, Counts, Categories
  <2>3. alive' \in Counts /\ pending' \in Counts
    BY <2>1, <2>2, QueueCounts DEF FinalizationInv, CountsOK
  <2>4. HostOK'
    <3>1. /\ phase = "ShuttingDown" /\ phase' = "Finalizing"
          /\ stack' = stack /\ cleared' = cleared
      BY <1>5 DEF FinalizeShutdown, FinalizeShutdownFails
    <3>2. /\ host' \in HostRecord
          /\ host'.op = "shutdown" /\ host'.at \in {"idle", "generators"}
      <4>1. \/ host' = [op |-> "shutdown", at |-> "generators", ok |-> TRUE]
            \/ host' = [op |-> "shutdown", at |-> "idle", ok |-> FALSE]
        BY <1>5 DEF FinalizeShutdown, FinalizeShutdownFails
      <4>2. CASE host' = [op |-> "shutdown", at |-> "generators", ok |-> TRUE]
        BY <4>2 DEF HostRecord
      <4>3. CASE host' = [op |-> "shutdown", at |-> "idle", ok |-> FALSE]
        BY <4>3 DEF HostRecord
      <4>4. QED BY <4>1, <4>2, <4>3
    <3>3. cleared = FALSE
      BY <3>1 DEF FinalizationInv, HostOK
    <3>4. QED BY <1>1, <3>1, <3>2, <3>3 DEF HostOK
  <2>5. QED BY <1>5, <2>3, <2>4
            DEF FinalizeShutdown, FinalizeShutdownFails, FinalizationInv, CountsOK
<1>6. CASE CompleteShutdown
  BY <1>6 DEF CompleteShutdown, FinalizationInv, HostOK, CountsOK
<1>7. QED BY <1>2, <1>3, <1>4, <1>5, <1>6 DEF HostOperation

-----------------------------------------------------------------------------
(* Theorems.                                                               *)

\* FinalizationInv is inductive: whatever finalizers do, flags and stack agree
\* and code is on the stack only where an operation of the embedder put it.
THEOREM FinalizationInvariant == Spec => []FinalizationInv
<1>1. Init => FinalizationInv
  <2>1. SUFFICES ASSUME Init PROVE FinalizationInv
    OBVIOUS
  <2>2. CountsOK
    BY <2>1 DEF Init, CountsOK, Counts
  <2>3. WellNested(stack, draining)
    <3>1. <<>> \in Seq(Activation) /\ DOMAIN <<>> = {}
      BY EmptySeq
    <3>2. QED BY <2>1, <3>1 DEF Init, WellNested
  <2>4. HostOK
    BY <2>1 DEF Init, HostOK, HostRecord
  <2>5. QED BY <2>2, <2>3, <2>4 DEF FinalizationInv
<1>2. FinalizationInv /\ [Next]_vars => FinalizationInv'
  <2>1. SUFFICES ASSUME FinalizationInv, [Next]_vars PROVE FinalizationInv'
    OBVIOUS
  <2>2. CASE HostOperation  BY <2>1, <2>2, HostOperationStep
  <2>3. CASE HostStep  BY <2>1, <2>3, HostStepStep, FinalizationAssumption
  <2>4. CASE DrainStep
    <3>1. PICK c \in Guest : PopFinalizer(c) \/ ReportUnraisable(c) \/ ReturnFromDrain(c)
      BY <2>4 DEF DrainStep, Guest
    <3>2. CASE PopFinalizer(c)  BY <2>1, <3>2, PopFinalizerStep
    <3>3. CASE ReportUnraisable(c)  BY <2>1, <3>3, ReportUnraisableStep
    <3>4. CASE ReturnFromDrain(c)  BY <2>1, <3>4, ReturnFromDrainStep
    <3>5. QED BY <3>1, <3>2, <3>3, <3>4
  <2>5. CASE Safepoint  BY <2>1, <2>5, SafepointStep, FinalizationAssumption
  <2>6. CASE GuestStep  BY <2>1, <2>6, GuestStepStep
  <2>7. CASE CodeEnds  BY <2>1, <2>7, EndCodeStep DEF CodeEnds
  <2>8. CASE Stopped \/ UNCHANGED vars
    BY <2>1, <2>8 DEF Stopped, vars, FinalizationInv, CountsOK, HostOK
  <2>9. QED BY <2>1, <2>2, <2>3, <2>4, <2>5, <2>6, <2>7, <2>8 DEF Next
<1>3. QED BY <1>1, <1>2, PTL DEF Spec

\* What the invariant says in the words of the specification.
LEMMA InvariantImplies ==
  ASSUME FinalizationInv
  PROVE  TypeOK /\ FinalizersNest /\ NoCodeWithoutRoots
<1>1. TypeOK
  <2>1. created \in Counts /\ alive \in Counts /\ pending \in Counts /\ allocated \in BOOLEAN
    BY DEF FinalizationInv, CountsOK
  <2>2. draining \subseteq {"generator", "object"} /\ stack \in Seq(Activation)
    BY DEF FinalizationInv, WellNested, Guest
  <2>3. host \in HostRecord /\ cleared \in BOOLEAN
        /\ phase \in {"Running", "ShuttingDown", "Finalizing", "Dead"}
    BY DEF FinalizationInv, HostOK
  <2>4. QED BY <2>1, <2>2, <2>3 DEF TypeOK, HostRecord
<1>2. FinalizersNest
  <2>1. \A i \in Drains : stack[i].kind \in draining
    BY DEF Drains, FinalizationInv, WellNested
  <2>2. \A c \in draining : \E i \in Drains : stack[i].kind = c
    BY DEF Drains, FinalizationInv, WellNested, Guest
  <2>3. draining = {stack[i].kind : i \in Drains}
    BY <2>1, <2>2
  <2>4. \A i, j \in Drains : i < j => stack[i].kind = "object" /\ stack[j].kind = "generator"
    BY DEF Drains, FinalizationInv, WellNested
  <2>5. QED BY <2>3, <2>4 DEF FinalizersNest
<1>3. NoCodeWithoutRoots
  BY DEF FinalizationInv, HostOK, NoCodeWithoutRoots
<1>4. QED BY <1>1, <1>2, <1>3

\* Every reachable state is well typed, for any limits and any number of objects.
THEOREM FinalizationTypeCorrect == Spec => []TypeOK
BY FinalizationInvariant, InvariantImplies, PTL

\* Drains never re-enter and the flags always tell what is on the stack
\* (drain_generator_finalizers, drain_object_finalizers).
THEOREM FinalizersNeverReenter == Spec => []FinalizersNest
BY FinalizationInvariant, InvariantImplies, PTL

\* No guest code runs once finalize_shutdown has cleared the roots.
THEOREM FinalizationKeepsRoots == Spec => []NoCodeWithoutRoots
BY FinalizationInvariant, InvariantImplies, PTL
\* Only a safepoint and the end of an operation take foreign payloads from
\* their queue: collections add to the queues, the other drains have their own.
LEMMA ForeignQueue ==
  ASSUME FinalizationInv, Next, pending'["foreign"] < pending["foreign"]
  PROVE  SafepointForeign \/ HostForeign
<1>1. alive \in Counts /\ pending \in Counts
  BY DEF FinalizationInv, CountsOK
<1>2. \A c \in Categories : alive[c] \in Nat /\ pending[c] \in Nat
  BY <1>1 DEF Counts
<1>3. ~ UNCHANGED pending
  BY <1>2 DEF Categories
<1>4. \A found \in Counts : ~ Queue(found)
  <2>1. SUFFICES ASSUME NEW found \in Counts, Queue(found) PROVE FALSE
    OBVIOUS
  <2>2. pending'["foreign"] = pending["foreign"] + found["foreign"] /\ found["foreign"] \in Nat
    BY <2>1 DEF Queue, Counts, Categories
  <2>3. QED BY <1>2, <2>2 DEF Categories
<1>5. ~ Collection /\ ~ CollectionWithoutRoots
  <2>1. \A g, o, f \in Nat : [generator |-> g, object |-> o, foreign |-> f] \in Counts
    BY DEF Counts, Categories
  <2>2. \A c \in Categories : 0 .. alive[c] \subseteq Nat
    BY <1>2
  <2>3. 0 .. alive["generator"] \subseteq Nat /\ 0 .. alive["object"] \subseteq Nat
        /\ 0 .. alive["foreign"] \subseteq Nat
    BY <2>2 DEF Categories
  <2>4. \A g \in 0 .. alive["generator"], o \in 0 .. alive["object"], f \in 0 .. alive["foreign"] :
          ~ Queue([generator |-> g, object |-> o, foreign |-> f])
    BY <1>4, <2>1, <2>3
  <2>5. QED BY <2>4 DEF Collection, CollectionWithoutRoots
<1>6. ~ HostOperation
  <2>1. \A o \in 0 .. alive["object"] :
          /\ [alive EXCEPT !["object"] = o, !["foreign"] = 0] \in Counts
          /\ [alive EXCEPT !["foreign"] = 0] \in Counts
    BY <1>1 DEF Counts, Categories
  <2>2. 0 \in 0 .. alive["object"]
    BY <1>2 DEF Categories
  <2>3. ~ FinalizeShutdown /\ ~ FinalizeShutdownFails
    BY <1>4, <2>1, <2>2 DEF FinalizeShutdown, FinalizeShutdownFails
  <2>4. ~ HostRun /\ ~ CollectGarbage /\ ~ BeginShutdown /\ ~ CompleteShutdown
    BY <1>3, <1>5 DEF HostRun, CollectGarbage, BeginShutdown, CompleteShutdown
  <2>5. QED BY <2>3, <2>4 DEF HostOperation
<1>7. ~ HostGenerators /\ ~ HostObjects /\ ~ ClearRoots
  BY <1>3, <1>5 DEF HostGenerators, HostObjects, ClearRoots
<1>8. ~ DrainStep
  <2>1. SUFFICES ASSUME NEW c \in Guest,
                        PopFinalizer(c) \/ ReportUnraisable(c) \/ ReturnFromDrain(c)
                 PROVE  FALSE
    BY DEF DrainStep, Guest
  <2>2. ~ ReportUnraisable(c) /\ ~ ReturnFromDrain(c)
    BY <1>3 DEF ReportUnraisable, ReturnFromDrain
  <2>3. pending' = [pending EXCEPT ![c] = @ - 1]
    BY <2>1, <2>2 DEF PopFinalizer
  <2>4. pending'["foreign"] = pending["foreign"]
    BY <1>1, <2>3 DEF Counts, Categories, Guest
  <2>5. QED BY <1>2, <2>4 DEF Categories
<1>9. ~ SafepointGenerators /\ ~ SafepointReads /\ ~ SafepointObjects /\ ~ SafepointCollect
  BY <1>3, <1>5 DEF SafepointGenerators, SafepointReads, SafepointObjects, SafepointCollect
<1>10. ~ GuestStep /\ ~ CodeEnds /\ ~ Stopped
  BY <1>3, <1>5 DEF GuestStep, NextInstruction, Create, CompleteGenerator, JitSafepoint,
                    CodeEnds, EndCode, Stopped, vars
<1>11. QED BY <1>6, <1>7, <1>8, <1>9, <1>10 DEF Next, HostStep, Safepoint

\* No destructor of a foreign payload runs while a guest finalizer is on the
\* stack (execute_until_depth's test of both draining flags).
THEOREM DestructorsNeverInside == Spec => DestructorsOutsideFinalizers
<1>1. FinalizationInv /\ [Next]_vars
        => [pending'["foreign"] < pending["foreign"] => Drains = {}]_vars
  <2>1. SUFFICES ASSUME FinalizationInv, Next, pending'["foreign"] < pending["foreign"]
                 PROVE  Drains = {}
    OBVIOUS
  <2>2. SafepointForeign \/ HostForeign
    BY <2>1, ForeignQueue
  <2>3. CASE SafepointForeign
    <3>1. draining = {}
      <4>1. pending["foreign"] \in Nat
        BY <2>1 DEF FinalizationInv, CountsOK, Counts, Categories
      <4>2. QED BY <2>1, <2>3, <4>1 DEF SafepointForeign
    <3>2. QED BY <2>1, <3>1, InvariantImplies DEF FinalizersNest
  <2>4. CASE HostForeign
    <3>1. stack = <<>>
      BY <2>1, <2>4 DEF HostForeign, FinalizationInv, HostOK
    <3>2. QED BY <3>1, EmptySeq DEF Drains
  <2>5. QED BY <2>2, <2>3, <2>4
<1>2. QED BY <1>1, FinalizationInvariant, PTL DEF Spec, DestructorsOutsideFinalizers
=============================================================================
