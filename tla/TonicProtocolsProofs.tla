------------------------ MODULE TonicProtocolsProofs ------------------------
(***************************************************************************)
(* Proofs about TonicProtocols, for any operations on any operands with    *)
(* any methods, any number of answers and any limit of arguments: the two  *)
(* paths of every protocol agree, what a suspended operation will use is   *)
(* rooted, and what the consumers of an iterator compute is right.         *)
(*                                                                         *)
(* The argument: a path is typed.  Continuations, functions to enter and   *)
(* ends have types over a context that says which values are reachable,    *)
(* which items were given and stored, and whether the answers so far have  *)
(* decided the operation; each function takes what has the type of its     *)
(* argument to a path of the type again.  An answer changes the context:   *)
(* what the guest path may use afterwards is what its ReturnAction traced. *)
(* The two paths enter the same functions with the same arguments at every *)
(* step, but for what a starred argument remembers of how it went on.      *)
(***************************************************************************)
EXTENDS TonicProtocols, FunctionTheorems, SequenceTheorems, WellFoundedInduction, TLAPS

-----------------------------------------------------------------------------
(* Contexts.  live: the values that a path may use; chosen: those that min *)
(* and max may answer; items: given so far; stored: by this path; hit: the *)
(* answers have decided a reduction or a membership test.                  *)

Live(R) == (R \cap Objects) \cup (Value \ Objects)

Context ==
  {w \in [live : SUBSET Value, chosen : SUBSET Value, items : Seq(Value), stored : Seq(Value), hit : BOOLEAN] :
     /\ Value \ Objects \subseteq w.live
     /\ scene.op = "extremum" => scene.config.default \in w.chosen}

Fresh(w) == w.items = <<>> /\ w.stored = <<>>

\* Operations that ResultsRight says something of.
Searches == scene.op \in {"in", "not in"} /\ ~operator_method_call(scene.args[1], "__contains__")

Judged ==
  \/ scene.op \in {"list", "tuple", "bytes", "unpack", "star", "any", "all", "extremum"}
  \/ Searches
  \/ scene.op = "class" /\ scene.init = "list"

Plain == ~Judged

-----------------------------------------------------------------------------
(* What is nested in continuations. *)

Iter(w) == Iterators \cap w.live

Picked(w) == w.live \cap w.chosen

Reduces(s) == scene.op \in {"any", "all"} /\ s.any = (scene.op = "any")

Tests(s) == Searches /\ s.needle = scene.args[2] /\ s.negate = (scene.op = "not in")

Orders(w) ==
  {a \in [act : {"SequenceOrder"}, left : Seq(w.live), right : Seq(w.live), index : Nat \ {0}] :
     Plain /\ a.index <= Len(a.left) /\ a.index <= Len(a.right)}

Memberships(w) ==
  {a \in [act : {"Membership"}, needle : w.live, iterator : Iter(w), negate : BOOLEAN] : Tests(a)}

Equalities(w) == {a \in [act : {"Return"}] : Plain} \cup Orders(w) \cup Memberships(w)

Configs(w) == {c \in {scene.config} : c.default \in w.live /\ (c.key => "a" \in w.live)}

Extrema(w) ==
  {s \in [act : {"ExtremumNext"}, iterator : Iter(w) \cup {Unbound}, values : Seq(Picked(w)), config : Configs(w),
          best : Picked(w) \cup {Unbound}, best_key : w.live] :
     scene.op = "extremum" /\ (s.iterator = Unbound <=> scene.args[1] = Unbound)}

Compared(w) == [act : {"Extremum"}, state : Extrema(w), item : Picked(w), key : w.live]

Equated(w) == [act : {"Equality"}, outer : Equalities(w)]

Reductions(w) == {a \in [act : {"BoolReduce"}, iterator : Iter(w), any : BOOLEAN] : Reduces(a)}

Truths(w) ==
  {a \in [act : {"Not", "Return"}] \cup [act : {"Jump"}, original : w.live] : Plain}
    \cup Equated(w) \cup Reductions(w) \cup Compared(w)

Completions(w) ==
  {c \in [act : {"Value"}] \cup [act : {"Sum"}, iterator : Iter(w)] : Plain} \cup Equated(w) \cup Compared(w)

\* An object of a class is initialised after its builtin value was made, unless the
\* initialiser is the one of the builtin type.
Finishes(w) ==
  {f \in [native : BOOLEAN, initialize : Seq(w.live)] :
     IF f.native THEN scene.op = "class" /\ "inst" \in w.live /\ (f.initialize # <<>> => scene.init # "list")
     ELSE f.initialize = <<>>}

Ranges(w) == [act : {"Range"}, values : Seq(w.live), next : Nat \ {0}]

Slices(w) == [act : {"Slice"}, owner : w.live, values : Seq(w.live), next : Nat \ {0}]

Targets(w) ==
  {to \in [act : {"Length", "Round"}] \cup [act : {"IntBase"}, argument : w.live, finish : Finishes(w)]
            \cup [act : {"GetItem", "DelItem"}, owner : w.live]
            \cup [act : {"SetItem"}, owner : w.live, value : w.live] : Plain}
    \cup {to \in Ranges(w) \cup Slices(w) : Plain /\ to.next <= Len(to.values)}
    \cup [act : {"IndexTruth"}, outer : Truths(w)]

-----------------------------------------------------------------------------
(* Continuations. *)

Operators ==
  {"__add__", "__radd__", "__iadd__", "__divmod__", "__rdivmod__", "__pow__", "__rpow__", "__eq__", "__ne__",
   "__lt__", "__gt__"}

OperatorNames == {"Add", "InplaceAdd", "Eq", "Ne", "Lt", "Gt", "DivMod", "PowMod"}

Candidates(w) == [m : Operators, x : w.live, args : Seq(w.live), negate : BOOLEAN]

BinaryCalls(w) ==
  {s \in [act : {"BinaryProtocol"}, op : OperatorNames, left : w.live, right : w.live, extra : Seq(w.live),
          candidates : Seq(Candidates(w)), negate : BOOLEAN, outer : Completions(w)] :
     /\ s.outer.act = "Equality" => s.op = "Eq" /\ s.left # s.right
     /\ s.op = "Eq" => \A i \in 1 .. Len(s.candidates) : s.candidates[i].m = "__eq__"}

TruthCalls(w) == [act : {"Truth"}, protocol : {"__bool__", "__len__"}, outer : Truths(w)]

IndexCalls(w) == [act : {"IndexConversion"}, outer : Targets(w)]

NumericCalls(w) == {k \in [act : {"NumericConversion"}, kind : {"__int__", "__float__", "index"},
                           finish : Finishes(w)] : Plain}

SumCalls(w) ==
  {k \in [act : {"SumIterStart"}, total : w.live] \cup [act : {"SumNext"}, iterator : Iter(w), total : w.live] : Plain}

AttributeCalls(w) ==
  {k \in [act : {"AttributeGet"}, owner : {"a"} \cap w.live, missing : w.live, phase : {"Primary", "Fallback"}] : Plain}

OtherCalls(w) ==
  {k \in [act : {"LengthResult", "Value", "Setter", "StringConversion", "FormatResult"}]
            \cup [act : {"UnaryProtocol"}, value : w.live] \cup [act : {"MembershipContains"}, negate : BOOLEAN]
            \cup [act : {"Initializer"}, instance : w.live] : Plain}

ReduceCalls(w) ==
  {k \in [act : {"BoolReduceIterStart"}, any : BOOLEAN]
            \cup [act : {"BoolReduceNext"}, iterator : Iter(w), any : BOOLEAN] : Reduces(k)}

MembershipCalls(w) ==
  {k \in [act : {"MembershipIterStart"}, needle : w.live, negate : BOOLEAN]
            \cup [act : {"MembershipNext"}, needle : w.live, iterator : Iter(w), negate : BOOLEAN] : Tests(k)}

ExtremumCalls(w) ==
  {k \in [act : {"ExtremumIterStart"}, config : Configs(w)] : scene.op = "extremum" /\ scene.args[1] # Unbound}
    \cup {s \in Extrema(w) : s.iterator # Unbound}
    \cup [act : {"ExtremumKey"}, state : Extrema(w), item : Picked(w)]

\* Who collects the items of an iterator, and what for.
Collects(k, w) ==
  \/ k.kind \in {"list", "tuple", "bytes", "unpack"} /\ k.kind = scene.op /\ ~k.finish.native
  \/ /\ k.kind \in {"list", "tuple", "bytes"} /\ scene.op = "class" /\ scene.new = "object" /\ k.finish.native
     /\ scene.native = k.kind
  \/ /\ k.kind = "ListInit" /\ scene.op = "class" /\ scene.init = "list" /\ scene.new = "program"
     /\ ~k.finish.native /\ "inst" \in w.live

Kinds == {"list", "tuple", "bytes", "unpack", "ListInit"}

Collections(w) ==
  {k \in [act : {"CollectIterableNext"}, kind : Kinds, finish : Finishes(w), iterator : Iter(w),
          items : Seq(w.live)] :
     Collects(k, w) /\ k.items = IF k.kind = "ListInit" THEN <<>> ELSE w.items}

CollectCalls(w) ==
  {k \in [act : {"CollectIterableStart"}, kind : Kinds, finish : Finishes(w)] : Collects(k, w) /\ Fresh(w)}
    \cup {k \in Collections(w) : k.kind = "ListInit" => w.stored = w.items}

Expansions(w) ==
  {k \in [act : {"ExpandIterableNext"}, iterator : Iter(w), resume : BOOLEAN, sync : BOOLEAN] :
     /\ scene.op = "star" /\ (k.resume => scene.deferred)
     /\ k.iterator = "it" => operator_method_call(scene.args[1], "__iter__")}

ExpandCalls(w) ==
  {k \in [act : {"ExpandIterableStart"}, resume : {scene.deferred}] :
     scene.op = "star" /\ operator_method_call(scene.args[1], "__iter__") /\ Fresh(w)}
    \cup {k \in Expansions(w) : w.stored = w.items}

NewCalls(w) ==
  {k \in [act : {"New"}, args : Seq(w.live)] :
     scene.op = "class" /\ scene.new = "program" /\ "inst" \in w.live /\ Fresh(w)}

Continuations(w) ==
  TruthCalls(w) \cup IndexCalls(w) \cup BinaryCalls(w) \cup NumericCalls(w) \cup SumCalls(w) \cup AttributeCalls(w)
    \cup OtherCalls(w) \cup ReduceCalls(w) \cup MembershipCalls(w) \cup ExtremumCalls(w) \cup CollectCalls(w)
    \cup ExpandCalls(w) \cup NewCalls(w)

-----------------------------------------------------------------------------
(* Paths. *)

Getters == {"__getattribute__", "__getattr__", "getter", "__get__"}

\* The method that a continuation waits for, and how it runs.
Asks(k, m, how) ==
  /\ IF k.act \in Items
     THEN <<m, how>> = CASE k.iterator = "gen" -> <<"resume", "frame">>
                         [] k.iterator = "items" -> <<"next", "sync">>
                         [] k.iterator = "seqit" -> <<"item", "sync">>
                         [] OTHER -> <<"__next__", "method">>
     ELSE how = "method" /\ m \notin IteratorEnds
  /\ k.act = "AttributeGet" <=> m \in Getters
  /\ k.act \in Starts => m = "__iter__"
  /\ k.act = "Initializer" => m = "__init__"
  /\ k.act = "Truth" => m = k.protocol
  /\ k.act = "IndexConversion" => m = "__index__"
  /\ k.act = "BinaryProtocol" => m \in Operators /\ (k.op = "Eq" => m = "__eq__")
  /\ k.act \in {"New", "ExtremumKey"} => m \in {"__new__", "key"}

Asking(c, w) ==
  /\ c.at = "call" /\ c = Waiting(c.m, c.x, c.args, c.how, c.k)
  /\ c.x \in w.live /\ c.args \in Seq(w.live) /\ c.k \in Continuations(w)
  /\ ~w.hit /\ Asks(c.k, c.m, c.how)

\* A result that ResultsRight accepts.
Right(c, w) ==
  /\ scene.op \in {"list", "tuple", "bytes", "unpack"} => c.items = w.items
  /\ scene.op = "class" /\ scene.init = "list" /\ c.value = "inst" =>
       w.items = IF scene.new = "program" THEN w.stored ELSE c.items
  /\ scene.op = "star" => w.stored = w.items
  /\ scene.op = "any" => c.value = Bool(w.hit)
  /\ scene.op = "all" => c.value = Bool(~w.hit)
  /\ Searches => c.value = Bool(w.hit # (scene.op = "not in"))
  /\ scene.op = "extremum" => c.value \in w.chosen

Ends(w) == {c \in [at : {"done"}, value : w.live, items : Seq(w.live), jump : BOOLEAN] : Right(c, w)}

Failed(c) == c.at = "error" /\ c = [at |-> "error", kind |-> c.kind, escapes |-> c.escapes] /\ c.escapes \in BOOLEAN

Pushes(w) ==
  {c \in [at : {"push"}, value : w.live, f : {"continue_iterable_collection"}, s : Collections(w)] :
     ~w.hit /\ c.s.kind = "ListInit" /\ w.items = Append(w.stored, c.value)}
    \cup {c \in [at : {"push"}, value : w.live, f : {"continue_argument_expansion"}, s : Expansions(w)] :
            ~w.hit /\ w.items = Append(w.stored, c.value)}

\* The values that are finished by the constructor of an object.
Built(w) ==
  {s \in [value : w.live, finish : Finishes(w)] : Plain}
    \cup {s \in [value : {"list", "tuple", "bytes"}, items : {w.items} \cap Seq(w.live), finish : Finishes(w)] :
            Collects([kind |-> s.value, finish |-> s.finish], w)}

\* What a function of the interpreter may be entered with.
Ready(f, s, w) ==
  \/ f = "begin" /\ Fresh(w) /\ ~w.hit /\ w.live = Value /\ {scene.args[i] : i \in 2 .. Len(scene.args)} \subseteq w.chosen
  \/ /\ f = "complete_equality" /\ s \in [equal : BOOLEAN, action : Equalities(w)]
     /\ w.hit = (s.action.act = "Membership" /\ s.equal)
  \/ /\ f = "invoke_equality_fallback" /\ s \in [left : w.live, right : w.live, action : Equalities(w)]
     /\ ~w.hit /\ s.left # s.right
  \/ f = "next_index" /\ s \in Ranges(w) \cup Slices(w) /\ s.next <= Len(s.values) + 1 /\ Plain /\ ~w.hit
  \/ f = "continue_sum" /\ s \in [iterator : Iter(w), total : w.live] /\ Plain /\ ~w.hit
  \/ /\ f = "finish_bool_reduce_truth" /\ s \in [truth : BOOLEAN, state : Reductions(w)]
     /\ w.hit = (s.truth = s.state.any)
  \/ f = "continue_extremum" /\ s \in Extrema(w) /\ ~w.hit
  \/ f = "finish_extremum_truth" /\ s \in [truth : BOOLEAN, candidate : Compared(w)] /\ ~w.hit
  \/ f = "continue_membership" /\ s \in Memberships(w) /\ ~w.hit
  \/ f = "continue_iterable_collection" /\ s \in CollectCalls(w) /\ s.act = "CollectIterableNext" /\ ~w.hit
  \/ f = "continue_argument_expansion" /\ s \in ExpandCalls(w) /\ s.act = "ExpandIterableNext" /\ ~w.hit
  \/ f = "finish_builtin_value" /\ s \in Built(w) /\ ~w.hit

\* Where a path may be.
Typed(c, w) ==
  \/ c \in Ends(w) \cup Pushes(w)
  \/ Failed(c)
  \/ Asking(c, w)
  \/ c.at = "do" /\ c = Do(c.f, c.s) /\ Ready(c.f, c.s, w)

\* Whether a truth of what the action is for decides it, as the answers have.
Decides(truth, action, w) ==
  w.hit = (\/ action.act = "BoolReduce" /\ truth = action.any
           \/ action.act = "Equality" /\ action.outer.act = "Membership" /\ truth)

\* What the truth of a value decides once it is known.
TruthDecides(x, action, w) ==
  IF truth_protocol_call(x) = "none" THEN Decides(HeapTruth(x), action, w) ELSE ~w.hit

-----------------------------------------------------------------------------
(* The context that a state gives to a path. *)

Hit ==
  CASE scene.op = "any" -> Says(TRUE)
    [] scene.op = "all" -> Says(FALSE)
    [] Searches -> Finds
    [] OTHER -> FALSE

ContextOf(p) ==
  [live |-> IF p = "guest" THEN Live(roots) ELSE Value,
   chosen |-> {given[i] : i \in 1 .. Len(given)} \cup {scene.args[i] : i \in 2 .. Len(scene.args)}
                \cup {scene.config.default},
   items |-> given, stored |-> stored[p], hit |-> Hit]

PathTyped(p) == \A c \in {side[p]}, w \in {ContextOf(p)} : w \in Context /\ Typed(c, w)

PathsTyped == \A p \in Sides : PathTyped(p)

-----------------------------------------------------------------------------
(* Facts about contexts and the ends of functions. *)

LEMMA Worlds ==
  ASSUME NEW w \in Context
  PROVE  /\ w.live \subseteq Value /\ w.chosen \subseteq Value
         /\ Integer \subseteq w.live /\ Boolean \subseteq w.live /\ Names \subseteq w.live
         /\ w.items \in Seq(Value) /\ w.stored \in Seq(Value) /\ w.hit \in BOOLEAN
<1>1. (Integer \cup Boolean \cup Names) \cap Objects = {}
  BY DEF Integer, Boolean, Names, Objects
<1>2. Integer \cup Boolean \cup Names \subseteq Value
  BY DEF Value
<1>3. Integer \cup Boolean \cup Names \subseteq Value \ Objects
  BY <1>1, <1>2
<1> QED
  BY <1>3 DEF Context

LEMMA SceneFields ==
  ASSUME scene \in Scene
  PROVE  /\ scene.op \in Unary \cup Binary \cup Ternary /\ scene.args \in Seq(Value) /\ scene.against \in Seq(Value)
         /\ scene.has \in [{"a", "b", "it"} -> SUBSET Methods]
         /\ scene.config \in [is_max : BOOLEAN, key : BOOLEAN, default : Value] /\ scene.deferred \in BOOLEAN
         /\ scene.new \in {"object", "program"} /\ scene.init \in {"object", "list", "program"}
         /\ scene.native \in {"none", "int", "float", "list", "tuple", "bytes"}
         /\ scene.attr \in {"value", "property", "descriptor", "absent"}
         /\ Len(scene.args) \in Nat /\ Len(scene.args) >= 1
         /\ scene.op \in Binary \cup Ternary => Len(scene.args) >= 2
         /\ scene.op \in Ternary => Len(scene.args) >= 3
         /\ scene.init = "list" => scene.native = "list"
<1>1. Ternary \cap Binary = {} /\ Ternary \cap Unary = {} /\ Binary \cap Unary = {}
  BY DEF Unary, Binary, Ternary
<1> QED
  BY <1>1 DEF Scene

\* Every value but the operands is without methods.
LEMMA NoMethods ==
  ASSUME scene \in Scene, NEW x, x \notin {"a", "b", "it"}
  PROVE  /\ \A m : ~operator_method_call(x, m)
         /\ truth_protocol_call(x) = "none" /\ ~operator_protocol_capable(x)
BY SceneFields DEF operator_method_call, truth_protocol_call, operator_protocol_capable

LEMMA NoneDecided ==
  ASSUME NEW w \in Context, ~w.hit, NEW x, NEW action, action.act \notin {"BoolReduce", "Equality"}
  PROVE  TruthDecides(x, action, w)
BY Worlds DEF TruthDecides, Decides

\* A property that fails for a natural number fails for a least one.
LEMMA LeastNatural ==
  ASSUME NEW T \in SUBSET Nat, T # {}
  PROVE  \E n \in T : \A m \in T : n <= m
<1> DEFINE R == OpToRel(<, Nat)
<1>1. IsWellFoundedOn(R, Nat)
  BY NatLessThanWellFounded
<1>2. \A m, n \in T : m < n => <<m, n>> \in R
  BY DEF OpToRel
<1> HIDE DEF R
<1>3. PICK n \in T : \A m \in T : ~(<<m, n>> \in R)
  BY <1>1, WFMin
<1>4. \A m \in T : ~(m < n)
  BY <1>2, <1>3
<1>5. \A m \in T : m \in Nat /\ n \in Nat
  OBVIOUS
<1>6. \A m \in T : n <= m
  BY <1>4, <1>5
<1> QED
  BY <1>6

LEMMA Tuples ==
  ASSUME NEW S, NEW a \in S
  PROVE  /\ << >> \in Seq(S) /\ << a >> \in Seq(S)
         /\ \A b \in S : << a, b >> \in Seq(S)
         /\ \A b, c \in S : << a, b, c >> \in Seq(S)
OBVIOUS

LEMMA Ending ==
  ASSUME NEW w \in Context, NEW v \in w.live, NEW items \in Seq(w.live), NEW jump \in BOOLEAN,
         Right([value |-> v, items |-> items], w)
  PROVE  Typed(Result(v, items, jump), w)
<1>1. Result(v, items, jump) \in Ends(w)
  BY DEF Ends, Result, Right
<1> QED
  BY <1>1 DEF Typed

LEMMA PlainEnd ==
  ASSUME NEW w \in Context, Plain, NEW v \in w.live
  PROVE  /\ Typed(Done(v), w)
         /\ \A items \in Seq(w.live), jump \in BOOLEAN : Typed(Result(v, items, jump), w)
<1>1. \A items : Right([value |-> v, items |-> items], w)
  BY DEF Right, Plain, Judged
<1>2. << >> \in Seq(w.live)
  OBVIOUS
<1> QED
  BY <1>1, <1>2, Ending DEF Done

LEMMA Failing == ASSUME NEW w PROVE \A kind : Typed(Err(kind), w)
BY DEF Typed, Failed, Err

LEMMA Entering ==
  ASSUME NEW w, NEW f, NEW s, Ready(f, s, w)
  PROVE  Typed(Do(f, s), w)
BY DEF Typed, Do

LEMMA Suspended ==
  ASSUME NEW w, ~w.hit, NEW m, NEW x \in w.live, NEW args \in Seq(w.live), NEW how,
         NEW k \in Continuations(w), Asks(k, m, how)
  PROVE  Typed(Waiting(m, x, args, how, k), w)
BY DEF Typed, Asking, Waiting

-----------------------------------------------------------------------------
(* Truth. *)

LEMMA Truth ==
  ASSUME scene \in Scene, NEW w \in Context, NEW action \in Truths(w), NEW truth \in BOOLEAN,
         Decides(truth, action, w)
  PROVE  Typed(apply_truth(truth, action), w)
<1>1. /\ Bool(truth) \in w.live /\ Bool(~truth) \in w.live
      /\ << >> \in Seq(w.live)
  BY Worlds DEF Bool, Boolean
<1>2. CASE action.act \in {"Not", "Return"}
  <2>1. Plain
    BY <1>2 DEF Truths, Equated, Reductions, Compared
  <2> QED
    BY <1>1, <1>2, <2>1, PlainEnd DEF apply_truth
<1>3. CASE action.act = "Jump"
  <2>1. Plain /\ action.original \in w.live
    BY <1>3 DEF Truths, Equated, Reductions, Compared
  <2>2. apply_truth(truth, action) = Result(action.original, <<>>, truth)
    BY <1>3 DEF apply_truth
  <2> QED
    BY <1>1, <2>1, <2>2, PlainEnd
<1>4. CASE action.act = "Equality"
  <2>1. action.outer \in Equalities(w)
    BY <1>4 DEF Truths, Equated, Reductions, Compared
  <2>2. w.hit = (action.outer.act = "Membership" /\ truth)
    BY <1>4 DEF Decides
  <2>3. Ready("complete_equality", [equal |-> truth, action |-> action.outer], w)
    BY <2>1, <2>2 DEF Ready
  <2> QED
    BY <1>4, <2>3, Entering DEF apply_truth
<1>5. CASE action.act = "BoolReduce"
  <2>1. action \in Reductions(w)
    BY <1>5 DEF Truths, Equated, Compared
  <2>2. Ready("finish_bool_reduce_truth", [truth |-> truth, state |-> action], w)
    BY <1>5, <2>1 DEF Ready, Decides
  <2> QED
    BY <1>5, <2>2, Entering DEF apply_truth
<1>6. CASE action.act = "Extremum"
  <2>1. action \in Compared(w) /\ ~w.hit
    BY <1>6 DEF Truths, Equated, Reductions, Decides
  <2>2. Ready("finish_extremum_truth", [truth |-> truth, candidate |-> action], w)
    BY <2>1 DEF Ready
  <2> QED
    BY <1>6, <2>2, Entering DEF apply_truth
<1> QED
  BY <1>2, <1>3, <1>4, <1>5, <1>6 DEF Truths, Equated, Reductions, Compared

LEMMA TruthCall ==
  ASSUME scene \in Scene, NEW w \in Context, NEW action \in Truths(w), NEW x \in w.live, ~w.hit,
         NEW protocol \in {"__bool__", "__len__"}
  PROVE  Typed(invoke_truth_protocol_call(x, protocol, action), w)
<1> DEFINE k == [act |-> "Truth", protocol |-> protocol, outer |-> action]
<1>1. k \in TruthCalls(w)
  BY DEF TruthCalls
<1>2. k \in Continuations(w)
  BY <1>1 DEF Continuations
<1>3. Asks(k, protocol, "method")
  BY DEF Asks, Items, Starts, IteratorEnds, Getters
<1>4. << >> \in Seq(w.live)
  OBVIOUS
<1> HIDE DEF k
<1>5. Typed(Waiting(protocol, x, <<>>, "method", k), w)
  BY <1>2, <1>3, <1>4, Suspended
<1> QED
  BY <1>5 DEF invoke_truth_protocol_call, Call, k

LEMMA TruthOf ==
  ASSUME scene \in Scene, NEW w \in Context, NEW action \in Truths(w), NEW x \in w.live,
         TruthDecides(x, action, w)
  PROVE  Typed(invoke_truth(x, action), w)
<1>1. CASE truth_protocol_call(x) = "none"
  BY <1>1, Truth DEF invoke_truth, TruthDecides, HeapTruth
<1>2. CASE truth_protocol_call(x) # "none"
  <2>1. truth_protocol_call(x) \in {"__bool__", "__len__"}
    BY <1>2 DEF truth_protocol_call
  <2> QED
    BY <1>2, <2>1, TruthCall DEF invoke_truth, TruthDecides
<1> QED
  BY <1>1, <1>2

-----------------------------------------------------------------------------
(* Indices. *)

LEMMA Normal ==
  ASSUME NEW x \in Integer \cup Boolean
  PROVE  /\ normalize_index_result(x) \in Integer
         /\ normalize_index_result(normalize_index_result(x)) = normalize_index_result(x)
BY DEF normalize_index_result, Integer, Boolean

\* What the truth of an index decides.
IndexDecides(x, to, w) ==
  IF to.act = "IndexTruth" /\ Rank(normalize_index_result(x)) >= 0
  THEN Decides(normalize_index_result(x) # "n0", to.outer, w) ELSE ~w.hit

LEMMA TargetCases ==
  ASSUME NEW w \in Context, NEW to \in Targets(w)
  PROVE  \/ to \in [act : {"IndexTruth"}, outer : Truths(w)]
         \/ Plain /\ to \in Ranges(w) \cup Slices(w) /\ to.next <= Len(to.values)
         \/ Plain /\ to \in [act : {"IntBase"}, argument : w.live, finish : Finishes(w)]
         \/ /\ Plain
            /\ to \in [act : {"Length", "Round"}] \cup [act : {"GetItem", "DelItem"}, owner : w.live]
                        \cup [act : {"SetItem"}, owner : w.live, value : w.live]
BY DEF Targets

LEMMA Index ==
  ASSUME scene \in Scene, NEW w \in Context, NEW to \in Targets(w), NEW x \in w.live,
         x \in Integer \cup Boolean => IndexDecides(x, to, w)
  PROVE  Typed(finish_index_conversion(x, [act |-> "IndexConversion", outer |-> to]), w)
<1> DEFINE value == normalize_index_result(x)
           k == [act |-> "IndexConversion", outer |-> to]
<1>1. CASE x \notin Integer \cup Boolean
  BY <1>1, Failing DEF finish_index_conversion, UseIndex
<1>2. CASE x \in Integer \cup Boolean
  <2>1. value \in Integer /\ value \in w.live /\ normalize_index_result(value) = value
    BY <1>2, Normal, Worlds
  <2>2. CASE to \in [act : {"IndexTruth"}, outer : Truths(w)]
    <3>1. CASE Rank(value) < 0
      BY <1>2, <2>2, <3>1, Failing DEF finish_index_conversion, UseIndex
    <3>2. CASE ~(Rank(value) < 0)
      <4>1. Rank(value) >= 0
        BY <2>1, <3>2 DEF Rank, Integer
      <4>2. finish_index_conversion(x, k) = apply_truth(value # "n0", to.outer)
        BY <1>2, <2>2, <3>2 DEF finish_index_conversion, UseIndex
      <4>3. Decides(value # "n0", to.outer, w)
        BY <1>2, <2>2, <4>1 DEF IndexDecides
      <4> QED
        BY <2>2, <4>2, <4>3, Truth
    <3> QED
      BY <3>1, <3>2
  <2>3. CASE Plain /\ to \in Ranges(w) \cup Slices(w) /\ to.next <= Len(to.values)
    <3> DEFINE s == [to EXCEPT !.values[to.next] = value, !.next = @ + 1]
    <3>1. finish_index_conversion(x, k) = Do("next_index", s)
      BY <1>2, <2>3 DEF finish_index_conversion, UseIndex, Ranges, Slices
    <3>2. to.values \in Seq(w.live) /\ to.next \in Nat \ {0} /\ to.next \in 1 .. Len(to.values) /\ ~w.hit
      BY <1>2, <2>3 DEF Ranges, Slices, IndexDecides
    <3>3. /\ [to.values EXCEPT ![to.next] = value] \in Seq(w.live)
          /\ Len([to.values EXCEPT ![to.next] = value]) = Len(to.values)
      BY <2>1, <3>2
    <3>4. /\ s \in Ranges(w) \cup Slices(w)
          /\ s.next = to.next + 1 /\ s.values = [to.values EXCEPT ![to.next] = value]
      <4> DEFINE t == [to EXCEPT !.values[to.next] = value]
      <4>1. t \in Ranges(w) \cup Slices(w) /\ t.next = to.next /\ t.values = [to.values EXCEPT ![to.next] = value]
        BY <2>3, <3>3 DEF Ranges, Slices
      <4>2. s = [t EXCEPT !.next = @ + 1]
        BY <2>3 DEF Ranges, Slices
      <4> HIDE DEF t, s
      <4>3. t.next + 1 \in Nat \ {0}
        BY <3>2, <4>1
      <4> QED
        BY <4>1, <4>2, <4>3 DEF Ranges, Slices
    <3>5. Ready("next_index", s, w)
      <4>1. s.next <= Len(s.values) + 1
        BY <3>2, <3>3, <3>4
      <4> HIDE DEF s
      <4> QED
        BY <2>3, <3>2, <3>4, <4>1 DEF Ready
    <3> QED
      BY <3>1, <3>5, Entering
  <2>4. CASE Plain /\ to \in [act : {"IntBase"}, argument : w.live, finish : Finishes(w)]
    <3>1. finish_index_conversion(x, k) = finish_int_base(value, to)
      BY <1>2, <2>4 DEF finish_index_conversion, UseIndex
    <3>2. [value |-> "n1", finish |-> to.finish] \in Built(w) /\ ~w.hit
      BY <1>2, <2>4, Worlds DEF Built, Integer, IndexDecides
    <3>3. Ready("finish_builtin_value", [value |-> "n1", finish |-> to.finish], w)
      BY <3>2 DEF Ready
    <3> QED
      BY <3>1, <3>3, Entering, Failing DEF finish_int_base
  <2>5. CASE /\ Plain
             /\ to \in [act : {"Length", "Round"}] \cup [act : {"GetItem", "DelItem"}, owner : w.live]
                         \cup [act : {"SetItem"}, owner : w.live, value : w.live]
    <3>1. "n1" \in w.live /\ "None" \in w.live
      BY Worlds DEF Integer, Names
    <3>2. Typed(Done("n1"), w) /\ Typed(Done(value), w) /\ Typed(Err("ValueError"), w)
      BY <2>1, <2>5, <3>1, PlainEnd, Failing
    <3>3. CASE to.act \in {"Length", "Round", "GetItem"}
      BY <1>2, <2>1, <2>5, <3>2, <3>3 DEF finish_index_conversion, UseIndex, validate_length
    <3>4. CASE to.act = "DelItem"
      <4> HIDE DEF value
      <4>0. to.owner \in w.live
        BY <2>5, <3>4
      <4>1. <<to.owner, value>> \in Seq(w.live)
        BY <2>1, <4>0, Tuples
      <4>2. finish_index_conversion(x, k) = Result("None", <<to.owner, value>>, FALSE)
        BY <1>2, <3>4 DEF finish_index_conversion, UseIndex, value
      <4> QED
        BY <2>5, <3>1, <4>1, <4>2, PlainEnd
    <3>5. CASE to.act = "SetItem"
      <4> HIDE DEF value
      <4>0. to.owner \in w.live /\ to.value \in w.live
        BY <2>5, <3>5
      <4>1. <<to.owner, value, to.value>> \in Seq(w.live)
        BY <2>1, <4>0, Tuples
      <4>2. finish_index_conversion(x, k) = Result("None", <<to.owner, value, to.value>>, FALSE)
        BY <1>2, <3>5 DEF finish_index_conversion, UseIndex, value
      <4> QED
        BY <2>5, <3>1, <4>1, <4>2, PlainEnd
    <3> QED
      BY <2>5, <3>3, <3>4, <3>5
  <2> QED
    BY <2>2, <2>3, <2>4, <2>5, TargetCases
<1> QED
  BY <1>1, <1>2

LEMMA IndexCall ==
  ASSUME scene \in Scene, NEW w \in Context, NEW to \in Targets(w), NEW x \in w.live,
         IF x \in Integer \cup Boolean THEN IndexDecides(x, to, w) ELSE ~w.hit
  PROVE  Typed(invoke_index_conversion(x, to), w)
<1> DEFINE k == [act |-> "IndexConversion", outer |-> to]
<1>1. CASE x \in Integer \cup Boolean
  <2>1. Typed(finish_index_conversion(x, k), w)
    BY <1>1, Index
  <2> QED
    BY <1>1, <2>1 DEF invoke_index_conversion
<1>2. CASE x \notin Integer \cup Boolean
  <2>1. k \in Continuations(w)
    BY DEF Continuations, IndexCalls
  <2>2. Asks(k, "__index__", "method")
    BY DEF Asks, Items, Starts, IteratorEnds, Getters
  <2> HIDE DEF k
  <2>3. Typed(Call("__index__", x, <<>>, k), w)
    BY <1>2, <2>1, <2>2, Suspended, Tuples DEF Call
  <2> QED
    BY <1>2, <2>3, Failing DEF invoke_index_conversion, k
<1> QED
  BY <1>1, <1>2

LEMMA PlainIndex ==
  ASSUME scene \in Scene, NEW w \in Context, ~w.hit, NEW to \in Targets(w), to.act # "IndexTruth", NEW x \in w.live
  PROVE  Typed(invoke_index_conversion(x, to), w)
BY IndexCall DEF IndexDecides

LEMMA RangeConstruction ==
  ASSUME scene \in Scene, NEW w \in Context, ~w.hit, Plain, NEW s \in Ranges(w)
  PROVE  Typed(continue_range_construction(s), w)
<1>1. CASE s.next <= Len(s.values)
  <2>1. s \in Targets(w) /\ s.act # "IndexTruth" /\ s.values[s.next] \in w.live
    BY <1>1 DEF Targets, Ranges
  <2> QED
    BY <1>1, <2>1, PlainIndex DEF continue_range_construction
<1>2. CASE ~(s.next <= Len(s.values))
  <2>1. "range" \in w.live /\ s.values \in Seq(w.live)
    BY Worlds DEF Names, Ranges
  <2>2. Typed(Result("range", s.values, FALSE), w)
    BY <2>1, PlainEnd
  <2> QED
    BY <1>2, <2>2, Failing DEF continue_range_construction
<1> QED
  BY <1>1, <1>2

LEMMA SliceConversion ==
  ASSUME scene \in Scene, NEW w \in Context, ~w.hit, Plain, NEW s \in Slices(w)
  PROVE  Typed(continue_slice_conversion(s), w)
<1> DEFINE left == {i \in s.next .. Len(s.values) : s.values[i] # "None"}
           next == CHOOSE i \in left : \A j \in left : i <= j
<1>1. s.values \in Seq(w.live) /\ Len(s.values) \in Nat /\ s.next \in Nat \ {0}
  BY DEF Slices
<1>2. CASE left = {}
  <2>1. Typed(Result("n1", s.values, FALSE), w)
    BY <1>1, Worlds, PlainEnd DEF Integer
  <2> QED
    BY <1>2, <2>1 DEF continue_slice_conversion
<1>3. CASE left # {}
  <2>1. left \in SUBSET Nat
    BY <1>1
  <2>2. next \in left
    <3> HIDE DEF left
    <3>1. \E i \in left : \A j \in left : i <= j
      BY <1>3, <2>1, LeastNatural
    <3> QED
      BY <3>1
  <2>3. next \in 1 .. Len(s.values)
    BY <1>1, <2>2
  <2>4. continue_slice_conversion(s) = invoke_index_conversion(s.values[next], [s EXCEPT !.next = next])
    BY <1>3 DEF continue_slice_conversion
  <2> HIDE DEF next
  <2>5. /\ [s EXCEPT !.next = next] \in Slices(w)
        /\ [s EXCEPT !.next = next].next <= Len([s EXCEPT !.next = next].values)
        /\ [s EXCEPT !.next = next].act = "Slice"
    BY <2>3 DEF Slices
  <2>6. [s EXCEPT !.next = next] \in Targets(w)
    BY <2>5 DEF Targets
  <2>7. s.values[next] \in w.live
    BY <1>1, <2>3
  <2> QED
    BY <2>4, <2>5, <2>6, <2>7, PlainIndex
<1> QED
  BY <1>2, <1>3

LEMMA LengthOf ==
  ASSUME scene \in Scene, NEW w \in Context, ~w.hit, Plain, NEW x \in w.live
  PROVE  Typed(finish_length(x), w)
<1>1. CASE x \in Integer \cup Boolean
  <2>1. normalize_index_result(x) \in w.live
    BY <1>1, Normal, Worlds
  <2> QED
    BY <1>1, <2>1, PlainEnd, Failing DEF finish_length, validate_length
<1>2. CASE x \notin Integer \cup Boolean
  <2>1. [act |-> "Length"] \in Targets(w)
    BY DEF Targets
  <2>2. Typed(invoke_index_conversion(x, [act |-> "Length"]), w)
    BY <2>1, PlainIndex
  <2> QED
    BY <1>2, <2>2 DEF finish_length
<1> QED
  BY <1>1, <1>2

\* A call whose continuation is none of those that iterate, look attributes up or convert.
LEMMA OtherCall ==
  ASSUME NEW w \in Context, ~w.hit, NEW k \in OtherCalls(w), k.act # "Initializer", NEW m, NEW x \in w.live,
         NEW args \in Seq(w.live), m \notin IteratorEnds \cup Getters
  PROVE  Typed(Call(m, x, args, k), w)
<1>1. Asks(k, m, "method")
  BY DEF Asks, OtherCalls, Items, Starts
<1>2. k \in Continuations(w)
  BY DEF Continuations
<1> QED
  BY <1>1, <1>2, Suspended DEF Call

LEMMA LenCall ==
  ASSUME scene \in Scene, NEW w \in Context, ~w.hit, Plain, NEW x \in w.live
  PROVE  Typed(InvokeLen(x), w)
<1>1. [act |-> "LengthResult"] \in OtherCalls(w)
  BY DEF OtherCalls
<1>2. Typed(Call("__len__", x, <<>>, [act |-> "LengthResult"]), w)
  BY <1>1, OtherCall, Tuples DEF IteratorEnds, Getters
<1> QED
  BY <1>2, Failing DEF InvokeLen

-----------------------------------------------------------------------------
(* What an answer decides. *)

Tells(m, v, truth) ==
  \/ m = "__bool__" /\ v = Bool(truth)
  \/ m \in IteratorEnds /\ scene.op \in {"any", "all"} /\ v = "n0" /\ ~truth
  \/ m \in IteratorEnds /\ scene.op \in {"any", "all"} /\ v = "b" /\ ~HasTruth /\ truth
  \/ m = "__len__" /\ v \in {"n0", "n1"} /\ (v = "n1") = truth
  \/ m = "__index__" /\ v \in {"n0", "n1", "True"} /\ (v # "n0") = truth

Matches(m, v) ==
  \/ m \in IteratorEnds /\ v = scene.args[2]
  \/ m = "__eq__" /\ v = "True"
  \/ m = "__eq__" /\ v = "b" /\ ~HasTruth
  \/ Tells(m, v, TRUE)

HitBy(m, v) ==
  \/ scene.op = "any" /\ Tells(m, v, TRUE)
  \/ scene.op = "all" /\ Tells(m, v, FALSE)
  \/ Searches /\ Matches(m, v)

LEMMA TruthAnswer ==
  ASSUME scene \in Scene, NEW w \in Context, NEW action \in Truths(w), NEW m, NEW v, NEW truth \in BOOLEAN,
         m \in {"__bool__", "__len__", "__index__"}, w.hit = HitBy(m, v),
         Tells(m, v, truth), ~Tells(m, v, ~truth)
  PROVE  Decides(truth, action, w)
<1>1. m # "__eq__" /\ m \notin IteratorEnds
  BY DEF IteratorEnds
<1>2. CASE action \in Reductions(w)
  BY <1>1, <1>2 DEF Reductions, Reduces, HitBy, Decides, Searches
<1>3. CASE action \in Equated(w) /\ action.outer \in Memberships(w)
  <2>1. Searches /\ scene.op \notin {"any", "all"}
    BY <1>3 DEF Memberships, Tests, Searches
  <2>2. w.hit = truth
    BY <1>1, <2>1 DEF HitBy, Matches
  <2> QED
    BY <1>3, <2>2 DEF Equated, Memberships, Decides
<1>4. CASE action \in Compared(w)
  <2>1. scene.op = "extremum"
    BY <1>4 DEF Compared, Extrema
  <2> QED
    BY <1>4, <2>1 DEF HitBy, Searches, Decides, Compared
<1>5. CASE Plain
  <2>1. ~w.hit
    BY <1>5 DEF Plain, Judged, HitBy
  <2>2. action \notin Reductions(w)
    BY <1>5 DEF Plain, Judged, Reductions, Reduces
  <2>3. action \in Equated(w) => action.outer \notin Memberships(w)
    BY <1>5 DEF Plain, Judged, Memberships, Tests
  <2>4. action.act # "BoolReduce"
    BY <2>2 DEF Truths, Equated, Compared
  <2>5. action.act = "Equality" => action \in Equated(w) /\ action.outer \in Equalities(w)
    BY <2>2 DEF Truths, Equated, Compared
  <2>6. action.act = "Equality" => action.outer.act # "Membership"
    BY <2>3, <2>5 DEF Equalities, Orders
  <2>7. ~(\/ action.act = "BoolReduce" /\ truth = action.any
          \/ action.act = "Equality" /\ action.outer.act = "Membership" /\ truth)
    BY <2>4, <2>6
  <2> QED
    BY <2>1, <2>7, Worlds DEF Decides
<1> QED
  BY <1>2, <1>3, <1>4, <1>5 DEF Truths, Equated, Equalities, Orders

-----------------------------------------------------------------------------
(* What follows the answer of a truth method. *)

LEMMA TruthValues ==
  ASSUME NEW m, NEW v, NEW truth \in BOOLEAN
  PROVE  /\ m = "__bool__" => (Tells(m, v, truth) <=> v = Bool(truth))
         /\ m = "__len__" => (Tells(m, v, truth) <=> v \in {"n0", "n1"} /\ (v = "n1") = truth)
         /\ m = "__index__" => (Tells(m, v, truth) <=> v \in {"n0", "n1", "True"} /\ (v # "n0") = truth)
BY DEF Tells, IteratorEnds

LEMMA TruthCallCases ==
  ASSUME NEW w \in Context, NEW k \in TruthCalls(w)
  PROVE  k.act = "Truth" /\ k.protocol \in {"__bool__", "__len__"} /\ k.outer \in Truths(w)
BY DEF TruthCalls

\* No answer but one of a truth, of an iterator or of an equality decides anything.
LEMMA Undecided ==
  ASSUME NEW m, NEW v, m \notin IteratorEnds \cup {"__bool__", "__len__", "__index__", "__eq__"}
  PROVE  ~HitBy(m, v)
BY DEF HitBy, Matches, Tells

LEMMA TruthAnswered ==
  ASSUME scene \in Scene, NEW w \in Context, NEW k \in TruthCalls(w), NEW v \in w.live \cap Answers(k.protocol),
         w.hit = HitBy(k.protocol, v)
  PROVE  Typed(finish_truth(v, k), w)
<1>1. k.protocol \in {"__bool__", "__len__"} /\ k.outer \in Truths(w)
  BY TruthCallCases
<1>2. CASE k.protocol = "__bool__"
  <2>1. CASE v \in Boolean
    <3>1. Tells(k.protocol, v, v = "True") /\ ~Tells(k.protocol, v, ~(v = "True"))
      BY <1>2, <2>1, TruthValues DEF Bool, Boolean
    <3>2. Decides(v = "True", k.outer, w)
      BY <1>1, <3>1, TruthAnswer
    <3>3. Typed(apply_truth(v = "True", k.outer), w)
      BY <1>1, <3>2, Truth
    <3> QED
      BY <1>2, <2>1, <3>3 DEF finish_truth
  <2>2. CASE v \notin Boolean
    BY <1>2, <2>2, Failing DEF finish_truth
  <2> QED
    BY <2>1, <2>2
<1>3. CASE k.protocol = "__len__"
  <2>1. CASE v \in Integer /\ Rank(v) < 0
    BY <1>3, <2>1, Failing DEF finish_truth
  <2>2. CASE v \in Integer /\ ~(Rank(v) < 0)
    <3>1. v \in {"n0", "n1"}
      BY <2>2 DEF Integer, Rank
    <3>2. Tells(k.protocol, v, v # "n0") /\ ~Tells(k.protocol, v, ~(v # "n0"))
      BY <1>3, <3>1, TruthValues
    <3>3. Decides(v # "n0", k.outer, w)
      BY <1>1, <3>2, TruthAnswer
    <3>4. Typed(apply_truth(v # "n0", k.outer), w)
      BY <1>1, <3>3, Truth
    <3>5. finish_truth(v, k) = apply_truth(v # "n0", k.outer)
      BY <1>3, <2>2 DEF finish_truth
    <3> QED
      BY <3>4, <3>5
  <2>3. CASE v \notin Integer
    <3>1. v \in {"b", "str"}
      <4>1. v \in Answers("__len__")
        BY <1>3
      <4> QED
        BY <2>3, <4>1 DEF Answers, Integer, Boolean
    <3>2. ~w.hit
      <4>1. \A t \in BOOLEAN : ~Tells(k.protocol, v, t)
        BY <1>3, <3>1, TruthValues
      <4> QED
        BY <1>3, <4>1 DEF HitBy, Matches, IteratorEnds
    <3>3. [act |-> "IndexTruth", outer |-> k.outer] \in Targets(w)
      BY <1>1 DEF Targets
    <3>4. v \notin Integer \cup Boolean
      BY <3>1 DEF Integer, Boolean
    <3>5. Typed(invoke_index_conversion(v, [act |-> "IndexTruth", outer |-> k.outer]), w)
      BY <3>2, <3>3, <3>4, IndexCall
    <3> QED
      BY <1>3, <2>3, <3>5 DEF finish_truth
  <2> QED
    BY <2>1, <2>2, <2>3
<1> QED
  BY <1>1, <1>2, <1>3

LEMMA IndexAnswered ==
  ASSUME scene \in Scene, NEW w \in Context, NEW k \in IndexCalls(w), NEW v \in w.live \cap Answers("__index__"),
         w.hit = HitBy("__index__", v)
  PROVE  Typed(finish_index_conversion(v, k), w)
<1>1. k = [act |-> "IndexConversion", outer |-> k.outer] /\ k.outer \in Targets(w)
  BY DEF IndexCalls
<1>2. ASSUME v \in Integer \cup Boolean
      PROVE  IndexDecides(v, k.outer, w)
  <2> DEFINE value == normalize_index_result(v)
  <2>1. v \in {"n0", "n1", "neg", "True"}
    BY <1>2 DEF Answers, Integer, Boolean
  <2>2. CASE k.outer.act = "IndexTruth" /\ Rank(value) >= 0
    <3>1. k.outer.outer \in Truths(w)
      BY <1>1, <2>2 DEF Targets, Ranges, Slices
    <3>2. v \in {"n0", "n1", "True"} /\ (value # "n0") = (v # "n0")
      BY <2>1, <2>2 DEF normalize_index_result, Rank, Boolean
    <3>3. Tells("__index__", v, value # "n0") /\ ~Tells("__index__", v, ~(value # "n0"))
      BY <3>2, TruthValues
    <3>4. Decides(value # "n0", k.outer.outer, w)
      BY <3>1, <3>3, TruthAnswer
    <3> QED
      BY <2>2, <3>4 DEF IndexDecides
  <2>3. CASE k.outer.act = "IndexTruth" /\ ~(Rank(value) >= 0)
    <3>1. v = "neg"
      BY <2>1, <2>3 DEF normalize_index_result, Rank, Boolean
    <3>2. \A t \in BOOLEAN : ~Tells("__index__", v, t)
      BY <3>1, TruthValues
    <3>3. ~w.hit
      BY <3>2 DEF HitBy, Matches, IteratorEnds
    <3> QED
      BY <2>3, <3>3 DEF IndexDecides
  <2>4. CASE k.outer.act # "IndexTruth"
    <3>1. Plain
      BY <1>1, <2>4, TargetCases
    <3>2. ~w.hit
      BY <3>1 DEF Plain, Judged, HitBy
    <3> QED
      BY <2>4, <3>2 DEF IndexDecides
  <2> QED
    BY <2>2, <2>3, <2>4
<1> QED
  BY <1>1, <1>2, Index

-----------------------------------------------------------------------------
(* Binary operators. *)

LEMMA CompletionCases ==
  ASSUME NEW w \in Context, NEW c \in Completions(w)
  PROVE  \/ c.act = "Value" /\ Plain
         \/ c.act = "Sum" /\ Plain /\ c.iterator \in Iter(w)
         \/ c.act = "Equality" /\ c \in Equated(w) /\ c \in Truths(w) /\ c.outer \in Equalities(w)
         \/ c.act = "Extremum" /\ c \in Compared(w) /\ c \in Truths(w)
BY DEF Completions, Equated, Compared, Truths

LEMMA OperatorValue ==
  ASSUME scene \in Scene, NEW w \in Context, NEW c \in Completions(w), NEW v \in w.live, NEW negate \in BOOLEAN,
         IF c.act = "Equality" THEN TruthDecides(v, c, w) ELSE ~w.hit
  PROVE  Typed(finish_binary_protocol_value(v, negate, c), w)
<1>1. CASE c.act = "Value"
  <2>1. Plain
    BY <1>1, CompletionCases
  <2>2. NotAction \in Truths(w) /\ NotAction.act \notin {"BoolReduce", "Equality"}
    BY <2>1 DEF NotAction, Truths
  <2>3. TruthDecides(v, NotAction, w)
    BY <1>1, <2>2, NoneDecided
  <2>4. Typed(invoke_truth(v, NotAction), w)
    BY <2>2, <2>3, TruthOf
  <2> QED
    BY <1>1, <2>1, <2>4, PlainEnd DEF finish_binary_protocol_value
<1>2. CASE c.act = "Sum"
  <2>1. Ready("continue_sum", [iterator |-> c.iterator, total |-> v], w)
    BY <1>2, CompletionCases DEF Ready
  <2> QED
    BY <1>2, <2>1, Entering DEF finish_binary_protocol_value
<1>3. CASE c.act = "Equality"
  <2>1. Typed(invoke_truth(v, c), w)
    BY <1>3, CompletionCases, TruthOf
  <2> QED
    BY <1>3, <2>1 DEF finish_binary_protocol_value
<1>4. CASE c.act = "Extremum"
  <2>1. TruthDecides(v, c, w)
    BY <1>4, NoneDecided
  <2>2. Typed(invoke_truth(v, c), w)
    BY <1>4, <2>1, CompletionCases, TruthOf
  <2> QED
    BY <1>4, <2>2 DEF finish_binary_protocol_value
<1> QED
  BY <1>1, <1>2, <1>3, <1>4, CompletionCases

LEMMA HeapValue ==
  ASSUME NEW w \in Context, NEW op, NEW left, NEW right
  PROVE  HeapBinary(op, left, right) \in w.live \cup {"TypeError"}
<1>1. "True" \in w.live /\ "False" \in w.live /\ "n1" \in w.live
  BY Worlds DEF Boolean, Integer
<1> QED
  BY <1>1 DEF HeapBinary, Bool

LEMMA OperatorCall ==
  ASSUME scene \in Scene, NEW w \in Context, ~w.hit, NEW s \in BinaryCalls(w)
  PROVE  Typed(continue_binary_protocol(s), w)
<1>1. CASE s.candidates # <<>>
  <2> DEFINE c == Head(s.candidates)
             k == [s EXCEPT !.candidates = Tail(@), !.negate = c.negate]
  <2>1. s.candidates \in Seq(Candidates(w)) /\ c \in Candidates(w) /\ Tail(s.candidates) \in Seq(Candidates(w))
    BY <1>1 DEF BinaryCalls
  <2>2. c.m \in Operators /\ c.x \in w.live /\ c.args \in Seq(w.live) /\ c.negate \in BOOLEAN
    BY <2>1 DEF Candidates
  <2>3. s.op = "Eq" => c.m = "__eq__" /\ \A i \in 1 .. Len(Tail(s.candidates)) : Tail(s.candidates)[i].m = "__eq__"
    <3>1. ASSUME s.op = "Eq" PROVE \A i \in 1 .. Len(s.candidates) : s.candidates[i].m = "__eq__"
      BY <3>1 DEF BinaryCalls
    <3>2. /\ Len(Tail(s.candidates)) = Len(s.candidates) - 1 /\ Len(s.candidates) \in Nat \ {0}
          /\ \A i \in 1 .. Len(Tail(s.candidates)) : Tail(s.candidates)[i] = s.candidates[i + 1]
      BY <1>1, <2>1
    <3> HIDE DEF c
    <3>3. c = s.candidates[1]
      BY <1>1, <2>1 DEF c
    <3> QED
      BY <3>1, <3>2, <3>3
  <2> HIDE DEF c
  <2>4. k \in BinaryCalls(w) /\ k.act = "BinaryProtocol" /\ k.op = s.op
    BY <2>1, <2>2, <2>3 DEF BinaryCalls
  <2>5. k \in Continuations(w)
    BY <2>4 DEF Continuations
  <2>6. Asks(k, c.m, "method")
    BY <2>2, <2>3, <2>4 DEF Asks, Items, Starts, IteratorEnds, Getters, Operators
  <2> HIDE DEF k
  <2>7. Typed(Call(c.m, c.x, c.args, k), w)
    BY <2>2, <2>5, <2>6, Suspended DEF Call
  <2> QED
    BY <1>1, <2>7 DEF continue_binary_protocol, c, k
<1>2. CASE s.candidates = <<>> /\ s.outer.act = "Equality"
  <2> DEFINE t == [left |-> s.left, right |-> s.right, action |-> s.outer.outer]
  <2>1. s.left \in w.live /\ s.right \in w.live /\ s.left # s.right /\ s.outer \in Completions(w)
    BY <1>2 DEF BinaryCalls
  <2>2. s.outer.outer \in Equalities(w)
    BY <1>2, <2>1, CompletionCases
  <2>3. Ready("invoke_equality_fallback", t, w)
    BY <2>1, <2>2 DEF Ready
  <2> QED
    BY <1>2, <2>3, Entering DEF continue_binary_protocol
<1>3. CASE s.candidates = <<>> /\ s.outer.act # "Equality"
  <2>1. s.outer \in Completions(w)
    BY DEF BinaryCalls
  <2>2. HeapBinary(s.op, s.left, s.right) \in w.live \cup {"TypeError"}
    BY HeapValue
  <2>3. HeapBinary(s.op, s.left, s.right) \in w.live =>
          Typed(finish_binary_protocol_value(HeapBinary(s.op, s.left, s.right), FALSE, s.outer), w)
    BY <1>3, <2>1, OperatorValue
  <2> QED
    BY <1>3, <2>2, <2>3, Failing DEF continue_binary_protocol
<1> QED
  BY <1>1, <1>2, <1>3

-----------------------------------------------------------------------------
(* The methods that an operator tries. *)

CandidateOf(x, m, args, negate) ==
  IF operator_method_call(x, m) THEN <<[m |-> m, x |-> x, args |-> args, negate |-> negate]>> ELSE <<>>

PairOf(left, right, direct, back, extra, negate) ==
  LET reflected == IF runtime_class(left) = runtime_class(right) THEN <<>>
                   ELSE CandidateOf(right, back, <<left>> \o extra, negate)
      plain == CandidateOf(left, direct, <<right>> \o extra, negate)
  IN  IF IsSubclass(runtime_class(right), runtime_class(left)) THEN reflected \o plain ELSE plain \o reflected

MethodsOf(op) == IF op = "Eq" THEN {"__eq__"} ELSE Operators

CandidatesOf(op, w) == [m : MethodsOf(op), x : w.live, args : Seq(w.live), negate : BOOLEAN]

LEMMA CandidateTyped ==
  ASSUME NEW w \in Context, NEW op, NEW m \in MethodsOf(op), NEW x \in w.live, NEW args \in Seq(w.live),
         NEW negate \in BOOLEAN
  PROVE  CandidateOf(x, m, args, negate) \in Seq(CandidatesOf(op, w))
<1>1. [m |-> m, x |-> x, args |-> args, negate |-> negate] \in CandidatesOf(op, w)
  BY DEF CandidatesOf
<1>2. <<[m |-> m, x |-> x, args |-> args, negate |-> negate]>> \in Seq(CandidatesOf(op, w))
  BY <1>1, Tuples
<1>3. << >> \in Seq(CandidatesOf(op, w))
  OBVIOUS
<1> QED
  BY <1>2, <1>3 DEF CandidateOf

LEMMA PairTyped ==
  ASSUME NEW w \in Context, NEW op, NEW direct \in MethodsOf(op), NEW back \in MethodsOf(op),
         NEW left \in w.live, NEW right \in w.live, NEW extra \in Seq(w.live), NEW negate \in BOOLEAN
  PROVE  PairOf(left, right, direct, back, extra, negate) \in Seq(CandidatesOf(op, w))
<1>0. <<left>> \in Seq(w.live) /\ <<right>> \in Seq(w.live)
  BY Tuples
<1>1. <<left>> \o extra \in Seq(w.live) /\ <<right>> \o extra \in Seq(w.live)
  BY <1>0, ConcatProperties
<1>2. /\ CandidateOf(right, back, <<left>> \o extra, negate) \in Seq(CandidatesOf(op, w))
      /\ CandidateOf(left, direct, <<right>> \o extra, negate) \in Seq(CandidatesOf(op, w))
  BY <1>1, CandidateTyped
<1>3. << >> \in Seq(CandidatesOf(op, w))
  OBVIOUS
<1> QED
  BY <1>2, <1>3 DEF PairOf

LEMMA NamesOf ==
  ASSUME NEW op \in OperatorNames
  PROVE  /\ OperatorMethods(op)[1] \in {"", "__iadd__"} /\ (op = "Eq" => OperatorMethods(op)[1] = "")
         /\ OperatorMethods(op)[2] \in MethodsOf(op) /\ OperatorMethods(op)[3] \in MethodsOf(op)
         /\ op = "Ne" => "__eq__" \in MethodsOf(op)
BY DEF OperatorNames, OperatorMethods, MethodsOf, Operators

LEMMA CandidatesTyped ==
  ASSUME scene \in Scene, NEW w \in Context, NEW op \in OperatorNames, NEW left \in w.live, NEW right \in w.live,
         NEW extra \in Seq(w.live)
  PROVE  binary_protocol_candidates(op, left, right, extra) \in Seq(CandidatesOf(op, w))
<1> DEFINE methods == OperatorMethods(op)
           inplace == CandidateOf(left, methods[1], <<right>>, FALSE)
           pair == PairOf(left, right, methods[2], methods[3], extra, FALSE)
           negated == IF op = "Ne" THEN PairOf(left, right, "__eq__", "__eq__", extra, TRUE) ELSE <<>>
<1>1. binary_protocol_candidates(op, left, right, extra) = inplace \o pair \o negated
  BY DEF binary_protocol_candidates, CandidateOf, PairOf
<1>2. inplace \in Seq(CandidatesOf(op, w))
  <2>0. << >> \in Seq(CandidatesOf(op, w))
    OBVIOUS
  <2>1. << >> \in Seq(CandidatesOf(op, w)) /\ <<right>> \in Seq(w.live)
    BY <2>0, Tuples
  <2>2. CASE methods[1] = ""
    <3>1. ~operator_method_call(left, "")
      <4>1. "" \notin Methods
        BY DEF Methods
      <4>2. scene.has \in [{"a", "b", "it"} -> SUBSET Methods]
        BY SceneFields
      <4> QED
        BY <4>1, <4>2 DEF operator_method_call
    <3> QED
      BY <2>1, <2>2, <3>1 DEF CandidateOf
  <2>3. CASE methods[1] # ""
    <3>1. methods[1] \in MethodsOf(op)
      BY <2>3, NamesOf DEF MethodsOf, Operators
    <3> QED
      BY <2>1, <3>1, CandidateTyped
  <2> QED
    BY <2>2, <2>3
<1>3. pair \in Seq(CandidatesOf(op, w))
  BY NamesOf, PairTyped
<1>4. negated \in Seq(CandidatesOf(op, w))
  <2>1. << >> \in Seq(CandidatesOf(op, w))
    OBVIOUS
  <2>2. op = "Ne" => PairOf(left, right, "__eq__", "__eq__", extra, TRUE) \in Seq(CandidatesOf(op, w))
    BY NamesOf, PairTyped
  <2> QED
    BY <2>1, <2>2
<1> HIDE DEF inplace, pair, negated
<1>5. inplace \o pair \o negated \in Seq(CandidatesOf(op, w))
  BY <1>2, <1>3, <1>4, ConcatProperties
<1> QED
  BY <1>1, <1>5

LEMMA ProtocolTyped ==
  ASSUME scene \in Scene, NEW w \in Context, NEW op \in OperatorNames, NEW left \in w.live, NEW right \in w.live,
         NEW extra \in Seq(w.live), NEW c \in Completions(w), c.act = "Equality" => op = "Eq" /\ left # right
  PROVE  binary_protocol(op, left, right, extra, c) \in BinaryCalls(w)
<1> DEFINE candidates == binary_protocol(op, left, right, extra, c).candidates
<1>1. candidates \in Seq(CandidatesOf(op, w))
  <2>1. << >> \in Seq(CandidatesOf(op, w))
    OBVIOUS
  <2> QED
    BY <2>1, CandidatesTyped DEF binary_protocol
<1>2. binary_protocol(op, left, right, extra, c) =
        [act |-> "BinaryProtocol", op |-> op, left |-> left, right |-> right, extra |-> extra,
         candidates |-> candidates, negate |-> FALSE, outer |-> c]
  BY DEF binary_protocol
<1> HIDE DEF candidates
<1>3. CandidatesOf(op, w) \subseteq Candidates(w)
  BY DEF CandidatesOf, Candidates, MethodsOf, Operators
<1>4. candidates \in Seq(Candidates(w))
  BY <1>1, <1>3
<1>5. op = "Eq" => \A i \in 1 .. Len(candidates) : candidates[i].m = "__eq__"
  <2>1. \A i \in 1 .. Len(candidates) : candidates[i] \in CandidatesOf(op, w)
    BY <1>1
  <2> QED
    BY <2>1 DEF CandidatesOf, MethodsOf
<1> QED
  BY <1>2, <1>4, <1>5 DEF BinaryCalls

-----------------------------------------------------------------------------
(* Equality and order. *)

\* A comparison of two values: it is decided here only if they are the same.
LEMMA EqualityCall ==
  ASSUME scene \in Scene, NEW w \in Context, NEW action \in Equalities(w), NEW left \in w.live, NEW right \in w.live,
         w.hit = (action.act = "Membership" /\ left = right)
  PROVE  Typed(invoke_equality(left, right, action), w)
<1> DEFINE c == EqualityCompletion(action)
           s == binary_protocol("Eq", left, right, <<>>, c)
<1>1. CASE left = right
  <2> DEFINE t == [equal |-> TRUE, action |-> action]
  <2>1. Ready("complete_equality", t, w)
    BY <1>1 DEF Ready
  <2> QED
    BY <1>1, <2>1, Entering DEF invoke_equality
<1>2. CASE left # right
  <2>1. ~w.hit
    BY <1>2
  <2>2. c \in Completions(w) /\ c.act = "Equality" /\ << >> \in Seq(w.live) /\ "Eq" \in OperatorNames
    BY DEF EqualityCompletion, Completions, Equated, OperatorNames
  <2>3. s \in BinaryCalls(w)
    <3> HIDE DEF c
    <3> QED
      BY <1>2, <2>2, ProtocolTyped
  <2>4. Typed(continue_binary_protocol(s), w)
    BY <2>1, <2>3, OperatorCall
  <2>5. Ready("complete_equality", [equal |-> left = right, action |-> action], w)
    BY <1>2, <2>1 DEF Ready
  <2>6. Typed(invoke_equality_fallback([left |-> left, right |-> right, action |-> action]), w)
    BY <2>5, Entering DEF invoke_equality_fallback
  <2> QED
    BY <1>2, <2>4, <2>6 DEF invoke_equality
<1> QED
  BY <1>1, <1>2

LEMMA EqualityFallback ==
  ASSUME NEW w \in Context, NEW s, Ready("invoke_equality_fallback", s, w)
  PROVE  Typed(invoke_equality_fallback(s), w)
<1>1. s \in [left : w.live, right : w.live, action : Equalities(w)] /\ ~w.hit /\ s.left # s.right
  BY DEF Ready
<1>2. (s.left = s.right) = FALSE
  BY <1>1
<1>3. Ready("complete_equality", [equal |-> FALSE, action |-> s.action], w)
  BY <1>1, Worlds DEF Ready
<1> QED
  BY <1>2, <1>3, Entering DEF invoke_equality_fallback

\* An order that has no sequence of pairs left, or compares the next one.
LEMMA SequenceOrder ==
  ASSUME scene \in Scene, NEW w \in Context, ~w.hit, Plain,
         NEW s \in [act : {"SequenceOrder"}, left : Seq(w.live), right : Seq(w.live), index : Nat \ {0}]
  PROVE  Typed(continue_sequence_order(s), w)
<1>1. CASE s.index <= Len(s.left) /\ s.index <= Len(s.right)
  <2>1. s \in Equalities(w) /\ s.act # "Membership"
    BY <1>1 DEF Equalities, Orders
  <2>2. s.left[s.index] \in w.live /\ s.right[s.index] \in w.live
    BY <1>1
  <2> DEFINE left == s.left[s.index]
             right == s.right[s.index]
  <2> HIDE DEF left, right
  <2>3. w.hit = (s.act = "Membership" /\ left = right)
    BY <2>1, Worlds
  <2>4. left \in w.live /\ right \in w.live
    BY <2>2 DEF left, right
  <2>5. Typed(invoke_equality(left, right, s), w)
    BY <2>1, <2>3, <2>4, EqualityCall
  <2> QED
    BY <1>1, <2>5 DEF continue_sequence_order, left, right
<1>2. CASE ~(s.index <= Len(s.left) /\ s.index <= Len(s.right))
  <2>1. Bool(Len(s.left) < Len(s.right)) \in w.live
    BY Worlds DEF Bool, Boolean
  <2> QED
    BY <1>2, <2>1, PlainEnd DEF continue_sequence_order
<1> QED
  BY <1>1, <1>2

LEMMA OrderComparison ==
  ASSUME scene \in Scene, NEW w \in Context, ~w.hit, Plain, NEW left \in w.live, NEW right \in w.live
  PROVE  Typed(invoke_order_comparison(left, right), w)
<1>1. NoCompletion \in Completions(w) /\ NoCompletion.act # "Equality" /\ << >> \in Seq(w.live)
  BY DEF NoCompletion, Completions
<1>2. binary_protocol("Lt", left, right, <<>>, NoCompletion) \in BinaryCalls(w)
  BY <1>1, ProtocolTyped DEF OperatorNames
<1> QED
  BY <1>2, OperatorCall DEF invoke_order_comparison

LEMMA EqualityCompleted ==
  ASSUME scene \in Scene, NEW w \in Context, NEW action \in Equalities(w), NEW equal \in BOOLEAN,
         w.hit = (action.act = "Membership" /\ equal)
  PROVE  Typed(complete_equality(equal, action), w)
<1>1. CASE action.act = "Return"
  <2>1. Plain
    BY <1>1 DEF Equalities, Orders, Memberships
  <2>2. Bool(equal) \in w.live
    BY Worlds DEF Bool, Boolean
  <2> QED
    BY <1>1, <2>1, <2>2, PlainEnd DEF complete_equality
<1>2. CASE action.act = "Membership"
  <2>1. action \in Memberships(w)
    BY <1>2 DEF Equalities, Orders
  <2>2. CASE equal
    <3>1. Typed(finish_membership(TRUE, action.negate), w)
      <4>1. Searches /\ action.negate = (scene.op = "not in") /\ w.hit
        BY <1>2, <2>1, <2>2 DEF Memberships, Tests
      <4>0. << >> \in Seq(w.live)
        OBVIOUS
      <4>2. Bool(TRUE # action.negate) \in w.live /\ << >> \in Seq(w.live)
        BY <4>0, Worlds DEF Bool, Boolean
      <4>3. scene.op \in {"in", "not in"}
        BY <4>1 DEF Searches
      <4>4. Right([value |-> Bool(TRUE # action.negate), items |-> <<>>], w)
        BY <4>1, <4>3 DEF Right
      <4>5. Typed(Result(Bool(TRUE # action.negate), <<>>, FALSE), w)
        BY <4>2, <4>4, Ending
      <4> QED
        BY <4>5 DEF finish_membership, Done
    <3> QED
      BY <1>2, <2>2, <3>1 DEF complete_equality
  <2>3. CASE ~equal
    <3>1. Ready("continue_membership", action, w)
      BY <2>1, <2>3 DEF Ready
    <3> QED
      BY <1>2, <2>3, <3>1, Entering DEF complete_equality
  <2> QED
    BY <2>2, <2>3
<1>3. CASE action.act = "SequenceOrder"
  <2>1. action \in Orders(w) /\ Plain /\ ~w.hit
    BY <1>3 DEF Equalities, Orders, Memberships
  <2>2. /\ action \in [act : {"SequenceOrder"}, left : Seq(w.live), right : Seq(w.live), index : Nat \ {0}]
        /\ action.index <= Len(action.left) /\ action.index <= Len(action.right)
    BY <2>1 DEF Orders
  <2>3. Typed(continue_sequence_order([action EXCEPT !.index = @ + 1]), w)
    <3>1. [action EXCEPT !.index = @ + 1]
            \in [act : {"SequenceOrder"}, left : Seq(w.live), right : Seq(w.live), index : Nat \ {0}]
      BY <2>2
    <3> QED
      BY <2>1, <3>1, SequenceOrder
  <2>4. Typed(invoke_order_comparison(action.left[action.index], action.right[action.index]), w)
    BY <2>1, <2>2, OrderComparison
  <2> QED
    BY <1>3, <2>3, <2>4 DEF complete_equality
<1> QED
  BY <1>1, <1>2, <1>3 DEF Equalities, Orders, Memberships

-----------------------------------------------------------------------------
(* Numbers. *)

LEMMA NumericCall ==
  ASSUME scene \in Scene, NEW w \in Context, ~w.hit, Plain, NEW x \in w.live, NEW target \in {"__int__", "__float__"},
         NEW finish \in Finishes(w)
  PROVE  Typed(invoke_numeric_conversion(x, target, finish), w)
<1>1. ASSUME NEW m \in {"__int__", "__float__", "__index__"}, NEW kind \in {"__int__", "__float__", "index"}
      PROVE  Typed(Call(m, x, <<>>, [act |-> "NumericConversion", kind |-> kind, finish |-> finish]), w)
  <2> DEFINE k == [act |-> "NumericConversion", kind |-> kind, finish |-> finish]
  <2>1. k \in Continuations(w)
    BY DEF Continuations, NumericCalls
  <2>2. Asks(k, m, "method")
    BY DEF Asks, Items, Starts, IteratorEnds, Getters
  <2> HIDE DEF k
  <2>3. Typed(Call(m, x, <<>>, k), w)
    BY <2>1, <2>2, Suspended, Tuples DEF Call
  <2> QED
    BY <2>3 DEF k
<1>2. /\ Typed(Call(target, x, <<>>, [act |-> "NumericConversion", kind |-> target, finish |-> finish]), w)
      /\ Typed(Call("__index__", x, <<>>, [act |-> "NumericConversion", kind |-> "index", finish |-> finish]), w)
  BY <1>1
<1> QED
  BY <1>2, Failing DEF invoke_numeric_conversion

LEMMA NumericAnswered ==
  ASSUME NEW w \in Context, ~w.hit, NEW k \in NumericCalls(w), NEW v \in w.live
  PROVE  Typed(finish_numeric_conversion(v, k), w)
<1>1. k.finish \in Finishes(w) /\ Plain
  BY DEF NumericCalls
<1>2. v \in {"f"} \cup Integer \cup Boolean => normalize_index_result(v) \in w.live
  BY Normal, Worlds DEF normalize_index_result, Names, Boolean
<1>3. v \in {"f"} \cup Integer \cup Boolean =>
        Ready("finish_builtin_value", [value |-> normalize_index_result(v), finish |-> k.finish], w)
  BY <1>1, <1>2 DEF Ready, Built
<1> QED
  BY <1>3, Entering, Failing DEF finish_numeric_conversion

-----------------------------------------------------------------------------
(* Iteration. *)

\* The iterator that a source has without a call can be used.
Iterable(source, w) ==
  iterator_with_sequence_fallback(source) # "TypeError" => iterator_with_sequence_fallback(source) \in w.live

LEMMA IteratorOf ==
  ASSUME scene \in Scene, NEW w \in Context, NEW source, Iterable(source, w)
  PROVE  /\ iterator_with_sequence_fallback(source) # "TypeError" =>
              iterator_with_sequence_fallback(source) \in Iter(w) \ {"it"}
         /\ operator_method_call(source, "__iter__") => iterator_with_sequence_fallback(source) = "TypeError"
<1> DEFINE iterator == iterator_with_sequence_fallback(source)
<1>1. operator_method_call(source, "__iter__") => source \in {"a", "b", "it"}
  BY NoMethods
<1>2. iterator \in {"items", "gen", "seqit", "TypeError"}
  BY DEF iterator_with_sequence_fallback
<1>3. operator_method_call(source, "__iter__") => iterator = "TypeError"
  BY <1>1 DEF iterator_with_sequence_fallback
<1>4. iterator # "TypeError" => iterator \in w.live
  BY DEF Iterable
<1> HIDE DEF iterator
<1>5. iterator # "TypeError" => iterator \in Iter(w) \ {"it"}
  BY <1>2, <1>4 DEF Iter, Iterators
<1> QED
  BY <1>3, <1>5 DEF iterator

LEMMA NextItem ==
  ASSUME NEW w \in Context, ~w.hit, NEW k \in Continuations(w), k.act \in Items, k.iterator \in Iter(w)
  PROVE  Typed(invoke_iterator_next_with_action(k.iterator, k), w)
<1> DEFINE m == CASE k.iterator = "gen" -> "resume" [] k.iterator = "items" -> "next"
                  [] k.iterator = "seqit" -> "item" [] OTHER -> "__next__"
           how == CASE k.iterator = "gen" -> "frame" [] k.iterator \in {"items", "seqit"} -> "sync"
                    [] OTHER -> "method"
<1>1. invoke_iterator_next_with_action(k.iterator, k) = Waiting(m, k.iterator, <<>>, how, k)
  BY DEF invoke_iterator_next_with_action, Call
<1>2. Asks(k, m, how)
  BY DEF Asks, Items, Starts, Getters
<1>3. k.iterator \in w.live
  BY DEF Iter
<1> HIDE DEF m, how
<1> QED
  BY <1>1, <1>2, <1>3, Suspended, Tuples

LEMMA IterCall ==
  ASSUME NEW w \in Context, ~w.hit, NEW k \in Continuations(w), k.act \in Starts, NEW source \in w.live
  PROVE  Typed(Call("__iter__", source, <<>>, k), w)
<1>1. Asks(k, "__iter__", "method")
  BY DEF Asks, Items, Starts, Getters, IteratorEnds
<1> QED
  BY <1>1, Suspended, Tuples DEF Call

-----------------------------------------------------------------------------
(* sum(). *)

LEMMA SumStart ==
  ASSUME NEW w \in Context, ~w.hit, Plain, NEW total \in w.live, NEW iterator \in Iter(w)
  PROVE  Typed(sum_start_total(total, iterator), w)
<1>1. Ready("continue_sum", [iterator |-> iterator, total |-> total], w)
  BY DEF Ready
<1> QED
  BY <1>1, Entering, Failing DEF sum_start_total

LEMMA SumCall ==
  ASSUME scene \in Scene, NEW w \in Context, ~w.hit, Plain, NEW source \in w.live, NEW total \in w.live,
         Iterable(source, w)
  PROVE  Typed(invoke_sum(source, total), w)
<1> DEFINE k == [act |-> "SumIterStart", total |-> total]
           iterator == iterator_with_sequence_fallback(source)
<1>1. iterator # "TypeError" => Typed(sum_start_total(total, iterator), w)
  BY IteratorOf, SumStart
<1>2. k \in Continuations(w) /\ k.act \in Starts
  BY DEF Continuations, SumCalls, Starts
<1>3. Typed(Call("__iter__", source, <<>>, k), w)
  <2> HIDE DEF k
  <2> QED
    BY <1>2, IterCall
<1> QED
  BY <1>1, <1>3, Failing DEF invoke_sum, Iterate

LEMMA SumNext ==
  ASSUME NEW w \in Context, ~w.hit, Plain, NEW s \in [iterator : Iter(w), total : w.live]
  PROVE  Typed(continue_sum(s), w)
<1> DEFINE k == [act |-> "SumNext", iterator |-> s.iterator, total |-> s.total]
<1>1. k \in Continuations(w) /\ k.act \in Items /\ k.iterator = s.iterator /\ s.iterator \in Iter(w)
  BY DEF Continuations, SumCalls, Items
<1> HIDE DEF k
<1>2. Typed(invoke_iterator_next_with_action(s.iterator, k), w)
  BY <1>1, NextItem
<1> QED
  BY <1>2 DEF continue_sum, k

LEMMA SumItem ==
  ASSUME scene \in Scene, NEW w \in Context, ~w.hit, NEW k \in SumCalls(w), k.act = "SumNext", NEW item \in w.live
  PROVE  Typed(add_sum_item(k, item), w)
<1> DEFINE c == [act |-> "Sum", iterator |-> k.iterator]
           s == binary_protocol("Add", k.total, item, <<>>, c)
<1>1. Plain /\ k.iterator \in Iter(w) /\ k.total \in w.live
  BY DEF SumCalls
<1>2. c \in Completions(w) /\ c.act # "Equality" /\ "Add" \in OperatorNames /\ << >> \in Seq(w.live)
  BY <1>1 DEF Completions, OperatorNames
<1>3. s \in BinaryCalls(w)
  <2> HIDE DEF c
  <2> QED
    BY <1>1, <1>2, ProtocolTyped
<1>4. Typed(continue_binary_protocol(s), w)
  BY <1>3, OperatorCall
<1>5. Ready("continue_sum", [iterator |-> k.iterator, total |-> k.total], w)
  BY <1>1 DEF Ready
<1> QED
  BY <1>4, <1>5, Entering DEF add_sum_item

-----------------------------------------------------------------------------
(* any() and all(). *)

LEMMA ReduceEnd ==
  ASSUME scene \in Scene, NEW w \in Context, NEW s, Reduces(s), s.any \in BOOLEAN, NEW truth \in BOOLEAN,
         w.hit = (truth = s.any)
  PROVE  Typed(Done(Bool(truth)), w)
<1>1. scene.op \in {"any", "all"} /\ s.any = (scene.op = "any")
  BY DEF Reduces
<1>2. Bool(truth) \in w.live
  BY Worlds DEF Bool, Boolean
<1>3. << >> \in Seq(w.live)
  OBVIOUS
<1>4. Right([value |-> Bool(truth), items |-> <<>>], w)
  BY <1>1, Worlds DEF Right, Searches, Bool
<1> QED
  BY <1>2, <1>3, <1>4, Ending DEF Done

LEMMA ReduceNext ==
  ASSUME NEW w \in Context, ~w.hit, NEW s \in Reductions(w)
  PROVE  Typed(continue_bool_reduce(s), w)
<1> DEFINE k == [s EXCEPT !.act = "BoolReduceNext"]
<1>1. k \in Continuations(w) /\ k.act \in Items /\ k.iterator = s.iterator /\ s.iterator \in Iter(w)
  BY DEF Continuations, ReduceCalls, Reductions, Reduces, Items
<1> HIDE DEF k
<1>2. Typed(invoke_iterator_next_with_action(s.iterator, k), w)
  BY <1>1, NextItem
<1> QED
  BY <1>2 DEF continue_bool_reduce, k

LEMMA ReduceTruth ==
  ASSUME scene \in Scene, NEW w \in Context, NEW s \in Reductions(w), NEW truth \in BOOLEAN, w.hit = (truth = s.any)
  PROVE  Typed(finish_bool_reduce_truth(truth, s), w)
<1>1. Reduces(s) /\ s.any \in BOOLEAN
  BY DEF Reductions
<1>2. Typed(Done(Bool(truth)), w)
  BY <1>1, ReduceEnd
<1>3. truth # s.any => Typed(continue_bool_reduce(s), w)
  BY ReduceNext
<1> QED
  BY <1>2, <1>3 DEF finish_bool_reduce_truth

LEMMA ReduceCall ==
  ASSUME scene \in Scene, NEW w \in Context, ~w.hit, NEW source \in w.live, NEW any \in BOOLEAN,
         Reduces([any |-> any]), Iterable(source, w)
  PROVE  Typed(invoke_bool_reduce(source, any), w)
<1> DEFINE k == [act |-> "BoolReduceIterStart", any |-> any]
           iterator == iterator_with_sequence_fallback(source)
<1>1. iterator # "TypeError" => BoolReduce(iterator, any) \in Reductions(w)
  BY IteratorOf DEF BoolReduce, Reductions, Reduces
<1>2. iterator # "TypeError" => Typed(continue_bool_reduce(BoolReduce(iterator, any)), w)
  BY <1>1, ReduceNext
<1>3. k \in Continuations(w) /\ k.act \in Starts
  BY DEF Continuations, ReduceCalls, Starts, Reduces
<1>4. Typed(Call("__iter__", source, <<>>, k), w)
  <2> HIDE DEF k
  <2> QED
    BY <1>3, IterCall
<1> QED
  BY <1>2, <1>4, Failing DEF invoke_bool_reduce, Iterate

LEMMA ReduceItem ==
  ASSUME scene \in Scene, NEW w \in Context, NEW k \in ReduceCalls(w), k.act = "BoolReduceNext", NEW item \in w.live,
         TruthDecides(item, BoolReduce(k.iterator, k.any), w)
  PROVE  Typed(continue_bool_reduce_item(k, item), w)
<1> DEFINE s == BoolReduce(k.iterator, k.any)
<1>1. s \in Reductions(w) /\ s.act = "BoolReduce" /\ s.any = k.any
  BY DEF BoolReduce, Reductions, ReduceCalls, Reduces
<1>2. s \in Truths(w)
  BY <1>1 DEF Truths
<1> HIDE DEF s
<1>3. CASE truth_protocol_call(item) = "none"
  <2>1. Decides(HeapTruth(item), s, w)
    BY <1>3 DEF TruthDecides, s
  <2>2. w.hit = (HeapTruth(item) = s.any)
    BY <1>1, <2>1 DEF Decides
  <2>3. HeapTruth(item) \in BOOLEAN
    BY DEF HeapTruth
  <2>4. Typed(finish_bool_reduce_truth(HeapTruth(item), s), w)
    BY <1>1, <2>2, <2>3, ReduceTruth
  <2> QED
    BY <1>3, <2>4 DEF continue_bool_reduce_item, s
<1>4. CASE truth_protocol_call(item) # "none"
  <2>1. truth_protocol_call(item) \in {"__bool__", "__len__"} /\ operator_protocol_capable(item)
    BY <1>4 DEF truth_protocol_call, operator_method_call, operator_protocol_capable
  <2>2. ~w.hit
    BY <1>4 DEF TruthDecides
  <2>3. Typed(invoke_truth_protocol_call(item, truth_protocol_call(item), s), w)
    BY <1>2, <2>1, <2>2, TruthCall
  <2> QED
    BY <1>4, <2>1, <2>3 DEF continue_bool_reduce_item, s
<1> QED
  BY <1>3, <1>4

LEMMA ReduceStop ==
  ASSUME scene \in Scene, NEW w \in Context, ~w.hit, NEW k \in ReduceCalls(w)
  PROVE  Typed(EndOfBoolReduce(k), w)
<1>1. Reduces(k) /\ k.any \in BOOLEAN
  BY DEF ReduceCalls
<1>2. (~k.any) \in BOOLEAN /\ w.hit = ((~k.any) = k.any)
  BY <1>1, Worlds
<1>3. Typed(Done(Bool(~k.any)), w)
  BY <1>1, <1>2, ReduceEnd
<1> QED
  BY <1>3 DEF EndOfBoolReduce

-----------------------------------------------------------------------------
(* min() and max(). *)

\* What min and max may answer.
LEMMA ExtremumEnd ==
  ASSUME scene \in Scene, NEW w \in Context, NEW s \in Extrema(w)
  PROVE  Typed(finish_extremum(s), w)
<1>1. scene.op = "extremum" /\ s.best \in Picked(w) \cup {Unbound} /\ s.config = scene.config
      /\ s.config.default \in w.live
  BY DEF Extrema, Configs
<1>2. \A v \in Picked(w) : Typed(Done(v), w)
  <2>1. \A v \in Picked(w) : v \in w.live /\ Right([value |-> v, items |-> <<>>], w)
    BY <1>1 DEF Right, Searches, Picked
  <2>2. << >> \in Seq(w.live)
    OBVIOUS
  <2> QED
    BY <2>1, <2>2, Ending DEF Done
<1>3. s.config.default \in Picked(w)
  BY <1>1 DEF Context, Picked
<1> QED
  BY <1>1, <1>2, <1>3, Failing DEF finish_extremum, Unbound

\* A better item is among those that may be answered.
LEMMA Improved ==
  ASSUME NEW w \in Context, NEW s \in Extrema(w), NEW item \in Picked(w), NEW key \in w.live
  PROVE  Better(s, item, key) \in Extrema(w)
<1> DEFINE t == [s EXCEPT !.best = item]
<1>1. t \in Extrema(w)
  BY DEF Extrema
<1>2. Better(s, item, key) = [t EXCEPT !.best_key = key]
  BY DEF Better, Extrema
<1> HIDE DEF t
<1> QED
  BY <1>1, <1>2 DEF Extrema

LEMMA ExtremumConsidered ==
  ASSUME scene \in Scene, NEW w \in Context, ~w.hit, NEW s \in Extrema(w), NEW item \in Picked(w), NEW key \in w.live
  PROVE  Typed(consider_extremum(s, item, key), w)
<1> DEFINE c == [act |-> "Extremum", state |-> s, item |-> item, key |-> key]
           op == IF s.config.is_max THEN "Gt" ELSE "Lt"
           p == binary_protocol(op, key, s.best_key, <<>>, c)
           v == HeapBinary(p.op, key, s.best_key)
<1>1. \A t \in Extrema(w) : Typed(Do("continue_extremum", t), w)
  BY Entering DEF Ready
<1>2. Better(s, item, key) \in Extrema(w)
  BY Improved
<1>3. c \in Completions(w) /\ c.act # "Equality" /\ op \in OperatorNames /\ s.best_key \in w.live
  BY DEF Completions, Compared, OperatorNames, Extrema
<1>4. p \in BinaryCalls(w)
  <2>1. << >> \in Seq(w.live)
    OBVIOUS
  <2> HIDE DEF c, op
  <2> QED
    BY <1>3, <2>1, ProtocolTyped
<1>5. Typed(continue_binary_protocol(p), w)
  <2> HIDE DEF p
  <2> QED
    BY <1>4, OperatorCall
<1>6. consider_extremum(s, item, key) =
        IF s.best = Unbound THEN Do("continue_extremum", Better(s, item, key))
        ELSE IF p.candidates # <<>> THEN continue_binary_protocol(p)
        ELSE IF v = "TypeError" THEN Err(v)
        ELSE Do("continue_extremum", IF v = "True" THEN Better(s, item, key) ELSE s)
  BY DEF consider_extremum
<1> HIDE DEF p, v
<1> QED
  BY <1>1, <1>2, <1>5, <1>6, Failing

LEMMA KeyCall ==
  ASSUME scene \in Scene, NEW w \in Context, ~w.hit, NEW s \in Extrema(w), NEW item \in Picked(w), s.config.key
  PROVE  Typed(Call("key", "a", <<item>>, [act |-> "ExtremumKey", state |-> s, item |-> item]), w)
<1> DEFINE k == [act |-> "ExtremumKey", state |-> s, item |-> item]
<1>1. k \in Continuations(w)
  BY DEF Continuations, ExtremumCalls
<1>2. Asks(k, "key", "method")
  BY DEF Asks, Items, Starts, IteratorEnds, Getters
<1>3. "a" \in w.live
  BY DEF Extrema, Configs
<1>4. <<item>> \in Seq(w.live)
  BY Tuples DEF Picked
<1> HIDE DEF k
<1>5. Typed(Call("key", "a", <<item>>, k), w)
  BY <1>1, <1>2, <1>3, <1>4, Suspended DEF Call
<1> QED
  BY <1>5 DEF k

LEMMA ExtremumItemTyped ==
  ASSUME scene \in Scene, NEW w \in Context, ~w.hit, NEW s \in Extrema(w), NEW item \in Picked(w)
  PROVE  Typed(ExtremumItem(s, item), w)
<1>1. item \in w.live
  BY DEF Picked
<1>2. Typed(consider_extremum(s, item, item), w)
  BY <1>1, ExtremumConsidered
<1> QED
  BY <1>2, KeyCall DEF ExtremumItem

LEMMA ExtremumNext ==
  ASSUME scene \in Scene, NEW w \in Context, ~w.hit, NEW s \in Extrema(w)
  PROVE  Typed(continue_extremum(s), w)
<1>1. CASE s.iterator # Unbound
  <2>1. s \in Continuations(w) /\ s.act \in Items /\ s.iterator \in Iter(w)
    BY <1>1 DEF Continuations, ExtremumCalls, Items, Extrema
  <2>2. Typed(invoke_iterator_next_with_action(s.iterator, s), w)
    BY <2>1, NextItem
  <2> QED
    BY <1>1, <2>2 DEF continue_extremum
<1>2. CASE s.iterator = Unbound /\ s.values = <<>>
  BY <1>2, ExtremumEnd DEF continue_extremum
<1>3. CASE s.iterator = Unbound /\ s.values # <<>>
  <2>1. s.values \in Seq(Picked(w))
    BY DEF Extrema
  <2>2. Head(s.values) \in Picked(w) /\ Tail(s.values) \in Seq(Picked(w))
    BY <1>3, <2>1
  <2>3. [s EXCEPT !.values = Tail(@)] \in Extrema(w)
    BY <2>2 DEF Extrema
  <2>4. Typed(ExtremumItem([s EXCEPT !.values = Tail(@)], Head(s.values)), w)
    BY <2>2, <2>3, ExtremumItemTyped
  <2> QED
    BY <1>3, <2>4 DEF continue_extremum
<1> QED
  BY <1>1, <1>2, <1>3

LEMMA ExtremumBegins ==
  ASSUME scene \in Scene, NEW w \in Context, scene.op = "extremum", NEW config \in Configs(w),
         NEW iterator \in Iter(w) \cup {Unbound}, iterator = Unbound <=> scene.args[1] = Unbound
  PROVE  ExtremumState(iterator, config) \in Extrema(w)
<1>1. Unbound \in w.live
  BY Worlds DEF Unbound, Names
<1>2. << >> \in Seq(Picked(w))
  OBVIOUS
<1> QED
  BY <1>1, <1>2 DEF ExtremumState, Extrema

LEMMA ExtremumCall ==
  ASSUME scene \in Scene, NEW w \in Context, ~w.hit, scene.op = "extremum", NEW config \in Configs(w),
         NEW values \in Seq(Picked(w)), scene.args[1] \in w.live, Iterable(scene.args[1], w)
  PROVE  Typed(invoke_extremum(scene.args[1], values, config), w)
<1> DEFINE source == scene.args[1]
           iterator == iterator_with_sequence_fallback(source)
           k == [act |-> "ExtremumIterStart", config |-> config]
<1>0. "UNBOUND" \notin Iter(w)
  BY DEF Iter, Iterators
<1>1. CASE source = Unbound
  <2>1. ExtremumState(Unbound, config) \in Extrema(w)
    BY <1>1, ExtremumBegins
  <2>2. [ExtremumState(Unbound, config) EXCEPT !.values = values] \in Extrema(w)
    BY <2>1 DEF Extrema
  <2>3. Typed(continue_extremum([ExtremumState(Unbound, config) EXCEPT !.values = values]), w)
    BY <2>2, ExtremumNext
  <2> QED
    BY <1>1, <2>3 DEF invoke_extremum
<1>2. CASE source # Unbound
  <2>1. iterator # "TypeError" => iterator \in Iter(w) /\ iterator # Unbound
    BY <1>0, IteratorOf DEF Unbound
  <2>2. iterator # "TypeError" => ExtremumState(iterator, config) \in Extrema(w)
    BY <1>2, <2>1, ExtremumBegins
  <2>3. iterator # "TypeError" => Typed(continue_extremum(ExtremumState(iterator, config)), w)
    BY <2>2, ExtremumNext
  <2>4. k \in Continuations(w) /\ k.act \in Starts
    BY <1>2 DEF Continuations, ExtremumCalls, Starts
  <2>5. Typed(Call("__iter__", source, <<>>, k), w)
    <3> HIDE DEF k
    <3> QED
      BY <2>4, IterCall
  <2> QED
    BY <1>2, <2>3, <2>5, Failing DEF invoke_extremum, Iterate
<1> QED
  BY <1>1, <1>2

LEMMA ExtremumTruth ==
  ASSUME scene \in Scene, NEW w \in Context, ~w.hit, NEW c \in Compared(w), NEW truth \in BOOLEAN
  PROVE  Typed(finish_extremum_truth(truth, c), w)
<1>1. c.state \in Extrema(w) /\ c.item \in Picked(w) /\ c.key \in w.live
  BY DEF Compared
<1>2. Better(c.state, c.item, c.key) \in Extrema(w)
  BY <1>1, Improved
<1> QED
  BY <1>1, <1>2, ExtremumNext DEF finish_extremum_truth

-----------------------------------------------------------------------------
(* in and not in. *)

LEMMA Finding ==
  ASSUME scene \in Scene, NEW w \in Context, NEW s, Tests(s), NEW found \in BOOLEAN, w.hit = found
  PROVE  Typed(finish_membership(found, s.negate), w)
<1>1. Searches /\ s.negate = (scene.op = "not in")
  BY DEF Tests
<1>2. scene.op \in {"in", "not in"}
  BY <1>1 DEF Searches
<1>3. Bool(found # s.negate) \in w.live
  BY Worlds DEF Bool, Boolean
<1>4. << >> \in Seq(w.live)
  OBVIOUS
<1>5. Right([value |-> Bool(found # s.negate), items |-> <<>>], w)
  BY <1>1, <1>2 DEF Right
<1> QED
  BY <1>3, <1>4, <1>5, Ending DEF finish_membership, Done

LEMMA MembershipNextItem ==
  ASSUME NEW w \in Context, ~w.hit, NEW s \in Memberships(w)
  PROVE  Typed(continue_membership(s), w)
<1> DEFINE k == [s EXCEPT !.act = "MembershipNext"]
<1>1. k \in Continuations(w) /\ k.act \in Items /\ k.iterator = s.iterator /\ s.iterator \in Iter(w)
  BY DEF Continuations, MembershipCalls, Memberships, Tests, Items
<1> HIDE DEF k
<1>2. Typed(invoke_iterator_next_with_action(s.iterator, k), w)
  BY <1>1, NextItem
<1> QED
  BY <1>2 DEF continue_membership, k

LEMMA MembershipStarted ==
  ASSUME NEW w \in Context, ~w.hit, NEW needle \in w.live, NEW negate \in BOOLEAN, NEW iterator \in Iter(w),
         Tests([needle |-> needle, negate |-> negate])
  PROVE  Typed(continue_membership(Membership(needle, iterator, negate)), w)
<1>1. Membership(needle, iterator, negate) \in Memberships(w)
  BY DEF Membership, Memberships, Tests
<1> QED
  BY <1>1, MembershipNextItem

LEMMA MembershipCall ==
  ASSUME scene \in Scene, NEW w \in Context, ~w.hit, scene.op \in {"in", "not in"},
         scene.args[1] \in w.live, scene.args[2] \in w.live, Iterable(scene.args[1], w)
  PROVE  Typed(invoke_membership(scene.args[2], scene.args[1], scene.op = "not in"), w)
<1> DEFINE container == scene.args[1]
           needle == scene.args[2]
           negate == (scene.op = "not in")
           k == [act |-> "MembershipIterStart", needle |-> needle, negate |-> negate]
           iterator == iterator_with_sequence_fallback(container)
<1>0. negate \in BOOLEAN
  OBVIOUS
<1>1. CASE operator_method_call(container, "__contains__")
  <2>1. Plain
    BY <1>1 DEF Plain, Judged, Searches
  <2>2. [act |-> "MembershipContains", negate |-> negate] \in OtherCalls(w)
    BY <2>1 DEF OtherCalls
  <2>3. Typed(Call("__contains__", container, <<needle>>, [act |-> "MembershipContains", negate |-> negate]), w)
    <3>1. <<needle>> \in Seq(w.live)
      BY Tuples
    <3> HIDE DEF negate
    <3> QED
      BY <2>2, <3>1, OtherCall DEF IteratorEnds, Getters
  <2> QED
    BY <1>1, <2>3 DEF invoke_membership
<1>2. CASE ~operator_method_call(container, "__contains__")
  <2>1. Tests([needle |-> needle, negate |-> negate])
    BY <1>2 DEF Tests, Searches
  <2>2. iterator # "TypeError" => Typed(continue_membership(Membership(needle, iterator, negate)), w)
    <3> HIDE DEF negate
    <3> QED
      BY <1>0, <2>1, IteratorOf, MembershipStarted
  <2>3. k \in Continuations(w) /\ k.act \in Starts
    BY <2>1 DEF Continuations, MembershipCalls, Starts, Tests
  <2>4. Typed(Call("__iter__", container, <<>>, k), w)
    <3> HIDE DEF k
    <3> QED
      BY <2>3, IterCall
  <2> QED
    BY <1>2, <2>2, <2>4, Failing DEF invoke_membership, Iterate
<1> QED
  BY <1>1, <1>2

LEMMA MembershipItemTyped ==
  ASSUME scene \in Scene, NEW w \in Context, NEW k \in MembershipCalls(w), k.act = "MembershipNext",
         NEW item \in w.live, w.hit = (item = k.needle)
  PROVE  Typed(MembershipItem(k, item), w)
<1> DEFINE action == Membership(k.needle, k.iterator, k.negate)
<1>1. action \in Memberships(w) /\ action.act = "Membership" /\ k.needle \in w.live
  BY DEF Membership, Memberships, MembershipCalls, Tests
<1>2. action \in Equalities(w)
  BY <1>1 DEF Equalities
<1> HIDE DEF action
<1>3. w.hit = (action.act = "Membership" /\ item = k.needle)
  BY <1>1
<1>4. Typed(invoke_equality(item, k.needle, action), w)
  BY <1>1, <1>2, <1>3, EqualityCall
<1> QED
  BY <1>4 DEF MembershipItem, action

LEMMA ContainsAnswered ==
  ASSUME scene \in Scene, NEW w \in Context, ~w.hit, Plain, NEW v \in w.live, NEW negate \in BOOLEAN
  PROVE  Typed(MembershipTruth(v, negate), w)
<1> DEFINE action == IF negate THEN NotAction ELSE ReturnTruth
<1>1. action \in Truths(w) /\ action.act \notin {"BoolReduce", "Equality"}
  BY DEF Truths, NotAction, ReturnTruth
<1> HIDE DEF action
<1>2. TruthDecides(v, action, w)
  BY <1>1, NoneDecided
<1>3. Typed(invoke_truth(v, action), w)
  BY <1>1, <1>2, TruthOf
<1> QED
  BY <1>3 DEF MembershipTruth, action

-----------------------------------------------------------------------------
(* Collections. *)

LEMMA CollectionNext ==
  ASSUME NEW w \in Context, ~w.hit, NEW s \in CollectCalls(w), s.act = "CollectIterableNext"
  PROVE  Typed(continue_iterable_collection(s), w)
<1>1. s \in Continuations(w) /\ s.act \in Items /\ s.iterator \in Iter(w)
  BY DEF Continuations, CollectCalls, Collections, Items
<1> QED
  BY <1>1, NextItem DEF continue_iterable_collection

LEMMA CollectionStarted ==
  ASSUME NEW w \in Context, ~w.hit, NEW kind \in Kinds, NEW finish \in Finishes(w), NEW iterator \in Iter(w),
         Collects([kind |-> kind, finish |-> finish], w), Fresh(w)
  PROVE  Typed(continue_iterable_collection(IterableCollection(kind, finish, iterator, <<>>)), w)
<1> DEFINE s == IterableCollection(kind, finish, iterator, <<>>)
<1>1. s \in CollectCalls(w) /\ s.act = "CollectIterableNext"
  <2>1. << >> \in Seq(w.live)
    OBVIOUS
  <2>2. s \in [act : {"CollectIterableNext"}, kind : Kinds, finish : Finishes(w), iterator : Iter(w), items : Seq(w.live)]
    BY <2>1 DEF IterableCollection
  <2>3. Collects(s, w) /\ s.items = <<>>
    BY DEF Collects, IterableCollection
  <2>4. w.items = <<>> /\ w.stored = <<>>
    BY DEF Fresh
  <2> HIDE DEF s
  <2> QED
    BY <2>2, <2>3, <2>4 DEF Collections, CollectCalls
<1> HIDE DEF s
<1>2. Typed(continue_iterable_collection(s), w)
  BY <1>1, CollectionNext
<1> QED
  BY <1>2 DEF s

LEMMA CollectionCall ==
  ASSUME scene \in Scene, NEW w \in Context, ~w.hit, NEW kind \in Kinds, NEW finish \in Finishes(w),
         Collects([kind |-> kind, finish |-> finish], w), Fresh(w), NEW source \in w.live, Iterable(source, w)
  PROVE  Typed(invoke_iterable_collection(kind, finish, source), w)
<1> DEFINE k == [act |-> "CollectIterableStart", kind |-> kind, finish |-> finish]
           iterator == iterator_with_sequence_fallback(source)
<1>1. iterator # "TypeError" =>
        Typed(continue_iterable_collection(IterableCollection(kind, finish, iterator, <<>>)), w)
  BY IteratorOf, CollectionStarted
<1>2. k \in Continuations(w) /\ k.act \in Starts
  <2>1. Collects(k, w)
    BY DEF Collects
  <2> QED
    BY <2>1 DEF Continuations, CollectCalls, Starts
<1>3. Typed(Call("__iter__", source, <<>>, k), w)
  <2> HIDE DEF k
  <2> QED
    BY <1>2, IterCall
<1> QED
  BY <1>1, <1>3, Failing DEF invoke_iterable_collection, Iterate

\* Another item: an iteration that collects keeps it, one that fills a list stores it first.
LEMMA CollectionItem ==
  ASSUME scene \in Scene, NEW u \in Context, NEW w \in Context, ~w.hit, NEW k \in CollectCalls(u),
         k.act = "CollectIterableNext", NEW item \in w.live, w.live = u.live, w.stored = u.stored,
         w.items = Append(u.items, item)
  PROVE  /\ k.kind = "ListInit" => Typed(Push(item, "continue_iterable_collection", k), w)
         /\ k.kind # "ListInit" => Typed(continue_iterable_collection([k EXCEPT !.items = Append(@, item)]), w)
<1>1. /\ k \in [act : {"CollectIterableNext"}, kind : Kinds, finish : Finishes(u), iterator : Iter(u), items : Seq(u.live)]
      /\ Collects(k, u) /\ k.items = IF k.kind = "ListInit" THEN <<>> ELSE u.items
      /\ k.kind = "ListInit" => u.stored = u.items
  BY DEF CollectCalls, Collections
<1>2. Finishes(w) = Finishes(u) /\ Iter(w) = Iter(u) /\ (\A t : Collects(t, w) <=> Collects(t, u))
  BY DEF Finishes, Iter, Collects
<1>3. ASSUME k.kind = "ListInit"
      PROVE  Typed(Push(item, "continue_iterable_collection", k), w)
  <2>1. k \in Collections(w)
    BY <1>1, <1>2, <1>3 DEF Collections
  <2>2. Push(item, "continue_iterable_collection", k) \in Pushes(w)
    BY <1>1, <1>3, <2>1 DEF Push, Pushes
  <2> QED
    BY <2>2 DEF Typed
<1>4. ASSUME k.kind # "ListInit"
      PROVE  Typed(continue_iterable_collection([k EXCEPT !.items = Append(@, item)]), w)
  <2> DEFINE s == [k EXCEPT !.items = Append(@, item)]
  <2>0. k.items \in Seq(w.live)
    BY <1>1
  <2>1. Append(k.items, item) \in Seq(w.live)
    <3> HIDE DEF s
    <3> QED
      BY <2>0, AppendProperties
  <2>2. /\ s \in [act : {"CollectIterableNext"}, kind : Kinds, finish : Finishes(w), iterator : Iter(w), items : Seq(w.live)]
        /\ s.kind = k.kind /\ s.finish = k.finish /\ s.items = Append(k.items, item)
    <3>1. k \in [act : {"CollectIterableNext"}, kind : Kinds, finish : Finishes(w), iterator : Iter(w), items : Seq(w.live)]
      BY <1>1, <1>2
    <3> QED
      BY <2>1, <3>1
  <2> HIDE DEF s
  <2>3. Collects(s, w)
    BY <1>1, <1>2, <2>2 DEF Collects
  <2>4. s \in CollectCalls(w) /\ s.act = "CollectIterableNext"
    BY <1>1, <1>4, <2>2, <2>3 DEF CollectCalls, Collections
  <2>5. Typed(continue_iterable_collection(s), w)
    BY <2>4, CollectionNext
  <2> QED
    BY <2>5 DEF s
<1> QED
  BY <1>3, <1>4

\* The end of an iteration that collects.
LEMMA CollectionEnd ==
  ASSUME scene \in Scene, NEW w \in Context, ~w.hit, NEW k \in CollectCalls(w), k.act = "CollectIterableNext"
  PROVE  Typed(finish_iterable_collection(k), w)
<1>1. /\ k \in [act : {"CollectIterableNext"}, kind : Kinds, finish : Finishes(w), iterator : Iter(w), items : Seq(w.live)]
      /\ Collects(k, w) /\ k.items = IF k.kind = "ListInit" THEN <<>> ELSE w.items
      /\ k.kind = "ListInit" => w.stored = w.items
  BY DEF CollectCalls, Collections
<1>2. << >> \in Seq(w.live)
  OBVIOUS
<1>3. CASE k.kind \in {"list", "tuple", "bytes"}
  <2> DEFINE s == [value |-> k.kind, items |-> k.items, finish |-> k.finish]
  <2>1. s \in [value : {"list", "tuple", "bytes"}, items : {w.items} \cap Seq(w.live), finish : Finishes(w)]
    BY <1>1, <1>3
  <2>2. Collects([kind |-> s.value, finish |-> s.finish], w)
    BY <1>1 DEF Collects
  <2>3. s \in Built(w)
    BY <2>1, <2>2 DEF Built
  <2>4. Typed(Do("finish_builtin_value", s), w)
    BY <2>3, Entering DEF Ready
  <2> QED
    BY <1>3, <2>4, Failing DEF finish_iterable_collection
<1>4. CASE k.kind = "ListInit"
  <2>1. "inst" \in w.live /\ scene.op = "class" /\ scene.new = "program" /\ w.items = w.stored
    BY <1>1, <1>4 DEF Collects
  <2>2. Right([value |-> "inst", items |-> <<>>], w)
    BY <2>1 DEF Right, Searches
  <2>3. Typed(Done("inst"), w)
    BY <1>2, <2>1, <2>2, Ending DEF Done
  <2> QED
    BY <1>4, <2>3 DEF finish_iterable_collection
<1>5. CASE k.kind = "unpack"
  <2>1. scene.op = "unpack" /\ k.items = w.items
    BY <1>1, <1>5 DEF Collects
  <2>2. Right([value |-> "None", items |-> k.items], w)
    BY <2>1 DEF Right, Searches
  <2>3. "None" \in w.live
    BY Worlds DEF Names
  <2>4. Typed(Result("None", k.items, FALSE), w)
    BY <1>1, <2>2, <2>3, Ending
  <2> QED
    BY <1>5, <2>4, Failing DEF finish_iterable_collection
<1> QED
  BY <1>1, <1>3, <1>4, <1>5 DEF Kinds

-----------------------------------------------------------------------------
(* Instances of classes. *)

LEMMA Initialised ==
  ASSUME scene \in Scene, NEW w \in Context, ~w.hit, scene.op = "class", NEW v \in w.live, NEW args \in Seq(w.live),
         "inst" \in w.live,
         scene.init = "list" => scene.new = "program" /\ Fresh(w) /\ (args # <<>> => Iterable(Head(args), w))
  PROVE  Typed(finish_new(v, args), w)
<1>1. << >> \in Seq(w.live)
  OBVIOUS
<1>2. ASSUME v # "inst" \/ scene.init # "list" \/ w.items = w.stored
      PROVE  Typed(Done(v), w)
  <2>1. v = "inst" /\ scene.init = "list" => scene.new = "program" /\ w.items = w.stored
    BY <1>2
  <2>2. Right([value |-> v, items |-> <<>>], w)
    BY <2>1 DEF Right, Searches
  <2> QED
    BY <1>1, <2>2, Ending DEF Done
<1>3. CASE v # "inst"
  BY <1>2, <1>3 DEF finish_new
<1>4. CASE v = "inst" /\ scene.init = "object"
  BY <1>2, <1>4, Failing DEF finish_new, has_init
<1>5. CASE v = "inst" /\ scene.init = "list"
  <2>1. args = <<>> => Typed(Done("inst"), w)
    BY <1>2, <1>5 DEF Fresh
  <2>2. ASSUME args # <<>>
        PROVE  Typed(invoke_iterable_collection("ListInit", NoFinish, Head(args)), w)
    <3>1. NoFinish \in Finishes(w) /\ Collects([kind |-> "ListInit", finish |-> NoFinish], w)
      BY <1>1, <1>5 DEF NoFinish, Finishes, Collects
    <3>2. Head(args) \in w.live
      BY <2>2
    <3> HIDE DEF NoFinish
    <3> QED
      BY <1>5, <2>2, <3>1, <3>2, CollectionCall DEF Kinds
  <2> QED
    BY <1>5, <2>1, <2>2 DEF finish_new, has_init, invoke_native_initializer
<1>6. CASE v = "inst" /\ scene.init = "program"
  <2> DEFINE k == [act |-> "Initializer", instance |-> v]
  <2>1. Plain
    BY <1>6 DEF Plain, Judged, Searches
  <2>2. k \in Continuations(w)
    BY <2>1 DEF Continuations, OtherCalls
  <2>3. Asks(k, "__init__", "method")
    BY DEF Asks, Items, Starts, IteratorEnds, Getters
  <2> HIDE DEF k
  <2>4. Typed(Call("__init__", v, args, k), w)
    BY <2>2, <2>3, Suspended DEF Call
  <2> QED
    BY <1>6, <2>4 DEF finish_new, has_init, k
<1> QED
  BY <1>3, <1>4, <1>5, <1>6, SceneFields

LEMMA ValueFinished ==
  ASSUME scene \in Scene, NEW w \in Context, ~w.hit, NEW s \in Built(w)
  PROVE  Typed(finish_builtin_value(s), w)
<1> DEFINE items == IF "items" \in DOMAIN s THEN s.items ELSE <<>>
<1>1. s.value \in w.live /\ s.finish \in Finishes(w)
  BY Worlds DEF Built, Names
<1>2. /\ items \in Seq(w.live)
      /\ \/ Plain
         \/ Collects([kind |-> s.value, finish |-> s.finish], w) /\ s.value \in {"list", "tuple", "bytes"} /\ items = w.items
  <2>1. CASE s \in [value : w.live, finish : Finishes(w)] /\ Plain
    <3>1. items = <<>>
      BY <2>1
    <3> QED
      BY <2>1, <3>1
  <2>2. CASE /\ s \in [value : {"list", "tuple", "bytes"}, items : {w.items} \cap Seq(w.live), finish : Finishes(w)]
             /\ Collects([kind |-> s.value, finish |-> s.finish], w)
    <3>1. items = s.items /\ s.items = w.items /\ s.items \in Seq(w.live)
      BY <2>2
    <3> QED
      BY <2>2, <3>1
  <2> QED
    BY <2>1, <2>2 DEF Built
<1>3. s.finish.native => scene.op = "class" /\ "inst" \in w.live /\ s.finish.initialize \in Seq(w.live)
  BY <1>1 DEF Finishes
<1> HIDE DEF items
<1>4. CASE ~s.finish.native
  <2>1. Right([value |-> s.value, items |-> items], w)
    BY <1>2, <1>4 DEF Collects, Right, Plain, Judged, Searches
  <2>2. Typed(Result(s.value, items, FALSE), w)
    BY <1>1, <1>2, <2>1, Ending
  <2> QED
    BY <1>4, <2>2 DEF finish_builtin_value, items
<1>5. CASE s.finish.native /\ s.finish.initialize # NoInitialize
  <2>1. scene.init # "list"
    BY <1>1, <1>5 DEF Finishes, NoInitialize
  <2>2. Typed(finish_new("inst", s.finish.initialize), w)
    BY <1>3, <1>5, <2>1, Initialised
  <2> QED
    BY <1>5, <2>2 DEF finish_builtin_value
<1>6. CASE s.finish.native /\ s.finish.initialize = NoInitialize
  <2>1. Right([value |-> "inst", items |-> items], w)
    BY <1>2, <1>3, <1>6 DEF Collects, Right, Plain, Judged, Searches
  <2>2. Typed(Result("inst", items, FALSE), w)
    BY <1>2, <1>3, <1>6, <2>1, Ending
  <2> QED
    BY <1>6, <2>2 DEF finish_builtin_value, items
<1>7. s.finish.native \in BOOLEAN
  BY <1>1 DEF Finishes
<1> QED
  BY <1>4, <1>5, <1>6, <1>7

\* The constructors of the builtin types.
LEMMA BuiltinType ==
  ASSUME scene \in Scene, NEW w \in Context, ~w.hit, NEW kind \in {"range", "int", "float", "bool", "list", "tuple", "bytes"},
         NEW args \in Seq(w.live), Len(args) >= 1, NEW finish \in Finishes(w),
         kind \in {"range", "int", "float", "bool"} => Plain,
         kind \in {"list", "tuple", "bytes"} =>
           Collects([kind |-> kind, finish |-> finish], w) /\ Fresh(w) /\ Iterable(Head(args), w)
  PROVE  Typed(invoke_builtin_type(kind, args, finish), w)
<1>1. args[1] \in w.live /\ Head(args) \in w.live /\ (Len(args) = 2 => args[2] \in w.live)
  OBVIOUS
<1>2. CASE kind = "range"
  <2>1. [act |-> "Range", values |-> args, next |-> 1] \in Ranges(w)
    BY DEF Ranges
  <2>2. Typed(ConstructRange(args), w)
    BY <1>2, <2>1, RangeConstruction DEF ConstructRange
  <2> QED
    BY <1>2, <2>2 DEF invoke_builtin_type
<1>3. CASE kind = "int"
  <2> DEFINE to == [act |-> "IntBase", argument |-> args[1], finish |-> finish]
  <2>1. ASSUME Len(args) = 2 PROVE Typed(invoke_index_conversion(args[2], to), w)
    <3>1. to \in Targets(w) /\ to.act # "IndexTruth"
      BY <1>1, <1>3 DEF Targets
    <3> HIDE DEF to
    <3> QED
      BY <1>1, <2>1, <3>1, PlainIndex
  <2>2. Typed(invoke_numeric_conversion(args[1], "__int__", finish), w)
    BY <1>1, <1>3, NumericCall
  <2>3. ASSUME args[1] \in Integer \cup Boolean
        PROVE  Typed(Do("finish_builtin_value", [value |-> normalize_index_result(args[1]), finish |-> finish]), w)
    <3>1. normalize_index_result(args[1]) \in w.live
      BY <2>3, Normal, Worlds
    <3>2. [value |-> normalize_index_result(args[1]), finish |-> finish] \in Built(w)
      BY <1>3, <3>1 DEF Built
    <3> QED
      BY <3>2, Entering DEF Ready
  <2>4. Typed(ConstructInt(args, finish), w)
    BY <2>1, <2>2, <2>3, Failing DEF ConstructInt
  <2> QED
    BY <1>3, <2>4 DEF invoke_builtin_type
<1>4. CASE kind = "float"
  <2>1. Typed(invoke_numeric_conversion(args[1], "__float__", finish), w)
    BY <1>1, <1>4, NumericCall
  <2>2. Typed(ConstructFloat(args, finish), w)
    BY <2>1, Failing DEF ConstructFloat
  <2> QED
    BY <1>4, <2>2 DEF invoke_builtin_type
<1>5. CASE kind = "bool"
  <2>1. ReturnTruth \in Truths(w) /\ ReturnTruth.act \notin {"BoolReduce", "Equality"}
    BY <1>5 DEF Truths, ReturnTruth
  <2>2. Typed(invoke_truth(args[1], ReturnTruth), w)
    <3> HIDE DEF ReturnTruth
    <3> QED
      BY <1>1, <2>1, NoneDecided, TruthOf
  <2> QED
    BY <1>5, <2>2 DEF invoke_builtin_type
<1>6. CASE kind \in {"list", "tuple", "bytes"}
  <2>1. Typed(invoke_iterable_collection(kind, finish, Head(args)), w)
    BY <1>1, <1>6, CollectionCall DEF Kinds
  <2> QED
    BY <1>6, <2>1 DEF invoke_builtin_type
<1> QED
  BY <1>2, <1>3, <1>4, <1>5, <1>6

\* Everything is reachable when an operation begins.
LEMMA AllIterable ==
  ASSUME NEW w \in Context, w.live = Value, NEW source
  PROVE  Iterable(source, w)
<1>1. iterator_with_sequence_fallback(source) \in {"items", "gen", "seqit", "TypeError"}
  BY DEF iterator_with_sequence_fallback
<1> QED
  BY <1>1 DEF Iterable, Value, Objects

LEMMA ClassCall ==
  ASSUME scene \in Scene, NEW w \in Context, ~w.hit, scene.op = "class", w.live = Value, Fresh(w)
  PROVE  Typed(invoke_class(scene.args), w)
<1> DEFINE canonical == scene.init = (IF scene.native = "list" THEN "list" ELSE "object")
           initialize == IF canonical THEN NoInitialize ELSE scene.args
           finish == [native |-> TRUE, initialize |-> initialize]
<1>1. scene.args \in Seq(w.live) /\ Len(scene.args) >= 1 /\ "inst" \in w.live /\ "class" \in w.live
  BY SceneFields DEF Value, Objects, Names
<1>2. CASE scene.new = "program"
  <2> DEFINE k == [act |-> "New", args |-> scene.args]
  <2>1. k \in Continuations(w)
    BY <1>1, <1>2 DEF Continuations, NewCalls
  <2>2. Asks(k, "__new__", "method")
    BY DEF Asks, Items, Starts, IteratorEnds, Getters
  <2> HIDE DEF k
  <2>3. Typed(Call("__new__", "class", scene.args, k), w)
    BY <1>1, <2>1, <2>2, Suspended DEF Call
  <2> QED
    BY <1>2, <2>3 DEF invoke_class, k
<1>3. CASE scene.new = "object" /\ scene.init # "list" /\
             (scene.native = "none" \/ (scene.native = "list" /\ ~canonical))
  <2>1. Typed(finish_new("inst", scene.args), w)
    BY <1>1, <1>3, Initialised
  <2> QED
    BY <1>3, <2>1 DEF invoke_class
<1>4. CASE scene.new = "object" /\ scene.native # "none" /\ ~(scene.native = "list" /\ ~canonical)
  <2>1. invoke_class(scene.args) = invoke_builtin_type(scene.native, scene.args, finish)
    BY <1>4 DEF invoke_class
  <2>2. finish \in Finishes(w) /\ finish.native
    <3>1. initialize \in Seq(w.live)
      BY <1>1 DEF NoInitialize
    <3>2. initialize # <<>> => scene.init # "list"
      BY <1>4, SceneFields DEF NoInitialize
    <3> HIDE DEF initialize
    <3> QED
      BY <1>1, <3>1, <3>2 DEF Finishes
  <2>3. scene.native \in {"int", "float", "list", "tuple", "bytes"}
    BY <1>4, SceneFields
  <2>4. scene.native \in {"int", "float"} => Plain
    BY SceneFields DEF Plain, Judged, Searches
  <2>5. scene.native \in {"list", "tuple", "bytes"} => Collects([kind |-> scene.native, finish |-> finish], w)
    BY <1>4, <2>2 DEF Collects
  <2>6. Iterable(Head(scene.args), w)
    BY AllIterable
  <2> HIDE DEF finish
  <2>7. Typed(invoke_builtin_type(scene.native, scene.args, finish), w)
    BY <1>1, <2>2, <2>3, <2>4, <2>5, <2>6, BuiltinType
  <2> QED
    BY <2>1, <2>7
<1> QED
  BY <1>2, <1>3, <1>4, SceneFields

-----------------------------------------------------------------------------
(* Attributes and text. *)

LEMMA AttributeCall ==
  ASSUME NEW w \in Context, ~w.hit, NEW m \in Getters, NEW args \in Seq(w.live), NEW k \in AttributeCalls(w)
  PROVE  Typed(invoke_attribute_call(m, args, k), w)
<1>1. k \in Continuations(w) /\ "a" \in w.live
  BY DEF Continuations, AttributeCalls
<1>2. Asks(k, m, "method")
  BY DEF Asks, AttributeCalls, Items, Starts, IteratorEnds, Getters
<1> QED
  BY <1>1, <1>2, Suspended DEF invoke_attribute_call, Call

LEMMA AttributeFound ==
  ASSUME NEW w \in Context, ~w.hit, NEW v \in w.live, NEW k \in AttributeCalls(w)
  PROVE  Typed(finish_attribute_success(v, k), w)
<1>1. Plain /\ "True" \in w.live
  BY Worlds DEF AttributeCalls, Boolean
<1> QED
  BY <1>1, PlainEnd DEF finish_attribute_success

LEMMA AttributeMissing ==
  ASSUME NEW w \in Context, ~w.hit, NEW k \in AttributeCalls(w)
  PROVE  Typed(continue_attribute_missing(k), w)
<1>1. Plain /\ "False" \in w.live /\ k.missing \in w.live /\ "name" \in w.live
  BY Worlds DEF AttributeCalls, Boolean, Names
<1>2. [k EXCEPT !.phase = "Fallback"] \in AttributeCalls(w)
  BY DEF AttributeCalls
<1>3. <<"name">> \in Seq(w.live)
  BY <1>1, Tuples
<1>4. Typed(invoke_attribute_call("__getattr__", <<"name">>, [k EXCEPT !.phase = "Fallback"]), w)
  BY <1>2, <1>3, AttributeCall DEF Getters
<1>5. Typed(Done("False"), w) /\ Typed(Done(k.missing), w)
  BY <1>1, PlainEnd
<1> QED
  BY <1>4, <1>5, Failing DEF continue_attribute_missing

LEMMA AttributeGetCall ==
  ASSUME scene \in Scene, NEW w \in Context, ~w.hit, Plain, w.live = Value, NEW missing \in w.live
  PROVE  Typed(invoke_attribute_get(missing), w)
<1> DEFINE k == AttributeGet(missing, "Primary")
<1>1. "a" \in w.live /\ "name" \in w.live /\ "class" \in w.live /\ "n1" \in w.live
  BY DEF Value, Objects, Names, Integer
<1>2. k \in AttributeCalls(w)
  BY <1>1 DEF AttributeGet, AttributeCalls
<1>3. <<>> \in Seq(w.live) /\ <<"name">> \in Seq(w.live) /\ <<"a", "class">> \in Seq(w.live)
  BY <1>1, Tuples
<1> HIDE DEF k
<1>4. /\ Typed(invoke_attribute_call("__getattribute__", <<"name">>, k), w)
      /\ Typed(invoke_attribute_call("getter", <<>>, k), w)
      /\ Typed(invoke_attribute_call("__get__", <<"a", "class">>, k), w)
  BY <1>2, <1>3, AttributeCall DEF Getters
<1>5. Typed(finish_attribute_success("n1", k), w) /\ Typed(continue_attribute_missing(k), w)
  BY <1>1, <1>2, AttributeFound, AttributeMissing
<1>6. Typed(invoke_default_attribute_get(k), w)
  BY <1>4, <1>5, SceneFields DEF invoke_default_attribute_get
<1> QED
  BY <1>4, <1>6 DEF invoke_attribute_get, k

LEMMA SetterCall ==
  ASSUME scene \in Scene, NEW w \in Context, ~w.hit, Plain, w.live = Value, NEW v \in w.live
  PROVE  Typed(invoke_attribute_set(v), w) /\ Typed(invoke_attribute_delete, w)
<1>1. "a" \in w.live /\ "name" \in w.live /\ "None" \in w.live
  BY DEF Value, Objects, Names
<1>2. /\ <<>> \in Seq(w.live) /\ <<"name">> \in Seq(w.live) /\ <<"a">> \in Seq(w.live) /\ <<v>> \in Seq(w.live)
      /\ <<"a", v>> \in Seq(w.live) /\ <<"name", v>> \in Seq(w.live)
  BY <1>1, Tuples
<1>3. [act |-> "Setter"] \in OtherCalls(w)
  BY DEF OtherCalls
<1>4. \A m \in {"setter", "__set__", "__setattr__", "deleter", "__delete__", "__delattr__"}, args \in Seq(w.live) :
        Typed(invoke_setter_call(m, args), w)
  <2> DEFINE k == [act |-> "Setter"]
  <2>1. k.act # "Initializer"
    OBVIOUS
  <2> HIDE DEF k
  <2> QED
    BY <1>1, <1>3, <2>1, OtherCall DEF invoke_setter_call, IteratorEnds, Getters, k
<1>5. /\ Typed(invoke_setter_call("setter", <<v>>), w) /\ Typed(invoke_setter_call("__set__", <<"a", v>>), w)
      /\ Typed(invoke_setter_call("__setattr__", <<"name", v>>), w) /\ Typed(invoke_setter_call("deleter", <<>>), w)
      /\ Typed(invoke_setter_call("__delete__", <<"a">>), w) /\ Typed(invoke_setter_call("__delattr__", <<"name">>), w)
  BY <1>2, <1>4
<1>6. Typed(Done("None"), w)
  BY <1>1, PlainEnd
<1>7. Typed(invoke_default_attribute_set(v), w) /\ Typed(invoke_default_attribute_delete, w)
  BY <1>5, <1>6, Failing, SceneFields DEF invoke_default_attribute_set, invoke_default_attribute_delete
<1> QED
  BY <1>5, <1>7 DEF invoke_attribute_set, invoke_attribute_delete

LEMMA TextCall ==
  ASSUME scene \in Scene, NEW w \in Context, ~w.hit, Plain, NEW x \in w.live, NEW spec \in w.live
  PROVE  /\ \A m \in {"__str__", "__repr__"} : Typed(invoke_string_conversion(x, m), w)
         /\ Typed(invoke_format_value(x, spec), w)
<1>1. [act |-> "StringConversion"] \in OtherCalls(w) /\ [act |-> "FormatResult"] \in OtherCalls(w)
  BY DEF OtherCalls
<1>2. <<>> \in Seq(w.live) /\ <<spec>> \in Seq(w.live)
  BY Tuples
<1>3. /\ \A m \in {"__str__", "__repr__"} : Typed(Call(m, x, <<>>, [act |-> "StringConversion"]), w)
      /\ Typed(Call("__format__", x, <<spec>>, [act |-> "FormatResult"]), w)
  BY <1>1, <1>2, OtherCall DEF IteratorEnds, Getters
<1>4. Typed(Done("str"), w)
  BY Worlds, PlainEnd DEF Names
<1> QED
  BY <1>3, <1>4, Failing DEF invoke_string_conversion, invoke_format_value

LEMMA TextAnswered ==
  ASSUME NEW w \in Context, Plain, NEW v
  PROVE  Typed(finish_string_conversion(v), w)
<1>1. Typed(Done("str"), w)
  BY Worlds, PlainEnd DEF Names
<1> QED
  BY <1>1, Failing DEF finish_string_conversion

-----------------------------------------------------------------------------
(* Starred arguments. *)

LEMMA ExpansionNext ==
  ASSUME NEW w \in Context, ~w.hit, NEW s \in ExpandCalls(w), s.act = "ExpandIterableNext"
  PROVE  Typed(continue_argument_expansion(s), w)
<1>1. s \in Continuations(w) /\ s.act \in Items /\ s.iterator \in Iter(w)
  BY DEF Continuations, ExpandCalls, Expansions, Items
<1> QED
  BY <1>1, NextItem DEF continue_argument_expansion

LEMMA ExpansionStarted ==
  ASSUME NEW w \in Context, ~w.hit, scene.op = "star", NEW iterator \in Iter(w), NEW resume \in BOOLEAN,
         NEW sync \in BOOLEAN, resume => scene.deferred, Fresh(w),
         iterator = "it" => operator_method_call(scene.args[1], "__iter__")
  PROVE  Typed(continue_argument_expansion(ArgumentExpansion(iterator, resume, sync)), w)
<1> DEFINE s == ArgumentExpansion(iterator, resume, sync)
<1>1. s \in ExpandCalls(w) /\ s.act = "ExpandIterableNext"
  BY DEF ArgumentExpansion, ExpandCalls, Expansions, Fresh
<1> HIDE DEF s
<1>2. Typed(continue_argument_expansion(s), w)
  BY <1>1, ExpansionNext
<1> QED
  BY <1>2 DEF s

LEMMA ExpansionCall ==
  ASSUME scene \in Scene, NEW w \in Context, ~w.hit, scene.op = "star", w.live = Value, Fresh(w)
  PROVE  Typed(expand_star_argument(scene.args[1]), w)
<1> DEFINE source == scene.args[1]
           iterator == iterator_with_sequence_fallback(source)
           k == [act |-> "ExpandIterableStart", resume |-> scene.deferred]
<1>0. source \in w.live /\ scene.deferred \in BOOLEAN /\ (scene.deferred /\ iterator = "gen") \in BOOLEAN
  BY SceneFields
<1>1. iterator # "TypeError" => iterator \in Iter(w) /\ iterator # "it"
  BY AllIterable, IteratorOf
<1>2. iterator # "TypeError" =>
        Typed(continue_argument_expansion(ArgumentExpansion(iterator, scene.deferred /\ iterator = "gen", TRUE)), w)
  <2> HIDE DEF iterator
  <2> DEFINE resume == scene.deferred /\ iterator = "gen"
  <2>1. resume \in BOOLEAN /\ (resume => scene.deferred)
    BY <1>0
  <2> HIDE DEF resume
  <2>2. iterator # "TypeError" => Typed(continue_argument_expansion(ArgumentExpansion(iterator, resume, TRUE)), w)
    BY <1>1, <2>1, ExpansionStarted
  <2> QED
    BY <2>2 DEF resume
<1>3. ASSUME operator_method_call(source, "__iter__")
      PROVE  Typed(Call("__iter__", source, <<>>, k), w)
  <2>1. k \in Continuations(w) /\ k.act \in Starts
    BY <1>3 DEF Continuations, ExpandCalls, Starts
  <2> HIDE DEF k
  <2> QED
    BY <1>0, <2>1, IterCall
<1> QED
  BY <1>2, <1>3, Failing DEF expand_star_argument, Iterate

LEMMA ExpansionItem ==
  ASSUME NEW u \in Context, NEW w \in Context, ~w.hit, NEW k \in ExpandCalls(u), k.act = "ExpandIterableNext",
         NEW item \in w.live, w.live = u.live, w.stored = u.stored, w.items = Append(u.items, item)
  PROVE  /\ Typed(push_expanded_positional(item, k), w)
         /\ Typed(push_expanded_positional(item, [k EXCEPT !.sync = FALSE]), w)
<1>1. k \in Expansions(u) /\ u.stored = u.items
  BY DEF ExpandCalls
<1>2. Expansions(w) = Expansions(u)
  BY DEF Expansions, Iter
<1>3. [k EXCEPT !.sync = FALSE] \in Expansions(u)
  BY <1>1 DEF Expansions
<1>4. \A s \in Expansions(w) : Typed(Push(item, "continue_argument_expansion", s), w)
  <2>1. \A s \in Expansions(w) : Push(item, "continue_argument_expansion", s) \in Pushes(w)
    BY <1>1 DEF Push, Pushes
  <2> QED
    BY <2>1 DEF Typed
<1> QED
  BY <1>1, <1>2, <1>3, <1>4 DEF push_expanded_positional

LEMMA ExpansionEnd ==
  ASSUME scene \in Scene, NEW w \in Context, ~w.hit, scene.op = "star", w.stored = w.items, NEW s
  PROVE  Typed(ExpansionEnds(s), w)
<1>1. \A v \in {"called twice", "called", "next"} : v \in w.live /\ Right([value |-> v, items |-> <<>>], w)
  BY Worlds DEF Names, Right, Searches
<1>2. << >> \in Seq(w.live)
  OBVIOUS
<1>3. \A v \in {"called twice", "called", "next"} : Typed(Done(v), w)
  BY <1>1, <1>2, Ending DEF Done
<1> QED
  BY <1>3 DEF ExpansionEnds

-----------------------------------------------------------------------------
(* What a frame keeps reachable is what its action will use.  A context    *)
(* keeps the objects of K if they are live there.                          *)

Keeps(K, u, w) == K \cap Objects \subseteq w.live /\ u.chosen \subseteq w.chosen

LEMMA Kept ==
  ASSUME NEW u \in Context, NEW w \in Context, NEW K, Keeps(K, u, w)
  PROVE  /\ \A x \in u.live : x \in K => x \in w.live
         /\ \A x \in Iter(u) : x \in K => x \in Iter(w)
         /\ \A x \in Picked(u) : x \in K => x \in Picked(w)
         /\ \A s \in Seq(u.live) : Elements(s) \subseteq K => s \in Seq(w.live)
         /\ \A s \in Seq(Picked(u)) : Elements(s) \subseteq K => s \in Seq(Picked(w))
<1>1. \A x \in u.live : x \in K => x \in w.live
  BY DEF Keeps, Context
<1>2. \A x \in Picked(u) : x \in K => x \in Picked(w)
  BY <1>1 DEF Keeps, Picked
<1>3. ASSUME NEW S, NEW T, NEW s \in Seq(S), \A x \in S : x \in K => x \in T, Elements(s) \subseteq K
      PROVE  s \in Seq(T)
  <2>1. \A i \in 1 .. Len(s) : s[i] \in S /\ s[i] \in K
    BY <1>3 DEF Elements
  <2>2. \A i \in 1 .. Len(s) : s[i] \in T
    BY <1>3, <2>1
  <2> QED
    BY <2>2
<1>4. \A s \in Seq(u.live) : Elements(s) \subseteq K => s \in Seq(w.live)
  BY <1>1, <1>3
<1>5. \A s \in Seq(Picked(u)) : Elements(s) \subseteq K => s \in Seq(Picked(w))
  BY <1>2, <1>3
<1>6. \A x \in Iter(u) : x \in K => x \in Iter(w)
  BY <1>1 DEF Iter
<1> QED
  BY <1>1, <1>2, <1>4, <1>5, <1>6

LEMMA ElementsOf ==
  ASSUME NEW S, NEW s \in Seq(S)
  PROVE  Elements(s) \subseteq S
BY DEF Elements

LEMMA KeptEquality ==
  ASSUME NEW u \in Context, NEW a \in Equalities(u)
  PROVE  /\ trace_equality(a) \subseteq u.live
         /\ \A w \in Context : Keeps(trace_equality(a), u, w) => a \in Equalities(w)
<1>1. CASE a \in Orders(u)
  <2>1. a.left \in Seq(u.live) /\ a.right \in Seq(u.live) /\ a.act = "SequenceOrder"
    BY <1>1 DEF Orders
  <2>2. trace_equality(a) = Elements(a.left) \cup Elements(a.right)
    BY <2>1 DEF trace_equality
  <2>3. trace_equality(a) \subseteq u.live
    BY <2>1, <2>2, ElementsOf
  <2>4. ASSUME NEW w \in Context, Keeps(trace_equality(a), u, w)
        PROVE  a \in Orders(w)
    <3>1. a.left \in Seq(w.live) /\ a.right \in Seq(w.live)
      BY <2>1, <2>2, <2>4, Kept
    <3> QED
      BY <1>1, <3>1 DEF Orders
  <2> QED
    BY <2>3, <2>4 DEF Equalities
<1>2. CASE a \in Memberships(u)
  <2>1. a.needle \in u.live /\ a.iterator \in Iter(u) /\ a.act = "Membership"
    BY <1>2 DEF Memberships
  <2>2. trace_equality(a) = {a.needle, a.iterator}
    BY <2>1 DEF trace_equality, trace_membership
  <2>3. trace_equality(a) \subseteq u.live
    BY <2>1, <2>2 DEF Iter
  <2>4. ASSUME NEW w \in Context, Keeps(trace_equality(a), u, w)
        PROVE  a \in Memberships(w)
    <3>1. a.needle \in w.live /\ a.iterator \in Iter(w)
      BY <2>1, <2>2, <2>4, Kept
    <3> QED
      BY <1>2, <3>1 DEF Memberships
  <2> QED
    BY <2>3, <2>4 DEF Equalities
<1>3. CASE a \in {t \in [act : {"Return"}] : Plain}
  BY <1>3 DEF Equalities, trace_equality
<1> QED
  BY <1>1, <1>2, <1>3 DEF Equalities

LEMMA KeptExtremum ==
  ASSUME NEW u \in Context, NEW s \in Extrema(u)
  PROVE  /\ trace_extremum(s) \subseteq u.live
         /\ \A w \in Context : Keeps(trace_extremum(s), u, w) => s \in Extrema(w)
<1>1. /\ s \in [act : {"ExtremumNext"}, iterator : Iter(u) \cup {Unbound}, values : Seq(Picked(u)), config : Configs(u),
                best : Picked(u) \cup {Unbound}, best_key : u.live]
      /\ scene.op = "extremum" /\ (s.iterator = Unbound <=> scene.args[1] = Unbound)
  BY DEF Extrema
<1>2. /\ s.config = scene.config /\ s.config.default \in u.live /\ (s.config.key => "a" \in u.live)
      /\ s.values \in Seq(u.live)
  BY <1>1 DEF Configs, Picked
<1>3. trace_extremum(s) \subseteq u.live
  <2>1. Unbound \in u.live
    BY Worlds DEF Unbound, Names
  <2>2. Elements(s.values) \subseteq u.live
    BY <1>2, ElementsOf
  <2>3. s.iterator \in u.live /\ s.best \in u.live /\ s.best_key \in u.live
    BY <1>1, <2>1 DEF Iter, Picked
  <2> QED
    BY <1>2, <2>2, <2>3 DEF trace_extremum, trace_config
<1>4. ASSUME NEW w \in Context, Keeps(trace_extremum(s), u, w)
      PROVE  s \in Extrema(w)
  <2> DEFINE K == trace_extremum(s)
  <2>1. /\ s.iterator \in K /\ s.best \in K /\ s.best_key \in K /\ Elements(s.values) \subseteq K
        /\ s.config.default \in K /\ (s.config.key => "a" \in K)
    BY DEF trace_extremum, trace_config
  <2> HIDE DEF K
  <2>2. Keeps(K, u, w)
    BY <1>4 DEF K
  <2>3. s.iterator \in Iter(w) \cup {Unbound} /\ s.best \in Picked(w) \cup {Unbound}
    BY <1>1, <2>1, <2>2, Kept
  <2>4. s.best_key \in w.live /\ s.config.default \in w.live /\ (s.config.key => "a" \in w.live)
    BY <1>1, <1>2, <2>1, <2>2, Kept
  <2>5. s.values \in Seq(Picked(w))
    BY <1>1, <2>1, <2>2, Kept
  <2>6. s.config \in Configs(w)
    BY <1>2, <2>4 DEF Configs
  <2> QED
    BY <1>1, <2>3, <2>4, <2>5, <2>6 DEF Extrema
<1> QED
  BY <1>3, <1>4

LEMMA KeptCompared ==
  ASSUME NEW u \in Context, NEW c \in Compared(u)
  PROVE  /\ trace_extremum(c.state) \cup {c.item, c.key} \subseteq u.live
         /\ \A w \in Context : Keeps(trace_extremum(c.state) \cup {c.item, c.key}, u, w) => c \in Compared(w)
<1>1. c \in [act : {"Extremum"}, state : Extrema(u), item : Picked(u), key : u.live]
  BY DEF Compared
<1>2. trace_extremum(c.state) \cup {c.item, c.key} \subseteq u.live
  BY <1>1, KeptExtremum DEF Picked
<1>3. ASSUME NEW w \in Context, Keeps(trace_extremum(c.state) \cup {c.item, c.key}, u, w)
      PROVE  c \in Compared(w)
  <2>1. Keeps(trace_extremum(c.state), u, w)
    BY <1>3 DEF Keeps
  <2>2. c.state \in Extrema(w)
    BY <1>1, <2>1, KeptExtremum
  <2>3. c.item \in Picked(w) /\ c.key \in w.live
    BY <1>1, <1>3, Kept
  <2> QED
    BY <1>1, <2>2, <2>3 DEF Compared
<1> QED
  BY <1>2, <1>3

LEMMA KeptTruth ==
  ASSUME NEW u \in Context, NEW a \in Truths(u)
  PROVE  /\ trace_truth(a) \subseteq u.live
         /\ \A w \in Context : Keeps(trace_truth(a), u, w) => a \in Truths(w)
<1>1. CASE a \in Equated(u)
  <2>1. a.act = "Equality" /\ a.outer \in Equalities(u) /\ a = [act |-> "Equality", outer |-> a.outer]
    BY <1>1 DEF Equated
  <2>2. trace_truth(a) = trace_equality(a.outer)
    BY <2>1 DEF trace_truth
  <2>3. \A w \in Context : Keeps(trace_truth(a), u, w) => a.outer \in Equalities(w)
    BY <2>1, <2>2, KeptEquality
  <2>4. \A w \in Context : Keeps(trace_truth(a), u, w) => a \in Equated(w)
    BY <2>1, <2>3 DEF Equated
  <2> QED
    BY <2>1, <2>2, <2>4, KeptEquality DEF Truths
<1>2. CASE a \in Reductions(u)
  <2>1. a.act = "BoolReduce" /\ a.iterator \in Iter(u)
    BY <1>2 DEF Reductions
  <2>2. trace_truth(a) = {a.iterator}
    BY <2>1 DEF trace_truth
  <2>3. \A w \in Context : Keeps(trace_truth(a), u, w) => a.iterator \in Iter(w)
    BY <2>1, <2>2, Kept
  <2>4. \A w \in Context : Keeps(trace_truth(a), u, w) => a \in Reductions(w)
    BY <1>2, <2>3 DEF Reductions
  <2> QED
    BY <2>1, <2>2, <2>4 DEF Truths, Iter
<1>3. CASE a \in Compared(u)
  <2>1. a.act = "Extremum"
    BY <1>3 DEF Compared
  <2>2. trace_truth(a) = trace_extremum(a.state) \cup {a.item, a.key}
    BY <2>1 DEF trace_truth
  <2> QED
    BY <1>3, <2>2, KeptCompared DEF Truths
<1>4. CASE a \in {t \in [act : {"Not", "Return"}] \cup [act : {"Jump"}, original : u.live] : Plain}
  <2>1. CASE a.act = "Jump"
    <3>1. a.original \in u.live /\ trace_truth(a) = {a.original} /\ Plain
      BY <1>4, <2>1 DEF trace_truth
    <3>2. \A w \in Context : Keeps(trace_truth(a), u, w) => a.original \in w.live
      BY <3>1, Kept
    <3>3. \A w \in Context : Keeps(trace_truth(a), u, w) => a \in Truths(w)
      BY <1>4, <2>1, <3>1, <3>2 DEF Truths
    <3> QED
      BY <3>1, <3>3
  <2>2. CASE a.act # "Jump"
    BY <1>4, <2>2 DEF trace_truth, Truths
  <2> QED
    BY <2>1, <2>2
<1> QED
  BY <1>1, <1>2, <1>3, <1>4 DEF Truths

LEMMA KeptCompletion ==
  ASSUME NEW u \in Context, NEW c \in Completions(u)
  PROVE  /\ trace_completion(c) \subseteq u.live
         /\ \A w \in Context : Keeps(trace_completion(c), u, w) => c \in Completions(w)
<1>1. CASE c \in Equated(u)
  <2>1. c.act = "Equality" /\ c.outer \in Equalities(u) /\ c = [act |-> "Equality", outer |-> c.outer]
    BY <1>1 DEF Equated
  <2>2. trace_completion(c) = trace_equality(c.outer)
    BY <2>1 DEF trace_completion
  <2>3. \A w \in Context : Keeps(trace_completion(c), u, w) => c.outer \in Equalities(w)
    BY <2>1, <2>2, KeptEquality
  <2>4. \A w \in Context : Keeps(trace_completion(c), u, w) => c \in Equated(w)
    BY <2>1, <2>3 DEF Equated
  <2> QED
    BY <2>1, <2>2, <2>4, KeptEquality DEF Completions
<1>2. CASE c \in Compared(u)
  <2>1. c.act = "Extremum"
    BY <1>2 DEF Compared
  <2>2. trace_completion(c) = trace_extremum(c.state) \cup {c.item, c.key}
    BY <2>1 DEF trace_completion
  <2> QED
    BY <1>2, <2>2, KeptCompared DEF Completions
<1>3. CASE c \in {t \in [act : {"Value"}] \cup [act : {"Sum"}, iterator : Iter(u)] : Plain}
  <2>1. CASE c.act = "Sum"
    <3>1. c.iterator \in Iter(u) /\ trace_completion(c) = {c.iterator} /\ Plain
      BY <1>3, <2>1 DEF trace_completion
    <3>2. \A w \in Context : Keeps(trace_completion(c), u, w) => c.iterator \in Iter(w)
      BY <3>1, Kept
    <3>3. \A w \in Context : Keeps(trace_completion(c), u, w) => c \in Completions(w)
      BY <1>3, <2>1, <3>1, <3>2 DEF Completions
    <3> QED
      BY <3>1, <3>3 DEF Iter
  <2>2. CASE c.act # "Sum"
    BY <1>3, <2>2 DEF trace_completion, Completions
  <2> QED
    BY <2>1, <2>2
<1> QED
  BY <1>1, <1>2, <1>3 DEF Completions

LEMMA KeptFinish ==
  ASSUME NEW u \in Context, NEW f \in Finishes(u)
  PROVE  /\ trace_finish(f) \subseteq u.live
         /\ \A w \in Context : Keeps(trace_finish(f), u, w) => f \in Finishes(w)
<1>1. /\ f \in [native : BOOLEAN, initialize : Seq(u.live)]
      /\ f.native => scene.op = "class" /\ "inst" \in u.live /\ (f.initialize # <<>> => scene.init # "list")
      /\ ~f.native => f.initialize = <<>>
  BY DEF Finishes
<1>2. trace_finish(f) \subseteq u.live
  BY <1>1, ElementsOf DEF trace_finish
<1>3. ASSUME NEW w \in Context, Keeps(trace_finish(f), u, w)
      PROVE  f \in Finishes(w)
  <2> DEFINE K == trace_finish(f)
  <2>1. Elements(f.initialize) \subseteq K /\ (f.native => "inst" \in K)
    BY DEF trace_finish
  <2> HIDE DEF K
  <2>2. Keeps(K, u, w)
    BY <1>3 DEF K
  <2>3. f.initialize \in Seq(w.live) /\ (f.native => "inst" \in w.live)
    BY <1>1, <2>1, <2>2, Kept
  <2> QED
    BY <1>1, <2>3 DEF Finishes
<1> QED
  BY <1>2, <1>3

LEMMA KeptTarget ==
  ASSUME NEW u \in Context, NEW to \in Targets(u)
  PROVE  /\ trace_index(to) \subseteq u.live
         /\ \A w \in Context : Keeps(trace_index(to), u, w) => to \in Targets(w)
<1>1. CASE to \in [act : {"IndexTruth"}, outer : Truths(u)]
  <2>1. trace_index(to) = trace_truth(to.outer) /\ to.outer \in Truths(u)
    BY <1>1 DEF trace_index
  <2>2. \A w \in Context : Keeps(trace_index(to), u, w) => to.outer \in Truths(w)
    BY <2>1, KeptTruth
  <2>3. \A w \in Context : to.outer \in Truths(w) => to \in [act : {"IndexTruth"}, outer : Truths(w)]
    BY <1>1
  <2>4. \A w \in Context : Keeps(trace_index(to), u, w) => to \in Targets(w)
    BY <2>2, <2>3 DEF Targets
  <2> QED
    BY <2>1, <2>4, KeptTruth
<1>2. CASE Plain /\ to \in Ranges(u) /\ to.next <= Len(to.values)
  <2>1. to.values \in Seq(u.live) /\ trace_index(to) = Elements(to.values)
    BY <1>2 DEF Ranges, trace_index
  <2>2. ASSUME NEW w \in Context, Keeps(trace_index(to), u, w)
        PROVE  to \in Targets(w)
    <3>1. to.values \in Seq(w.live)
      BY <2>1, <2>2, Kept
    <3>2. to \in Ranges(w)
      BY <1>2, <3>1 DEF Ranges
    <3> QED
      BY <1>2, <3>2 DEF Targets
  <2> QED
    BY <2>1, <2>2, ElementsOf
<1>3. CASE Plain /\ to \in Slices(u) /\ to.next <= Len(to.values)
  <2>1. /\ to.values \in Seq(u.live) /\ to.owner \in u.live
        /\ trace_index(to) = Elements(to.values) \cup {to.owner}
    BY <1>3 DEF Slices, trace_index
  <2>2. ASSUME NEW w \in Context, Keeps(trace_index(to), u, w)
        PROVE  to \in Targets(w)
    <3>1. to.values \in Seq(w.live) /\ to.owner \in w.live
      BY <2>1, <2>2, Kept
    <3>2. to \in Slices(w)
      BY <1>3, <3>1 DEF Slices
    <3> QED
      BY <1>3, <3>2 DEF Targets
  <2> QED
    BY <2>1, <2>2, ElementsOf
<1>4. CASE Plain /\ to \in [act : {"IntBase"}, argument : u.live, finish : Finishes(u)]
  <2>1. trace_index(to) = {to.argument} \cup trace_finish(to.finish) /\ to.finish \in Finishes(u) /\ to.argument \in u.live
    BY <1>4 DEF trace_index
  <2>2. ASSUME NEW w \in Context, Keeps(trace_index(to), u, w)
        PROVE  to \in Targets(w)
    <3>1. to.argument \in w.live
      BY <2>1, <2>2, Kept
    <3>2. Keeps(trace_finish(to.finish), u, w)
      BY <2>1, <2>2 DEF Keeps
    <3>3. to.finish \in Finishes(w)
      BY <2>1, <3>2, KeptFinish
    <3> QED
      BY <1>4, <3>1, <3>3 DEF Targets
  <2> QED
    BY <2>1, <2>2, KeptFinish
<1>5. CASE Plain /\ to \in [act : {"Length", "Round"}]
  BY <1>5 DEF trace_index, Targets
<1>6. CASE Plain /\ to \in [act : {"GetItem", "DelItem"}, owner : u.live]
  <2>1. trace_index(to) = {to.owner} /\ to.owner \in u.live
    BY <1>6 DEF trace_index
  <2>2. \A w \in Context : Keeps(trace_index(to), u, w) => to.owner \in w.live
    BY <2>1, Kept
  <2>3. \A w \in Context : Keeps(trace_index(to), u, w) => to \in Targets(w)
    BY <1>6, <2>2 DEF Targets
  <2> QED
    BY <2>1, <2>3
<1>7. CASE Plain /\ to \in [act : {"SetItem"}, owner : u.live, value : u.live]
  <2>1. trace_index(to) = {to.owner, to.value} /\ to.owner \in u.live /\ to.value \in u.live
    BY <1>7 DEF trace_index
  <2>2. \A w \in Context : Keeps(trace_index(to), u, w) => to.owner \in w.live /\ to.value \in w.live
    BY <2>1, Kept
  <2>3. \A w \in Context : Keeps(trace_index(to), u, w) => to \in Targets(w)
    BY <1>7, <2>2 DEF Targets
  <2> QED
    BY <2>1, <2>3
<1> QED
  BY <1>1, <1>2, <1>3, <1>4, <1>5, <1>6, <1>7, TargetCases

LEMMA KeptBinary ==
  ASSUME NEW u \in Context, NEW s \in BinaryCalls(u)
  PROVE  /\ trace(s) \subseteq u.live
         /\ \A w \in Context : Keeps(trace(s), u, w) => s \in BinaryCalls(w)
<1> DEFINE Of(i) == {s.candidates[i].x} \cup Elements(s.candidates[i].args)
<1>1. /\ s \in [act : {"BinaryProtocol"}, op : OperatorNames, left : u.live, right : u.live, extra : Seq(u.live),
                candidates : Seq(Candidates(u)), negate : BOOLEAN, outer : Completions(u)]
      /\ s.outer.act = "Equality" => s.op = "Eq" /\ s.left # s.right
      /\ s.op = "Eq" => \A i \in 1 .. Len(s.candidates) : s.candidates[i].m = "__eq__"
  BY DEF BinaryCalls
<1>2. trace(s) = {s.left, s.right} \cup Elements(s.extra) \cup trace_completion(s.outer)
                   \cup UNION {Of(i) : i \in DOMAIN s.candidates}
  BY <1>1 DEF trace, trace_protocol
<1>3. DOMAIN s.candidates = 1 .. Len(s.candidates)
  BY <1>1
<1>4. \A i \in 1 .. Len(s.candidates) :
        s.candidates[i] \in [m : Operators, x : u.live, args : Seq(u.live), negate : BOOLEAN]
  <2>1. s.candidates \in Seq(Candidates(u))
    BY <1>1
  <2>2. \A i \in 1 .. Len(s.candidates) : s.candidates[i] \in Candidates(u)
    BY <2>1
  <2> QED
    BY <2>2 DEF Candidates
<1>5. trace(s) \subseteq u.live
  <2>1. \A i \in DOMAIN s.candidates : Of(i) \subseteq u.live
    BY <1>3, <1>4, ElementsOf
  <2>2. Elements(s.extra) \subseteq u.live /\ trace_completion(s.outer) \subseteq u.live
    BY <1>1, ElementsOf, KeptCompletion
  <2> HIDE DEF Of
  <2> QED
    BY <1>1, <1>2, <2>1, <2>2
<1>6. ASSUME NEW w \in Context, Keeps(trace(s), u, w)
      PROVE  s \in BinaryCalls(w)
  <2>1. s.left \in w.live /\ s.right \in w.live /\ s.extra \in Seq(w.live)
    <3> HIDE DEF Of
    <3> QED
      BY <1>1, <1>2, <1>6, Kept
  <2>2. s.outer \in Completions(w)
    <3>1. Keeps(trace_completion(s.outer), u, w)
      BY <1>2, <1>6 DEF Keeps
    <3> QED
      BY <1>1, <3>1, KeptCompletion
  <2>3. ASSUME NEW i \in 1 .. Len(s.candidates)
        PROVE  s.candidates[i] \in Candidates(w)
    <3> DEFINE c == s.candidates[i]
    <3>1. c.x \in trace(s) /\ Elements(c.args) \subseteq trace(s)
      <4>1. i \in DOMAIN s.candidates /\ c.x \in Of(i) /\ Elements(c.args) \subseteq Of(i)
        BY <1>3, <2>3
      <4> HIDE DEF Of, c
      <4> QED
        BY <1>2, <4>1
    <3>2. c \in [m : Operators, x : u.live, args : Seq(u.live), negate : BOOLEAN]
      BY <1>4
    <3> HIDE DEF c
    <3>3. c.x \in w.live /\ c.args \in Seq(w.live)
      BY <1>6, <3>1, <3>2, Kept
    <3>4. c \in Candidates(w)
      BY <3>2, <3>3 DEF Candidates
    <3> QED
      BY <3>4 DEF c
  <2>4. s.candidates \in Seq(Candidates(w))
    BY <1>1, <2>3
  <2> HIDE DEF Of
  <2> QED
    BY <1>1, <2>1, <2>2, <2>4 DEF BinaryCalls
<1> QED
  BY <1>5, <1>6

LEMMA KeptConversion ==
  ASSUME NEW u \in Context, NEW k \in TruthCalls(u) \cup IndexCalls(u) \cup NumericCalls(u)
  PROVE  /\ trace(k) \subseteq u.live
         /\ \A w \in Context : Keeps(trace(k), u, w) => k \in TruthCalls(w) \cup IndexCalls(w) \cup NumericCalls(w)
<1>1. CASE k \in TruthCalls(u)
  <2>1. trace(k) = trace_truth(k.outer) /\ k.outer \in Truths(u)
    BY <1>1 DEF TruthCalls, trace
  <2>2. \A w \in Context : Keeps(trace(k), u, w) => k.outer \in Truths(w)
    BY <2>1, KeptTruth
  <2>3. \A w \in Context : Keeps(trace(k), u, w) => k \in TruthCalls(w)
    BY <1>1, <2>2 DEF TruthCalls
  <2> QED
    BY <2>1, <2>3, KeptTruth
<1>2. CASE k \in IndexCalls(u)
  <2>1. trace(k) = trace_index(k.outer) /\ k.outer \in Targets(u)
    BY <1>2 DEF IndexCalls, trace
  <2>2. \A w \in Context : Keeps(trace(k), u, w) => k.outer \in Targets(w)
    BY <2>1, KeptTarget
  <2>3. \A w \in Context : Keeps(trace(k), u, w) => k \in IndexCalls(w)
    BY <1>2, <2>2 DEF IndexCalls
  <2> QED
    BY <2>1, <2>3, KeptTarget
<1>3. CASE k \in NumericCalls(u)
  <2>1. trace(k) = trace_finish(k.finish) /\ k.finish \in Finishes(u)
    BY <1>3 DEF NumericCalls, trace
  <2>2. \A w \in Context : Keeps(trace(k), u, w) => k.finish \in Finishes(w)
    BY <2>1, KeptFinish
  <2>3. \A w \in Context : Keeps(trace(k), u, w) => k \in NumericCalls(w)
    BY <1>3, <2>2 DEF NumericCalls
  <2> QED
    BY <2>1, <2>3, KeptFinish
<1> QED
  BY <1>1, <1>2, <1>3

LEMMA KeptSum ==
  ASSUME NEW u \in Context, NEW k \in SumCalls(u)
  PROVE  /\ trace(k) \subseteq u.live
         /\ \A w \in Context : Keeps(trace(k), u, w) => k \in SumCalls(w)
<1>1. CASE k.act = "SumIterStart"
  <2>1. k \in [act : {"SumIterStart"}, total : u.live] /\ Plain /\ trace(k) = {k.total} /\ k.total \in u.live
    BY <1>1 DEF SumCalls, trace
  <2>2. \A w \in Context : Keeps(trace(k), u, w) => k.total \in w.live
    BY <2>1, Kept
  <2> QED
    BY <2>1, <2>2 DEF SumCalls
<1>2. CASE k.act = "SumNext"
  <2>1. /\ k \in [act : {"SumNext"}, iterator : Iter(u), total : u.live] /\ Plain
        /\ trace(k) = {k.iterator} \cup (IF k.total \in Integer THEN {} ELSE {k.total})
        /\ k.iterator \in Iter(u) /\ k.total \in u.live
    BY <1>2 DEF SumCalls, trace, trace_sum
  <2>2. \A w \in Context : Keeps(trace(k), u, w) => k.total \in w.live /\ k.iterator \in Iter(w)
    BY <2>1, Kept, Worlds
  <2>3. \A w \in Context : Keeps(trace(k), u, w) => k \in SumCalls(w)
    BY <2>1, <2>2 DEF SumCalls
  <2> QED
    BY <2>1, <2>3 DEF Iter
<1> QED
  BY <1>1, <1>2 DEF SumCalls

LEMMA KeptOther ==
  ASSUME NEW u \in Context, NEW k \in AttributeCalls(u) \cup OtherCalls(u)
  PROVE  /\ trace(k) \subseteq u.live
         /\ \A w \in Context : Keeps(trace(k), u, w) => k \in AttributeCalls(w) \cup OtherCalls(w)
<1>1. CASE k \in AttributeCalls(u)
  <2>1. trace(k) = {"a", k.missing} /\ k.owner = "a" /\ "a" \in u.live /\ k.missing \in u.live /\ Plain
    BY <1>1 DEF AttributeCalls, trace
  <2>2. \A w \in Context : Keeps(trace(k), u, w) => "a" \in w.live /\ k.missing \in w.live
    BY <2>1, Kept
  <2>3. \A w \in Context : Keeps(trace(k), u, w) => k \in AttributeCalls(w)
    BY <1>1, <2>1, <2>2 DEF AttributeCalls
  <2> QED
    BY <2>1, <2>3
<1>2. CASE k \in OtherCalls(u) /\ k.act = "UnaryProtocol"
  <2>1. k \in [act : {"UnaryProtocol"}, value : u.live] /\ Plain /\ trace(k) = {k.value} /\ k.value \in u.live
    BY <1>2 DEF OtherCalls, trace
  <2>2. \A w \in Context : Keeps(trace(k), u, w) => k.value \in w.live
    BY <2>1, Kept
  <2>3. \A w \in Context : Keeps(trace(k), u, w) => k \in OtherCalls(w)
    BY <2>1, <2>2 DEF OtherCalls
  <2> QED
    BY <2>1, <2>3
<1>3. CASE k \in OtherCalls(u) /\ k.act = "Initializer"
  <2>1. k \in [act : {"Initializer"}, instance : u.live] /\ Plain /\ trace(k) = {k.instance} /\ k.instance \in u.live
    BY <1>3 DEF OtherCalls, trace
  <2>2. \A w \in Context : Keeps(trace(k), u, w) => k.instance \in w.live
    BY <2>1, Kept
  <2>3. \A w \in Context : Keeps(trace(k), u, w) => k \in OtherCalls(w)
    BY <2>1, <2>2 DEF OtherCalls
  <2> QED
    BY <2>1, <2>3
<1>4. CASE k \in OtherCalls(u) /\ k.act \notin {"UnaryProtocol", "Initializer"}
  <2>1. Plain /\ k \in [act : {"LengthResult", "Value", "Setter", "StringConversion", "FormatResult"}]
                        \cup [act : {"MembershipContains"}, negate : BOOLEAN]
    BY <1>4 DEF OtherCalls
  <2>2. trace(k) = {}
    BY <2>1 DEF trace
  <2>3. \A w \in Context : k \in OtherCalls(w)
    BY <2>1 DEF OtherCalls
  <2> QED
    BY <2>2, <2>3
<1> QED
  BY <1>1, <1>2, <1>3, <1>4

LEMMA KeptReduce ==
  ASSUME NEW u \in Context, NEW k \in ReduceCalls(u)
  PROVE  /\ trace(k) \subseteq u.live
         /\ \A w \in Context : Keeps(trace(k), u, w) => k \in ReduceCalls(w)
<1>1. CASE k.act = "BoolReduceIterStart"
  <2>1. k \in [act : {"BoolReduceIterStart"}, any : BOOLEAN] /\ Reduces(k) /\ trace(k) = {}
    BY <1>1 DEF ReduceCalls, trace
  <2> QED
    BY <2>1 DEF ReduceCalls
<1>2. CASE k.act = "BoolReduceNext"
  <2>1. /\ k \in [act : {"BoolReduceNext"}, iterator : Iter(u), any : BOOLEAN] /\ Reduces(k)
        /\ trace(k) = {k.iterator} /\ k.iterator \in Iter(u)
    BY <1>2 DEF ReduceCalls, trace
  <2>2. \A w \in Context : Keeps(trace(k), u, w) => k.iterator \in Iter(w)
    BY <2>1, Kept
  <2>3. \A w \in Context : Keeps(trace(k), u, w) => k \in ReduceCalls(w)
    BY <2>1, <2>2 DEF ReduceCalls
  <2> QED
    BY <2>1, <2>3 DEF Iter
<1> QED
  BY <1>1, <1>2 DEF ReduceCalls

LEMMA KeptMembership ==
  ASSUME NEW u \in Context, NEW k \in MembershipCalls(u)
  PROVE  /\ trace(k) \subseteq u.live
         /\ \A w \in Context : Keeps(trace(k), u, w) => k \in MembershipCalls(w)
<1>1. CASE k.act = "MembershipIterStart"
  <2>1. /\ k \in [act : {"MembershipIterStart"}, needle : u.live, negate : BOOLEAN] /\ Tests(k)
        /\ trace(k) = {k.needle} /\ k.needle \in u.live
    BY <1>1 DEF MembershipCalls, trace
  <2>2. \A w \in Context : Keeps(trace(k), u, w) => k.needle \in w.live
    BY <2>1, Kept
  <2>3. \A w \in Context : Keeps(trace(k), u, w) => k \in MembershipCalls(w)
    BY <2>1, <2>2 DEF MembershipCalls
  <2> QED
    BY <2>1, <2>3
<1>2. CASE k.act = "MembershipNext"
  <2>1. /\ k \in [act : {"MembershipNext"}, needle : u.live, iterator : Iter(u), negate : BOOLEAN] /\ Tests(k)
        /\ trace(k) = {k.needle, k.iterator} /\ k.needle \in u.live /\ k.iterator \in Iter(u)
    BY <1>2 DEF MembershipCalls, trace, trace_membership
  <2>2. \A w \in Context : Keeps(trace(k), u, w) => k.needle \in w.live /\ k.iterator \in Iter(w)
    BY <2>1, Kept
  <2>3. \A w \in Context : Keeps(trace(k), u, w) => k \in MembershipCalls(w)
    BY <2>1, <2>2 DEF MembershipCalls
  <2> QED
    BY <2>1, <2>3 DEF Iter
<1> QED
  BY <1>1, <1>2 DEF MembershipCalls

LEMMA KeptExtremumCall ==
  ASSUME NEW u \in Context, NEW k \in ExtremumCalls(u)
  PROVE  /\ trace(k) \subseteq u.live
         /\ \A w \in Context : Keeps(trace(k), u, w) => k \in ExtremumCalls(w)
<1>1. CASE k.act = "ExtremumIterStart"
  <2>1. /\ k \in [act : {"ExtremumIterStart"}, config : Configs(u)] /\ scene.op = "extremum" /\ scene.args[1] # Unbound
        /\ trace(k) = trace_config(k.config) /\ k.config \in Configs(u)
    BY <1>1 DEF ExtremumCalls, Extrema, trace
  <2>2. k.config = scene.config /\ k.config.default \in u.live /\ (k.config.key => "a" \in u.live)
    BY <2>1 DEF Configs
  <2>3. trace(k) \subseteq u.live /\ k.config.default \in trace(k) /\ (k.config.key => "a" \in trace(k))
    BY <2>1, <2>2 DEF trace_config
  <2>4. \A w \in Context : Keeps(trace(k), u, w) => k.config.default \in w.live /\ (k.config.key => "a" \in w.live)
    BY <2>2, <2>3, Kept
  <2>5. \A w \in Context : Keeps(trace(k), u, w) => k.config \in Configs(w)
    BY <2>2, <2>4 DEF Configs
  <2>6. \A w \in Context : Keeps(trace(k), u, w) => k \in ExtremumCalls(w)
    BY <2>1, <2>5 DEF ExtremumCalls
  <2> QED
    BY <2>3, <2>6
<1>2. CASE k.act = "ExtremumNext"
  <2>1. k \in Extrema(u) /\ k.iterator # Unbound /\ trace(k) = trace_extremum(k)
    BY <1>2 DEF ExtremumCalls, trace
  <2>2. \A w \in Context : Keeps(trace(k), u, w) => k \in Extrema(w)
    BY <2>1, KeptExtremum
  <2>3. \A w \in Context : Keeps(trace(k), u, w) => k \in ExtremumCalls(w)
    BY <2>1, <2>2 DEF ExtremumCalls
  <2> QED
    BY <2>1, <2>3, KeptExtremum
<1>3. CASE k.act = "ExtremumKey"
  <2>1. /\ k \in [act : {"ExtremumKey"}, state : Extrema(u), item : Picked(u)]
        /\ trace(k) = trace_extremum(k.state) \cup {k.item} /\ k.state \in Extrema(u) /\ k.item \in Picked(u)
    BY <1>3 DEF ExtremumCalls, Extrema, trace
  <2>2. \A w \in Context : Keeps(trace(k), u, w) => Keeps(trace_extremum(k.state), u, w)
    BY <2>1 DEF Keeps
  <2>3. \A w \in Context : Keeps(trace(k), u, w) => k.state \in Extrema(w)
    BY <2>1, <2>2, KeptExtremum
  <2>4. \A w \in Context : Keeps(trace(k), u, w) => k.item \in Picked(w)
    BY <2>1, Kept
  <2>5. \A w \in Context : Keeps(trace(k), u, w) => k \in ExtremumCalls(w)
    BY <2>1, <2>3, <2>4 DEF ExtremumCalls
  <2> QED
    BY <2>1, <2>5, KeptExtremum DEF Picked
<1> QED
  BY <1>1, <1>2, <1>3 DEF ExtremumCalls, Extrema

\* A collection also needs what it has collected to be what was given.
LEMMA KeptCollection ==
  ASSUME NEW u \in Context, NEW k \in CollectCalls(u)
  PROVE  /\ trace(k) \subseteq u.live
         /\ \A w \in Context : Keeps(trace(k), u, w) /\ w.items = u.items /\ w.stored = u.stored => k \in CollectCalls(w)
<1>1. /\ k.finish \in Finishes(u) /\ k.kind \in Kinds /\ Collects(k, u)
      /\ \/ k \in [act : {"CollectIterableStart"}, kind : Kinds, finish : Finishes(u)] /\ Fresh(u)
         \/ /\ k \in [act : {"CollectIterableNext"}, kind : Kinds, finish : Finishes(u), iterator : Iter(u), items : Seq(u.live)]
            /\ k.items = IF k.kind = "ListInit" THEN <<>> ELSE u.items
            /\ k.kind = "ListInit" => u.stored = u.items
  BY DEF CollectCalls, Collections
<1>2. trace_kind(k) \subseteq u.live
  BY <1>1, KeptFinish DEF trace_kind, Collects
<1>3. ASSUME NEW w \in Context, Keeps(trace_kind(k), u, w)
      PROVE  k.finish \in Finishes(w) /\ Collects(k, w)
  <2>1. Keeps(trace_finish(k.finish), u, w)
    BY <1>3 DEF Keeps, trace_kind
  <2>2. k.kind = "ListInit" => "inst" \in w.live
    BY <1>3 DEF Keeps, trace_kind, Objects
  <2> QED
    BY <1>1, <2>1, <2>2, KeptFinish DEF Collects
<1>4. CASE k.act = "CollectIterableStart"
  <2>1. trace(k) = trace_kind(k)
    BY <1>4 DEF trace
  <2>2. \A w \in Context : Keeps(trace(k), u, w) /\ w.items = u.items /\ w.stored = u.stored => k \in CollectCalls(w)
    BY <1>1, <1>3, <1>4, <2>1 DEF CollectCalls, Fresh
  <2> QED
    BY <1>2, <2>1, <2>2
<1>5. CASE k.act = "CollectIterableNext"
  <2>1. trace(k) = trace_kind(k) \cup {k.iterator} \cup Elements(k.items)
    BY <1>5 DEF trace
  <2>2. k.iterator \in Iter(u) /\ k.items \in Seq(u.live)
    BY <1>1, <1>5
  <2>3. ASSUME NEW w \in Context, Keeps(trace(k), u, w), w.items = u.items, w.stored = u.stored
        PROVE  k \in CollectCalls(w)
    <3>1. Keeps(trace_kind(k), u, w)
      BY <2>1, <2>3 DEF Keeps
    <3>2. k.iterator \in Iter(w) /\ k.items \in Seq(w.live)
      BY <2>1, <2>2, <2>3, Kept
    <3>3. k \in [act : {"CollectIterableNext"}, kind : Kinds, finish : Finishes(w), iterator : Iter(w), items : Seq(w.live)]
      BY <1>1, <1>3, <1>5, <3>1, <3>2
    <3>4. k \in Collections(w)
      BY <1>1, <1>3, <1>5, <2>3, <3>1, <3>3 DEF Collections
    <3> QED
      BY <1>1, <1>5, <2>3, <3>4 DEF CollectCalls
  <2> QED
    BY <1>2, <2>1, <2>2, <2>3, ElementsOf DEF Iter
<1> QED
  BY <1>1, <1>4, <1>5

LEMMA KeptExpansion ==
  ASSUME NEW u \in Context, NEW k \in ExpandCalls(u)
  PROVE  /\ trace(k) \subseteq u.live
         /\ \A w \in Context : Keeps(trace(k), u, w) /\ w.items = u.items /\ w.stored = u.stored => k \in ExpandCalls(w)
<1>1. CASE k.act = "ExpandIterableStart"
  <2>1. trace(k) = {}
    BY <1>1 DEF trace
  <2> QED
    BY <1>1, <2>1 DEF ExpandCalls, Expansions, Fresh
<1>2. CASE k.act = "ExpandIterableNext"
  <2>1. k \in Expansions(u) /\ u.stored = u.items /\ trace(k) = {k.iterator} /\ k.iterator \in Iter(u)
    BY <1>2 DEF ExpandCalls, Expansions, trace
  <2>2. \A w \in Context : Keeps(trace(k), u, w) => k.iterator \in Iter(w)
    BY <2>1, Kept
  <2>3. \A w \in Context : Keeps(trace(k), u, w) => k \in Expansions(w)
    BY <2>1, <2>2 DEF Expansions
  <2>4. \A w \in Context : Keeps(trace(k), u, w) /\ w.items = u.items /\ w.stored = u.stored => k \in ExpandCalls(w)
    BY <2>1, <2>3 DEF ExpandCalls
  <2> QED
    BY <2>1, <2>4 DEF Iter
<1> QED
  BY <1>1, <1>2 DEF ExpandCalls, Expansions

LEMMA KeptNew ==
  ASSUME NEW u \in Context, NEW k \in NewCalls(u)
  PROVE  /\ trace(k) \subseteq u.live
         /\ \A w \in Context : Keeps(trace(k), u, w) /\ w.items = u.items /\ w.stored = u.stored => k \in NewCalls(w)
<1>1. k.args \in Seq(u.live) /\ "inst" \in u.live /\ trace(k) = Elements(k.args) \cup {"inst"}
  BY DEF NewCalls, trace
<1>2. \A w \in Context : Keeps(trace(k), u, w) => k.args \in Seq(w.live) /\ "inst" \in w.live
  BY <1>1, Kept
<1>3. \A w \in Context : Keeps(trace(k), u, w) /\ w.items = u.items /\ w.stored = u.stored => k \in NewCalls(w)
  BY <1>2 DEF NewCalls, Fresh
<1> QED
  BY <1>1, <1>3, ElementsOf

\* What an action will use is what its frame keeps reachable.
LEMMA Traced ==
  ASSUME NEW w \in Context, NEW k \in Continuations(w)
  PROVE  trace(k) \subseteq w.live
BY KeptConversion, KeptBinary, KeptSum, KeptOther, KeptReduce, KeptMembership, KeptExtremumCall, KeptCollection,
   KeptExpansion, KeptNew DEF Continuations

-----------------------------------------------------------------------------
(* Answers.  From the context u that a call is made in, its answer leads   *)
(* to the context w.                                                       *)

Told(k, m, how, v, u, w) ==
  /\ ~u.hit /\ k \in Continuations(u) /\ Asks(k, m, how)
  /\ v \in Answers(m) /\ v \in w.live /\ w.hit = HitBy(m, v)
  /\ Keeps(trace(k), u, w) /\ w.stored = u.stored
  /\ m \in IteratorEnds => w.items = Append(u.items, v) /\ v \in w.chosen
  /\ m \notin IteratorEnds => w.items = u.items
  /\ k.act = "New" /\ k.args # <<>> => Iterable(Head(k.args), w)

\* Only a search or a reduction is decided before its end.
LEMMA Quiet ==
  ASSUME NEW m, NEW v, scene.op \notin {"any", "all"}, ~Searches
  PROVE  ~HitBy(m, v)
BY DEF HitBy

LEMMA PlainQuiet ==
  ASSUME NEW m, NEW v, Plain
  PROVE  ~HitBy(m, v)
BY DEF HitBy, Plain, Judged

\* Which class a continuation is of.
LEMMA Classes ==
  ASSUME NEW w \in Context, NEW k \in Continuations(w)
  PROVE  /\ k.act = "Truth" <=> k \in TruthCalls(w)
         /\ k.act = "IndexConversion" <=> k \in IndexCalls(w)
         /\ k.act = "NumericConversion" <=> k \in NumericCalls(w)
         /\ k.act = "BinaryProtocol" <=> k \in BinaryCalls(w)
         /\ k.act \in {"SumIterStart", "SumNext"} <=> k \in SumCalls(w)
         /\ k.act = "AttributeGet" <=> k \in AttributeCalls(w)
         /\ k.act \in {"BoolReduceIterStart", "BoolReduceNext"} <=> k \in ReduceCalls(w)
         /\ k.act \in {"MembershipIterStart", "MembershipNext"} <=> k \in MembershipCalls(w)
         /\ k.act \in {"ExtremumIterStart", "ExtremumNext", "ExtremumKey"} <=> k \in ExtremumCalls(w)
         /\ k.act \in {"CollectIterableStart", "CollectIterableNext"} <=> k \in CollectCalls(w)
         /\ k.act \in {"ExpandIterableStart", "ExpandIterableNext"} <=> k \in ExpandCalls(w)
         /\ k.act = "New" <=> k \in NewCalls(w)
         /\ k.act \in {"LengthResult", "Value", "Setter", "StringConversion", "FormatResult", "UnaryProtocol",
                       "MembershipContains", "Initializer"} <=> k \in OtherCalls(w)
<1>1. /\ k \in TruthCalls(w) => k.act = "Truth"
      /\ k \in IndexCalls(w) => k.act = "IndexConversion"
      /\ k \in NumericCalls(w) => k.act = "NumericConversion"
      /\ k \in BinaryCalls(w) => k.act = "BinaryProtocol"
      /\ k \in SumCalls(w) => k.act \in {"SumIterStart", "SumNext"}
      /\ k \in AttributeCalls(w) => k.act = "AttributeGet"
  BY DEF TruthCalls, IndexCalls, NumericCalls, BinaryCalls, SumCalls, AttributeCalls
<1>2. /\ k \in ReduceCalls(w) => k.act \in {"BoolReduceIterStart", "BoolReduceNext"}
      /\ k \in MembershipCalls(w) => k.act \in {"MembershipIterStart", "MembershipNext"}
      /\ k \in ExtremumCalls(w) => k.act \in {"ExtremumIterStart", "ExtremumNext", "ExtremumKey"}
      /\ k \in CollectCalls(w) => k.act \in {"CollectIterableStart", "CollectIterableNext"}
  BY DEF ReduceCalls, MembershipCalls, ExtremumCalls, Extrema, CollectCalls, Collections
<1>3. /\ k \in ExpandCalls(w) => k.act \in {"ExpandIterableStart", "ExpandIterableNext"}
      /\ k \in NewCalls(w) => k.act = "New"
      /\ k \in OtherCalls(w) => k.act \in {"LengthResult", "Value", "Setter", "StringConversion", "FormatResult",
                                           "UnaryProtocol", "MembershipContains", "Initializer"}
  BY DEF ExpandCalls, Expansions, NewCalls, OtherCalls
<1>4. \/ k \in TruthCalls(w) \/ k \in IndexCalls(w) \/ k \in NumericCalls(w) \/ k \in BinaryCalls(w)
      \/ k \in SumCalls(w) \/ k \in AttributeCalls(w) \/ k \in ReduceCalls(w) \/ k \in MembershipCalls(w)
      \/ k \in ExtremumCalls(w) \/ k \in CollectCalls(w) \/ k \in ExpandCalls(w) \/ k \in NewCalls(w)
      \/ k \in OtherCalls(w)
  BY DEF Continuations
<1> QED
  BY <1>1, <1>2, <1>3, <1>4

LEMMA ToldTruth ==
  ASSUME scene \in Scene, NEW u \in Context, NEW w \in Context, NEW k, NEW m, NEW how, NEW v,
         Told(k, m, how, v, u, w), k.act = "Truth"
  PROVE  Typed(AfterCall(k, v), w) /\ Typed(OnReturn(k, v), w)
<1>1. k \in TruthCalls(u) /\ m = k.protocol
  BY Classes DEF Told, Asks
<1>2. k \in TruthCalls(w) \cup IndexCalls(w) \cup NumericCalls(w)
  BY <1>1, KeptConversion DEF Told
<1>3. k \in TruthCalls(w)
  BY <1>2 DEF IndexCalls, NumericCalls
<1>4. Typed(finish_truth(v, k), w)
  BY <1>1, <1>3, TruthAnswered DEF Told
<1> QED
  BY <1>4 DEF AfterCall, OnReturn, Starts, Items

LEMMA ToldIndex ==
  ASSUME scene \in Scene, NEW u \in Context, NEW w \in Context, NEW k, NEW m, NEW how, NEW v,
         Told(k, m, how, v, u, w), k.act = "IndexConversion"
  PROVE  Typed(AfterCall(k, v), w) /\ Typed(OnReturn(k, v), w)
<1>1. k \in IndexCalls(u) /\ m = "__index__"
  BY Classes DEF Told, Asks
<1>2. k \in TruthCalls(w) \cup IndexCalls(w) \cup NumericCalls(w)
  BY <1>1, KeptConversion DEF Told
<1>3. k \in IndexCalls(w)
  BY <1>2 DEF TruthCalls, NumericCalls
<1>4. Typed(finish_index_conversion(v, k), w)
  BY <1>1, <1>3, IndexAnswered DEF Told
<1>5. OnReturn(k, v) = finish_index_conversion(v, k)
  BY DEF OnReturn, Starts, Items
<1>6. AfterCall(k, v) = IF v \in Integer \cup Boolean THEN finish_index_conversion(normalize_index_result(v), k)
                        ELSE Err("TypeError")
  BY DEF AfterCall, Starts, Items
<1>7. ASSUME v \in Integer \cup Boolean
      PROVE  finish_index_conversion(normalize_index_result(v), k) = finish_index_conversion(v, k)
  <2>1. /\ normalize_index_result(v) \in Integer \cup Boolean
        /\ normalize_index_result(normalize_index_result(v)) = normalize_index_result(v)
    BY <1>7, Normal
  <2> QED
    BY <1>7, <2>1 DEF finish_index_conversion
<1> QED
  BY <1>4, <1>5, <1>6, <1>7, Failing

LEMMA ToldNumeric ==
  ASSUME scene \in Scene, NEW u \in Context, NEW w \in Context, NEW k, NEW m, NEW how, NEW v,
         Told(k, m, how, v, u, w), k.act = "NumericConversion"
  PROVE  Typed(AfterCall(k, v), w) /\ Typed(OnReturn(k, v), w)
<1>1. k \in NumericCalls(u)
  BY Classes DEF Told
<1>2. k \in TruthCalls(w) \cup IndexCalls(w) \cup NumericCalls(w)
  BY <1>1, KeptConversion DEF Told
<1>3. k \in NumericCalls(w)
  BY <1>2 DEF TruthCalls, IndexCalls
<1>4. ~w.hit
  BY <1>3, PlainQuiet DEF Told, NumericCalls
<1>5. Typed(finish_numeric_conversion(v, k), w)
  BY <1>3, <1>4, NumericAnswered DEF Told
<1> QED
  BY <1>5 DEF AfterCall, OnReturn, Starts, Items

\* What the answer of an equality decides.
LEMMA EqualityAnswer ==
  ASSUME scene \in Scene, NEW w \in Context, NEW c \in Equated(w), NEW v \in Answers("__eq__"), v # "NotImplemented",
         w.hit = HitBy("__eq__", v)
  PROVE  TruthDecides(v, c, w)
<1> DEFINE membership == c.outer.act = "Membership"
<1>1. v \in {"True", "False", "b"}
  BY DEF Answers, Integer, Boolean, IteratorEnds
<1>2. c.act = "Equality" /\ c.outer \in Equalities(w)
  BY DEF Equated
<1>3. CASE membership
  <2>1. Searches /\ scene.op \notin {"any", "all"}
    BY <1>2, <1>3 DEF Equalities, Orders, Memberships, Tests, Searches
  <2>2. w.hit = (v = "True" \/ (v = "b" /\ ~HasTruth))
    BY <2>1 DEF HitBy, Matches, Tells, IteratorEnds
  <2>3. CASE v \in {"True", "False"}
    <3>1. truth_protocol_call(v) = "none"
      BY <2>3, NoMethods
    <3>2. w.hit = HeapTruth(v)
      BY <2>2, <2>3 DEF HeapTruth
    <3>3. w.hit = (c.outer.act = "Membership" /\ HeapTruth(v))
      BY <1>3, <3>2 DEF HeapTruth
    <3> QED
      BY <1>2, <3>1, <3>3 DEF TruthDecides, Decides
  <2>4. CASE v = "b"
    <3>1. truth_protocol_call(v) = "none" <=> ~HasTruth
      <4>1. scene.has \in [{"a", "b", "it"} -> SUBSET Methods]
        BY SceneFields
      <4> QED
        BY <2>4, <4>1 DEF truth_protocol_call, operator_method_call, HasTruth
    <3>2. HeapTruth(v)
      BY <2>4 DEF HeapTruth
    <3> QED
      BY <1>2, <1>3, <2>2, <2>4, <3>1, <3>2, Worlds DEF TruthDecides, Decides
  <2> QED
    BY <1>1, <2>3, <2>4
<1>4. CASE ~membership
  <2>1. Plain
    BY <1>2, <1>4 DEF Equalities, Orders, Memberships
  <2>2. ~w.hit
    BY <2>1, PlainQuiet
  <2> QED
    BY <1>2, <1>4, <2>2, Worlds DEF TruthDecides, Decides
<1> QED
  BY <1>3, <1>4

LEMMA ToldBinary ==
  ASSUME scene \in Scene, NEW u \in Context, NEW w \in Context, NEW k, NEW m, NEW how, NEW v,
         Told(k, m, how, v, u, w), k.act = "BinaryProtocol"
  PROVE  Typed(AfterCall(k, v), w) /\ Typed(OnReturn(k, v), w)
<1>1. k \in BinaryCalls(u) /\ m \in Operators /\ (k.op = "Eq" => m = "__eq__")
  BY Classes DEF Told, Asks
<1>2. k \in BinaryCalls(w)
  BY <1>1, KeptBinary DEF Told
<1>3. k.outer \in Completions(w) /\ k.negate \in BOOLEAN /\ (k.outer.act = "Equality" => k.op = "Eq")
  BY <1>2 DEF BinaryCalls
<1>4. ASSUME v # "NotImplemented"
      PROVE  Typed(finish_binary_protocol_value(v, k.negate, k.outer), w)
  <2>1. CASE k.outer.act = "Equality"
    <3>1. k.outer \in Equated(w) /\ m = "__eq__"
      BY <1>1, <1>3, <2>1, CompletionCases
    <3>2. TruthDecides(v, k.outer, w)
      BY <1>4, <3>1, EqualityAnswer DEF Told
    <3> QED
      BY <1>3, <2>1, <3>2, OperatorValue DEF Told
  <2>2. CASE k.outer.act # "Equality"
    <3>1. Plain \/ scene.op = "extremum"
      BY <1>3, <2>2, CompletionCases DEF Compared, Extrema
    <3>2. ~w.hit
      BY <3>1, PlainQuiet, Quiet DEF Told, Searches
    <3> QED
      BY <1>3, <2>2, <3>2, OperatorValue DEF Told
  <2> QED
    BY <2>1, <2>2
<1>5. ASSUME v = "NotImplemented"
      PROVE  Typed(continue_binary_protocol(k), w)
  <2>1. ~HitBy(m, v)
    BY <1>1, <1>5, SceneFields DEF HitBy, Matches, Tells, Operators, IteratorEnds, Bool
  <2>2. ~w.hit
    BY <2>1 DEF Told
  <2> QED
    BY <1>2, <2>2, OperatorCall
<1> QED
  BY <1>4, <1>5 DEF AfterCall, OnReturn, Starts, Items

LEMMA ToldSum ==
  ASSUME scene \in Scene, NEW u \in Context, NEW w \in Context, NEW k, NEW m, NEW how, NEW v,
         Told(k, m, how, v, u, w), k.act \in {"SumIterStart", "SumNext"}
  PROVE  Typed(AfterCall(k, v), w) /\ Typed(OnReturn(k, v), w)
<1>1. k \in SumCalls(u)
  BY Classes DEF Told
<1>2. k \in SumCalls(w) /\ Plain /\ k.total \in w.live
  BY <1>1, KeptSum DEF Told, SumCalls
<1>3. ~w.hit /\ v \in w.live
  BY <1>2, PlainQuiet DEF Told
<1>4. CASE k.act = "SumIterStart"
  <2>1. v \in Iterators => Typed(sum_start_total(k.total, v), w)
    BY <1>2, <1>3, SumStart DEF Iter
  <2> QED
    BY <1>4, <2>1, Failing DEF AfterCall, OnReturn, AfterStart, ReturnStart, validate_iterator, Starts, Items
<1>5. CASE k.act = "SumNext"
  <2>1. Typed(add_sum_item(k, v), w)
    BY <1>2, <1>3, <1>5, SumItem
  <2> QED
    BY <1>5, <2>1 DEF AfterCall, OnReturn, AfterItem, ReturnItem, Starts, Items
<1> QED
  BY <1>4, <1>5

LEMMA ToldReduce ==
  ASSUME scene \in Scene, NEW u \in Context, NEW w \in Context, NEW k, NEW m, NEW how, NEW v,
         Told(k, m, how, v, u, w), k.act \in {"BoolReduceIterStart", "BoolReduceNext"}
  PROVE  Typed(AfterCall(k, v), w) /\ Typed(OnReturn(k, v), w)
<1>1. k \in ReduceCalls(u)
  BY Classes DEF Told
<1>2. k \in ReduceCalls(w) /\ Reduces(k) /\ k.any \in BOOLEAN /\ v \in w.live
  BY <1>1, KeptReduce DEF Told, ReduceCalls
<1>3. CASE k.act = "BoolReduceIterStart"
  <2>1. ~w.hit
    <3>1. m = "__iter__"
      BY <1>3 DEF Told, Asks, Starts
    <3> QED
      BY <3>1, Undecided DEF Told, IteratorEnds
  <2>2. v \in Iterators => BoolReduce(v, k.any) \in Reductions(w)
    BY <1>2 DEF BoolReduce, Reductions, Reduces, Iter
  <2>3. v \in Iterators => Typed(continue_bool_reduce(BoolReduce(v, k.any)), w)
    BY <2>1, <2>2, ReduceNext
  <2> QED
    BY <1>3, <2>3, Failing DEF AfterCall, OnReturn, AfterStart, ReturnStart, validate_iterator, Starts, Items
<1>4. CASE k.act = "BoolReduceNext"
  <2> DEFINE s == BoolReduce(k.iterator, k.any)
  <2>1. m \in IteratorEnds
    BY <1>4 DEF Told, Asks, Items, IteratorEnds
  <2>2. v \in {"n0", "b"}
    BY <2>1 DEF Told, Answers, Integer, Boolean, IteratorEnds
  <2>3. s.act = "BoolReduce" /\ s.any = k.any
    BY DEF BoolReduce
  <2>4. scene.op \in {"any", "all"} /\ k.any = (scene.op = "any") /\ ~Searches
    BY <1>2 DEF Reduces, Searches
  <2>5. \A truth \in BOOLEAN : Tells(m, v, truth) <=> (v = "n0" /\ ~truth) \/ (v = "b" /\ ~HasTruth /\ truth)
    BY <2>1, <2>4 DEF Tells, IteratorEnds
  <2>6. w.hit = (IF k.any THEN v = "b" /\ ~HasTruth ELSE v = "n0")
    BY <2>2, <2>4, <2>5 DEF Told, HitBy
  <2> HIDE DEF s
  <2>7. TruthDecides(v, s, w)
    <3>1. CASE v = "n0"
      <4>1. truth_protocol_call(v) = "none" /\ HeapTruth(v) = FALSE
        BY <3>1, NoMethods DEF HeapTruth
      <4>2. w.hit = (FALSE = s.any)
        BY <1>2, <2>3, <2>6, <3>1
      <4> QED
        BY <2>3, <4>1, <4>2 DEF TruthDecides, Decides
    <3>2. CASE v = "b"
      <4>1. truth_protocol_call(v) = "none" <=> ~HasTruth
        <5>1. scene.has \in [{"a", "b", "it"} -> SUBSET Methods]
          BY SceneFields
        <5> QED
          BY <3>2, <5>1 DEF truth_protocol_call, operator_method_call, HasTruth
      <4>2. HeapTruth(v) = TRUE
        BY <3>2 DEF HeapTruth
      <4>3. HasTruth => ~w.hit
        BY <2>6, <3>2
      <4>4. ~HasTruth => w.hit = (TRUE = s.any)
        BY <1>2, <2>3, <2>6, <3>2
      <4> QED
        BY <2>3, <4>1, <4>2, <4>3, <4>4 DEF TruthDecides, Decides
    <3> QED
      BY <2>2, <3>1, <3>2
  <2>8. Typed(continue_bool_reduce_item(k, v), w)
    BY <1>2, <1>4, <2>7, ReduceItem DEF s
  <2> QED
    BY <1>4, <2>8 DEF AfterCall, OnReturn, AfterItem, ReturnItem, Starts, Items
<1> QED
  BY <1>3, <1>4

LEMMA ToldMembership ==
  ASSUME scene \in Scene, NEW u \in Context, NEW w \in Context, NEW k, NEW m, NEW how, NEW v,
         Told(k, m, how, v, u, w), k.act \in {"MembershipIterStart", "MembershipNext"}
  PROVE  Typed(AfterCall(k, v), w) /\ Typed(OnReturn(k, v), w)
<1>1. k \in MembershipCalls(u)
  BY Classes DEF Told
<1>2. k \in MembershipCalls(w) /\ Tests(k) /\ k.negate \in BOOLEAN /\ k.needle \in w.live /\ v \in w.live
  BY <1>1, KeptMembership DEF Told, MembershipCalls
<1>3. CASE k.act = "MembershipIterStart"
  <2>1. ~w.hit
    <3>1. m = "__iter__"
      BY <1>3 DEF Told, Asks, Starts
    <3> QED
      BY <3>1, Undecided DEF Told, IteratorEnds
  <2>2. Tests([needle |-> k.needle, negate |-> k.negate])
    BY <1>2 DEF Tests
  <2>3. v \in Iterators => Typed(continue_membership(Membership(k.needle, v, k.negate)), w)
    BY <1>2, <2>1, <2>2, MembershipStarted DEF Iter
  <2>4. Typed(finish_membership_iter(k.needle, v, k.negate), w)
    BY <2>3, Failing DEF finish_membership_iter, validate_iterator
  <2> QED
    BY <1>3, <2>4 DEF AfterCall, OnReturn, AfterStart, ReturnStart, Starts, Items
<1>4. CASE k.act = "MembershipNext"
  <2>1. m \in IteratorEnds
    BY <1>4 DEF Told, Asks, Items, IteratorEnds
  <2>2. Searches /\ scene.op \notin {"any", "all"} /\ k.needle = scene.args[2]
    BY <1>2 DEF Tests, Searches
  <2>3. w.hit = (v = k.needle)
    BY <2>1, <2>2 DEF Told, HitBy, Matches, Tells, IteratorEnds
  <2>4. Typed(MembershipItem(k, v), w)
    BY <1>2, <1>4, <2>3, MembershipItemTyped
  <2> QED
    BY <1>4, <2>4 DEF AfterCall, OnReturn, AfterItem, ReturnItem, Starts, Items
<1> QED
  BY <1>3, <1>4

LEMMA ToldExtremum ==
  ASSUME scene \in Scene, NEW u \in Context, NEW w \in Context, NEW k, NEW m, NEW how, NEW v,
         Told(k, m, how, v, u, w), k.act \in {"ExtremumIterStart", "ExtremumNext", "ExtremumKey"}
  PROVE  Typed(AfterCall(k, v), w) /\ Typed(OnReturn(k, v), w)
<1>1. k \in ExtremumCalls(u)
  BY Classes DEF Told
<1>2. k \in ExtremumCalls(w) /\ v \in w.live
  BY <1>1, KeptExtremumCall DEF Told
<1>3. scene.op = "extremum"
  BY <1>2 DEF ExtremumCalls, Extrema
<1>4. ~w.hit
  BY <1>3, Quiet DEF Told, Searches
<1>5. CASE k.act = "ExtremumIterStart"
  <2>1. k.config \in Configs(w) /\ scene.args[1] # Unbound
    BY <1>2, <1>5 DEF ExtremumCalls, Extrema
  <2>2. v \in Iterators => v \in Iter(w) /\ v # Unbound
    BY <1>2 DEF Iter, Iterators, Unbound
  <2>3. v \in Iterators => ExtremumState(v, k.config) \in Extrema(w)
    BY <1>3, <2>1, <2>2, ExtremumBegins
  <2>4. v \in Iterators => Typed(continue_extremum(ExtremumState(v, k.config)), w)
    BY <1>4, <2>3, ExtremumNext
  <2> QED
    BY <1>5, <2>4, Failing DEF AfterCall, OnReturn, AfterStart, ReturnStart, validate_iterator, Starts, Items
<1>6. CASE k.act = "ExtremumNext"
  <2>1. k \in Extrema(w)
    BY <1>2, <1>6 DEF ExtremumCalls
  <2>2. m \in IteratorEnds
    BY <1>6 DEF Told, Asks, Items, IteratorEnds
  <2>3. v \in Picked(w)
    BY <2>2 DEF Told, Picked
  <2>4. Typed(ExtremumItem(k, v), w)
    BY <1>4, <2>1, <2>3, ExtremumItemTyped
  <2> QED
    BY <1>6, <2>4 DEF AfterCall, OnReturn, AfterItem, ReturnItem, ExtremumItem, Starts, Items
<1>7. CASE k.act = "ExtremumKey"
  <2>1. k.state \in Extrema(w) /\ k.item \in Picked(w)
    BY <1>2, <1>7 DEF ExtremumCalls, Extrema
  <2>2. Typed(consider_extremum(k.state, k.item, v), w)
    BY <1>2, <1>4, <2>1, ExtremumConsidered
  <2> QED
    BY <1>7, <2>2 DEF AfterCall, OnReturn, Starts, Items
<1> QED
  BY <1>5, <1>6, <1>7

\* The context in which an item has arrived and nothing else has changed.
LEMMA Arrived ==
  ASSUME NEW u \in Context, NEW w \in Context, NEW K, Keeps(K, u, w)
  PROVE  /\ [u EXCEPT !.live = w.live] \in Context /\ Keeps(K, u, [u EXCEPT !.live = w.live])
         /\ [u EXCEPT !.live = w.live].live = w.live
         /\ [u EXCEPT !.live = w.live].items = u.items /\ [u EXCEPT !.live = w.live].stored = u.stored
BY DEF Context, Keeps

LEMMA ToldCollection ==
  ASSUME scene \in Scene, NEW u \in Context, NEW w \in Context, NEW k, NEW m, NEW how, NEW v,
         Told(k, m, how, v, u, w), k.act \in {"CollectIterableStart", "CollectIterableNext"}
  PROVE  Typed(AfterCall(k, v), w) /\ Typed(OnReturn(k, v), w)
<1>1. k \in CollectCalls(u) /\ v \in w.live
  BY Classes DEF Told
<1>2. ~w.hit
  <2>1. Collects(k, u)
    BY <1>1 DEF CollectCalls, Collections
  <2>2. scene.op \in {"list", "tuple", "bytes", "unpack", "class"}
    BY <2>1 DEF Collects
  <2> QED
    BY <2>2, Quiet DEF Told, Searches
<1>3. CASE k.act = "CollectIterableStart"
  <2>1. m \notin IteratorEnds
    BY <1>3 DEF Told, Asks, Starts, IteratorEnds
  <2>2. k \in CollectCalls(w)
    BY <1>1, <2>1, KeptCollection DEF Told
  <2>3. k.kind \in Kinds /\ k.finish \in Finishes(w) /\ Collects(k, w) /\ Fresh(w)
    BY <1>3, <2>2 DEF CollectCalls, Collections
  <2>4. Collects([kind |-> k.kind, finish |-> k.finish], w)
    BY <2>3 DEF Collects
  <2>5. v \in Iterators => Typed(continue_iterable_collection(IterableCollection(k.kind, k.finish, v, <<>>)), w)
    BY <1>1, <1>2, <2>3, <2>4, CollectionStarted DEF Iter
  <2> QED
    BY <1>3, <2>5, Failing DEF AfterCall, OnReturn, AfterStart, ReturnStart, validate_iterator, Starts, Items
<1>4. CASE k.act = "CollectIterableNext"
  <2> DEFINE t == [u EXCEPT !.live = w.live]
  <2>1. m \in IteratorEnds
    BY <1>4 DEF Told, Asks, Items, IteratorEnds
  <2>2. /\ t \in Context /\ Keeps(trace(k), u, t) /\ t.live = w.live /\ t.items = u.items /\ t.stored = u.stored
    BY Arrived DEF Told
  <2> HIDE DEF t
  <2>3. k \in CollectCalls(t)
    BY <1>1, <2>2, KeptCollection
  <2>4. w.items = Append(t.items, v) /\ w.stored = t.stored
    BY <2>1, <2>2 DEF Told
  <2>5. /\ k.kind = "ListInit" => Typed(Push(v, "continue_iterable_collection", k), w)
        /\ k.kind # "ListInit" => Typed(continue_iterable_collection([k EXCEPT !.items = Append(@, v)]), w)
    BY <1>1, <1>2, <1>4, <2>2, <2>3, <2>4, CollectionItem
  <2> QED
    BY <1>4, <2>5 DEF AfterCall, OnReturn, AfterItem, ReturnItem, CollectItem, Starts, Items
<1> QED
  BY <1>3, <1>4

LEMMA ToldExpansion ==
  ASSUME scene \in Scene, NEW u \in Context, NEW w \in Context, NEW k, NEW m, NEW how, NEW v,
         Told(k, m, how, v, u, w), k.act \in {"ExpandIterableStart", "ExpandIterableNext"}
  PROVE  Typed(AfterCall(k, v), w) /\ Typed(OnReturn(k, v), w)
<1>1. k \in ExpandCalls(u) /\ v \in w.live /\ scene.op = "star"
  BY Classes DEF Told, ExpandCalls, Expansions
<1>2. ~w.hit
  BY <1>1, Quiet DEF Told, Searches
<1>3. CASE k.act = "ExpandIterableStart"
  <2>1. m \notin IteratorEnds
    BY <1>3 DEF Told, Asks, Starts, IteratorEnds
  <2>2. k \in ExpandCalls(w)
    BY <1>1, <2>1, KeptExpansion DEF Told
  <2>3. k.resume = scene.deferred /\ Fresh(w) /\ operator_method_call(scene.args[1], "__iter__")
    BY <1>3, <2>2 DEF ExpandCalls, Expansions
  <2>4. v \in Iterators => /\ Typed(continue_argument_expansion(ArgumentExpansion(v, FALSE, TRUE)), w)
                           /\ Typed(continue_argument_expansion(ArgumentExpansion(v, k.resume, FALSE)), w)
    BY <1>1, <1>2, <2>3, ExpansionStarted, SceneFields DEF Iter
  <2> QED
    BY <1>3, <2>4, Failing DEF AfterCall, OnReturn, AfterStart, ReturnStart, validate_iterator, Starts, Items
<1>4. CASE k.act = "ExpandIterableNext"
  <2> DEFINE t == [u EXCEPT !.live = w.live]
  <2>1. m \in IteratorEnds
    BY <1>4 DEF Told, Asks, Items, IteratorEnds
  <2>2. /\ t \in Context /\ Keeps(trace(k), u, t) /\ t.live = w.live /\ t.items = u.items /\ t.stored = u.stored
    BY Arrived DEF Told
  <2> HIDE DEF t
  <2>3. k \in ExpandCalls(t)
    BY <1>1, <2>2, KeptExpansion
  <2>4. w.items = Append(t.items, v) /\ w.stored = t.stored
    BY <2>1, <2>2 DEF Told
  <2>5. /\ Typed(push_expanded_positional(v, k), w)
        /\ Typed(push_expanded_positional(v, [k EXCEPT !.sync = FALSE]), w)
    BY <1>1, <1>2, <1>4, <2>2, <2>3, <2>4, ExpansionItem
  <2> QED
    BY <1>4, <2>5 DEF AfterCall, OnReturn, AfterItem, ReturnItem, Starts, Items
<1> QED
  BY <1>3, <1>4

LEMMA ToldNew ==
  ASSUME scene \in Scene, NEW u \in Context, NEW w \in Context, NEW k, NEW m, NEW how, NEW v,
         Told(k, m, how, v, u, w), k.act = "New"
  PROVE  Typed(AfterCall(k, v), w) /\ Typed(OnReturn(k, v), w)
<1>1. k \in NewCalls(u)
  BY Classes DEF Told
<1>2. m \notin IteratorEnds
  BY DEF Told, Asks, IteratorEnds
<1>3. k \in NewCalls(w)
  BY <1>1, <1>2, KeptNew DEF Told
<1>4. k.args \in Seq(w.live) /\ scene.op = "class" /\ scene.new = "program" /\ "inst" \in w.live /\ Fresh(w)
  BY <1>3 DEF NewCalls
<1>5. ~w.hit
  BY <1>4, Quiet DEF Told, Searches
<1>6. Typed(finish_new(v, k.args), w)
  BY <1>4, <1>5, Initialised DEF Told
<1> QED
  BY <1>6 DEF AfterCall, OnReturn, Starts, Items

LEMMA ToldOther ==
  ASSUME scene \in Scene, NEW u \in Context, NEW w \in Context, NEW k, NEW m, NEW how, NEW v,
         Told(k, m, how, v, u, w),
         k.act \in {"AttributeGet", "LengthResult", "Value", "Setter", "StringConversion", "FormatResult", "UnaryProtocol",
                    "MembershipContains", "Initializer"}
  PROVE  Typed(AfterCall(k, v), w) /\ Typed(OnReturn(k, v), w)
<1>1. k \in AttributeCalls(u) \cup OtherCalls(u)
  BY Classes DEF Told
<1>2. k \in AttributeCalls(w) \cup OtherCalls(w)
  BY <1>1, KeptOther DEF Told
<1>3. Plain /\ v \in w.live
  BY <1>2 DEF Told, AttributeCalls, OtherCalls
<1>4. ~w.hit
  BY <1>3, PlainQuiet DEF Told
<1>5. /\ Typed(Done(v), w) /\ Typed(Done("None"), w) /\ Typed(Done("True"), w) /\ Typed(Done("n1"), w)
      /\ \A kind : Typed(Err(kind), w)
  BY <1>3, Worlds, PlainEnd, Failing DEF Names, Boolean, Integer
<1>6. CASE k.act = "AttributeGet"
  <2>1. k \in AttributeCalls(w)
    BY <1>2, <1>6 DEF OtherCalls
  <2>2. Typed(finish_attribute_success(v, k), w)
    BY <1>3, <1>4, <2>1, AttributeFound
  <2> QED
    BY <1>5, <1>6, <2>2 DEF AfterCall, OnReturn, Starts, Items
<1>7. CASE k.act = "LengthResult"
  <2>1. Typed(finish_length(v), w)
    BY <1>3, <1>4, LengthOf
  <2> QED
    BY <1>7, <2>1 DEF AfterCall, OnReturn, Starts, Items
<1>8. CASE k.act \in {"Value", "Setter"}
  BY <1>5, <1>8 DEF AfterCall, OnReturn, Starts, Items
<1>9. CASE k.act \in {"StringConversion", "FormatResult"}
  <2>1. Typed(finish_string_conversion(v), w)
    BY <1>3, TextAnswered
  <2> QED
    BY <1>9, <2>1 DEF AfterCall, OnReturn, Starts, Items
<1>10. CASE k.act = "UnaryProtocol"
  <2>1. Typed(unary_fallback(k.value), w)
    BY <1>5 DEF unary_fallback
  <2> QED
    BY <1>5, <1>10, <2>1 DEF AfterCall, OnReturn, Starts, Items
<1>11. CASE k.act = "MembershipContains"
  <2>1. k.negate \in BOOLEAN
    BY <1>2, <1>11 DEF AttributeCalls, OtherCalls
  <2>2. Typed(MembershipTruth(v, k.negate), w)
    BY <1>3, <1>4, <2>1, ContainsAnswered
  <2> QED
    BY <1>11, <2>2 DEF AfterCall, OnReturn, Starts, Items
<1>12. CASE k.act = "Initializer"
  <2>1. k.instance \in w.live
    BY <1>2, <1>12 DEF AttributeCalls, OtherCalls
  <2>2. Typed(Done(k.instance), w)
    BY <1>3, <2>1, PlainEnd
  <2> QED
    BY <1>5, <1>12, <2>2 DEF AfterCall, OnReturn, Starts, Items
<1> QED
  BY <1>6, <1>7, <1>8, <1>9, <1>10, <1>11, <1>12

\* Both paths go on from an answer to where they may be.
LEMMA Answered ==
  ASSUME scene \in Scene, NEW u \in Context, NEW w \in Context, NEW k, NEW m, NEW how, NEW v,
         Told(k, m, how, v, u, w)
  PROVE  Typed(AfterCall(k, v), w) /\ Typed(OnReturn(k, v), w)
<1>1. k \in Continuations(u)
  BY DEF Told
<1>2. k.act \in {"Truth", "IndexConversion", "NumericConversion", "BinaryProtocol", "SumIterStart", "SumNext", "AttributeGet",
                 "BoolReduceIterStart", "BoolReduceNext", "MembershipIterStart", "MembershipNext", "ExtremumIterStart",
                 "ExtremumNext", "ExtremumKey", "CollectIterableStart", "CollectIterableNext", "ExpandIterableStart",
                 "ExpandIterableNext", "New", "LengthResult", "Value", "Setter", "StringConversion", "FormatResult",
                 "UnaryProtocol", "MembershipContains", "Initializer"}
  BY <1>1, Classes DEF Continuations
<1> QED
  BY <1>2, ToldTruth, ToldIndex, ToldNumeric, ToldBinary, ToldSum, ToldReduce, ToldMembership, ToldExtremum,
     ToldCollection, ToldExpansion, ToldNew, ToldOther


-----------------------------------------------------------------------------
(* A method fails: what remains is the continuation as it was. *)

LEMMA KeptContinuation ==
  ASSUME NEW u \in Context, NEW w \in Context, NEW k \in Continuations(u), Keeps(trace(k), u, w),
         w.items = u.items, w.stored = u.stored
  PROVE  k \in Continuations(w)
<1>1. k \in TruthCalls(u) \cup IndexCalls(u) \cup NumericCalls(u) => k \in Continuations(w)
  BY KeptConversion DEF Continuations
<1>2. k \in BinaryCalls(u) => k \in Continuations(w)
  BY KeptBinary DEF Continuations
<1>3. k \in SumCalls(u) => k \in Continuations(w)
  BY KeptSum DEF Continuations
<1>4. k \in AttributeCalls(u) \cup OtherCalls(u) => k \in Continuations(w)
  BY KeptOther DEF Continuations
<1>5. k \in ReduceCalls(u) => k \in Continuations(w)
  BY KeptReduce DEF Continuations
<1>6. k \in MembershipCalls(u) => k \in Continuations(w)
  BY KeptMembership DEF Continuations
<1>7. k \in ExtremumCalls(u) => k \in Continuations(w)
  BY KeptExtremumCall DEF Continuations
<1>8. k \in CollectCalls(u) => k \in Continuations(w)
  BY KeptCollection DEF Continuations
<1>9. k \in ExpandCalls(u) => k \in Continuations(w)
  BY KeptExpansion DEF Continuations
<1>10. k \in NewCalls(u) => k \in Continuations(w)
  BY KeptNew DEF Continuations
<1> QED
  BY <1>1, <1>2, <1>3, <1>4, <1>5, <1>6, <1>7, <1>8, <1>9, <1>10 DEF Continuations

LEMMA Escaped ==
  ASSUME NEW w, NEW c, Typed(c, w)
  PROVE  Typed(Escaping(c), w)
<1>1. CASE c.at = "error"
  BY <1>1 DEF Escaping, Typed, Failed
<1>2. CASE c.at # "error"
  BY <1>2 DEF Escaping
<1> QED
  BY <1>1, <1>2

LEMMA Stopped ==
  ASSUME scene \in Scene, NEW w \in Context, ~w.hit, NEW k \in Continuations(w), k.act \in Items
  PROVE  Typed(AfterStop(k), w) /\ Typed(OnStop(k), w)
<1>1. CASE k.act = "SumNext"
  <2>1. k \in SumCalls(w)
    BY <1>1, Classes
  <2>2. Plain /\ k.total \in w.live
    BY <2>1 DEF SumCalls
  <2> QED
    BY <1>1, <2>2, PlainEnd DEF AfterStop, OnStop, materialize_sum_total
<1>2. CASE k.act = "BoolReduceNext"
  <2>1. k \in ReduceCalls(w)
    BY <1>2, Classes
  <2> QED
    BY <1>2, <2>1, ReduceStop DEF AfterStop, OnStop
<1>3. CASE k.act = "ExtremumNext"
  <2>1. k \in ExtremumCalls(w)
    BY <1>3, Classes
  <2>2. k \in Extrema(w)
    BY <1>3, <2>1 DEF ExtremumCalls
  <2>3. Typed(finish_extremum(k), w) /\ Typed(Escaping(finish_extremum(k)), w)
    BY <2>2, ExtremumEnd, Escaped
  <2> QED
    BY <1>3, <2>3 DEF AfterStop, OnStop
<1>4. CASE k.act = "CollectIterableNext"
  <2>1. k \in CollectCalls(w)
    BY <1>4, Classes
  <2> QED
    BY <1>4, <2>1, CollectionEnd DEF AfterStop, OnStop
<1>5. CASE k.act = "MembershipNext"
  <2>1. k \in MembershipCalls(w)
    BY <1>5, Classes
  <2>2. Tests(k)
    BY <2>1 DEF MembershipCalls
  <2>3. w.hit = FALSE
    BY Worlds
  <2>4. Typed(finish_membership(FALSE, k.negate), w)
    BY <2>2, <2>3, Finding
  <2> QED
    BY <1>5, <2>4 DEF AfterStop, OnStop
<1>6. CASE k.act = "ExpandIterableNext"
  <2>1. k \in ExpandCalls(w)
    BY <1>6, Classes
  <2>2. scene.op = "star" /\ w.stored = w.items
    BY <1>6, <2>1 DEF ExpandCalls, Expansions
  <2>3. \A s : Typed(ExpansionEnds(s), w)
    BY <2>2, ExpansionEnd
  <2> QED
    BY <1>6, <2>3 DEF AfterStop, OnStop
<1> QED
  BY <1>1, <1>2, <1>3, <1>4, <1>5, <1>6 DEF Items

LEMMA Thrown ==
  ASSUME scene \in Scene, NEW w \in Context, ~w.hit, NEW k \in Continuations(w), NEW kind
  PROVE  Typed(AfterError(k, kind), w) /\ Typed(OnException(k, kind), w)
<1>1. CASE kind = "StopIteration" /\ k.act \in Items
  BY <1>1, Stopped DEF AfterError, OnException
<1>2. CASE kind = "AttributeError" /\ k.act = "AttributeGet"
  <2>1. k \in AttributeCalls(w)
    BY <1>2, Classes
  <2>2. Typed(continue_attribute_missing(k), w) /\ Typed(Err(kind), w)
    BY <2>1, AttributeMissing, Failing
  <2> QED
    BY <1>2, <2>2 DEF AfterError, OnException
<1>3. CASE ~(kind = "StopIteration" /\ k.act \in Items) /\ ~(kind = "AttributeError" /\ k.act = "AttributeGet")
  BY <1>3, Failing DEF AfterError, OnException
<1> QED
  BY <1>1, <1>2, <1>3


-----------------------------------------------------------------------------
(* The operations begin with every value reachable and nothing given. *)

Beginning(w) ==
  /\ Fresh(w) /\ ~w.hit /\ w.live = Value
  /\ {scene.args[i] : i \in 2 .. Len(scene.args)} \subseteq w.chosen

LEMMA Operands ==
  ASSUME scene \in Scene
  PROVE  /\ scene.args[1] \in Value /\ scene.against \in Seq(Value) /\ Tail(scene.args) \in Seq(Value)
         /\ scene.op \in Binary \cup Ternary => scene.args[2] \in Value
         /\ scene.op \in Ternary => scene.args[3] \in Value
<1>1. /\ scene.args \in Seq(Value) /\ Len(scene.args) \in Nat /\ Len(scene.args) >= 1
      /\ scene.op \in Binary \cup Ternary => Len(scene.args) >= 2
      /\ scene.op \in Ternary => Len(scene.args) >= 3
      /\ scene.against \in Seq(Value)
  BY SceneFields
<1>2. \A i \in 1 .. Len(scene.args) : scene.args[i] \in Value
  BY <1>1
<1>3. scene.args # <<>>
  BY <1>1
<1>4. Tail(scene.args) \in Seq(Value)
  BY <1>1, <1>3
<1> QED
  BY <1>1, <1>2, <1>4

LEMMA Comparing ==
  ASSUME scene \in Scene, NEW w \in Context, ~w.hit, Plain, NEW op \in OperatorNames, NEW x \in w.live, NEW y \in w.live,
         NEW extra \in Seq(w.live)
  PROVE  /\ Typed(continue_binary_protocol(binary_protocol(op, x, y, extra, NoCompletion)), w)
         /\ Typed(Compare(op, x, y), w)
<1>1. NoCompletion \in Completions(w) /\ NoCompletion.act = "Value"
  BY DEF NoCompletion, Completions
<1>2. \A e \in Seq(w.live) : binary_protocol(op, x, y, e, NoCompletion) \in BinaryCalls(w)
  BY <1>1, ProtocolTyped
<1>3. \A e \in Seq(w.live) : Typed(continue_binary_protocol(binary_protocol(op, x, y, e, NoCompletion)), w)
  BY <1>2, OperatorCall
<1>4. << >> \in Seq(w.live)
  OBVIOUS
<1>5. ReturnTruth \in Equalities(w) /\ ReturnTruth.act = "Return"
  BY DEF ReturnTruth, Equalities
<1>6. w.hit = FALSE
  BY Worlds
<1>7. Typed(invoke_equality(x, y, ReturnTruth), w)
  BY <1>5, <1>6, EqualityCall
<1> QED
  BY <1>3, <1>4, <1>7 DEF Compare

LEMMA OrderRecord ==
  ASSUME NEW S, NEW left \in Seq(S), NEW right \in Seq(S)
  PROVE  [act |-> "SequenceOrder", left |-> left, right |-> right, index |-> 1]
           \in [act : {"SequenceOrder"}, left : Seq(S), right : Seq(S), index : Nat \ {0}]
<1>1. 1 \in Nat \ {0}
  OBVIOUS
<1> QED
  BY <1>1

LEMMA OperatorBegins ==
  ASSUME scene \in Scene, NEW w \in Context, Beginning(w),
         scene.op \in {"Add", "InplaceAdd", "Eq", "Ne", "Lt", "order", "in", "not in", "neg", "not", "jump"}
  PROVE  Typed(BeginOperator(scene.op, scene.args[1], scene.args[2]), w)
<1> DEFINE x == scene.args[1]
           y == scene.args[2]
<1>1. ~w.hit /\ w.live = Value /\ x \in w.live
  BY Operands DEF Beginning
<1>2. scene.op \in {"Add", "InplaceAdd", "Eq", "Ne", "Lt", "in", "not in"} => y \in w.live
  BY <1>1, Operands DEF Binary
<1>3. scene.op \notin {"in", "not in"} => Plain
  BY DEF Plain, Judged, Searches
<1> HIDE DEF x, y
<1>4. << >> \in Seq(w.live)
  BY <1>1, Tuples
<1>5. CASE scene.op \in {"Add", "InplaceAdd"}
  <2>1. Typed(continue_binary_protocol(binary_protocol(scene.op, x, y, <<>>, NoCompletion)), w)
    BY <1>1, <1>2, <1>3, <1>4, <1>5, Comparing DEF OperatorNames
  <2> QED
    BY <1>5, <2>1 DEF BeginOperator, x, y
<1>6. CASE scene.op \in {"Eq", "Ne", "Lt"}
  <2>1. Typed(Compare(scene.op, x, y), w)
    BY <1>1, <1>2, <1>3, <1>4, <1>6, Comparing DEF OperatorNames
  <2> QED
    BY <1>6, <2>1 DEF BeginOperator, x, y
<1>7. CASE scene.op = "order"
  <2> DEFINE s == [act |-> "SequenceOrder", left |-> scene.args, right |-> scene.against, index |-> 1]
  <2>1. scene.args \in Seq(w.live) /\ scene.against \in Seq(w.live)
    BY <1>1, SceneFields
  <2>2. s \in [act : {"SequenceOrder"}, left : Seq(w.live), right : Seq(w.live), index : Nat \ {0}]
    BY <2>1, OrderRecord DEF s
  <2> HIDE DEF s
  <2>3. Typed(continue_sequence_order(s), w)
    BY <1>1, <1>3, <1>7, <2>2, SequenceOrder
  <2> QED
    BY <1>7, <2>3 DEF BeginOperator, s
<1>8. CASE scene.op \in {"in", "not in"}
  <2>1. Iterable(x, w)
    BY <1>1, AllIterable
  <2>2. Typed(invoke_membership(y, x, scene.op = "not in"), w)
    BY <1>1, <1>2, <1>8, <2>1, MembershipCall DEF x, y
  <2> QED
    BY <1>8, <2>2 DEF BeginOperator, x, y
<1>9. CASE scene.op = "neg"
  <2> DEFINE k == [act |-> "UnaryProtocol", value |-> x]
  <2>1. k \in OtherCalls(w) /\ k.act = "UnaryProtocol"
    BY <1>1, <1>3, <1>9 DEF OtherCalls
  <2> HIDE DEF k
  <2>2. "__neg__" \notin IteratorEnds \cup Getters
    BY DEF IteratorEnds, Getters
  <2>3. Typed(Call("__neg__", x, <<>>, k), w)
    BY <1>1, <1>4, <2>1, <2>2, OtherCall
  <2>4. Typed(Done("n1"), w) /\ Typed(Err("TypeError"), w)
    BY <1>1, <1>3, <1>9, PlainEnd, Failing DEF Value, Integer
  <2>5. Typed(invoke_unary_protocol(x), w)
    BY <2>3, <2>4 DEF invoke_unary_protocol, unary_fallback, k
  <2> QED
    BY <1>9, <2>5 DEF BeginOperator, x
<1>10. CASE scene.op \in {"not", "jump"}
  <2>1. /\ NotAction \in Truths(w) /\ NotAction.act = "Not"
        /\ JumpAction(x) \in Truths(w) /\ JumpAction(x).act = "Jump"
    BY <1>1, <1>3, <1>10 DEF NotAction, JumpAction, Truths
  <2>2. TruthDecides(x, NotAction, w) /\ TruthDecides(x, JumpAction(x), w)
    BY <1>1, <2>1, NoneDecided
  <2>3. Typed(invoke_truth(x, NotAction), w) /\ Typed(invoke_truth(x, JumpAction(x)), w)
    BY <1>1, <2>1, <2>2, TruthOf
  <2> QED
    BY <1>10, <2>3 DEF BeginOperator, x
<1> QED
  BY <1>5, <1>6, <1>7, <1>8, <1>9, <1>10


LEMMA BuiltinBegins ==
  ASSUME scene \in Scene, NEW w \in Context, Beginning(w),
         scene.op \in {"DivMod", "PowMod", "round", "__repr__", "format", "sum", "any", "all", "extremum"}
  PROVE  Typed(BeginBuiltin(scene.op, scene.args[1], scene.args[2]), w)
<1> DEFINE x == scene.args[1]
           y == scene.args[2]
<1>1. ~w.hit /\ w.live = Value /\ x \in w.live
  BY Operands DEF Beginning
<1>2. scene.op \in {"DivMod", "PowMod", "format", "sum"} => y \in w.live
  BY <1>1, Operands DEF Binary, Ternary
<1>3. scene.op \notin {"any", "all", "extremum"} => Plain
  BY DEF Plain, Judged, Searches
<1>4. Iterable(x, w)
  BY <1>1, AllIterable
<1> HIDE DEF x, y
<1>5. << >> \in Seq(w.live)
  BY <1>1, Tuples
<1>6. CASE scene.op = "DivMod"
  <2>1. Typed(continue_binary_protocol(binary_protocol(scene.op, x, y, <<>>, NoCompletion)), w)
    BY <1>1, <1>2, <1>3, <1>5, <1>6, Comparing DEF OperatorNames
  <2> QED
    BY <1>6, <2>1 DEF BeginBuiltin, x, y
<1>7. CASE scene.op = "PowMod"
  <2>1. scene.args[3] \in w.live
    BY <1>1, <1>7, Operands DEF Ternary
  <2>2. << scene.args[3] >> \in Seq(w.live)
    BY <2>1, Tuples
  <2>3. Typed(continue_binary_protocol(binary_protocol(scene.op, x, y, <<scene.args[3]>>, NoCompletion)), w)
    BY <1>1, <1>2, <1>3, <1>7, <2>2, Comparing DEF OperatorNames
  <2> QED
    BY <1>7, <2>3 DEF BeginBuiltin, x, y
<1>8. CASE scene.op = "round"
  <2> DEFINE to == [act |-> "Round"]
  <2>1. to \in Targets(w) /\ to.act # "IndexTruth"
    BY <1>3, <1>8 DEF Targets
  <2> HIDE DEF to
  <2>2. Typed(invoke_index_conversion(x, to), w)
    BY <1>1, <2>1, PlainIndex
  <2> QED
    BY <1>8, <2>2 DEF BeginBuiltin, x, to
<1>9. CASE scene.op \in {"__repr__", "format"}
  <2>1. Typed(invoke_string_conversion(x, "__repr__"), w)
    BY <1>1, <1>3, <1>9, TextCall
  <2>2. scene.op = "format" => Typed(invoke_format_value(x, y), w)
    BY <1>1, <1>2, <1>3, TextCall
  <2> QED
    BY <1>9, <2>1, <2>2 DEF BeginBuiltin, x, y
<1>10. CASE scene.op = "sum"
  <2>1. Typed(invoke_sum(x, y), w)
    BY <1>1, <1>2, <1>3, <1>4, <1>10, SumCall
  <2> QED
    BY <1>10, <2>1 DEF BeginBuiltin, x, y
<1>11. CASE scene.op \in {"any", "all"}
  <2>1. Reduces([any |-> scene.op = "any"])
    BY <1>11 DEF Reduces
  <2>2. Typed(invoke_bool_reduce(x, scene.op = "any"), w)
    BY <1>1, <1>4, <2>1, ReduceCall
  <2> QED
    BY <1>11, <2>2 DEF BeginBuiltin, x
<1>12. CASE scene.op = "extremum"
  <2>1. scene.config \in Configs(w)
    BY <1>1, SceneFields DEF Configs, Value, Objects
  <2>2. Tail(scene.args) \in Seq(Picked(w))
    <3>1. scene.args \in Seq(Value) /\ Len(scene.args) \in Nat /\ Len(scene.args) >= 1
      BY SceneFields
    <3>2. \A i \in 2 .. Len(scene.args) : scene.args[i] \in Picked(w)
      BY <1>1, <3>1 DEF Beginning, Picked
    <3>3. Tail(scene.args) \in Seq(Value) /\ Len(Tail(scene.args)) = Len(scene.args) - 1
      BY <3>1
    <3>4. \A i \in 1 .. Len(Tail(scene.args)) : Tail(scene.args)[i] = scene.args[i + 1] /\ i + 1 \in 2 .. Len(scene.args)
      BY <3>1, <3>3
    <3>5. \A i \in 1 .. Len(Tail(scene.args)) : Tail(scene.args)[i] \in Picked(w)
      BY <3>2, <3>4
    <3>6. \A t \in Seq(Value) : (\A i \in 1 .. Len(t) : t[i] \in Picked(w)) => t \in Seq(Picked(w))
      OBVIOUS
    <3> QED
      BY <3>3, <3>5, <3>6
  <2>3. Typed(invoke_extremum(x, Tail(scene.args), scene.config), w)
    BY <1>1, <1>4, <1>12, <2>1, <2>2, ExtremumCall DEF x
  <2> QED
    BY <1>12, <2>3 DEF BeginBuiltin, x
<1> QED
  BY <1>6, <1>7, <1>8, <1>9, <1>10, <1>11, <1>12

LEMMA ItemBegins ==
  ASSUME scene \in Scene, NEW w \in Context, Beginning(w), Plain, NEW x \in w.live, NEW y \in w.live, NEW z \in w.live
  PROVE  Typed(GetItem(x, y), w) /\ Typed(SetItem(x, y, z), w) /\ Typed(DelItem(x, y), w)
<1>1. ~w.hit /\ w.live = Value
  BY DEF Beginning
<1>2. [act |-> "Value"] \in OtherCalls(w) /\ [act |-> "Setter"] \in OtherCalls(w)
  BY DEF OtherCalls
<1>3. <<y>> \in Seq(w.live) /\ <<y, z>> \in Seq(w.live)
  BY Tuples
<1>4. {"__getitem__", "__setitem__", "__delitem__"} \cap (IteratorEnds \cup Getters) = {}
  BY DEF IteratorEnds, Getters
<1>5. /\ Typed(Call("__getitem__", x, <<y>>, [act |-> "Value"]), w)
      /\ Typed(Call("__setitem__", x, <<y, z>>, [act |-> "Setter"]), w)
      /\ Typed(Call("__delitem__", x, <<y>>, [act |-> "Setter"]), w)
  <2>1. "Value" # "Initializer" /\ "Setter" # "Initializer"
    OBVIOUS
  <2> QED
    BY <1>1, <1>2, <1>3, <1>4, <2>1, OtherCall
<1>6. /\ [act |-> "GetItem", owner |-> x] \in Targets(w)
      /\ [act |-> "SetItem", owner |-> x, value |-> z] \in Targets(w)
      /\ [act |-> "DelItem", owner |-> x] \in Targets(w)
  BY DEF Targets
<1>7. /\ Typed(invoke_index_conversion(y, [act |-> "GetItem", owner |-> x]), w)
      /\ Typed(invoke_index_conversion(y, [act |-> "SetItem", owner |-> x, value |-> z]), w)
      /\ Typed(invoke_index_conversion(y, [act |-> "DelItem", owner |-> x]), w)
  BY <1>1, <1>6, PlainIndex
<1>8. Typed(continue_slice_conversion([act |-> "Slice", owner |-> x, values |-> Tail(scene.args), next |-> 1]), w)
  <2> DEFINE s == [act |-> "Slice", owner |-> x, values |-> Tail(scene.args), next |-> 1]
  <2>1. Tail(scene.args) \in Seq(w.live)
    BY <1>1, Operands
  <2>2. s \in Slices(w)
    BY <2>1 DEF Slices
  <2> HIDE DEF s
  <2>3. Typed(continue_slice_conversion(s), w)
    BY <1>1, <2>2, SliceConversion
  <2> QED
    BY <2>3 DEF s
<1> QED
  BY <1>5, <1>7, <1>8 DEF GetItem, SetItem, DelItem

LEMMA TypeBegins ==
  ASSUME scene \in Scene, NEW w \in Context, Beginning(w),
         scene.op \in {"range", "int", "float", "bool", "list", "tuple", "bytes", "unpack"}
  PROVE  /\ scene.op # "unpack" => Typed(invoke_builtin_type(scene.op, scene.args, NoFinish), w)
         /\ scene.op = "unpack" => Typed(invoke_iterable_collection("unpack", NoFinish, scene.args[1]), w)
<1>1. ~w.hit /\ w.live = Value /\ Fresh(w) /\ scene.args[1] \in w.live /\ scene.args \in Seq(w.live) /\ Len(scene.args) >= 1
  BY Operands, SceneFields DEF Beginning
<1>2. Iterable(Head(scene.args), w) /\ Iterable(scene.args[1], w)
  BY <1>1, AllIterable
<1>3. << >> \in Seq(w.live)
  BY <1>1, Tuples
<1>4. NoFinish \in Finishes(w) /\ ~NoFinish.native
  BY <1>3 DEF NoFinish, Finishes
<1>5. scene.op \in {"range", "int", "float", "bool"} => Plain
  BY DEF Plain, Judged, Searches
<1>6. scene.op \in {"list", "tuple", "bytes", "unpack"} => Collects([kind |-> scene.op, finish |-> NoFinish], w)
  BY <1>4 DEF Collects
<1>7. ASSUME scene.op # "unpack"
      PROVE  Typed(invoke_builtin_type(scene.op, scene.args, NoFinish), w)
  <2>1. scene.op \in {"list", "tuple", "bytes"} => Collects([kind |-> scene.op, finish |-> NoFinish], w)
    BY <1>6
  <2> QED
    BY <1>1, <1>2, <1>4, <1>5, <1>7, <2>1, BuiltinType
<1>8. ASSUME scene.op = "unpack"
      PROVE  Typed(invoke_iterable_collection("unpack", NoFinish, scene.args[1]), w)
  <2>1. "unpack" \in Kinds /\ Collects([kind |-> "unpack", finish |-> NoFinish], w)
    BY <1>6, <1>8 DEF Kinds
  <2> QED
    BY <1>1, <1>2, <1>4, <2>1, CollectionCall
<1> QED
  BY <1>7, <1>8

LEMMA Begins ==
  ASSUME scene \in Scene, NEW w \in Context, Beginning(w)
  PROVE  Typed(Begin, w)
<1> DEFINE x == scene.args[1]
           y == scene.args[2]
<1>1. ~w.hit /\ w.live = Value /\ Fresh(w) /\ x \in w.live
  BY Operands DEF Beginning
<1>2. scene.op \in Binary \cup Ternary => y \in w.live
  BY <1>1, Operands
<1> HIDE DEF x, y
<1>3. scene.op \in {"len", "GetItem", "slice", "SetItem", "DelItem", "get", "set", "delete", "__str__"} => Plain
  BY DEF Plain, Judged, Searches
<1>4. CASE scene.op \in {"Add", "InplaceAdd", "Eq", "Ne", "Lt", "order", "in", "not in", "neg", "not", "jump"}
  BY <1>4, OperatorBegins DEF Begin
<1>5. CASE scene.op \in {"DivMod", "PowMod", "round", "__repr__", "format", "sum", "any", "all", "extremum"}
  BY <1>5, BuiltinBegins DEF Begin
<1>6. CASE scene.op = "len"
  <2>1. Typed(InvokeLen(x), w)
    BY <1>1, <1>3, <1>6, LenCall
  <2> QED
    BY <1>6, <2>1 DEF Begin, x
<1>7. CASE scene.op \in {"GetItem", "slice", "SetItem", "DelItem"}
  <2>1. y \in w.live
    BY <1>2, <1>7 DEF Binary, Ternary
  <2>2. scene.op = "SetItem" => scene.args[3] \in w.live
    BY <1>1, Operands DEF Ternary
  <2>3. Typed(GetItem(x, y), w) /\ Typed(DelItem(x, y), w)
    BY <1>1, <1>3, <1>7, <2>1, ItemBegins
  <2>4. scene.op = "SetItem" => Typed(SetItem(x, y, scene.args[3]), w)
    BY <1>1, <1>3, <1>7, <2>1, <2>2, ItemBegins
  <2> QED
    BY <1>7, <2>3, <2>4 DEF Begin, x, y
<1>8. CASE scene.op \in {"range", "int", "float", "bool", "list", "tuple", "bytes", "unpack"}
  BY <1>8, TypeBegins DEF Begin
<1>9. CASE scene.op = "class"
  BY <1>1, <1>9, ClassCall DEF Begin
<1>10. CASE scene.op \in {"get", "set", "delete"}
  <2>1. Typed(invoke_attribute_get(x), w) /\ Typed(invoke_attribute_set(x), w) /\ Typed(invoke_attribute_delete, w)
    BY <1>1, <1>3, <1>10, AttributeGetCall, SetterCall
  <2> QED
    BY <1>10, <2>1 DEF Begin, x
<1>11. CASE scene.op = "__str__"
  <2>1. Typed(invoke_string_conversion(x, "__str__"), w)
    BY <1>1, <1>3, <1>11, TextCall
  <2> QED
    BY <1>11, <2>1 DEF Begin, x
<1>12. CASE scene.op = "star"
  BY <1>1, <1>12, ExpansionCall DEF Begin
<1>13. scene.op \in Unary \cup Binary \cup Ternary
  BY SceneFields
<1> QED
  BY <1>4, <1>5, <1>6, <1>7, <1>8, <1>9, <1>10, <1>11, <1>12, <1>13 DEF Unary, Binary, Ternary


\* A function of the interpreter takes a path to where it may be.
LEMMA Entered ==
  ASSUME scene \in Scene, NEW w \in Context, NEW f, NEW s, Ready(f, s, w)
  PROVE  Typed(Enter(f, s), w)
<1>1. CASE f = "begin"
  <2>1. Typed(Begin, w)
    BY <1>1, Begins DEF Ready, Beginning
  <2> QED
    BY <1>1, <2>1 DEF Enter
<1>2. CASE f = "complete_equality"
  <2>1. s.equal \in BOOLEAN /\ s.action \in Equalities(w) /\ w.hit = (s.action.act = "Membership" /\ s.equal)
    BY <1>2 DEF Ready
  <2>2. Typed(complete_equality(s.equal, s.action), w)
    BY <2>1, EqualityCompleted
  <2> QED
    BY <1>2, <2>2 DEF Enter
<1>3. CASE f = "invoke_equality_fallback"
  BY <1>3, EqualityFallback DEF Enter
<1>4. CASE f = "next_index"
  <2>1. s \in Ranges(w) \cup Slices(w) /\ Plain /\ ~w.hit
    BY <1>4 DEF Ready
  <2>2. CASE s \in Ranges(w)
    <3>1. s.act = "Range"
      BY <2>2 DEF Ranges
    <3>2. Typed(continue_range_construction(s), w)
      BY <2>1, <2>2, RangeConstruction
    <3> QED
      BY <1>4, <3>1, <3>2 DEF Enter
  <2>3. CASE s \in Slices(w)
    <3>1. s.act = "Slice"
      BY <2>3 DEF Slices
    <3>2. Typed(continue_slice_conversion(s), w)
      BY <2>1, <2>3, SliceConversion
    <3> QED
      BY <1>4, <3>1, <3>2 DEF Enter
  <2> QED
    BY <2>1, <2>2, <2>3
<1>5. CASE f = "continue_sum"
  <2>1. s \in [iterator : Iter(w), total : w.live] /\ Plain /\ ~w.hit
    BY <1>5 DEF Ready
  <2>2. Typed(continue_sum(s), w)
    BY <2>1, SumNext
  <2> QED
    BY <1>5, <2>2 DEF Enter
<1>6. CASE f = "finish_bool_reduce_truth"
  <2>1. s.truth \in BOOLEAN /\ s.state \in Reductions(w) /\ w.hit = (s.truth = s.state.any)
    BY <1>6 DEF Ready
  <2>2. Typed(finish_bool_reduce_truth(s.truth, s.state), w)
    BY <2>1, ReduceTruth
  <2> QED
    BY <1>6, <2>2 DEF Enter
<1>7. CASE f = "continue_extremum"
  <2>1. s \in Extrema(w) /\ ~w.hit
    BY <1>7 DEF Ready
  <2>2. Typed(continue_extremum(s), w)
    BY <2>1, ExtremumNext
  <2> QED
    BY <1>7, <2>2 DEF Enter
<1>8. CASE f = "finish_extremum_truth"
  <2>1. s.truth \in BOOLEAN /\ s.candidate \in Compared(w) /\ ~w.hit
    BY <1>8 DEF Ready
  <2>2. Typed(finish_extremum_truth(s.truth, s.candidate), w)
    BY <2>1, ExtremumTruth
  <2> QED
    BY <1>8, <2>2 DEF Enter
<1>9. CASE f = "continue_membership"
  <2>1. s \in Memberships(w) /\ ~w.hit
    BY <1>9 DEF Ready
  <2>2. Typed(continue_membership(s), w)
    BY <2>1, MembershipNextItem
  <2> QED
    BY <1>9, <2>2 DEF Enter
<1>10. CASE f = "continue_iterable_collection"
  <2>1. s \in CollectCalls(w) /\ s.act = "CollectIterableNext" /\ ~w.hit
    BY <1>10 DEF Ready
  <2>2. Typed(continue_iterable_collection(s), w)
    BY <2>1, CollectionNext
  <2> QED
    BY <1>10, <2>2 DEF Enter
<1>11. CASE f = "continue_argument_expansion"
  <2>1. s \in ExpandCalls(w) /\ s.act = "ExpandIterableNext" /\ ~w.hit
    BY <1>11 DEF Ready
  <2>2. Typed(continue_argument_expansion(s), w)
    BY <2>1, ExpansionNext
  <2> QED
    BY <1>11, <2>2 DEF Enter
<1>12. CASE f = "finish_builtin_value"
  <2>1. s \in Built(w) /\ ~w.hit
    BY <1>12 DEF Ready
  <2>2. Typed(finish_builtin_value(s), w)
    BY <2>1, ValueFinished
  <2> QED
    BY <1>12, <2>2 DEF Enter
<1> QED
  BY <1>1, <1>2, <1>3, <1>4, <1>5, <1>6, <1>7, <1>8, <1>9, <1>10, <1>11, <1>12 DEF Ready

\* An item that is added is stored.
LEMMA Added ==
  ASSUME NEW u \in Context, NEW w \in Context, NEW c \in Pushes(u),
         w.live = u.live, w.items = u.items, w.hit = u.hit, w.stored = Append(u.stored, c.value)
  PROVE  Typed(Do(c.f, c.s), w)
<1>1. ~w.hit /\ w.stored = w.items
  BY DEF Pushes
<1>2. CASE c.f = "continue_iterable_collection"
  <2>1. c.s \in Collections(u) /\ c.s.kind = "ListInit"
    BY <1>2 DEF Pushes
  <2>2. Iter(w) = Iter(u) /\ Finishes(w) = Finishes(u)
    BY DEF Iter, Finishes
  <2>3. Collects(c.s, u) => Collects(c.s, w)
    BY DEF Collects
  <2>4. c.s \in Collections(w)
    BY <2>1, <2>2, <2>3 DEF Collections
  <2>5. c.s \in CollectCalls(w) /\ c.s.act = "CollectIterableNext"
    BY <1>1, <2>1, <2>4 DEF CollectCalls, Collections
  <2> QED
    BY <1>1, <1>2, <2>5, Entering DEF Ready
<1>3. CASE c.f = "continue_argument_expansion"
  <2>1. c.s \in Expansions(u)
    BY <1>3 DEF Pushes
  <2>2. c.s \in Expansions(w)
    BY <2>1 DEF Expansions, Iter
  <2>3. c.s \in ExpandCalls(w) /\ c.s.act = "ExpandIterableNext"
    BY <1>1, <2>2 DEF ExpandCalls, Expansions
  <2> QED
    BY <1>1, <1>3, <2>3, Entering DEF Ready
<1> QED
  BY <1>2, <1>3 DEF Pushes


-----------------------------------------------------------------------------
(* A state and the next one: only the operation is part of the types. *)

LEMMA Transfer ==
  ASSUME scene' = scene, NEW w, NEW c
  PROVE  Typed(c, w)' <=> Typed(c, w)
<1>1. /\ Plain' = Plain /\ Searches' = Searches /\ Orders(w)' = Orders(w) /\ Memberships(w)' = Memberships(w)
      /\ Equalities(w)' = Equalities(w) /\ Configs(w)' = Configs(w) /\ Finishes(w)' = Finishes(w)
  BY DEF Equalities, Memberships, Orders, Tests, Plain, Judged, Searches, operator_method_call, Iter, Configs, Finishes
<1>2. Extrema(w)' = Extrema(w) /\ Compared(w)' = Compared(w)
  BY <1>1 DEF Extrema, Compared, Picked, Iter
<1>3. /\ Equated(w)' = Equated(w) /\ Reductions(w)' = Reductions(w)
      /\ Truths(w)' = Truths(w) /\ Completions(w)' = Completions(w)
  BY <1>1, <1>2 DEF Equated, Reductions, Reduces, Truths, Completions, Iter
<1>4. Ranges(w)' = Ranges(w) /\ Slices(w)' = Slices(w) /\ Targets(w)' = Targets(w)
  BY <1>1, <1>3 DEF Ranges, Slices, Targets
<1>5. /\ TruthCalls(w)' = TruthCalls(w) /\ IndexCalls(w)' = IndexCalls(w) /\ BinaryCalls(w)' = BinaryCalls(w)
      /\ NumericCalls(w)' = NumericCalls(w) /\ SumCalls(w)' = SumCalls(w) /\ AttributeCalls(w)' = AttributeCalls(w)
      /\ OtherCalls(w)' = OtherCalls(w)
  BY <1>1, <1>3, <1>4 DEF TruthCalls, IndexCalls, BinaryCalls, Candidates, NumericCalls, SumCalls, AttributeCalls,
     OtherCalls, Iter
<1>6. /\ ReduceCalls(w)' = ReduceCalls(w) /\ MembershipCalls(w)' = MembershipCalls(w)
      /\ ExtremumCalls(w)' = ExtremumCalls(w) /\ NewCalls(w)' = NewCalls(w)
  BY <1>1, <1>2 DEF ReduceCalls, Reduces, MembershipCalls, Tests, ExtremumCalls, NewCalls, Fresh, Iter, Picked
<1>7. /\ Collections(w)' = Collections(w) /\ CollectCalls(w)' = CollectCalls(w)
      /\ Expansions(w)' = Expansions(w) /\ ExpandCalls(w)' = ExpandCalls(w) /\ Built(w)' = Built(w)
  BY <1>1 DEF Collections, CollectCalls, Collects, Expansions, ExpandCalls, Built, Fresh, Iter, operator_method_call
<1>8. Continuations(w)' = Continuations(w)
  BY <1>5, <1>6, <1>7 DEF Continuations
<1>9. (c \in Ends(w))' <=> c \in Ends(w)
  BY <1>1 DEF Ends, Right
<1>10. (c \in Pushes(w))' <=> c \in Pushes(w)
  BY <1>7 DEF Pushes
<1>11. Asking(c, w)' <=> Asking(c, w)
  BY <1>8 DEF Asking, Asks
<1>12. Ready(c.f, c.s, w)' <=> Ready(c.f, c.s, w)
  BY <1>1, <1>2, <1>3, <1>4, <1>7 DEF Ready, Fresh, Iter
<1> QED
  BY <1>9, <1>10, <1>11, <1>12 DEF Typed, Failed

LEMMA Arriving ==
  ASSUME scene' = scene, NEW p, NEW C, NEW W, side'[p] = C, ContextOf(p)' = W, W \in Context, Typed(C, W)
  PROVE  PathTyped(p)'
<1>1. SUFFICES ASSUME NEW c, NEW w, (c = side[p] /\ w = ContextOf(p))'
               PROVE  (w \in Context)' /\ Typed(c, w)'
  BY DEF PathTyped
<1>2. c = C /\ w = W
  BY <1>1
<1>3. (w \in Context)'
  BY <1>2 DEF Context
<1> QED
  BY <1>1, <1>2, <1>3, Transfer

LEMMA ContextNext ==
  ASSUME scene' = scene, given' = given, roots' = roots, log' = log, NEW p, stored'[p] = stored[p]
  PROVE  ContextOf(p)' = ContextOf(p)
BY DEF ContextOf, Hit, Says, Finds, Searches, operator_method_call, HasTruth

\* The shape of a state.
Shape == scene \in Scenes /\ DOMAIN side = Sides /\ DOMAIN stored = Sides /\ log \in Seq(Elements(log))

LEMMA Logged ==
  ASSUME NEW s, s \in Seq(Elements(s)), NEW e
  PROVE  /\ Append(s, e) \in Seq(Elements(Append(s, e)))
         /\ DOMAIN Append(s, e) = DOMAIN s \cup {Len(s) + 1} /\ Len(s) + 1 \notin DOMAIN s
         /\ Append(s, e)[Len(s) + 1] = e /\ \A i \in DOMAIN s : Append(s, e)[i] = s[i]
<1> DEFINE S == Elements(s) \cup {e}
           t == Append(s, e)
<1>1. s \in Seq(S) /\ e \in S
  <2>1. \A A, B : A \subseteq B => Seq(A) \subseteq Seq(B)
    OBVIOUS
  <2> QED
    BY <2>1
<1> HIDE DEF S
<1>2. /\ t \in Seq(S) /\ Len(t) = Len(s) + 1 /\ Len(s) \in Nat
      /\ \A i \in 1 .. Len(s) : t[i] = s[i] /\ t[Len(s) + 1] = e
  BY <1>1, AppendProperties
<1>3. t[Len(s) + 1] = e
  BY <1>1, AppendProperties
<1>4. DOMAIN s = 1 .. Len(s) /\ DOMAIN t = 1 .. Len(t)
  BY <1>1, <1>2
<1>5. t \in Seq(Elements(t))
  <2>1. \A i \in 1 .. Len(t) : t[i] \in Elements(t)
    BY <1>4 DEF Elements
  <2> HIDE DEF t
  <2>2. \A T : (\A i \in 1 .. Len(t) : t[i] \in T) => t \in Seq(T)
    BY <1>2
  <2> QED
    BY <2>1, <2>2
<1> QED
  BY <1>2, <1>3, <1>4, <1>5

\* What an answer decides.
LEMMA HitNext ==
  ASSUME scene \in Scene, scene' = scene, log \in Seq(Elements(log)), NEW e, log' = Append(log, e), e.kind = "value"
  PROVE  Hit' = (Hit \/ HitBy(e.m, e.value))
<1>1. /\ DOMAIN log' = DOMAIN log \cup {Len(log) + 1}
      /\ log'[Len(log) + 1] = e /\ \A i \in DOMAIN log : log'[i] = log[i]
  BY Logged
<1>2. HasTruth' = HasTruth
  BY DEF HasTruth
<1>3. \A truth \in BOOLEAN : Says(truth)' <=> Says(truth) \/ Tells(e.m, e.value, truth)
  BY <1>1, <1>2 DEF Says, Tells
<1>4. Says(TRUE)' = (Says(TRUE) \/ Tells(e.m, e.value, TRUE)) /\ Says(FALSE)' = (Says(FALSE) \/ Tells(e.m, e.value, FALSE))
  BY <1>3 DEF Says
<1>5. Finds' <=> Finds \/ Matches(e.m, e.value)
  BY <1>1, <1>2, <1>4 DEF Finds, Matches
<1>6. Searches' = Searches
  BY DEF Searches, operator_method_call
<1> QED
  BY <1>4, <1>5, <1>6 DEF Hit, HitBy, Searches


ErrorKinds == {"StopIteration", "AttributeError", "IndexError", "exhausted", "Other"}

\* An error decides nothing.
LEMMA HitFails ==
  ASSUME scene \in Scene, scene' = scene, log \in Seq(Elements(log)), NEW e, log' = Append(log, e), e.kind = "error",
         e.value \in ErrorKinds
  PROVE  Hit' = Hit
<1>1. /\ DOMAIN log' = DOMAIN log \cup {Len(log) + 1}
      /\ log'[Len(log) + 1] = e /\ \A i \in DOMAIN log : log'[i] = log[i]
  BY Logged
<1>2. HasTruth' = HasTruth
  BY DEF HasTruth
<1>3. \A truth \in BOOLEAN : Says(truth)' <=> Says(truth)
  BY <1>1, <1>2 DEF Says
<1>4. Says(TRUE)' = Says(TRUE) /\ Says(FALSE)' = Says(FALSE)
  BY <1>3 DEF Says
<1>5. e.value \notin Value
  BY DEF ErrorKinds, Value, Objects, Integer, Boolean, Names
<1>6. "True" \in Value /\ "b" \in Value
  BY DEF Value, Objects, Boolean
<1>7. Searches => scene.args[2] \in Value
  BY Operands DEF Searches, Binary
<1>8. Searches => (Finds' <=> Finds)
  BY <1>1, <1>2, <1>4, <1>5, <1>6, <1>7 DEF Finds
<1>9. Searches' = Searches
  BY DEF Searches, operator_method_call
<1>10. Finds \in BOOLEAN /\ Finds' \in BOOLEAN
  BY DEF Finds
<1> QED
  BY <1>4, <1>8, <1>9, <1>10 DEF Hit

\* The context of a path after an answer, and after an error.
LEMMA ContextAnswered ==
  ASSUME scene \in Scenes, scene' = scene, log \in Seq(Elements(log)), NEW e, log' = Append(log, e), e.kind = "value",
         given' = (IF e.m \in IteratorEnds THEN Append(given, e.value) ELSE given), stored' = stored,
         e.value \in Value, NEW p \in Sides, ContextOf(p) \in Context
  PROVE  /\ ContextOf(p)' \in Context /\ ContextOf(p)'.live = (IF p = "guest" THEN Live(roots') ELSE Value)
         /\ ContextOf(p)'.hit = (ContextOf(p).hit \/ HitBy(e.m, e.value))
         /\ ContextOf(p).chosen \subseteq ContextOf(p)'.chosen
         /\ ContextOf(p)'.stored = ContextOf(p).stored
         /\ e.m \in IteratorEnds =>
              ContextOf(p)'.items = Append(ContextOf(p).items, e.value) /\ e.value \in ContextOf(p)'.chosen
         /\ e.m \notin IteratorEnds => ContextOf(p)'.items = ContextOf(p).items
<1>0. scene \in Scene
  BY SceneAssumption
<1>1. given \in Seq(Value) /\ stored[p] \in Seq(Value) /\ Hit \in BOOLEAN
  BY Worlds DEF ContextOf
<1>2. Hit' = (Hit \/ HitBy(e.m, e.value))
  BY <1>0, HitNext
<1>3. /\ Append(given, e.value) \in Seq(Value) /\ Len(Append(given, e.value)) = Len(given) + 1 /\ Len(given) \in Nat
      /\ \A i \in 1 .. Len(given) : Append(given, e.value)[i] = given[i]
      /\ Append(given, e.value)[Len(given) + 1] = e.value
  BY <1>1, AppendProperties
<1>4. {given[i] : i \in 1 .. Len(given)} \subseteq {given'[i] : i \in 1 .. Len(given')} /\ given' \in Seq(Value)
  BY <1>1, <1>3, SMTT(30)
<1>5. e.m \in IteratorEnds => e.value \in {given'[i] : i \in 1 .. Len(given')}
  BY <1>3
<1>6. ContextOf(p)' = [live |-> IF p = "guest" THEN Live(roots') ELSE Value,
                       chosen |-> {given'[i] : i \in 1 .. Len(given')} \cup {scene.args[i] : i \in 2 .. Len(scene.args)}
                                    \cup {scene.config.default},
                       items |-> given', stored |-> stored[p], hit |-> Hit']
  BY DEF ContextOf
<1>7. {given'[i] : i \in 1 .. Len(given')} \subseteq Value
  BY <1>4
<1>8. {scene.args[i] : i \in 2 .. Len(scene.args)} \cup {scene.config.default} \subseteq Value
  BY <1>0, SceneFields
<1>9. Live(roots') \subseteq Value /\ Value \ Objects \subseteq Live(roots')
  <2>1. Objects \subseteq Value
    BY DEF Value
  <2> QED
    BY <2>1 DEF Live
<1>10. Hit' \in BOOLEAN
  BY <1>1, <1>2 DEF HitBy
<1>11. ContextOf(p)' \in Context
  BY <1>1, <1>4, <1>6, <1>7, <1>8, <1>9, <1>10 DEF Context
<1> QED
  BY <1>2, <1>4, <1>5, <1>6, <1>11 DEF ContextOf

LEMMA ContextFailed ==
  ASSUME scene \in Scenes, scene' = scene, log \in Seq(Elements(log)), NEW e, log' = Append(log, e), e.kind = "error",
         e.value \in ErrorKinds, given' = given, stored' = stored, NEW p \in Sides, ContextOf(p) \in Context
  PROVE  /\ ContextOf(p)' \in Context /\ ContextOf(p)'.live = (IF p = "guest" THEN Live(roots') ELSE Value)
         /\ ContextOf(p)'.hit = ContextOf(p).hit
         /\ ContextOf(p).chosen = ContextOf(p)'.chosen
         /\ ContextOf(p)'.stored = ContextOf(p).stored
         /\ ContextOf(p)'.items = ContextOf(p).items
<1>1. Hit' = Hit
  BY SceneAssumption, HitFails
<1>2. ContextOf(p)' = [live |-> IF p = "guest" THEN Live(roots') ELSE Value, chosen |-> ContextOf(p).chosen,
                       items |-> ContextOf(p).items, stored |-> ContextOf(p).stored, hit |-> ContextOf(p).hit]
  BY <1>1 DEF ContextOf
<1>3. Live(roots') \subseteq Value /\ Value \ Objects \subseteq Live(roots')
  <2>1. Objects \subseteq Value
    BY DEF Value
  <2> QED
    BY <2>1 DEF Live
<1>4. ContextOf(p)' \in Context
  BY <1>2, <1>3 DEF Context
<1> QED
  BY <1>2, <1>4


-----------------------------------------------------------------------------
(* The agreement of the two paths.  They part in three ways: a native      *)
(* __init__ may return anything, the end of an iteration without items is  *)
(* an error of min and max that escapes, and a call whose starred argument *)
(* is expanded later is made twice or never.                               *)

Agreeing ==
  /\ InitAnswers \subseteq {"None"}
  /\ scene.op = "extremum" /\ scene.args[1] # Unbound => scene.config.default # Unbound
  /\ scene.op = "star" /\ scene.deferred => ~operator_method_call(scene.args[1], "__iter__")

Over(c) == c.at \in {"done", "error"}

\* The expansion of a starred argument remembers on each path how it went on.
Same(s, t) ==
  \/ s = t
  \/ s.act = "ExpandIterableNext" /\ t.act = "ExpandIterableNext" /\ s.iterator = t.iterator /\ (Agreeing => ~scene.deferred)

Alike(c, d) ==
  \/ c = d
  \/ Over(c) /\ Over(d) /\ ~Agreeing
  \/ \E m, x, args, how, k, l : c = Waiting(m, x, args, how, k) /\ d = Waiting(m, x, args, how, l) /\ Same(k, l)
  \/ \E s, t : c = Do("continue_argument_expansion", s) /\ d = Do("continue_argument_expansion", t) /\ Same(s, t)
  \/ \E v, s, t : /\ c = Push(v, "continue_argument_expansion", s) /\ d = Push(v, "continue_argument_expansion", t)
                  /\ Same(s, t)

Lockstep == \A c \in {side["guest"]}, d \in {side["native"]} : Alike(c, d) /\ stored["guest"] = stored["native"]

LEMMA NextAlike ==
  ASSUME NEW s, NEW t, Same(s, t), s.iterator = t.iterator
  PROVE  Alike(continue_argument_expansion(s), continue_argument_expansion(t))
<1>1. \E m, args, how : \A r : invoke_iterator_next_with_action(s.iterator, r) = Waiting(m, s.iterator, args, how, r)
  <2>1. CASE s.iterator = "gen"
    BY <2>1 DEF invoke_iterator_next_with_action
  <2>2. CASE s.iterator = "items"
    BY <2>2 DEF invoke_iterator_next_with_action
  <2>3. CASE s.iterator = "seqit"
    BY <2>3 DEF invoke_iterator_next_with_action
  <2>4. CASE s.iterator \notin {"gen", "items", "seqit"}
    BY <2>4 DEF invoke_iterator_next_with_action, Call
  <2> QED
    BY <2>1, <2>2, <2>3, <2>4
<1> QED
  BY <1>1 DEF continue_argument_expansion, Alike

\* Both paths enter the same function.
LEMMA MovesAlike ==
  ASSUME NEW c, NEW d, Alike(c, d), NEW items
  PROVE  /\ Moves(c) <=> Moves(d)
         /\ Alike(Move(c, items), Move(d, items))
         /\ c.at = "push" <=> d.at = "push"
         /\ c.at = "push" => c.value = d.value /\ (Room(c, items) <=> Room(d, items))
<1>1. CASE c = d
  BY <1>1 DEF Alike
<1>2. CASE Over(c) /\ Over(d) /\ ~Agreeing
  <2>1. Move(c, items) = c /\ Move(d, items) = d
    BY <1>2 DEF Move, Over
  <2> QED
    BY <1>2, <2>1 DEF Moves, Over
<1>3. ASSUME NEW m, NEW x, NEW args, NEW how, NEW k, NEW l, c = Waiting(m, x, args, how, k), d = Waiting(m, x, args, how, l)
      PROVE  Move(c, items) = c /\ Move(d, items) = d /\ ~Moves(c) /\ ~Moves(d)
  BY <1>3 DEF Move, Moves, Waiting
<1>4. ASSUME NEW s, NEW t, c = Do("continue_argument_expansion", s), d = Do("continue_argument_expansion", t), Same(s, t)
      PROVE  Alike(Move(c, items), Move(d, items)) /\ Moves(c) /\ Moves(d) /\ c.at # "push" /\ d.at # "push"
  <2>1. CASE s = t
    BY <1>4, <2>1 DEF Do, Moves, Alike
  <2>2. CASE s # t
    <3>1. s.iterator = t.iterator /\ Same(s, t)
      BY <1>4, <2>2 DEF Same
    <3>2. /\ Move(c, items) = Enter("continue_argument_expansion", s)
          /\ Move(d, items) = Enter("continue_argument_expansion", t)
      BY <1>4 DEF Move, Do
    <3>3. \A r : Enter("continue_argument_expansion", r) = continue_argument_expansion(r)
      BY DEF Enter
    <3>5. Alike(Enter("continue_argument_expansion", s), Enter("continue_argument_expansion", t))
      BY <3>1, <3>3, NextAlike
    <3> QED
      BY <1>4, <3>2, <3>5 DEF Do, Moves
  <2> QED
    BY <2>1, <2>2
<1>5. ASSUME NEW v, NEW s, NEW t, c = Push(v, "continue_argument_expansion", s),
             d = Push(v, "continue_argument_expansion", t), Same(s, t)
      PROVE  /\ Alike(Move(c, items), Move(d, items)) /\ Moves(c) /\ Moves(d) /\ c.at = "push" /\ d.at = "push"
             /\ c.value = d.value /\ (Room(c, items) <=> Room(d, items))
  <2>1. Room(c, items) <=> Room(d, items)
    BY <1>5 DEF Room, Push
  <2>2. /\ Move(c, items) = IF Room(c, items) THEN Do("continue_argument_expansion", s) ELSE Err("ResourceError")
        /\ Move(d, items) = IF Room(d, items) THEN Do("continue_argument_expansion", t) ELSE Err("ResourceError")
    BY <1>5 DEF Move, PushItem, Push
  <2>3. Alike(Move(c, items), Move(d, items))
    BY <1>5, <2>1, <2>2 DEF Alike
  <2> QED
    BY <1>5, <2>1, <2>3 DEF Moves, Push
<1>6. \A m, x, args, how, k : Waiting(m, x, args, how, k).at = "call"
  BY DEF Waiting
<1> QED
  BY <1>1, <1>2, <1>3, <1>4, <1>5, <1>6 DEF Alike, Over


\* An answer is carried on alike by both paths.
LEMMA ReturnsAlike ==
  ASSUME scene \in Scene, NEW w \in Context, NEW k \in Continuations(w), NEW m, Asks(k, m, "method"), NEW v \in Answers(m)
  PROVE  Alike(OnReturn(k, v), AfterCall(k, v))
<1>1. CASE k.act \in Starts \ {"ExpandIterableStart"}
  <2>1. ReturnStart(k, v) = AfterStart(k, v)
    BY <1>1 DEF ReturnStart, AfterStart, Starts
  <2> QED
    BY <1>1, <2>1 DEF OnReturn, AfterCall, Alike, Starts, Items
<1>2. CASE k.act = "ExpandIterableStart"
  <2>1. k \in ExpandCalls(w)
    BY <1>2, Classes
  <2>2. Agreeing => ~scene.deferred
    BY <1>2, <2>1 DEF ExpandCalls, Expansions, Agreeing
  <2>3. CASE v \in Iterators
    <3> DEFINE s == ArgumentExpansion(v, k.resume, FALSE)
               t == ArgumentExpansion(v, FALSE, TRUE)
    <3>1. Same(s, t) /\ s.iterator = t.iterator
      BY <2>2 DEF Same, ArgumentExpansion
    <3> HIDE DEF s, t
    <3>2. Alike(continue_argument_expansion(s), continue_argument_expansion(t))
      BY <3>1, NextAlike
    <3>3. OnReturn(k, v) = continue_argument_expansion(s) /\ AfterCall(k, v) = continue_argument_expansion(t)
      BY <1>2, <2>3 DEF OnReturn, AfterCall, ReturnStart, AfterStart, validate_iterator, Starts, Items, s, t
    <3> QED
      BY <3>2, <3>3
  <2>4. CASE v \notin Iterators
    BY <1>2, <2>4 DEF OnReturn, AfterCall, ReturnStart, AfterStart, validate_iterator, Starts, Items, Alike
  <2> QED
    BY <2>3, <2>4
<1>3. CASE k.act \in Items \ {"ExpandIterableNext"}
  <2>1. ReturnItem(k, v) = AfterItem(k, v)
    BY <1>3 DEF ReturnItem, AfterItem, ExtremumItem, CollectItem, Items
  <2> QED
    BY <1>3, <2>1 DEF OnReturn, AfterCall, Alike, Starts, Items
<1>4. CASE k.act = "ExpandIterableNext"
  <2>1. k \in ExpandCalls(w)
    BY <1>4, Classes
  <2>2. k \in Expansions(w)
    BY <1>4, <2>1 DEF ExpandCalls
  <2>3. k.iterator \notin {"gen", "items", "seqit"}
    BY <1>4 DEF Asks, Items
  <2>4. Agreeing => ~scene.deferred
    BY <2>2, <2>3 DEF Expansions, Agreeing, Iter, Iterators
  <2> DEFINE s == [k EXCEPT !.sync = FALSE]
  <2>5. s.act = "ExpandIterableNext" /\ s.iterator = k.iterator
    BY <2>2 DEF Expansions
  <2> HIDE DEF s
  <2>6. Same(s, k)
    BY <1>4, <2>4, <2>5 DEF Same
  <2>7. OnReturn(k, v) = Push(v, "continue_argument_expansion", s) /\ AfterCall(k, v) = Push(v, "continue_argument_expansion", k)
    BY <1>4 DEF OnReturn, AfterCall, ReturnItem, AfterItem, push_expanded_positional, Starts, Items, s
  <2> QED
    BY <2>6, <2>7 DEF Alike
<1>5. CASE k.act = "IndexConversion"
  <2>1. v \in Integer \cup Boolean =>
          /\ normalize_index_result(v) \in Integer \cup Boolean
          /\ normalize_index_result(normalize_index_result(v)) = normalize_index_result(v)
    BY Normal
  <2>2. v \in Integer \cup Boolean => finish_index_conversion(normalize_index_result(v), k) = finish_index_conversion(v, k)
    BY <2>1 DEF finish_index_conversion
  <2>3. v \notin Integer \cup Boolean => finish_index_conversion(v, k) = Err("TypeError")
    BY DEF finish_index_conversion
  <2> QED
    BY <1>5, <2>2, <2>3 DEF OnReturn, AfterCall, Alike, Starts, Items
<1>6. CASE k.act = "Initializer"
  <2>1. v \in InitAnswers
    <3>1. m = "__init__"
      BY <1>6 DEF Asks
    <3> QED
      BY <3>1 DEF Answers, IteratorEnds
  <2>2. /\ OnReturn(k, v) = IF v = "None" THEN Done(k.instance) ELSE Err("TypeError")
        /\ AfterCall(k, v) = Done(k.instance)
    BY <1>6 DEF OnReturn, AfterCall, Starts, Items
  <2>3. Agreeing => v = "None"
    BY <2>1 DEF Agreeing
  <2> QED
    BY <2>2, <2>3 DEF Alike, Over, Done, Result, Err
<1>7. CASE k.act \in {"Truth", "LengthResult", "BinaryProtocol", "UnaryProtocol", "NumericConversion", "ExtremumKey",
                      "MembershipContains", "New", "AttributeGet", "Value", "Setter", "StringConversion", "FormatResult"}
  <2>1. OnReturn(k, v) = AfterCall(k, v)
    BY <1>7 DEF OnReturn, AfterCall, finish_attribute_success, Starts, Items
  <2> QED
    BY <2>1 DEF Alike
<1>8. k.act \in Starts \cup Items \cup {"Truth", "LengthResult", "IndexConversion", "BinaryProtocol", "UnaryProtocol",
                "NumericConversion", "ExtremumKey", "MembershipContains", "New", "Initializer", "AttributeGet", "Value",
                "Setter", "StringConversion", "FormatResult"}
  BY Classes DEF Continuations, Starts, Items
<1> QED
  BY <1>1, <1>2, <1>3, <1>4, <1>5, <1>6, <1>7, <1>8

\* So it is where the paths remember different things.
LEMMA ResumesAlike ==
  ASSUME NEW u \in Context, NEW k \in Continuations(u), NEW w \in Context, NEW l \in Continuations(w), NEW v, Same(k, l)
  PROVE  Alike(AfterCall(k, v), AfterCall(l, v)) /\ Alike(OnReturn(k, v), OnReturn(l, v))
<1>1. CASE k = l
  BY <1>1 DEF Alike
<1>2. CASE k # l
  <2>1. k.act = "ExpandIterableNext" /\ l.act = "ExpandIterableNext" /\ Same(k, l)
    BY <1>2 DEF Same
  <2>2. AfterCall(k, v) = Push(v, "continue_argument_expansion", k) /\ AfterCall(l, v) = Push(v, "continue_argument_expansion", l)
    BY <2>1 DEF AfterCall, AfterItem, push_expanded_positional, Starts, Items
  <2> DEFINE s == [k EXCEPT !.sync = FALSE]
             t == [l EXCEPT !.sync = FALSE]
  <2>3. OnReturn(k, v) = Push(v, "continue_argument_expansion", s) /\ OnReturn(l, v) = Push(v, "continue_argument_expansion", t)
    BY <2>1 DEF OnReturn, ReturnItem, push_expanded_positional, Starts, Items
  <2>4. k \in ExpandCalls(u) /\ l \in ExpandCalls(w)
    BY <2>1, Classes
  <2>5. k \in Expansions(u) /\ l \in Expansions(w)
    BY <2>1, <2>4 DEF ExpandCalls
  <2>6. s.act = "ExpandIterableNext" /\ t.act = "ExpandIterableNext" /\ s.iterator = k.iterator /\ t.iterator = l.iterator
    BY <2>5 DEF Expansions
  <2> HIDE DEF s, t
  <2>7. Same(s, t)
    BY <1>2, <2>1, <2>6 DEF Same
  <2> QED
    BY <2>1, <2>2, <2>3, <2>7 DEF Alike
<1> QED
  BY <1>1, <1>2

LEMMA ExpansionEndsAlike ==
  ASSUME NEW u \in Context, NEW k \in ExpandCalls(u), NEW w \in Context, NEW l \in ExpandCalls(w),
         k.act = "ExpandIterableNext", l.act = "ExpandIterableNext", Agreeing => ~scene.deferred
  PROVE  Alike(ExpansionEnds(k), ExpansionEnds(l)) /\ Alike(ExpansionEnds([k EXCEPT !.sync = FALSE]), ExpansionEnds(l))
         /\ Alike(ExpansionEnds([k EXCEPT !.sync = FALSE]), ExpansionEnds([l EXCEPT !.sync = FALSE]))
<1>1. k \in Expansions(u) /\ l \in Expansions(w)
  BY DEF ExpandCalls
<1>2. \A r : Over(ExpansionEnds(r))
  BY DEF ExpansionEnds, Over, Done, Result
<1>3. CASE ~Agreeing
  BY <1>2, <1>3 DEF Alike
<1>4. CASE Agreeing
  <2>1. ~scene.deferred /\ k.resume = FALSE /\ l.resume = FALSE
    BY <1>1, <1>4 DEF Expansions
  <2>2. [k EXCEPT !.sync = FALSE].resume = FALSE /\ [l EXCEPT !.sync = FALSE].resume = FALSE
    BY <1>1, <2>1 DEF Expansions
  <2>3. \A r : r.resume = FALSE => ExpansionEnds(r) = Done("next")
    BY <2>1 DEF ExpansionEnds
  <2> QED
    BY <2>1, <2>2, <2>3 DEF Alike
<1> QED
  BY <1>3, <1>4

\* An error is carried on alike by both paths.
LEMMA FailsAlike ==
  ASSUME scene \in Scene, NEW w \in Context, NEW k \in Continuations(w), NEW m, Asks(k, m, "method"), NEW kind
  PROVE  Alike(OnException(k, kind), AfterError(k, kind))
<1>1. CASE kind = "StopIteration" /\ k.act \in Items
  <2>1. OnException(k, kind) = OnStop(k) /\ AfterError(k, kind) = AfterStop(k)
    BY <1>1 DEF OnException, AfterError
  <2>2. CASE k.act \in Items \ {"ExtremumNext", "ExpandIterableNext"}
    <3>1. OnStop(k) = AfterStop(k)
      BY <2>2 DEF OnStop, AfterStop, Items
    <3> QED
      BY <2>1, <3>1 DEF Alike
  <2>3. CASE k.act = "ExtremumNext"
    <3>1. OnStop(k) = Escaping(finish_extremum(k)) /\ AfterStop(k) = finish_extremum(k)
      BY <2>3 DEF OnStop, AfterStop
    <3>2. k \in ExtremumCalls(w)
      BY <2>3, Classes
    <3>3. /\ scene.op = "extremum" /\ scene.args[1] # Unbound /\ k.config = scene.config
      BY <2>3, <3>2 DEF ExtremumCalls, Extrema, Configs
    <3>4. CASE Agreeing
      <4>1. k.config.default # Unbound
        BY <3>3, <3>4 DEF Agreeing
      <4>2. finish_extremum(k).at = "done"
        BY <4>1 DEF finish_extremum, Done, Result
      <4> QED
        BY <2>1, <3>1, <4>2 DEF Escaping, Alike
    <3>5. CASE ~Agreeing
      <4>1. Over(finish_extremum(k))
        BY DEF finish_extremum, Done, Result, Err, Over
      <4>2. Over(Escaping(finish_extremum(k)))
        BY <4>1 DEF Escaping, Over
      <4> QED
        BY <2>1, <3>1, <3>5, <4>1, <4>2 DEF Alike
    <3> QED
      BY <3>4, <3>5
  <2>4. CASE k.act = "ExpandIterableNext"
    <3>1. OnStop(k) = ExpansionEnds([k EXCEPT !.sync = FALSE]) /\ AfterStop(k) = ExpansionEnds(k)
      BY <2>4 DEF OnStop, AfterStop
    <3>2. k \in ExpandCalls(w)
      BY <2>4, Classes
    <3>3. k.iterator \notin {"gen", "items", "seqit"}
      BY <2>4 DEF Asks, Items
    <3>4. Agreeing => ~scene.deferred
      BY <2>4, <3>2, <3>3 DEF ExpandCalls, Expansions, Agreeing, Iter, Iterators
    <3> QED
      BY <2>1, <2>4, <3>1, <3>2, <3>4, ExpansionEndsAlike
  <2> QED
    BY <1>1, <2>2, <2>3, <2>4 DEF Items
<1>2. CASE kind = "AttributeError" /\ k.act = "AttributeGet"
  <2>1. k.act \notin Items
    BY <1>2 DEF Items
  <2>2. AfterError(k, kind) = continue_attribute_missing(k)
    BY <1>2, <2>1 DEF AfterError
  <2>3. (k.phase = "Primary" /\ operator_method_call("a", "__getattr__")) \/ k.missing # "Raise" \/ continue_attribute_missing(k) = Err(kind)
    BY <1>2 DEF continue_attribute_missing
  <2>4. OnException(k, kind) = continue_attribute_missing(k)
    BY <1>2, <2>1, <2>3 DEF OnException
  <2> QED
    BY <2>2, <2>4 DEF Alike
<1>3. CASE ~(kind = "StopIteration" /\ k.act \in Items) /\ ~(kind = "AttributeError" /\ k.act = "AttributeGet")
  BY <1>3 DEF OnException, AfterError, Alike
<1> QED
  BY <1>1, <1>2, <1>3

LEMMA EndsAlike ==
  ASSUME NEW u \in Context, NEW k \in Continuations(u), NEW w \in Context, NEW l \in Continuations(w), NEW kind, Same(k, l)
  PROVE  Alike(AfterError(k, kind), AfterError(l, kind)) /\ Alike(OnException(k, kind), OnException(l, kind))
<1>1. CASE k = l
  BY <1>1 DEF Alike
<1>2. CASE k # l
  <2>1. k.act = "ExpandIterableNext" /\ l.act = "ExpandIterableNext" /\ (Agreeing => ~scene.deferred)
    BY <1>2 DEF Same
  <2>2. k \in ExpandCalls(u) /\ l \in ExpandCalls(w)
    BY <2>1, Classes
  <2>3. /\ Alike(ExpansionEnds(k), ExpansionEnds(l))
        /\ Alike(ExpansionEnds([k EXCEPT !.sync = FALSE]), ExpansionEnds([l EXCEPT !.sync = FALSE]))
    BY <2>1, <2>2, ExpansionEndsAlike
  <2>4. CASE kind = "StopIteration"
    BY <2>1, <2>3, <2>4 DEF AfterError, OnException, AfterStop, OnStop, Items
  <2>5. CASE kind # "StopIteration"
    BY <2>1, <2>5 DEF AfterError, OnException, Alike
  <2> QED
    BY <2>4, <2>5
<1> QED
  BY <1>1, <1>2


LEMMA AlikeTransitive ==
  ASSUME NEW c, NEW d, NEW e, Alike(c, d), Alike(d, e)
  PROVE  Alike(c, e)
<1>1. CASE c = d \/ d = e
  BY <1>1
<1>2. CASE c # d /\ d # e
  <2>1. \A k, l, o : Same(k, l) /\ Same(l, o) => Same(k, o)
    BY DEF Same
  <2>2. CASE Over(d) /\ ~Agreeing
    <3>1. /\ \A m, x, args, how, k : d # Waiting(m, x, args, how, k)
          /\ \A s : d # Do("continue_argument_expansion", s)
          /\ \A v, s : d # Push(v, "continue_argument_expansion", s)
      BY <2>2 DEF Over, Waiting, Do, Push
    <3> QED
      BY <1>2, <2>2, <3>1 DEF Alike
  <2>3. ASSUME NEW m, NEW x, NEW args, NEW how, NEW k, NEW l,
               c = Waiting(m, x, args, how, k), d = Waiting(m, x, args, how, l), Same(k, l)
        PROVE  Alike(c, e)
    <3>1. d.at = "call" /\ ~Over(d)
      BY <2>3 DEF Waiting, Over
    <3>2. PICK m2, x2, args2, how2, k2, l2 :
            d = Waiting(m2, x2, args2, how2, k2) /\ e = Waiting(m2, x2, args2, how2, l2) /\ Same(k2, l2)
      BY <1>2, <3>1 DEF Alike, Do, Push
    <3>3. m = m2 /\ x = x2 /\ args = args2 /\ how = how2 /\ l = k2
      BY <2>3, <3>2 DEF Waiting
    <3> QED
      BY <2>1, <2>3, <3>2, <3>3 DEF Alike
  <2>4. ASSUME NEW s, NEW t, c = Do("continue_argument_expansion", s), d = Do("continue_argument_expansion", t), Same(s, t)
        PROVE  Alike(c, e)
    <3>1. d.at = "do" /\ ~Over(d)
      BY <2>4 DEF Do, Over
    <3>2. PICK s2, t2 :
            d = Do("continue_argument_expansion", s2) /\ e = Do("continue_argument_expansion", t2) /\ Same(s2, t2)
      BY <1>2, <3>1 DEF Alike, Waiting, Push
    <3>3. t = s2
      BY <2>4, <3>2 DEF Do
    <3> QED
      BY <2>1, <2>4, <3>2, <3>3 DEF Alike
  <2>5. ASSUME NEW v, NEW s, NEW t, c = Push(v, "continue_argument_expansion", s),
               d = Push(v, "continue_argument_expansion", t), Same(s, t)
        PROVE  Alike(c, e)
    <3>1. d.at = "push" /\ ~Over(d)
      BY <2>5 DEF Push, Over
    <3>2. PICK v2, s2, t2 : /\ d = Push(v2, "continue_argument_expansion", s2)
                            /\ e = Push(v2, "continue_argument_expansion", t2) /\ Same(s2, t2)
      BY <1>2, <3>1 DEF Alike, Waiting, Do
    <3>3. v = v2 /\ t = s2
      BY <2>5, <3>2 DEF Push
    <3> QED
      BY <2>1, <2>5, <3>2, <3>3 DEF Alike
  <2> QED
    BY <1>2, <2>2, <2>3, <2>4, <2>5 DEF Alike
<1> QED
  BY <1>1, <1>2

-----------------------------------------------------------------------------
(* The invariant. *)

\* Errors that nothing consumes are the result.
ErrorsEnd ==
  \A i \in DOMAIN log : log[i].kind = "error" /\ ~Consumed(log[i]) => \A w \in Sides : side[w] = Err(log[i].value)

Invariant == Shape /\ PathsTyped /\ Lockstep /\ ErrorsEnd

LEMMA LockstepNext ==
  ASSUME scene' = scene, NEW C, NEW D, side'["guest"] = C, side'["native"] = D, Alike(C, D),
         stored'["guest"] = stored'["native"]
  PROVE  Lockstep'
<1>1. SUFFICES ASSUME NEW c, NEW d, (c = side["guest"] /\ d = side["native"])'
               PROVE  Alike(c, d)'
  BY DEF Lockstep
<1>2. c = C /\ d = D
  BY <1>1
<1>3. Agreeing' = Agreeing
  BY DEF Agreeing, operator_method_call
<1>4. \A s, t : Same(s, t)' <=> Same(s, t)
  BY <1>3 DEF Same
<1> QED
  BY <1>2, <1>3, <1>4 DEF Alike

LEMMA Initially ==
  ASSUME Init
  PROVE  Invariant
<1>1. /\ scene \in Scenes /\ scene \in Scene /\ log = <<>> /\ given = <<>> /\ roots = Objects
      /\ \A p \in Sides : side[p] = Do("begin", [act |-> "begin"]) /\ stored[p] = <<>>
      /\ DOMAIN side = Sides /\ DOMAIN stored = Sides
  BY SceneAssumption DEF Init
<1>2. Shape
  BY <1>1 DEF Shape
<1>3. ErrorsEnd
  BY <1>1 DEF ErrorsEnd
<1>4. Lockstep
  BY <1>1 DEF Lockstep, Sides, Alike
<1>5. ASSUME NEW p \in Sides
      PROVE  PathTyped(p)
  <2> DEFINE w == ContextOf(p)
  <2>1. Live(roots) = Value
    BY <1>1 DEF Live, Value
  <2>2. Hit = FALSE
    BY <1>1 DEF Hit, Says, Finds
  <2>3. w = [live |-> Value, chosen |-> {scene.args[i] : i \in 2 .. Len(scene.args)} \cup {scene.config.default},
             items |-> <<>>, stored |-> <<>>, hit |-> FALSE]
    <3>1. {given[i] : i \in 1 .. Len(given)} = {}
      BY <1>1
    <3>2. stored[p] = <<>> /\ given = <<>>
      BY <1>1
    <3> QED
      BY <2>1, <2>2, <3>1, <3>2 DEF ContextOf
  <2>4. {scene.args[i] : i \in 2 .. Len(scene.args)} \cup {scene.config.default} \subseteq Value
    BY <1>1, SceneFields
  <2>5. << >> \in Seq(Value)
    OBVIOUS
  <2> HIDE DEF w
  <2>6. w \in Context
    BY <2>3, <2>4, <2>5 DEF Context
  <2>7. Ready("begin", [act |-> "begin"], w)
    BY <2>3 DEF Ready, Fresh
  <2>8. Typed(side[p], w)
    BY <1>1, <2>7, Entering
  <2> QED
    BY <2>6, <2>8 DEF PathTyped, w
<1> QED
  BY <1>2, <1>3, <1>4, <1>5 DEF Invariant, PathsTyped

LEMMA TypedAs ==
  ASSUME NEW c, NEW w, Typed(c, w)
  PROVE  /\ c.at = "call" => Asking(c, w)
         /\ c.at = "do" => Ready(c.f, c.s, w)
         /\ c.at = "push" => c \in Pushes(w)
         /\ c.at = "done" => c \in Ends(w)
         /\ c.at = "error" => Failed(c)
BY DEF Typed, Ends, Pushes, Failed, Asking

LEMMA StepKeeps ==
  ASSUME Invariant, Step
  PROVE  Invariant'
<1>1. /\ scene' = scene /\ log' = log /\ given' = given /\ roots' = roots /\ scene \in Scenes /\ scene \in Scene
      /\ DOMAIN side' = Sides /\ DOMAIN stored' = Sides
      /\ \A p \in Sides : side'[p] = Move(side[p], stored[p])
  BY SceneAssumption DEF Invariant, Shape, Step
<1>2. \A p \in Sides : stored'[p] = IF side[p].at = "push" /\ Room(side[p], stored[p])
                                    THEN Append(stored[p], side[p].value) ELSE stored[p]
  BY DEF Step
<1>3. Shape'
  BY <1>1 DEF Invariant, Shape, Elements
<1>4. ASSUME NEW p \in Sides
      PROVE  PathTyped(p)'
  <2> DEFINE c == side[p]
             u == ContextOf(p)
  <2>1. u \in Context /\ Typed(c, u)
    BY DEF Invariant, PathsTyped, PathTyped
  <2>2. u.stored = stored[p]
    BY DEF ContextOf
  <2>3. PICK w : w = ContextOf(p)'
    OBVIOUS
  <2>4. stored'[p] = stored[p] => w = u
    BY <1>1, <2>3, ContextNext
  <2>5. CASE c.at = "do"
    <3>1. Ready(c.f, c.s, u)
      BY <2>1, <2>5, TypedAs
    <3>2. Typed(Enter(c.f, c.s), u)
      BY <1>1, <2>1, <3>1, Entered
    <3>3. side'[p] = Enter(c.f, c.s) /\ w = u
      BY <1>1, <1>2, <2>4, <2>5 DEF Move
    <3> QED
      BY <1>1, <2>1, <2>3, <3>2, <3>3, Arriving
  <2>6. CASE c.at = "push" /\ Room(c, stored[p])
    <3>1. c \in Pushes(u)
      BY <2>1, <2>6, TypedAs
    <3>2. c.value \in u.live /\ u.live \subseteq Value /\ u.stored \in Seq(Value)
      BY <2>1, <3>1, Worlds DEF Pushes
    <3>3. Append(u.stored, c.value) \in Seq(Value)
      BY <3>2, AppendProperties
    <3>4. w = [live |-> u.live, chosen |-> u.chosen, items |-> u.items, stored |-> Append(u.stored, c.value), hit |-> u.hit]
      <4>1. Hit' = Hit
        BY <1>1 DEF Hit, Says, Finds, Searches, operator_method_call, HasTruth
      <4>2. stored'[p] = Append(stored[p], c.value)
        BY <1>2, <2>6
      <4> QED
        BY <1>1, <2>3, <4>1, <4>2 DEF ContextOf
    <3>5. w \in Context
      BY <2>1, <3>3, <3>4 DEF Context
    <3>6. w.live = u.live /\ w.items = u.items /\ w.hit = u.hit /\ w.stored = Append(u.stored, c.value)
      BY <3>4
    <3>7. Typed(Do(c.f, c.s), w)
      BY <2>1, <3>1, <3>5, <3>6, Added
    <3>8. side'[p] = Do(c.f, c.s)
      BY <1>1, <2>6 DEF Move, PushItem
    <3> QED
      BY <1>1, <2>3, <3>5, <3>7, <3>8, Arriving
  <2>7. CASE c.at = "push" /\ ~Room(c, stored[p])
    <3>1. side'[p] = Err("ResourceError") /\ w = u
      BY <1>1, <1>2, <2>4, <2>7 DEF Move, PushItem
    <3> QED
      BY <1>1, <2>1, <2>3, <3>1, Failing, Arriving
  <2>8. CASE c.at \notin {"do", "push"}
    <3>1. side'[p] = c /\ w = u
      BY <1>1, <1>2, <2>4, <2>8 DEF Move
    <3> QED
      BY <1>1, <2>1, <2>3, <3>1, Arriving
  <2> QED
    BY <2>5, <2>6, <2>7, <2>8
<1>5. Lockstep'
  <2> DEFINE c == side["guest"]
             d == side["native"]
             items == stored["guest"]
  <2>1. Alike(c, d) /\ stored["native"] = items /\ "guest" \in Sides /\ "native" \in Sides
    BY DEF Invariant, Lockstep, Sides
  <2>2. /\ Alike(Move(c, items), Move(d, items)) /\ (c.at = "push" <=> d.at = "push")
        /\ c.at = "push" => c.value = d.value /\ (Room(c, items) <=> Room(d, items))
    BY <2>1, MovesAlike
  <2>3. side'["guest"] = Move(c, items) /\ side'["native"] = Move(d, items)
    BY <1>1, <2>1
  <2>4. stored'["guest"] = stored'["native"]
    BY <1>2, <2>1, <2>2
  <2> QED
    BY <1>1, <2>2, <2>3, <2>4, LockstepNext
<1>6. ErrorsEnd'
  <2>1. \A kind, items : Move(Err(kind), items) = Err(kind)
    BY DEF Move, Err
  <2>2. \A e : Consumed(e)' <=> Consumed(e)
    BY DEF Consumed
  <2> QED
    BY <1>1, <2>1, <2>2 DEF Invariant, ErrorsEnd
<1> QED
  BY <1>3, <1>4, <1>5, <1>6 DEF Invariant, PathsTyped


\* Both paths wait for the same answer.
LEMMA Waiters ==
  ASSUME Invariant, Waits
  PROVE  /\ scene \in Scene /\ scene \in Scenes /\ "guest" \in Sides /\ "native" \in Sides
         /\ side["guest"].m = side["native"].m /\ side["guest"].how = side["native"].how
         /\ Same(side["guest"].k, side["native"].k)
         /\ \A p \in Sides : ContextOf(p) \in Context /\ Asking(side[p], ContextOf(p)) /\ side[p].m = side["native"].m
         /\ log \in Seq(Elements(log)) /\ stored["guest"] = stored["native"]
         /\ \A i \in DOMAIN log : log[i].kind = "error" => Consumed(log[i])
<1>1. /\ scene \in Scene /\ scene \in Scenes /\ log \in Seq(Elements(log)) /\ "guest" \in Sides /\ "native" \in Sides
      /\ Alike(side["guest"], side["native"]) /\ stored["guest"] = stored["native"]
  BY SceneAssumption DEF Invariant, Shape, Lockstep, Sides
<1>2. \A p \in Sides : ContextOf(p) \in Context /\ Typed(side[p], ContextOf(p)) /\ side[p].at = "call"
  BY DEF Invariant, PathsTyped, PathTyped, Waits
<1>3. \A p \in Sides : Asking(side[p], ContextOf(p))
  BY <1>2, TypedAs
<1>4. /\ side["guest"].m = side["native"].m /\ side["guest"].how = side["native"].how
      /\ Same(side["guest"].k, side["native"].k)
  <2>1. side["guest"].at = "call" /\ side["native"].at = "call"
    BY <1>1, <1>2
  <2>2. CASE side["guest"] = side["native"]
    BY <2>2 DEF Same
  <2>3. CASE side["guest"] # side["native"]
    <3>1. PICK m, x, args, how, k, l :
            side["guest"] = Waiting(m, x, args, how, k) /\ side["native"] = Waiting(m, x, args, how, l) /\ Same(k, l)
      <4>1. /\ ~Over(side["guest"]) /\ \A s : side["guest"] # Do("continue_argument_expansion", s)
            /\ \A v, s : side["guest"] # Push(v, "continue_argument_expansion", s)
        BY <2>1 DEF Over, Do, Push
      <4> QED
        BY <1>1, <2>3, <4>1 DEF Alike
    <3> QED
      BY <3>1 DEF Waiting
  <2> QED
    BY <2>2, <2>3
<1>5. \A p \in Sides : side[p].m = side["native"].m
  BY <1>4 DEF Sides
<1>6. ASSUME NEW i \in DOMAIN log, log[i].kind = "error", ~Consumed(log[i])
      PROVE  FALSE
  <2>1. side["native"] = Err(log[i].value)
    BY <1>1, <1>6 DEF Invariant, ErrorsEnd
  <2> QED
    BY <1>1, <1>2, <2>1 DEF Err
<1> QED
  BY <1>1, <1>2, <1>3, <1>4, <1>5, <1>6

Answering == Objects \cup Integer \cup Boolean \cup {"None", "str", "f", "NotImplemented"}

LEMMA ReturnTyped ==
  ASSUME Invariant, NEW v \in Answering, Return(v), NEW p \in Sides
  PROVE  PathTyped(p)'
<1> DEFINE e == [m |-> Called.m, x |-> Called.x, args |-> Called.args, kind |-> "value", value |-> v]
           c == side[p]
           u == ContextOf(p)
<1>1. /\ Waits /\ v \in Answers(Called.m) /\ log' = Append(log, e) /\ stored' = stored /\ scene' = scene
      /\ given' = (IF Called.m \in IteratorEnds THEN Append(given, v) ELSE given)
      /\ roots' = trace(side["guest"].k) \cup Made(side["guest"].k) \cup {v}
  BY DEF Return, Log
<1>2. /\ scene \in Scene /\ scene \in Scenes /\ u \in Context /\ Asking(c, u) /\ c.m = Called.m
      /\ log \in Seq(Elements(log))
  BY <1>1, Waiters DEF Called
<1>3. v \in Value
  BY DEF Answering, Value, Names
<1>4. e.kind = "value" /\ e.m = Called.m /\ e.value = v
  OBVIOUS
<1> HIDE DEF e
<1>5. PICK w : w = ContextOf(p)'
  OBVIOUS
<1>6. /\ w \in Context /\ w.live = (IF p = "guest" THEN Live(roots') ELSE Value) /\ w.hit = (u.hit \/ HitBy(c.m, v))
      /\ u.chosen \subseteq w.chosen /\ w.stored = u.stored
      /\ c.m \in IteratorEnds => w.items = Append(u.items, v) /\ v \in w.chosen
      /\ c.m \notin IteratorEnds => w.items = u.items
  <2>1. given' = (IF e.m \in IteratorEnds THEN Append(given, e.value) ELSE given) /\ e.value \in Value
    BY <1>1, <1>3, <1>4
  <2>2. /\ ContextOf(p)' \in Context /\ ContextOf(p)'.live = (IF p = "guest" THEN Live(roots') ELSE Value)
        /\ ContextOf(p)'.hit = (ContextOf(p).hit \/ HitBy(e.m, e.value))
        /\ ContextOf(p).chosen \subseteq ContextOf(p)'.chosen
        /\ ContextOf(p)'.stored = ContextOf(p).stored
        /\ e.m \in IteratorEnds =>
             ContextOf(p)'.items = Append(ContextOf(p).items, e.value) /\ e.value \in ContextOf(p)'.chosen
        /\ e.m \notin IteratorEnds => ContextOf(p)'.items = ContextOf(p).items
    BY <1>1, <1>2, <1>4, <2>1, ContextAnswered
  <2> QED
    BY <1>2, <1>4, <1>5, <2>2
<1>7. /\ ~u.hit /\ c.k \in Continuations(u) /\ Asks(c.k, c.m, c.how)
  BY <1>2 DEF Asking
<1>8. w.hit = HitBy(c.m, v)
  <2>1. w.hit \in BOOLEAN
    BY <1>6, Worlds
  <2> QED
    BY <1>6, <1>7, <2>1 DEF HitBy
<1>9. /\ v \in w.live /\ trace(c.k) \cap Objects \subseteq w.live
      /\ c.k.act = "New" /\ c.k.args # <<>> => Iterable(Head(c.k.args), w)
  <2>1. CASE p = "guest"
    <3>1. w.live = Live(roots') /\ c = side["guest"]
      BY <1>6, <2>1
    <3>2. v \in w.live /\ trace(c.k) \cap Objects \subseteq w.live
      BY <1>1, <1>3, <3>1 DEF Live
    <3>3. ASSUME c.k.act = "New", c.k.args # <<>>, iterator_with_sequence_fallback(Head(c.k.args)) # "TypeError"
          PROVE  iterator_with_sequence_fallback(Head(c.k.args)) \in w.live
      <4>1. c.k \in NewCalls(u)
        BY <1>2, <1>7, <3>3, Classes
      <4>2. Head(c.k.args) \in trace(c.k)
        <5>1. c.k.args \in Seq(u.live) /\ c.k.args # <<>>
          BY <3>3, <4>1 DEF NewCalls
        <5>2. Head(c.k.args) \in Elements(c.k.args)
          BY <5>1 DEF Elements
        <5> QED
          BY <3>3, <5>2 DEF trace
      <4>3. iterator_with_sequence_fallback(Head(c.k.args)) \in roots'
        BY <1>1, <3>1, <3>3, <4>2 DEF Made
      <4>4. iterator_with_sequence_fallback(Head(c.k.args)) \in Objects
        BY <3>3 DEF iterator_with_sequence_fallback, Objects
      <4> QED
        BY <3>1, <4>3, <4>4 DEF Live
    <3> QED
      BY <3>2, <3>3 DEF Iterable
  <2>2. CASE p # "guest"
    <3>1. w.live = Value
      BY <1>6, <2>2
    <3>2. Objects \subseteq Value
      BY DEF Value
    <3>3. \A source : Iterable(source, w)
      BY <1>6, <3>1, AllIterable
    <3> QED
      BY <1>3, <3>1, <3>2, <3>3
  <2> QED
    BY <2>1, <2>2
<1>10. Told(c.k, c.m, c.how, v, u, w)
  BY <1>1, <1>2, <1>6, <1>7, <1>8, <1>9 DEF Told, Keeps
<1>11. Typed(AfterCall(c.k, v), w) /\ Typed(OnReturn(c.k, v), w)
  BY <1>2, <1>6, <1>10, Answered
<1>12. side'[p] = AfterCall(c.k, v) \/ side'[p] = OnReturn(c.k, v)
  BY DEF Return
<1> QED
  BY <1>1, <1>5, <1>6, <1>11, <1>12, Arriving

LEMMA Ways ==
  ASSUME NEW c, NEW w, Asking(c, w)
  PROVE  c.how \in {"method", "frame", "sync"} /\ (c.how = "method" => c.m # "item")
BY DEF Asking, Asks, IteratorEnds

LEMMA ReturnKeeps ==
  ASSUME Invariant, NEW v \in Answering, Return(v)
  PROVE  Invariant'
<1> DEFINE e == [m |-> Called.m, x |-> Called.x, args |-> Called.args, kind |-> "value", value |-> v]
           g == side["guest"]
           n == side["native"]
<1>1. /\ Waits /\ v \in Answers(n.m) /\ log' = Append(log, e) /\ stored' = stored /\ scene' = scene
      /\ DOMAIN side' = Sides
  BY DEF Return, Log, Called
<1>2. e.kind = "value"
  OBVIOUS
<1> HIDE DEF e
<1>3. Shape'
  <2>1. log' \in Seq(Elements(log'))
    BY <1>1, Logged DEF Invariant, Shape
  <2> QED
    BY <1>1, <2>1 DEF Invariant, Shape, Elements
<1>4. PathsTyped'
  BY ReturnTyped DEF PathsTyped
<1>5. Lockstep'
  <2>1. /\ scene \in Scene /\ ContextOf("guest") \in Context /\ ContextOf("native") \in Context
        /\ Asking(g, ContextOf("guest")) /\ Asking(n, ContextOf("native"))
        /\ g.m = n.m /\ g.how = n.how /\ Same(g.k, n.k) /\ stored["guest"] = stored["native"]
    BY <1>1, Waiters
  <2>2. /\ g.k \in Continuations(ContextOf("guest")) /\ n.k \in Continuations(ContextOf("native"))
        /\ Asks(g.k, g.m, g.how) /\ g.how \in {"method", "frame", "sync"}
    BY <2>1, Ways DEF Asking
  <2>3. /\ side'["guest"] = IF g.how = "sync" THEN AfterCall(g.k, v) ELSE OnReturn(g.k, v)
        /\ side'["native"] = IF n.how \in {"sync", "method"} THEN AfterCall(n.k, v) ELSE OnReturn(n.k, v)
    BY DEF Return, Sides
  <2>4. Alike(AfterCall(g.k, v), AfterCall(n.k, v)) /\ Alike(OnReturn(g.k, v), OnReturn(n.k, v))
    BY <2>1, <2>2, ResumesAlike
  <2>5. CASE g.how = "method"
    <3>1. Alike(OnReturn(g.k, v), AfterCall(g.k, v))
      BY <1>1, <2>1, <2>2, <2>5, ReturnsAlike
    <3>2. Alike(OnReturn(g.k, v), AfterCall(n.k, v))
      BY <2>4, <3>1, AlikeTransitive
    <3> QED
      BY <1>1, <2>1, <2>3, <2>5, <3>2, LockstepNext
  <2>6. CASE g.how \in {"frame", "sync"}
    BY <1>1, <2>1, <2>3, <2>4, <2>6, LockstepNext
  <2> QED
    BY <2>2, <2>5, <2>6
<1>6. ErrorsEnd'
  <2>1. /\ DOMAIN log' = DOMAIN log \cup {Len(log) + 1}
        /\ log'[Len(log) + 1] = e /\ \A i \in DOMAIN log : log'[i] = log[i]
    BY <1>1, Logged DEF Invariant, Shape
  <2>2. \A i \in DOMAIN log : log[i].kind = "error" => Consumed(log[i])
    BY <1>1, Waiters
  <2>3. \A r : Consumed(r)' <=> Consumed(r)
    BY DEF Consumed
  <2>4. \A i \in DOMAIN log' : log'[i].kind = "error" => Consumed(log'[i])
    BY <1>2, <2>1, <2>2
  <2> QED
    BY <2>3, <2>4 DEF ErrorsEnd
<1> QED
  BY <1>3, <1>4, <1>5, <1>6 DEF Invariant


LEMMA RaiseTyped ==
  ASSUME Invariant, NEW kind \in ErrorKinds, Raise(kind), NEW p \in Sides
  PROVE  PathTyped(p)'
<1> DEFINE e == [m |-> Called.m, x |-> Called.x, args |-> Called.args, kind |-> "error", value |-> kind]
           c == side[p]
           u == ContextOf(p)
<1>1. /\ Waits /\ log' = Append(log, e) /\ stored' = stored /\ scene' = scene /\ given' = given
      /\ roots' = trace(side["guest"].k)
  BY DEF Raise, Log
<1>2. /\ scene \in Scene /\ scene \in Scenes /\ u \in Context /\ Asking(c, u) /\ log \in Seq(Elements(log))
  BY <1>1, Waiters
<1>3. e.kind = "error" /\ e.value \in ErrorKinds
  OBVIOUS
<1> HIDE DEF e
<1>4. PICK w : w = ContextOf(p)'
  OBVIOUS
<1>5. /\ w \in Context /\ w.live = (IF p = "guest" THEN Live(roots') ELSE Value) /\ w.hit = u.hit
      /\ u.chosen = w.chosen /\ w.stored = u.stored /\ w.items = u.items
  BY <1>1, <1>2, <1>3, <1>4, ContextFailed
<1>6. ~u.hit /\ c.k \in Continuations(u)
  BY <1>2 DEF Asking
<1>7. trace(c.k) \cap Objects \subseteq w.live
  <2>1. Objects \subseteq Value
    BY DEF Value
  <2> QED
    BY <1>1, <1>5, <2>1 DEF Live
<1>8. ~w.hit /\ c.k \in Continuations(w)
  BY <1>2, <1>5, <1>6, <1>7, KeptContinuation DEF Keeps
<1>9. \A r : Typed(AfterError(c.k, r), w) /\ Typed(OnException(c.k, r), w)
  BY <1>2, <1>5, <1>8, Thrown
<1>10. (\E r : side'[p] = AfterError(c.k, r)) \/ side'[p] = OnException(c.k, kind)
  BY DEF Raise
<1> QED
  BY <1>1, <1>4, <1>5, <1>9, <1>10, Arriving

\* An error that nothing consumes is the result of both paths.
LEMMA Unconsumed ==
  ASSUME NEW w, NEW c, Asking(c, w), NEW kind, kind # "exhausted", NEW e, e.m = c.m, e.value = kind, ~Consumed(e)
  PROVE  /\ AfterError(c.k, sequence_iterator_next(c.m, kind)) = Err(kind)
         /\ OnException(c.k, kind) = Err(kind)
<1>1. Asks(c.k, c.m, c.how)
  BY DEF Asking
<1>2. sequence_iterator_next(c.m, kind) = kind
  BY DEF sequence_iterator_next, Consumed
<1>3. ~(kind = "StopIteration" /\ c.k.act \in Items)
  <2>1. c.k.act \in Items => c.m \in IteratorEnds
    BY <1>1 DEF Asks, IteratorEnds
  <2> QED
    BY <2>1 DEF Consumed
<1>4. ~(kind = "AttributeError" /\ c.k.act = "AttributeGet")
  BY <1>1 DEF Asks, Consumed, Getters
<1> QED
  BY <1>2, <1>3, <1>4 DEF AfterError, OnException

LEMMA RaiseKeeps ==
  ASSUME Invariant, NEW kind \in ErrorKinds, Raise(kind)
  PROVE  Invariant'
<1> DEFINE e == [m |-> Called.m, x |-> Called.x, args |-> Called.args, kind |-> "error", value |-> kind]
           g == side["guest"]
           n == side["native"]
<1>1. /\ Waits /\ log' = Append(log, e) /\ stored' = stored /\ scene' = scene /\ DOMAIN side' = Sides
  BY DEF Raise, Log
<1>2. e.kind = "error" /\ e.value = kind /\ e.m = n.m
  BY DEF Called
<1> HIDE DEF e
<1>3. Shape'
  <2>1. log' \in Seq(Elements(log'))
    BY <1>1, Logged DEF Invariant, Shape
  <2> QED
    BY <1>1, <2>1 DEF Invariant, Shape, Elements
<1>4. PathsTyped'
  BY RaiseTyped DEF PathsTyped
<1>5. /\ scene \in Scene /\ ContextOf("guest") \in Context /\ ContextOf("native") \in Context
      /\ Asking(g, ContextOf("guest")) /\ Asking(n, ContextOf("native"))
      /\ g.m = n.m /\ g.how = n.how /\ Same(g.k, n.k) /\ stored["guest"] = stored["native"]
  BY <1>1, Waiters
<1>6. /\ g.k \in Continuations(ContextOf("guest")) /\ n.k \in Continuations(ContextOf("native"))
      /\ Asks(g.k, g.m, g.how) /\ g.how \in {"method", "frame", "sync"} /\ (g.how = "method" => g.m # "item")
  BY <1>5, Ways DEF Asking
<1>7. /\ side'["guest"] = IF kind = "exhausted" THEN AfterError(g.k, "StopIteration")
                          ELSE IF g.how = "sync" THEN AfterError(g.k, sequence_iterator_next(g.m, kind))
                          ELSE OnException(g.k, kind)
      /\ side'["native"] = IF kind = "exhausted" THEN AfterError(n.k, "StopIteration")
                           ELSE IF n.how \in {"sync", "method"} THEN AfterError(n.k, sequence_iterator_next(n.m, kind))
                           ELSE OnException(n.k, kind)
  BY DEF Raise, Sides
<1>8. Lockstep'
  <2>1. \A r : Alike(AfterError(g.k, r), AfterError(n.k, r)) /\ Alike(OnException(g.k, r), OnException(n.k, r))
    BY <1>5, <1>6, EndsAlike
  <2>2. CASE kind = "exhausted"
    BY <1>1, <1>5, <1>7, <2>1, <2>2, LockstepNext
  <2>3. CASE kind # "exhausted" /\ g.how = "method"
    <3>1. sequence_iterator_next(n.m, kind) = kind
      BY <1>5, <1>6, <2>3 DEF sequence_iterator_next
    <3>2. Alike(OnException(g.k, kind), AfterError(g.k, kind))
      BY <1>5, <1>6, <2>3, FailsAlike
    <3>3. Alike(OnException(g.k, kind), AfterError(n.k, kind))
      BY <2>1, <3>2, AlikeTransitive
    <3> QED
      BY <1>1, <1>5, <1>7, <2>3, <3>1, <3>3, LockstepNext
  <2>4. CASE kind # "exhausted" /\ g.how \in {"frame", "sync"}
    BY <1>1, <1>5, <1>7, <2>1, <2>4, LockstepNext
  <2> QED
    BY <1>6, <2>2, <2>3, <2>4
<1>9. ErrorsEnd'
  <2>1. /\ DOMAIN log' = DOMAIN log \cup {Len(log) + 1}
        /\ log'[Len(log) + 1] = e /\ \A i \in DOMAIN log : log'[i] = log[i]
    BY <1>1, Logged DEF Invariant, Shape
  <2>2. \A i \in DOMAIN log : log[i].kind = "error" => Consumed(log[i])
    BY <1>1, Waiters
  <2>3. \A r : Consumed(r)' <=> Consumed(r)
    BY DEF Consumed
  <2>4. ASSUME ~Consumed(e)
        PROVE  \A p \in Sides : side'[p] = Err(kind)
    <3>1. kind # "exhausted"
      <4>1. kind = "exhausted" => n.m = "resume"
        BY DEF Raise, Errors, Called
      <4> QED
        BY <1>2, <2>4, <4>1 DEF Consumed, IteratorEnds
    <3>2. /\ AfterError(g.k, sequence_iterator_next(g.m, kind)) = Err(kind) /\ OnException(g.k, kind) = Err(kind)
          /\ AfterError(n.k, sequence_iterator_next(n.m, kind)) = Err(kind) /\ OnException(n.k, kind) = Err(kind)
      BY <1>2, <1>5, <2>4, <3>1, Unconsumed
    <3> QED
      BY <1>7, <3>1, <3>2 DEF Sides
  <2>5. \A i \in DOMAIN log' : log'[i].kind = "error" /\ ~Consumed(log'[i]) => i = Len(log) + 1
    BY <2>1, <2>2
  <2>6. \A i \in DOMAIN log' : log'[i].kind = "error" /\ ~Consumed(log'[i]) =>
          \A p \in Sides : side'[p] = Err(log'[i].value)
    BY <1>2, <2>1, <2>4, <2>5
  <2> QED
    BY <2>3, <2>6 DEF ErrorsEnd
<1> QED
  BY <1>3, <1>4, <1>8, <1>9 DEF Invariant

LEMMA StutterKeeps ==
  ASSUME Invariant, UNCHANGED vars
  PROVE  Invariant'
<1>1. /\ scene' = scene /\ side' = side /\ stored' = stored /\ log' = log /\ given' = given /\ roots' = roots
  BY DEF vars
<1>2. Shape' /\ ErrorsEnd'
  <2>1. \A r : Consumed(r)' <=> Consumed(r)
    BY DEF Consumed
  <2> QED
    BY <1>1, <2>1 DEF Invariant, Shape, Elements, ErrorsEnd
<1>3. ASSUME NEW p \in Sides
      PROVE  PathTyped(p)'
  <2>1. ContextOf(p) \in Context /\ Typed(side[p], ContextOf(p))
    BY DEF Invariant, PathsTyped, PathTyped
  <2>2. ContextOf(p)' = ContextOf(p)
    BY <1>1, ContextNext
  <2> QED
    BY <1>1, <2>1, <2>2, Arriving
<1>4. Lockstep'
  <2>1. Alike(side["guest"], side["native"]) /\ stored["guest"] = stored["native"]
    BY DEF Invariant, Lockstep
  <2> QED
    BY <1>1, <2>1, LockstepNext
<1> QED
  BY <1>2, <1>3, <1>4 DEF Invariant, PathsTyped

\* Type correctness, and what every property below rests on: both paths are where their
\* continuations fit, they move in lockstep, and an error that nothing consumes has ended
\* them.
THEOREM SpecInductive == Spec => []Invariant
<1>1. Init => Invariant
  BY Initially
<1>2. Invariant /\ [Next]_vars => Invariant'
  <2> SUFFICES ASSUME Invariant, [Next]_vars
               PROVE  Invariant'
    OBVIOUS
  <2>1. CASE Step
    BY <2>1, StepKeeps
  <2>2. ASSUME NEW v \in Answering, Return(v)
        PROVE  Invariant'
    BY <2>2, ReturnKeeps
  <2>3. ASSUME NEW kind \in ErrorKinds, Raise(kind)
        PROVE  Invariant'
    BY <2>3, RaiseKeeps
  <2>4. CASE Finished
    BY <2>4, StutterKeeps DEF Finished
  <2>5. CASE UNCHANGED vars
    BY <2>5, StutterKeeps
  <2> QED
    BY <2>1, <2>2, <2>3, <2>4, <2>5 DEF Next, Answering, ErrorKinds
<1> QED
  BY <1>1, <1>2, PTL DEF Spec

LEMMA SettledForms ==
  ASSUME Invariant, Settled, NEW p \in Sides
  PROVE  /\ ContextOf(p) \in Context
         /\ \/ side[p].at = "call" /\ Asking(side[p], ContextOf(p))
            \/ side[p].at = "done" /\ side[p] \in Ends(ContextOf(p))
            \/ side[p].at = "error" /\ Failed(side[p])
<1>1. ContextOf(p) \in Context /\ Typed(side[p], ContextOf(p)) /\ ~Moves(side[p])
  BY DEF Invariant, PathsTyped, PathTyped, Settled
<1>2. side[p].at \in {"call", "done", "error", "do", "push"}
  BY <1>1 DEF Typed, Ends, Pushes, Failed, Asking
<1> QED
  BY <1>1, <1>2, TypedAs DEF Moves

\* No collection in a method takes a value from the protocol that called it: what the
\* guest path uses after an answer was reachable from the ReturnAction of the frame, is
\* the answer, or was made after it.
THEOREM RootsSuffice == Spec => []ContinuationsRooted
<1>1. Invariant => ContinuationsRooted
  <2> SUFFICES ASSUME Invariant, Settled
               PROVE  Uses(side["guest"]) \cap Objects \subseteq roots
    BY DEF ContinuationsRooted
  <2> DEFINE w == ContextOf("guest")
             c == side["guest"]
  <2>1. w \in Context /\ w.live = Live(roots)
    BY SettledForms DEF ContextOf, Sides
  <2>2. w.live \cap Objects \subseteq roots
    BY <2>1 DEF Live
  <2>3. \/ c.at = "call" /\ Asking(c, w)
        \/ c.at = "done" /\ c \in Ends(w)
        \/ c.at = "error" /\ Failed(c)
    BY SettledForms DEF Sides
  <2> HIDE DEF w, c
  <2>4. Uses(c) \subseteq w.live
    <3>1. CASE c.at = "call" /\ Asking(c, w)
      <4>1. c.x \in w.live /\ c.args \in Seq(w.live) /\ trace(c.k) \subseteq w.live
        BY <2>1, <3>1, Traced DEF Asking
      <4>2. {c.args[i] : i \in DOMAIN c.args} \subseteq w.live
        BY <4>1
      <4> QED
        BY <3>1, <4>1, <4>2 DEF Uses
    <3>2. CASE c.at = "done" /\ c \in Ends(w)
      <4>1. c.value \in w.live /\ c.items \in Seq(w.live)
        BY <3>2 DEF Ends
      <4>2. {c.items[i] : i \in DOMAIN c.items} \subseteq w.live
        BY <4>1
      <4> QED
        BY <3>2, <4>1, <4>2 DEF Uses
    <3>3. CASE c.at = "error"
      BY <3>3 DEF Uses
    <3> QED
      BY <2>3, <3>1, <3>2, <3>3
  <2> QED
    BY <2>2, <2>4 DEF c
<1> QED
  BY <1>1, SpecInductive, PTL

\* Only the end of an iteration and a missing attribute consume an error, whichever
\* method raised it and however deep the protocol was; and what the consumers of an
\* iterator answer is what its items say, for any number of items.
THEOREM ResultsAreRight == Spec => []ResultsRight
<1>1. Invariant => ResultsRight
  <2> SUFFICES ASSUME Invariant
               PROVE  ResultsRight
    OBVIOUS
  <2>1. \A i \in DOMAIN log :
          log[i].kind = "error" /\ ~Consumed(log[i]) => \A p \in Sides : side[p] = Err(log[i].value)
    BY DEF Invariant, ErrorsEnd
  <2>2. ASSUME Ended
        PROVE  LET r == side["guest"]
               IN  /\ scene.op \in {"list", "tuple", "bytes", "unpack"} => r.items = given
                   /\ scene.op = "class" /\ scene.init = "list" /\ r.value = "inst" =>
                        given = IF scene.new = "program" THEN stored["guest"] ELSE r.items
                   /\ scene.op = "star" => stored["guest"] = given
                   /\ scene.op = "any" => r.value = Bool(Says(TRUE))
                   /\ scene.op = "all" => r.value = Bool(~Says(FALSE))
                   /\ scene.op \in {"in", "not in"} /\ ~operator_method_call(scene.args[1], "__contains__") =>
                        r.value = Bool(Finds # (scene.op = "not in"))
                   /\ scene.op = "extremum" => r.value \in {given[i] : i \in DOMAIN given}
                        \cup {scene.args[i] : i \in 2 .. Len(scene.args)} \cup {scene.config.default}
    <3> DEFINE w == ContextOf("guest")
               r == side["guest"]
    <3>1. w \in Context /\ Typed(r, w) /\ r.at = "done"
      BY <2>2 DEF Invariant, PathsTyped, PathTyped, Ended, Sides
    <3>2. Right(r, w)
      BY <3>1, TypedAs DEF Ends
    <3>3. /\ w.items = given /\ w.stored = stored["guest"] /\ w.hit = Hit
          /\ w.chosen = {given[i] : i \in 1 .. Len(given)} \cup {scene.args[i] : i \in 2 .. Len(scene.args)}
               \cup {scene.config.default}
      BY DEF ContextOf
    <3>4. given \in Seq(Value)
      BY <3>1, <3>3, Worlds
    <3> HIDE DEF w
    <3>5. {given[i] : i \in 1 .. Len(given)} = {given[i] : i \in DOMAIN given}
      BY <3>4
    <3>6. /\ scene.op = "any" => Hit = Says(TRUE)
          /\ scene.op = "all" => Hit = Says(FALSE)
      BY DEF Hit, Searches
    <3>7. Searches => Hit = Finds
      BY DEF Hit, Searches
    <3>8. /\ scene.op \in {"list", "tuple", "bytes", "unpack"} => r.items = given
          /\ scene.op = "class" /\ scene.init = "list" /\ r.value = "inst" =>
               given = IF scene.new = "program" THEN stored["guest"] ELSE r.items
          /\ scene.op = "star" => stored["guest"] = given
      BY <3>2, <3>3 DEF Right
    <3>9. /\ scene.op = "any" => r.value = Bool(Says(TRUE))
          /\ scene.op = "all" => r.value = Bool(~Says(FALSE))
      BY <3>2, <3>3, <3>6 DEF Right
    <3>10. scene.op \in {"in", "not in"} /\ ~operator_method_call(scene.args[1], "__contains__") =>
             r.value = Bool(Finds # (scene.op = "not in"))
      BY <3>2, <3>3, <3>7 DEF Right, Searches
    <3>11. scene.op = "extremum" => r.value \in {given[i] : i \in DOMAIN given}
             \cup {scene.args[i] : i \in 2 .. Len(scene.args)} \cup {scene.config.default}
      BY <3>2, <3>3, <3>5 DEF Right
    <3> QED
      BY <3>8, <3>9, <3>10, <3>11
  <2> QED
    BY <2>1, <2>2 DEF ResultsRight
<1> QED
  BY <1>1, SpecInductive, PTL

\* The two implementations of every protocol make the same calls in the same order and
\* end in the same way, for any answers of any methods, in the operations that the code
\* treats alike on both.
THEOREM BothPathsAgree ==
  ASSUME InitAnswers \subseteq {"None"},
         \A s \in Scenes : /\ s.op = "extremum" /\ s.args[1] # Unbound => s.config.default # Unbound
                           /\ s.op = "star" /\ s.deferred =>
                                ~(s.args[1] \in DOMAIN s.has /\ "__iter__" \in s.has[s.args[1]])
  PROVE  Spec => []PathsAgree
<1>1. Invariant => PathsAgree
  <2> SUFFICES ASSUME Invariant, Settled
               PROVE  LET n == side["native"]
                          g == side["guest"]
                      IN  /\ n.at = g.at
                          /\ n.at = "call" => <<n.m, n.x, n.args, n.how>> = <<g.m, g.x, g.args, g.how>>
                          /\ n.at # "call" => n = g
                          /\ stored["native"] = stored["guest"]
    BY DEF PathsAgree
  <2> DEFINE n == side["native"]
             g == side["guest"]
  <2>1. Alike(g, n) /\ stored["guest"] = stored["native"] /\ scene \in Scenes
    BY DEF Invariant, Lockstep, Shape
  <2>2. Agreeing
    BY <2>1 DEF Agreeing, operator_method_call
  <2>3. ~Moves(g)
    BY DEF Settled, Sides
  <2>4. \/ g = n
        \/ \E m, x, args, how, k, l : g = Waiting(m, x, args, how, k) /\ n = Waiting(m, x, args, how, l)
    <3>1. /\ \A s : g # Do("continue_argument_expansion", s)
          /\ \A v, s : g # Push(v, "continue_argument_expansion", s)
      BY <2>3 DEF Moves, Do, Push
    <3> QED
      BY <2>1, <2>2, <3>1 DEF Alike
  <2>5. CASE g = n
    BY <2>1, <2>5
  <2>6. CASE g # n
    <3>1. PICK m, x, args, how, k, l : g = Waiting(m, x, args, how, k) /\ n = Waiting(m, x, args, how, l)
      BY <2>4, <2>6
    <3>2. /\ g.at = "call" /\ n.at = "call" /\ n.m = g.m /\ n.x = g.x /\ n.args = g.args /\ n.how = g.how
      BY <3>1 DEF Waiting
    <3> QED
      BY <2>1, <3>2
  <2> QED
    BY <2>5, <2>6
<1> QED
  BY <1>1, SpecInductive, PTL

=============================================================================
