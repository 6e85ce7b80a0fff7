-------------------------- MODULE TonicProtocols --------------------------
(***************************************************************************)
(* The protocols that operators and builtins run with methods of the       *)
(* program: truth, arithmetic and comparison, index and number             *)
(* conversions, construction, iteration (collections, sum, any and all,    *)
(* min and max, membership, starred arguments), attributes and text.       *)
(*                                                                         *)
(* Each protocol is written twice in the interpreter.  A method that ends  *)
(* within the call (a native function, or a generator function, which only *)
(* makes its generator) is followed by the rest of the Rust function that  *)
(* called it.  A function of the program only gets a frame: what remains   *)
(* is kept in the frame as a ReturnAction, and Op::Return or               *)
(* dispatch_exception carries it on.  The module runs both in lockstep on  *)
(* the same operation and the same answers: side.native is the first and   *)
(* side.guest the second.                                                  *)
(***************************************************************************)
EXTENDS Integers, Sequences

CONSTANTS
  Scenes,      \* the operations: a set of members of Scene
  MaxCalls,    \* how many methods may answer; the next one fails
  ArgLimit,    \* Limits::arguments
  InitAnswers  \* what an __init__ may return

VARIABLES
  scene,       \* the operation
  side,        \* [Sides -> control]: where each path is
  stored,      \* [Sides -> Seq]: the argument stack, or the list initialised
  log,         \* the answers so far, with the calls they answered
  given,       \* the items that iterators have given; only properties read it
  roots        \* what the frame that was answered last kept reachable

vars == <<scene, side, stored, log, given, roots>>

Sides == {"native", "guest"}

(* Values: a and b are instances of classes of the program, inst is the    *)
(* object that the class of the scene makes, it an instance whose class    *)
(* has __next__, gen a generator, items a native iterator, and seqit the   *)
(* iterator over the __getitem__ of an object.  seq is a native sequence.  *)
Integer == {"neg", "n0", "n1"}
Boolean == {"True", "False"}
Objects == {"a", "b", "it", "gen", "items", "seqit", "inst", "seq"}
Iterators == {"it", "gen", "items", "seqit"}
IteratorEnds == {"__next__", "resume", "next", "item"}
Names == {"None", "str", "f", "NotImplemented", "UNBOUND", "Raise", "HasAttr", "class", "name", "range",
          "list", "tuple", "bytes", "called", "called twice", "next"}
Value == Objects \cup Integer \cup Boolean \cup Names
Bool(truth) == IF truth THEN "True" ELSE "False"
Rank(n) == CASE n = "neg" -> -1 [] n \in {"n0", "False"} -> 0 [] OTHER -> 1

(* An operation: its operands (a comparison of sequences has two of them), *)
(* the methods that the operands have, and how their classes are related;  *)
(* of a class, the builtin type it derives from, whose __new__ and         *)
(* __init__ it has, and what the attribute is; of min and max what they    *)
(* were given; the length of an unpacking; and whether a call with a       *)
(* starred argument expands it itself.                                     *)
Methods ==
  {"__bool__", "__len__", "__index__", "__int__", "__float__", "__neg__", "__add__", "__radd__", "__iadd__",
   "__divmod__", "__rdivmod__", "__pow__", "__rpow__", "__eq__", "__ne__", "__lt__", "__gt__", "__iter__",
   "__next__", "__contains__", "__getitem__", "__setitem__", "__delitem__", "__getattribute__",
   "__getattr__", "__setattr__", "__delattr__", "__str__", "__repr__", "__format__"}
Unary ==
  {"neg", "not", "jump", "round", "__repr__", "__str__", "any", "all", "extremum", "order", "len", "range", "int",
   "float", "bool", "list", "tuple", "bytes", "unpack", "class", "get", "set", "delete", "star"}
Binary == {"Add", "InplaceAdd", "Eq", "Ne", "Lt", "in", "not in", "DivMod", "format", "sum", "GetItem", "slice", "DelItem"}
Ternary == {"PowMod", "SetItem"}
Scene ==
  {s \in [op : Unary \cup Binary \cup Ternary, args : Seq(Value), against : Seq(Value),
          has : [{"a", "b", "it"} -> SUBSET Methods], related : {"same", "sub", "other"},
          native : {"none", "int", "float", "list", "tuple", "bytes"}, new : {"object", "program"},
          init : {"object", "list", "program"}, attr : {"value", "property", "descriptor", "absent"},
          config : [is_max : BOOLEAN, key : BOOLEAN, default : Value], count : Nat, deferred : BOOLEAN] :
     /\ Len(s.args) >= (IF s.op \in Ternary THEN 3 ELSE IF s.op \in Binary THEN 2 ELSE 1)
     /\ s.init = "list" => s.native = "list"}

ASSUME SceneAssumption == Scenes \subseteq Scene

(***************************************************************************)
(* Where a path is: it has a result, an error, a call that is not answered *)
(* or a function that it is about to enter.  An error that escapes is      *)
(* returned by dispatch_exception itself: no handler of the program sees   *)
(* it.                                                                     *)
(***************************************************************************)
Result(v, items, jump) == [at |-> "done", value |-> v, items |-> items, jump |-> jump]
Done(v) == Result(v, <<>>, FALSE)
Err(kind) == [at |-> "error", kind |-> kind, escapes |-> FALSE]
Escaping(c) == IF c.at = "error" THEN [at |-> "error", kind |-> c.kind, escapes |-> TRUE] ELSE c
Do(f, s) == [at |-> "do", f |-> f, s |-> s]
Push(v, f, s) == [at |-> "push", value |-> v, f |-> f, s |-> s]
Waiting(m, x, args, how, k) ==
  [at |-> "call", m |-> m, x |-> x, args |-> args, how |-> how, k |-> k]

(* invoke_target and what follows it: the frame that was pushed, if there  *)
(* is one, gets the action k.                                              *)
Call(m, x, args, k) == Waiting(m, x, args, "method", k)

operator_method_call(x, m) == x \in DOMAIN scene.has /\ m \in scene.has[x]
operator_protocol_capable(x) == x \in DOMAIN scene.has

(* The class of a value, and whether the right one derives from the left.  *)
runtime_class(x) ==
  CASE x = "a" -> "A"
    [] x = "b" -> IF scene.related = "same" THEN "A" ELSE "B"
    [] x \in Integer -> "int"
    [] x \in Boolean -> "bool"
    [] OTHER -> x
IsSubclass(right, left) ==
  \/ scene.related = "sub" /\ <<right, left>> = <<"B", "A">>
  \/ <<right, left>> = <<"bool", "int">>

---------------------------------------------------------------------------
(* Truth.                                                                  *)
NotAction == [act |-> "Not"]
ReturnTruth == [act |-> "Return"]
JumpAction(x) == [act |-> "Jump", original |-> x]

apply_truth(truth, action) ==
  CASE action.act = "Not" -> Done(Bool(~truth))
    [] action.act = "Return" -> Done(Bool(truth))
    [] action.act = "Jump" -> Result(action.original, <<>>, truth)
    [] action.act = "Equality" -> Do("complete_equality", [equal |-> truth, action |-> action.outer])
    [] action.act = "BoolReduce" -> Do("finish_bool_reduce_truth", [truth |-> truth, state |-> action])
    [] action.act = "Extremum" -> Do("finish_extremum_truth", [truth |-> truth, candidate |-> action])

(* External: what Heap::truth says of a value without methods.             *)
HeapTruth(x) == x \notin {"False", "n0", "None"}

truth_protocol_call(x) ==
  IF operator_method_call(x, "__bool__") THEN "__bool__"
  ELSE IF operator_method_call(x, "__len__") THEN "__len__" ELSE "none"

invoke_truth_protocol_call(x, protocol, action) ==
  Call(protocol, x, <<>>, [act |-> "Truth", protocol |-> protocol, outer |-> action])

invoke_truth(x, action) ==
  IF truth_protocol_call(x) = "none" THEN apply_truth(HeapTruth(x), action)
  ELSE invoke_truth_protocol_call(x, truth_protocol_call(x), action)

---------------------------------------------------------------------------
(* Lengths and indices.                                                    *)
normalize_index_result(x) == IF x \in Boolean THEN (IF x = "True" THEN "n1" ELSE "n0") ELSE x
validate_length(x) ==
  IF Rank(x) < 0 THEN Err("ValueError") ELSE Done(normalize_index_result(x))

(* The last index is there: what the conversion was for happens.           *)
finish_int_base(value, s) ==
  IF value = "n0" THEN Do("finish_builtin_value", [value |-> "n1", finish |-> s.finish])
  ELSE Err("ValueError")

UseIndex(value, to) ==
  CASE to.act = "Length" -> validate_length(value)
    [] to.act = "IndexTruth" -> IF Rank(value) < 0 THEN Err("ValueError") ELSE apply_truth(value # "n0", to.outer)
    [] to.act \in {"Range", "Slice"} -> Do("next_index", [to EXCEPT !.values[to.next] = value, !.next = @ + 1])
    [] to.act = "IntBase" -> finish_int_base(value, to)
    [] to.act \in {"Round", "GetItem"} -> Done("n1")
    [] to.act = "SetItem" -> Result("None", <<to.owner, value, to.value>>, FALSE)
    [] to.act = "DelItem" -> Result("None", <<to.owner, value>>, FALSE)

finish_index_conversion(x, k) ==
  IF x \in Integer \cup Boolean THEN UseIndex(normalize_index_result(x), k.outer) ELSE Err("TypeError")

invoke_index_conversion(x, to) ==
  LET k == [act |-> "IndexConversion", outer |-> to]
  IN  IF x \in Integer \cup Boolean THEN finish_index_conversion(x, k)
      ELSE IF operator_method_call(x, "__index__") THEN Call("__index__", x, <<>>, k)
      ELSE Err("TypeError")

(* range(): every argument is converted before the range is made.          *)
continue_range_construction(s) ==
  IF s.next <= Len(s.values) THEN invoke_index_conversion(s.values[s.next], s)
  ELSE IF Len(s.values) = 3 /\ s.values[3] = "n0" THEN Err("ValueError")
  ELSE Result("range", s.values, FALSE)

(* A slice: None stays as it is, the others are converted in their order.  *)
continue_slice_conversion(s) ==
  LET left == {i \in s.next .. Len(s.values) : s.values[i] # "None"}
      next == CHOOSE i \in left : \A j \in left : i <= j
  IN  IF left = {} THEN Result("n1", s.values, FALSE)
      ELSE invoke_index_conversion(s.values[next], [s EXCEPT !.next = next])

finish_length(x) ==
  IF x \in Integer \cup Boolean THEN validate_length(x)
  ELSE invoke_index_conversion(x, [act |-> "Length"])

InvokeLen(x) ==
  IF operator_method_call(x, "__len__") THEN Call("__len__", x, <<>>, [act |-> "LengthResult"])
  ELSE Err("TypeError")

finish_truth(v, k) ==
  IF k.protocol = "__bool__"
  THEN IF v \in Boolean THEN apply_truth(v = "True", k.outer) ELSE Err("TypeError")
  ELSE IF v \notin Integer
       THEN invoke_index_conversion(v, [act |-> "IndexTruth", outer |-> k.outer])
       ELSE IF Rank(v) < 0 THEN Err("ValueError") ELSE apply_truth(v # "n0", k.outer)

---------------------------------------------------------------------------
(* Binary operators.  The methods of an operator: in place, direct and     *)
(* reflected.                                                              *)
OperatorMethods(op) ==
  CASE op = "Add" -> <<"", "__add__", "__radd__">>
    [] op = "InplaceAdd" -> <<"__iadd__", "__add__", "__radd__">>
    [] op = "Eq" -> <<"", "__eq__", "__eq__">>
    [] op = "Ne" -> <<"", "__ne__", "__ne__">>
    [] op = "Lt" -> <<"", "__lt__", "__gt__">>
    [] op = "Gt" -> <<"", "__gt__", "__lt__">>
    [] op = "DivMod" -> <<"", "__divmod__", "__rdivmod__">>
    [] op = "PowMod" -> <<"", "__pow__", "__rpow__">>

(* The methods to try, in order.  The reflected one is tried only where    *)
(* the classes differ, and first where the right one derives from the      *)
(* left.                                                                   *)
binary_protocol_candidates(op, left, right, extra) ==
  LET methods == OperatorMethods(op)
      same == runtime_class(left) = runtime_class(right)
      candidate(x, m, arg, negate) ==
        IF operator_method_call(x, m)
        THEN <<[m |-> m, x |-> x, args |-> <<arg>> \o extra, negate |-> negate]>> ELSE <<>>
      reflected(m, negate) == IF same THEN <<>> ELSE candidate(right, m, left, negate)
      pair(direct, back, negate) ==
        IF IsSubclass(runtime_class(right), runtime_class(left))
        THEN reflected(back, negate) \o candidate(left, direct, right, negate)
        ELSE candidate(left, direct, right, negate) \o reflected(back, negate)
      inplace == IF operator_method_call(left, methods[1])
                 THEN <<[m |-> methods[1], x |-> left, args |-> <<right>>, negate |-> FALSE]>> ELSE <<>>
  IN  inplace \o pair(methods[2], methods[3], FALSE)
      \o IF op = "Ne" THEN pair("__eq__", "__eq__", TRUE) ELSE <<>>

NoCompletion == [act |-> "Value"]
EqualityCompletion(action) == [act |-> "Equality", outer |-> action]

binary_protocol(op, left, right, extra, completion) ==
  [act |-> "BinaryProtocol", op |-> op, left |-> left, right |-> right, extra |-> extra,
   candidates |-> IF operator_protocol_capable(left) \/ operator_protocol_capable(right)
                  THEN binary_protocol_candidates(op, left, right, extra) ELSE <<>>,
   negate |-> FALSE, outer |-> completion]

(* External: Heap::binary and Heap::compare on values without methods.     *)
HeapBinary(op, left, right) ==
  LET numbers == {left, right} \subseteq Integer \cup Boolean
  IN  CASE op = "Eq" -> Bool(left = right)
        [] op = "Ne" -> Bool(left # right)
        [] op = "Lt" /\ numbers -> Bool(Rank(left) < Rank(right))
        [] op = "Gt" /\ numbers -> Bool(Rank(left) > Rank(right))
        [] op \notin {"Eq", "Ne", "Lt", "Gt"} /\ numbers -> "n1"
        [] OTHER -> "TypeError"

finish_binary_protocol_value(v, negate, completion) ==
  CASE completion.act = "Value" -> IF negate THEN invoke_truth(v, NotAction) ELSE Done(v)
    [] completion.act = "Equality" -> invoke_truth(v, completion)
    [] completion.act = "Sum" -> Do("continue_sum", [iterator |-> completion.iterator, total |-> v])
    [] completion.act = "Extremum" -> invoke_truth(v, completion)

continue_binary_protocol(s) ==
  IF s.candidates # <<>>
  THEN LET c == Head(s.candidates)
       IN  Call(c.m, c.x, c.args, [s EXCEPT !.candidates = Tail(@), !.negate = c.negate])
  ELSE IF s.outer.act = "Equality"
  THEN Do("invoke_equality_fallback", [left |-> s.left, right |-> s.right, action |-> s.outer.outer])
  ELSE LET v == HeapBinary(s.op, s.left, s.right)
       IN  IF v = "TypeError" THEN Err(v) ELSE finish_binary_protocol_value(v, FALSE, s.outer)

unary_fallback(x) == IF x \in Integer \cup Boolean THEN Done("n1") ELSE Err("TypeError")
invoke_unary_protocol(x) ==
  IF operator_method_call(x, "__neg__")
  THEN Call("__neg__", x, <<>>, [act |-> "UnaryProtocol", value |-> x])
  ELSE unary_fallback(x)

---------------------------------------------------------------------------
(* Equality, with what it is for: a result, a step of a membership test,   *)
(* or a step of the comparison of two sequences.                           *)
invoke_equality_fallback(s) ==
  Do("complete_equality", [equal |-> s.left = s.right, action |-> s.action])

invoke_equality(left, right, action) ==
  LET protocol == binary_protocol("Eq", left, right, <<>>, EqualityCompletion(action))
  IN  IF left = right THEN Do("complete_equality", [equal |-> TRUE, action |-> action])
      ELSE IF protocol.candidates = <<>>
           THEN invoke_equality_fallback([left |-> left, right |-> right, action |-> action])
           ELSE continue_binary_protocol(protocol)

(* Sequences are ordered by the first pair that is not equal, or by their  *)
(* lengths.                                                                *)
continue_sequence_order(s) ==
  IF s.index <= Len(s.left) /\ s.index <= Len(s.right)
  THEN invoke_equality(s.left[s.index], s.right[s.index], s)
  ELSE Done(Bool(Len(s.left) < Len(s.right)))

invoke_order_comparison(left, right) ==
  continue_binary_protocol(binary_protocol("Lt", left, right, <<>>, NoCompletion))

FindsOnly(found, negate) == Done(Bool(found))   \* mutant: negate is forgotten
finish_membership(found, negate) == Done(Bool(found # negate))

complete_equality(equal, action) ==
  CASE action.act = "Return" -> Done(Bool(equal))
    [] action.act = "Membership" ->
         IF equal THEN finish_membership(TRUE, action.negate) ELSE Do("continue_membership", action)
    [] action.act = "SequenceOrder" ->
         IF equal THEN continue_sequence_order([action EXCEPT !.index = @ + 1])
         ELSE invoke_order_comparison(action.left[action.index], action.right[action.index])

---------------------------------------------------------------------------
(* Numbers.  finish says what remains when the value is for an instance of *)
(* a subclass of a builtin type.                                           *)
NoFinish == [native |-> FALSE, initialize |-> <<>>]
NoInitialize == <<>>

invoke_numeric_conversion(x, target, finish) ==
  LET k(kind) == [act |-> "NumericConversion", kind |-> kind, finish |-> finish]
  IN  IF operator_method_call(x, target) THEN Call(target, x, <<>>, k(target))
      ELSE IF operator_method_call(x, "__index__") THEN Call("__index__", x, <<>>, k("index"))
      ELSE Err("TypeError")

finish_numeric_conversion(v, k) ==
  IF v \in (IF k.kind = "__float__" THEN {"f"} ELSE Integer \cup Boolean)
  THEN Do("finish_builtin_value", [value |-> normalize_index_result(v), finish |-> k.finish])
  ELSE Err("TypeError")

---------------------------------------------------------------------------
(* Iteration: the iterator of a source, and its next item.                 *)
iterator_with_sequence_fallback(source) ==
  CASE source = "seq" -> "items"
    [] source = "gen" -> "gen"
    [] operator_method_call(source, "__getitem__") /\ ~operator_method_call(source, "__iter__") -> "seqit"
    [] OTHER -> "TypeError"

Iterate(source, start, Continue(_)) ==
  LET iterator == iterator_with_sequence_fallback(source)
  IN  IF iterator # "TypeError" THEN Continue(iterator)
      ELSE IF operator_method_call(source, "__iter__") THEN Call("__iter__", source, <<>>, start)
      ELSE Err("TypeError")

validate_iterator(iterator, Continue(_)) ==
  IF iterator \in Iterators THEN Continue(iterator) ELSE Err("TypeError")

(* A generator always runs in a frame of its own, a native iterator never; *)
(* the iterator over __getitem__ is native and runs the method to its end. *)
invoke_iterator_next_with_action(iterator, k) ==
  CASE iterator = "gen" -> Waiting("resume", iterator, <<>>, "frame", k)
    [] iterator = "items" -> Waiting("next", iterator, <<>>, "sync", k)
    [] iterator = "seqit" -> Waiting("item", iterator, <<>>, "sync", k)
    [] OTHER -> Call("__next__", iterator, <<>>, k)

(* What the iterator over __getitem__ makes of an error.                   *)
sequence_iterator_next(m, kind) ==
  IF m = "item" /\ kind = "IndexError" THEN "StopIteration" ELSE kind

(* sum(): integers and floats are added in the machine, and a number       *)
(* stands for that total; any other total is a value.                      *)
sum_start_total(total, iterator) ==
  IF total = "str" THEN Err("TypeError")
  ELSE Do("continue_sum", [iterator |-> iterator, total |-> total])
invoke_sum(source, total) ==
  Iterate(source, [act |-> "SumIterStart", total |-> total],
          LAMBDA iterator : sum_start_total(total, iterator))
continue_sum(s) ==
  invoke_iterator_next_with_action(s.iterator, [act |-> "SumNext", iterator |-> s.iterator, total |-> s.total])
materialize_sum_total(s) == Done(s.total)
add_sum_item(s, item) ==
  LET protocol == binary_protocol("Add", s.total, item, <<>>, [act |-> "Sum", iterator |-> s.iterator])
  IN  IF s.total \in Integer /\ item \in Integer \cup Boolean
      THEN Do("continue_sum", [iterator |-> s.iterator, total |-> s.total])
      ELSE continue_binary_protocol(protocol)

(* any() and all().                                                        *)
BoolReduce(iterator, any) == [act |-> "BoolReduce", iterator |-> iterator, any |-> any]
continue_bool_reduce(s) ==
  invoke_iterator_next_with_action(s.iterator, [s EXCEPT !.act = "BoolReduceNext"])
invoke_bool_reduce(source, any) ==
  Iterate(source, [act |-> "BoolReduceIterStart", any |-> any],
          LAMBDA iterator : continue_bool_reduce(BoolReduce(iterator, any)))
finish_bool_reduce_truth(truth, s) ==
  IF truth = s.any THEN Done(Bool(truth)) ELSE continue_bool_reduce(s)
continue_bool_reduce_item(s, item) ==
  LET state == BoolReduce(s.iterator, s.any)
      protocol == truth_protocol_call(item)
  IN  IF operator_protocol_capable(item) /\ protocol # "none"
      THEN invoke_truth_protocol_call(item, protocol, state)
      ELSE finish_bool_reduce_truth(HeapTruth(item), state)
EndOfBoolReduce(s) == Done(Bool(~s.any))

(* min() and max(), of the values or of an iterator.  best is the item and *)
(* its key; UNBOUND before the first.                                      *)
Unbound == "UNBOUND"
ExtremumState(source, config) ==
  [act |-> "ExtremumNext", iterator |-> source, values |-> <<>>, config |-> config,
   best |-> Unbound, best_key |-> Unbound]
Better(s, item, key) == [s EXCEPT !.best = item, !.best_key = key]

finish_extremum(s) ==
  CASE s.best # Unbound -> Done(s.best)
    [] s.best = Unbound /\ s.config.default # Unbound -> Done(s.config.default)
    [] OTHER -> Err("ValueError")

consider_extremum(s, item, key) ==
  LET candidate == [act |-> "Extremum", state |-> s, item |-> item, key |-> key]
      protocol == binary_protocol(IF s.config.is_max THEN "Gt" ELSE "Lt", key, s.best_key, <<>>, candidate)
      v == HeapBinary(protocol.op, key, s.best_key)
  IN  IF s.best = Unbound THEN Do("continue_extremum", Better(s, item, key))
      ELSE IF protocol.candidates # <<>> THEN continue_binary_protocol(protocol)
      ELSE IF v = "TypeError" THEN Err(v)
      ELSE Do("continue_extremum", IF v = "True" THEN Better(s, item, key) ELSE s)

ExtremumItem(s, item) ==
  IF s.config.key THEN Call("key", "a", <<item>>, [act |-> "ExtremumKey", state |-> s, item |-> item])
  ELSE consider_extremum(s, item, item)

continue_extremum(s) ==
  IF s.iterator # Unbound THEN invoke_iterator_next_with_action(s.iterator, s)
  ELSE IF s.values = <<>> THEN finish_extremum(s)
  ELSE ExtremumItem([s EXCEPT !.values = Tail(@)], Head(s.values))

invoke_extremum(source, values, config) ==
  IF source = Unbound
  THEN continue_extremum([ExtremumState(Unbound, config) EXCEPT !.values = values])
  ELSE Iterate(source, [act |-> "ExtremumIterStart", config |-> config],
               LAMBDA iterator : continue_extremum(ExtremumState(iterator, config)))

finish_extremum_truth(truth, c) ==
  continue_extremum(IF truth THEN Better(c.state, c.item, c.key) ELSE c.state)

(* in and not in.                                                          *)
Membership(needle, iterator, negate) ==
  [act |-> "Membership", needle |-> needle, iterator |-> iterator, negate |-> negate]
continue_membership(s) ==
  invoke_iterator_next_with_action(s.iterator, [s EXCEPT !.act = "MembershipNext"])
MembershipItem(s, item) ==
  invoke_equality(item, s.needle, Membership(s.needle, s.iterator, s.negate))
MembershipTruth(v, negate) == invoke_truth(v, IF negate THEN NotAction ELSE ReturnTruth)
finish_membership_iter(needle, iterator, negate) ==
  validate_iterator(iterator, LAMBDA i : continue_membership(Membership(needle, i, negate)))
invoke_membership(needle, container, negate) ==
  IF operator_method_call(container, "__contains__")
  THEN Call("__contains__", container, <<needle>>, [act |-> "MembershipContains", negate |-> negate])
  ELSE Iterate(container, [act |-> "MembershipIterStart", needle |-> needle, negate |-> negate],
               LAMBDA i : continue_membership(Membership(needle, i, negate)))

---------------------------------------------------------------------------
(* Collections, and instances of classes.                                  *)
IterableCollection(kind, finish, iterator, items) ==
  [act |-> "CollectIterableNext", kind |-> kind, finish |-> finish, iterator |-> iterator, items |-> items]

finish_iterable_collection(s) ==
  CASE s.kind \in {"list", "tuple"} -> Do("finish_builtin_value",
         [value |-> s.kind, items |-> s.items, finish |-> s.finish])
    [] s.kind = "bytes" ->
         IF \E i \in DOMAIN s.items : s.items[i] \notin Integer \cup Boolean THEN Err("TypeError")
         ELSE IF \E i \in DOMAIN s.items : s.items[i] = "neg" THEN Err("ValueError")
         ELSE Do("finish_builtin_value", [value |-> s.kind, items |-> s.items, finish |-> s.finish])
    [] s.kind = "ListInit" -> Done("inst")
    [] s.kind = "unpack" ->
         IF Len(s.items) = scene.count THEN Result("None", s.items, FALSE) ELSE Err("ValueError")

continue_iterable_collection(s) == invoke_iterator_next_with_action(s.iterator, s)
CollectItem(s, item) ==
  IF s.kind = "ListInit" THEN Push(item, "continue_iterable_collection", s)
  ELSE continue_iterable_collection([s EXCEPT !.items = Append(@, item)])
invoke_iterable_collection(kind, finish, source) ==
  Iterate(source, [act |-> "CollectIterableStart", kind |-> kind, finish |-> finish],
          LAMBDA i : continue_iterable_collection(IterableCollection(kind, finish, i, <<>>)))

(* list.__init__ empties the list and then extends it item by item.        *)
invoke_native_initializer(args) ==
  IF args = <<>> THEN Done("inst")
  ELSE invoke_iterable_collection("ListInit", NoFinish, Head(args))

has_init == scene.init
finish_new(instance, args) ==
  CASE instance # "inst" -> Done(instance)
    [] instance = "inst" /\ has_init = "object" ->
         IF args # <<>> /\ scene.new = "object" THEN Err("TypeError") ELSE Done(instance)
    [] instance = "inst" /\ has_init = "list" -> invoke_native_initializer(args)
    [] instance = "inst" /\ has_init = "program" ->
         Call("__init__", instance, args, [act |-> "Initializer", instance |-> instance])

finish_builtin_value(s) ==
  CASE ~s.finish.native -> Result(s.value, IF "items" \in DOMAIN s THEN s.items ELSE <<>>, FALSE)
    [] s.finish.native /\ s.finish.initialize # NoInitialize -> finish_new("inst", s.finish.initialize)
    [] OTHER -> Result("inst", IF "items" \in DOMAIN s THEN s.items ELSE <<>>, FALSE)

(* The constructors of the builtin types.                                  *)
ConstructRange(args) == continue_range_construction([act |-> "Range", values |-> args, next |-> 1])
ConstructInt(args, finish) ==
  IF Len(args) = 2
  THEN invoke_index_conversion(args[2], [act |-> "IntBase", argument |-> args[1], finish |-> finish])
  ELSE IF operator_method_call(args[1], "__int__") \/ operator_method_call(args[1], "__index__")
  THEN invoke_numeric_conversion(args[1], "__int__", finish)
  ELSE IF args[1] \in Integer \cup Boolean
  THEN Do("finish_builtin_value", [value |-> normalize_index_result(args[1]), finish |-> finish])
  ELSE Err("TypeError")
ConstructFloat(args, finish) ==
  IF operator_method_call(args[1], "__float__") \/ operator_method_call(args[1], "__index__")
  THEN invoke_numeric_conversion(args[1], "__float__", finish)
  ELSE Err("TypeError")
invoke_builtin_type(kind, args, finish) ==
  CASE kind = "range" -> ConstructRange(args)
    [] kind = "int" -> ConstructInt(args, finish)
    [] kind = "float" -> ConstructFloat(args, finish)
    [] kind = "bool" -> invoke_truth(args[1], ReturnTruth)
    [] kind \in {"list", "tuple", "bytes"} -> invoke_iterable_collection(kind, finish, Head(args))

(* A class of the program: its __new__, or the one it has from a builtin   *)
(* type, and then its __init__.                                            *)
invoke_class(args) ==
  LET canonical == scene.init = (IF scene.native = "list" THEN "list" ELSE "object")
      initialize == IF canonical THEN NoInitialize ELSE args
  IN  CASE scene.new = "program" -> Call("__new__", "class", args, [act |-> "New", args |-> args])
        [] scene.new = "object" /\ scene.native = "none" -> finish_new("inst", args)
        [] scene.new = "object" /\ scene.native = "list" /\ ~canonical -> finish_new("inst", args)
        [] OTHER -> invoke_builtin_type(scene.native, args, [native |-> TRUE, initialize |-> initialize])

---------------------------------------------------------------------------
(* Attributes.  missing says what an AttributeError becomes, phase whether *)
(* __getattr__ has been asked already.                                     *)
AttributeGet(missing, phase) == [act |-> "AttributeGet", owner |-> "a", missing |-> missing, phase |-> phase]
AttributeValue(v, k) == Done(v)   \* mutant: hasattr answers with the value
finish_attribute_success(v, k) == Done(IF k.missing = "HasAttr" THEN "True" ELSE v)
invoke_attribute_call(m, args, k) == Call(m, "a", args, k)
continue_attribute_missing(k) ==
  IF k.phase = "Primary" /\ operator_method_call("a", "__getattr__")
  THEN invoke_attribute_call("__getattr__", <<"name">>, [k EXCEPT !.phase = "Fallback"])
  ELSE CASE k.missing = "Raise" -> Err("AttributeError")
         [] k.missing = "HasAttr" -> Done("False")
         [] OTHER -> Done(k.missing)
invoke_default_attribute_get(k) ==
  CASE scene.attr = "value" -> finish_attribute_success("n1", k)
    [] scene.attr = "property" -> invoke_attribute_call("getter", <<>>, k)
    [] scene.attr = "descriptor" -> invoke_attribute_call("__get__", <<"a", "class">>, k)
    [] scene.attr = "absent" -> continue_attribute_missing(k)
invoke_attribute_get(missing) ==
  IF operator_method_call("a", "__getattribute__")
  THEN invoke_attribute_call("__getattribute__", <<"name">>, AttributeGet(missing, "Primary"))
  ELSE invoke_default_attribute_get(AttributeGet(missing, "Primary"))

invoke_setter_call(m, args) == Call(m, "a", args, [act |-> "Setter"])
invoke_default_attribute_set(v) ==
  CASE scene.attr = "property" -> invoke_setter_call("setter", <<v>>)
    [] scene.attr = "descriptor" -> invoke_setter_call("__set__", <<"a", v>>)
    [] OTHER -> Done("None")
invoke_attribute_set(v) ==
  IF operator_method_call("a", "__setattr__") THEN invoke_setter_call("__setattr__", <<"name", v>>)
  ELSE invoke_default_attribute_set(v)
invoke_default_attribute_delete ==
  CASE scene.attr = "property" -> invoke_setter_call("deleter", <<>>)
    [] scene.attr = "descriptor" -> invoke_setter_call("__delete__", <<"a">>)
    [] scene.attr = "absent" -> Err("AttributeError")
    [] OTHER -> Done("None")
invoke_attribute_delete ==
  IF operator_method_call("a", "__delattr__") THEN invoke_setter_call("__delattr__", <<"name">>)
  ELSE invoke_default_attribute_delete

(* Text.                                                                   *)
finish_string_conversion(v) == IF v = "str" THEN Done("str") ELSE Err("TypeError")
invoke_string_conversion(x, m) ==
  IF operator_method_call(x, m) THEN Call(m, x, <<>>, [act |-> "StringConversion"]) ELSE Done("str")
invoke_format_value(x, spec) ==
  IF spec # "str" THEN Err("TypeError")
  ELSE IF operator_method_call(x, "__format__") THEN Call("__format__", x, <<spec>>, [act |-> "FormatResult"])
  ELSE Done("str")

---------------------------------------------------------------------------
(* Starred arguments.  A call whose only argument is starred is expanded   *)
(* by Op::CallExpanded itself, with resume, its own position: where a      *)
(* frame had to run, the instruction has returned (sync is FALSE) and the  *)
(* end of the iteration sets the position again, so that it makes the call *)
(* then.  Where none had to, the instruction makes the call itself.        *)
ArgumentExpansion(iterator, resume, sync) ==
  [act |-> "ExpandIterableNext", iterator |-> iterator, resume |-> resume, sync |-> sync]
ExpansionEnds(s) ==
  Done(CASE s.sync /\ scene.deferred -> IF s.resume THEN "called twice" ELSE "called"
         [] ~(s.sync /\ scene.deferred) -> IF s.resume THEN "called" ELSE "next")
continue_argument_expansion(s) == invoke_iterator_next_with_action(s.iterator, s)
push_expanded_positional(item, s) == Push(item, "continue_argument_expansion", s)
expand_star_argument(source) ==
  Iterate(source, [act |-> "ExpandIterableStart", resume |-> scene.deferred],
          LAMBDA i : continue_argument_expansion(
            ArgumentExpansion(i, scene.deferred /\ i = "gen", TRUE)))

---------------------------------------------------------------------------
(***************************************************************************)
(* After the call.  First the path of a method that left no frame: the     *)
(* rest of the Rust function that called it.                               *)
(***************************************************************************)
AfterStart(k, v) ==
  CASE k.act = "SumIterStart" -> validate_iterator(v, LAMBDA i : sum_start_total(k.total, i))
    [] k.act = "BoolReduceIterStart" ->
         validate_iterator(v, LAMBDA i : continue_bool_reduce(BoolReduce(i, k.any)))
    [] k.act = "ExtremumIterStart" ->
         validate_iterator(v, LAMBDA i : continue_extremum(ExtremumState(i, k.config)))
    [] k.act = "CollectIterableStart" -> validate_iterator(v, LAMBDA i :
         continue_iterable_collection(IterableCollection(k.kind, k.finish, i, <<>>)))
    [] k.act = "MembershipIterStart" -> finish_membership_iter(k.needle, v, k.negate)
    [] k.act = "ExpandIterableStart" -> validate_iterator(v, LAMBDA i :
         continue_argument_expansion(ArgumentExpansion(i, FALSE, TRUE)))

AfterItem(k, v) ==
  CASE k.act = "SumNext" -> add_sum_item(k, v)
    [] k.act = "BoolReduceNext" -> continue_bool_reduce_item(k, v)
    [] k.act = "ExtremumNext" -> ExtremumItem(k, v)
    [] k.act = "CollectIterableNext" -> CollectItem(k, v)
    [] k.act = "MembershipNext" -> MembershipItem(k, v)
    [] k.act = "ExpandIterableNext" -> push_expanded_positional(v, k)

Starts == {"SumIterStart", "BoolReduceIterStart", "ExtremumIterStart", "CollectIterableStart",
           "MembershipIterStart", "ExpandIterableStart"}
Items == {"SumNext", "BoolReduceNext", "ExtremumNext", "CollectIterableNext", "MembershipNext",
          "ExpandIterableNext"}

AfterCall(k, v) ==
  CASE k.act \in Starts -> AfterStart(k, v)
    [] k.act \in Items -> AfterItem(k, v)
    [] k.act = "Truth" -> finish_truth(v, k)
    [] k.act = "LengthResult" -> finish_length(v)
    [] k.act = "IndexConversion" ->
         IF v \in Integer \cup Boolean THEN finish_index_conversion(normalize_index_result(v), k)
         ELSE Err("TypeError")
    [] k.act = "BinaryProtocol" ->
         IF v # "NotImplemented" THEN finish_binary_protocol_value(v, k.negate, k.outer)
         ELSE continue_binary_protocol(k)
    [] k.act = "UnaryProtocol" -> IF v = "NotImplemented" THEN unary_fallback(k.value) ELSE Done(v)
    [] k.act = "NumericConversion" -> finish_numeric_conversion(v, k)
    [] k.act = "ExtremumKey" -> consider_extremum(k.state, k.item, v)
    [] k.act = "MembershipContains" -> MembershipTruth(v, k.negate)
    [] k.act = "New" -> finish_new(v, k.args)
    [] k.act = "Initializer" -> Done(k.instance)
    [] k.act = "AttributeGet" -> finish_attribute_success(v, k)
    [] k.act = "Value" -> Done(v)
    [] k.act = "Setter" -> Done("None")
    [] k.act \in {"StringConversion", "FormatResult"} -> finish_string_conversion(v)

(* The end of an iteration, where __next__ failed with StopIteration.      *)
AfterStop(k) ==
  CASE k.act = "SumNext" -> materialize_sum_total(k)
    [] k.act = "BoolReduceNext" -> EndOfBoolReduce(k)
    [] k.act = "ExtremumNext" -> finish_extremum(k)
    [] k.act = "CollectIterableNext" -> finish_iterable_collection(k)
    [] k.act = "MembershipNext" -> finish_membership(FALSE, k.negate)
    [] k.act = "ExpandIterableNext" -> ExpansionEnds(k)

AfterError(k, kind) ==
  CASE kind = "StopIteration" /\ k.act \in Items -> AfterStop(k)
    [] kind = "AttributeError" /\ k.act = "AttributeGet" -> continue_attribute_missing(k)
    [] OTHER -> Err(kind)

(***************************************************************************)
(* Then the path of a function of the program: Op::Return carries the      *)
(* ReturnAction of the frame on, dispatch_exception consumes an error.     *)
(***************************************************************************)
ReturnStart(k, v) ==
  CASE k.act = "SumIterStart" -> validate_iterator(v, LAMBDA i : sum_start_total(k.total, i))
    [] k.act = "BoolReduceIterStart" ->
         validate_iterator(v, LAMBDA i : continue_bool_reduce(BoolReduce(i, k.any)))
    [] k.act = "ExtremumIterStart" ->
         validate_iterator(v, LAMBDA i : continue_extremum(ExtremumState(i, k.config)))
    [] k.act = "CollectIterableStart" -> validate_iterator(v, LAMBDA i :
         continue_iterable_collection(IterableCollection(k.kind, k.finish, i, <<>>)))
    [] k.act = "MembershipIterStart" -> finish_membership_iter(k.needle, v, k.negate)
    [] k.act = "ExpandIterableStart" -> validate_iterator(v, LAMBDA i :
         continue_argument_expansion(ArgumentExpansion(i, k.resume, FALSE)))

ReturnItem(k, v) ==
  CASE k.act = "SumNext" -> add_sum_item(k, v)
    [] k.act = "BoolReduceNext" -> continue_bool_reduce_item(k, v)
    [] k.act = "ExtremumNext" ->
         IF k.config.key
         THEN Call("key", "a", <<v>>, [act |-> "ExtremumKey", state |-> k, item |-> v])
         ELSE consider_extremum(k, v, v)
    [] k.act = "CollectIterableNext" ->
         IF k.kind = "ListInit" THEN Push(v, "continue_iterable_collection", k)
         ELSE continue_iterable_collection([k EXCEPT !.items = Append(@, v)])
    [] k.act = "MembershipNext" -> MembershipItem(k, v)
    [] k.act = "ExpandIterableNext" -> push_expanded_positional(v, [k EXCEPT !.sync = FALSE])

OnReturn(k, v) ==
  CASE k.act \in Starts -> ReturnStart(k, v)
    [] k.act \in Items -> ReturnItem(k, v)
    [] k.act = "Truth" -> finish_truth(v, k)
    [] k.act = "LengthResult" -> finish_length(v)
    [] k.act = "IndexConversion" -> finish_index_conversion(v, k)
    [] k.act = "BinaryProtocol" ->
         IF v = "NotImplemented" THEN continue_binary_protocol(k)
         ELSE finish_binary_protocol_value(v, k.negate, k.outer)
    [] k.act = "UnaryProtocol" -> IF v = "NotImplemented" THEN unary_fallback(k.value) ELSE Done(v)
    [] k.act = "NumericConversion" -> finish_numeric_conversion(v, k)
    [] k.act = "ExtremumKey" -> consider_extremum(k.state, k.item, v)
    [] k.act = "MembershipContains" -> MembershipTruth(v, k.negate)
    [] k.act = "New" -> finish_new(v, k.args)
    [] k.act = "Initializer" -> IF v = "None" THEN Done(k.instance) ELSE Err("TypeError")
    [] k.act = "AttributeGet" -> Done(IF k.missing = "HasAttr" THEN "True" ELSE v)
    [] k.act = "Value" -> Done(v)
    [] k.act = "Setter" -> Done("None")
    [] k.act \in {"StringConversion", "FormatResult"} -> finish_string_conversion(v)

OnStop(k) ==
  CASE k.act = "SumNext" -> materialize_sum_total(k)
    [] k.act = "BoolReduceNext" -> EndOfBoolReduce(k)
    [] k.act = "ExtremumNext" -> Escaping(finish_extremum(k))
    [] k.act = "CollectIterableNext" -> finish_iterable_collection(k)
    [] k.act = "MembershipNext" -> finish_membership(FALSE, k.negate)
    [] k.act = "ExpandIterableNext" -> ExpansionEnds([k EXCEPT !.sync = FALSE])

OnException(k, kind) ==
  CASE kind = "StopIteration" /\ k.act \in Items -> OnStop(k)
    [] kind = "AttributeError" /\ k.act = "AttributeGet" ->
         IF (k.phase = "Primary" /\ operator_method_call("a", "__getattr__")) \/ k.missing # "Raise"
         THEN continue_attribute_missing(k) ELSE Err(kind)
    [] OTHER -> Err(kind)

(***************************************************************************)
(* What the collector finds through a frame that waits with k.  A class    *)
(* that is visited stands for the instance that will be made of it.        *)
(***************************************************************************)
Elements(s) == {s[i] : i \in DOMAIN s}
trace_config(c) == {c.default} \cup IF c.key THEN {"a"} ELSE {}
ForgetsBest(s) == {s.iterator} \cup Elements(s.values) \cup trace_config(s.config)   \* mutant
trace_extremum(s) ==
  {s.iterator, s.best, s.best_key} \cup Elements(s.values) \cup trace_config(s.config)
trace_finish(f) == Elements(f.initialize) \cup IF f.native THEN {"inst"} ELSE {}
trace_kind(k) == trace_finish(k.finish) \cup IF k.kind = "ListInit" THEN {"inst"} ELSE {}
trace_sum(s) == {s.iterator} \cup IF s.total \in Integer THEN {} ELSE {s.total}
trace_membership(s) == {s.needle, s.iterator}

trace_equality(action) ==
  CASE action.act = "Membership" -> trace_membership(action)
    [] action.act = "SequenceOrder" -> Elements(action.left) \cup Elements(action.right)
    [] OTHER -> {}
trace_truth(action) ==
  CASE action.act = "Jump" -> {action.original}
    [] action.act = "Equality" -> trace_equality(action.outer)
    [] action.act = "BoolReduce" -> {action.iterator}
    [] action.act = "Extremum" -> trace_extremum(action.state) \cup {action.item, action.key}
    [] OTHER -> {}
trace_completion(c) ==
  CASE c.act = "Equality" -> trace_equality(c.outer)
    [] c.act = "Sum" -> {c.iterator}
    [] c.act = "Extremum" -> trace_extremum(c.state) \cup {c.item, c.key}
    [] OTHER -> {}
trace_index(to) ==
  CASE to.act = "IndexTruth" -> trace_truth(to.outer)
    [] to.act = "Range" -> Elements(to.values)
    [] to.act = "Slice" -> Elements(to.values) \cup {to.owner}
    [] to.act = "IntBase" -> {to.argument} \cup trace_finish(to.finish)
    [] to.act \in {"GetItem", "DelItem"} -> {to.owner}
    [] to.act = "SetItem" -> {to.owner, to.value}
    [] OTHER -> {}
trace_protocol(s) ==
  {s.left, s.right} \cup Elements(s.extra) \cup trace_completion(s.outer)
    \cup UNION {{s.candidates[i].x} \cup Elements(s.candidates[i].args) : i \in DOMAIN s.candidates}

trace(k) ==
  CASE k.act = "Truth" -> trace_truth(k.outer)
    [] k.act = "IndexConversion" -> trace_index(k.outer)
    [] k.act = "BinaryProtocol" -> trace_protocol(k)
    [] k.act = "UnaryProtocol" -> {k.value}
    [] k.act = "NumericConversion" -> trace_finish(k.finish)
    [] k.act = "SumIterStart" -> {k.total}
    [] k.act = "SumNext" -> trace_sum(k)
    [] k.act \in {"BoolReduceNext", "ExpandIterableNext"} -> {k.iterator}
    [] k.act = "ExtremumIterStart" -> trace_config(k.config)
    [] k.act = "ExtremumNext" -> trace_extremum(k)
    [] k.act = "ExtremumKey" -> trace_extremum(k.state) \cup {k.item}
    [] k.act = "MembershipIterStart" -> {k.needle}
    [] k.act = "MembershipNext" -> trace_membership(k)
    [] k.act = "CollectIterableStart" -> trace_kind(k)
    [] k.act = "CollectIterableNext" -> trace_kind(k) \cup {k.iterator} \cup Elements(k.items)
    [] k.act = "New" -> Elements(k.args) \cup {"inst"}
    [] k.act = "Initializer" -> {k.instance}
    [] k.act = "AttributeGet" -> {k.owner, k.missing}
    [] OTHER -> {}

(* list.__init__ makes a native iterator of its argument after __new__ has *)
(* returned: it is new, so nothing had to keep it meanwhile.               *)
Made(k) ==
  IF k.act = "New" /\ k.args # <<>> /\ Head(k.args) \in trace(k)
  THEN {iterator_with_sequence_fallback(Head(k.args))} ELSE {}

---------------------------------------------------------------------------
(* The operations: what the instruction or the builtin does first.         *)
Compare(op, x, y) ==
  LET protocol == binary_protocol(op, x, y, <<>>, NoCompletion)
  IN  IF protocol.candidates = <<>> /\ op = "Eq" THEN invoke_equality(x, y, ReturnTruth)
      ELSE continue_binary_protocol(protocol)

BeginOperator(op, x, y) ==
  CASE op \in {"Add", "InplaceAdd"} -> continue_binary_protocol(binary_protocol(op, x, y, <<>>, NoCompletion))
    [] op \in {"Eq", "Ne", "Lt"} -> Compare(op, x, y)
    [] op = "order" ->
         continue_sequence_order([act |-> "SequenceOrder", left |-> scene.args, right |-> scene.against, index |-> 1])
    [] op \in {"in", "not in"} -> invoke_membership(y, x, op = "not in")
    [] op = "neg" -> invoke_unary_protocol(x)
    [] op = "not" -> invoke_truth(x, NotAction)
    [] op = "jump" -> invoke_truth(x, JumpAction(x))

BeginBuiltin(op, x, y) ==
  CASE op = "DivMod" -> continue_binary_protocol(binary_protocol(op, x, y, <<>>, NoCompletion))
    [] op = "PowMod" -> continue_binary_protocol(binary_protocol(op, x, y, <<scene.args[3]>>, NoCompletion))
    [] op = "round" -> invoke_index_conversion(x, [act |-> "Round"])
    [] op = "__repr__" -> invoke_string_conversion(x, op)
    [] op = "format" -> invoke_format_value(x, y)
    [] op = "sum" -> invoke_sum(x, y)
    [] op \in {"any", "all"} -> invoke_bool_reduce(x, op = "any")
    [] op = "extremum" -> invoke_extremum(x, Tail(scene.args), scene.config)

(* Items: a class with its own method, or an index into a native sequence. *)
GetItem(owner, key) ==
  IF operator_method_call(owner, "__getitem__") THEN Call("__getitem__", owner, <<key>>, [act |-> "Value"])
  ELSE IF scene.op = "slice"
  THEN continue_slice_conversion([act |-> "Slice", owner |-> owner, values |-> Tail(scene.args), next |-> 1])
  ELSE invoke_index_conversion(key, [act |-> "GetItem", owner |-> owner])
SetItem(owner, key, value) ==
  IF operator_method_call(owner, "__setitem__")
  THEN Call("__setitem__", owner, <<key, value>>, [act |-> "Setter"])
  ELSE invoke_index_conversion(key, [act |-> "SetItem", owner |-> owner, value |-> value])
DelItem(owner, key) ==
  IF operator_method_call(owner, "__delitem__")
  THEN Call("__delitem__", owner, <<key>>, [act |-> "Setter"])
  ELSE invoke_index_conversion(key, [act |-> "DelItem", owner |-> owner])

Begin ==
  LET x == scene.args[1]
      y == scene.args[2]
  IN  CASE scene.op \in {"Add", "InplaceAdd", "Eq", "Ne", "Lt", "order", "in", "not in", "neg", "not", "jump"} ->
             BeginOperator(scene.op, x, y)
        [] scene.op \in {"DivMod", "PowMod", "round", "__repr__", "format", "sum", "any", "all", "extremum"} ->
             BeginBuiltin(scene.op, x, y)
        [] scene.op = "len" -> InvokeLen(x)
        [] scene.op \in {"GetItem", "slice"} -> GetItem(x, y)
        [] scene.op = "SetItem" -> SetItem(x, y, scene.args[3])
        [] scene.op = "DelItem" -> DelItem(x, y)
        [] scene.op \in {"range", "int", "float", "bool", "list", "tuple", "bytes"} ->
             invoke_builtin_type(scene.op, scene.args, NoFinish)
        [] scene.op = "unpack" -> invoke_iterable_collection("unpack", NoFinish, x)
        [] scene.op = "class" -> invoke_class(scene.args)
        [] scene.op = "get" -> invoke_attribute_get(x)
        [] scene.op = "set" -> invoke_attribute_set(x)
        [] scene.op = "delete" -> invoke_attribute_delete
        [] scene.op = "__str__" -> invoke_string_conversion(x, scene.op)
        [] scene.op = "star" -> expand_star_argument(x)

(* A function of the interpreter that a path is about to enter.            *)
Enter(f, s) ==
  CASE f = "begin" -> Begin
    [] f = "complete_equality" -> complete_equality(s.equal, s.action)
    [] f = "invoke_equality_fallback" -> invoke_equality_fallback(s)
    [] f = "next_index" ->
         IF s.act = "Range" THEN continue_range_construction(s) ELSE continue_slice_conversion(s)
    [] f = "continue_sum" -> continue_sum(s)
    [] f = "finish_bool_reduce_truth" -> finish_bool_reduce_truth(s.truth, s.state)
    [] f = "continue_extremum" -> continue_extremum(s)
    [] f = "finish_extremum_truth" -> finish_extremum_truth(s.truth, s.candidate)
    [] f = "continue_membership" -> continue_membership(s)
    [] f = "continue_iterable_collection" -> continue_iterable_collection(s)
    [] f = "continue_argument_expansion" -> continue_argument_expansion(s)
    [] f = "finish_builtin_value" -> finish_builtin_value(s)

(* External: what the methods of the program may answer.                   *)
Answers(m) ==
  CASE m = "__bool__" -> Boolean \cup {"n1"}
    [] m = "__len__" -> Integer \cup {"b", "str"}
    [] m = "__index__" -> {"n0", "n1", "neg", "True", "str"}
    [] m \in {"__eq__", "__ne__", "__lt__", "__gt__"} -> Boolean \cup {"b", "NotImplemented"}
    [] m \in {"__add__", "__radd__", "__iadd__", "__divmod__", "__rdivmod__", "__pow__", "__rpow__", "__neg__"} ->
         {"n1", "b", "NotImplemented"}
    [] m = "__contains__" -> {"False", "b"}
    [] m = "__iter__" -> {"it", "gen", "items", "n1"}
    [] m \in IteratorEnds -> {"n0", "b"}
    [] m = "key" -> {"n0", "n1", "b"}
    [] m = "__int__" -> {"n1", "True", "str"}
    [] m = "__float__" -> {"f", "n1"}
    [] m = "__new__" -> {"inst", "b"}
    [] m = "__init__" -> InitAnswers
    [] m \in {"__str__", "__repr__", "__format__"} -> {"str", "n1"}
    [] OTHER -> {"None", "n1"}

Errors(m) ==
  {"StopIteration", "AttributeError", "IndexError"} \cup (IF m = "resume" THEN {"exhausted"} ELSE {})

---------------------------------------------------------------------------
Init ==
  /\ scene \in Scenes
  /\ side = [w \in Sides |-> Do("begin", [act |-> "begin"])]
  /\ stored = [w \in Sides |-> <<>>]
  /\ log = <<>>
  /\ given = <<>>
  /\ roots = Objects

(* An item is added to the argument stack, within its limit, or to the     *)
(* list that is initialised.                                               *)
Room(c, items) == c.f = "continue_argument_expansion" => Len(items) < ArgLimit
PushItem(c, items) == IF Room(c, items) THEN Do(c.f, c.s) ELSE Err("ResourceError")

(* Each path enters its next function, until it waits for an answer or has *)
(* ended.                                                                  *)
Moves(c) == c.at \in {"do", "push"}
Move(c, items) ==
  CASE c.at = "do" -> Enter(c.f, c.s)
    [] c.at = "push" -> PushItem(c, items)
    [] OTHER -> c
Step ==
  /\ \E w \in Sides : Moves(side[w])
  /\ side' = [w \in Sides |-> Move(side[w], stored[w])]
  /\ stored' = [w \in Sides |-> LET c == side[w]
                              IN  IF c.at = "push" /\ Room(c, stored[w]) THEN Append(stored[w], c.value) ELSE stored[w]]
  /\ UNCHANGED <<scene, log, given, roots>>

Waits == \A w \in Sides : side[w].at = "call"
Called == side["native"]
Log(kind, v) ==
  /\ log' = Append(log, [m |-> Called.m, x |-> Called.x, args |-> Called.args, kind |-> kind, value |-> v])
  /\ given' = IF kind = "value" /\ Called.m \in IteratorEnds THEN Append(given, v) ELSE given

(* The method returns, on both paths with the same value.                  *)
Return(v) ==
  /\ Waits /\ Len(log) < MaxCalls
  /\ v \in Answers(Called.m)
  /\ side' = [w \in Sides |->
       LET c == side[w]
       IN  IF c.how = "sync" \/ (c.how = "method" /\ w = "native") THEN AfterCall(c.k, v) ELSE OnReturn(c.k, v)]
  /\ Log("value", v)
  /\ roots' = trace(side["guest"].k) \cup Made(side["guest"].k) \cup {v}
  /\ UNCHANGED <<scene, stored>>

(* The method fails.  A generator that has ended before fails in           *)
(* resume_generator itself, without a frame.                               *)
Raise(kind) ==
  /\ Waits
  /\ kind \in IF Len(log) < MaxCalls THEN Errors(Called.m) ELSE {"Other"}
  /\ side' = [w \in Sides |->
       LET c == side[w]
       IN  IF kind = "exhausted" THEN AfterError(c.k, "StopIteration")
           ELSE IF c.how = "sync" \/ (c.how = "method" /\ w = "native")
           THEN AfterError(c.k, sequence_iterator_next(c.m, kind))
           ELSE OnException(c.k, kind)]
  /\ Log("error", kind)
  /\ roots' = trace(side["guest"].k)
  /\ UNCHANGED <<scene, stored>>

Finished ==
  /\ \A w \in Sides : side[w].at \in {"done", "error"}
  /\ UNCHANGED vars

Next ==
  \/ Step
  \/ \E v \in Objects \cup Integer \cup Boolean \cup {"None", "str", "f", "NotImplemented"} : Return(v)
  \/ \E kind \in {"StopIteration", "AttributeError", "IndexError", "exhausted", "Other"} : Raise(kind)
  \/ Finished

Spec == Init /\ [][Next]_vars

---------------------------------------------------------------------------
Settled == \A w \in Sides : ~Moves(side[w])
Ended == \A w \in Sides : side[w].at = "done"

(* The two paths of every protocol are the same protocol: whatever the     *)
(* methods answer, native methods and functions of the program are called  *)
(* in the same order with the same arguments, and the operation ends with  *)
(* the same value, the same items, the same branch or the same error,      *)
(* which a handler of the program can catch on both or on neither.         *)
PathsAgree ==
  Settled =>
    LET n == side["native"]
        g == side["guest"]
    IN  /\ n.at = g.at
        /\ n.at = "call" => <<n.m, n.x, n.args, n.how>> = <<g.m, g.x, g.args, g.how>>
        /\ n.at # "call" => n = g
        /\ stored["native"] = stored["guest"]

(* Whatever a protocol uses once its frame has returned (the receiver and  *)
(* the arguments of the next method, the result, what its next frame       *)
(* keeps) is the answer or was reachable from the ReturnAction of that     *)
(* frame while the method ran: a collection in the method leaves it alive. *)
Uses(c) ==
  CASE c.at = "call" -> {c.x} \cup {c.args[i] : i \in DOMAIN c.args} \cup trace(c.k)
    [] c.at = "done" -> {c.value} \cup {c.items[i] : i \in DOMAIN c.items}
    [] OTHER -> {}
ContinuationsRooted == Settled => Uses(side["guest"]) \cap Objects \subseteq roots

(* The errors that an iteration or the lookup of an attribute consumes.    *)
Consumed(e) ==
  \/ e.m \in IteratorEnds /\ e.value \in {"StopIteration", "exhausted"}
  \/ e.m = "item" /\ e.value = "IndexError"
  \/ e.m \in {"__getattribute__", "__getattr__", "getter", "__get__"} /\ e.value = "AttributeError"

HasTruth == {"__bool__", "__len__"} \cap scene.has["b"] # {}
Says(truth) ==
  \E i \in DOMAIN log : LET e == log[i]
    IN  e.kind = "value" /\
        \/ e.m \in {"__bool__"} /\ e.value = Bool(truth)
        \/ e.m \in IteratorEnds /\ scene.op \in {"any", "all"} /\ e.value = "n0" /\ ~truth
        \/ e.m \in IteratorEnds /\ scene.op \in {"any", "all"} /\ e.value = "b" /\ ~HasTruth /\ truth
        \/ e.m = "__len__" /\ e.value \in {"n0", "n1"} /\ (e.value = "n1") = truth
        \/ e.m = "__index__" /\ e.value \in {"n0", "n1", "True"} /\ (e.value # "n0") = truth
Finds ==
  \/ \E i \in DOMAIN log : log[i].m \in IteratorEnds /\ log[i].value = scene.args[2]
  \/ \E i \in DOMAIN log : log[i].m = "__eq__" /\ log[i].value = "True"
  \/ \E i \in DOMAIN log : log[i].m = "__eq__" /\ log[i].value = "b" /\ ~HasTruth
  \/ Says(TRUE)

(* Only a StopIteration of the iterator itself ends an iteration, and only *)
(* an AttributeError of an attribute's own methods makes it missing: any   *)
(* other error of a method, the same kinds from __iter__, __bool__, a      *)
(* comparison, a key function or __init__ included, is the error of the    *)
(* operation (ADR 0063, ADR 0090).  And what the consumers of an iterator  *)
(* compute is right: a collection holds exactly the items, in order; any,  *)
(* all and the membership tests answer what the truths and comparisons of  *)
(* the items say.                                                          *)
ResultsRight ==
  /\ \A i \in DOMAIN log :
       log[i].kind = "error" /\ ~Consumed(log[i]) => \A w \in Sides : side[w] = Err(log[i].value)
  /\ Ended =>
    LET r == side["guest"]
    IN  /\ scene.op \in {"list", "tuple", "bytes", "unpack"} => r.items = given
        /\ scene.op = "class" /\ scene.init = "list" /\ r.value = "inst" =>
             given = IF scene.new = "program" THEN stored["guest"] ELSE r.items
        /\ scene.op = "star" => stored["guest"] = given
        /\ scene.op = "any" => r.value = Bool(Says(TRUE))
        /\ scene.op = "all" => r.value = Bool(~Says(FALSE))
        /\ scene.op \in {"in", "not in"} /\ ~operator_method_call(scene.args[1], "__contains__") =>
             r.value = Bool(Finds # (scene.op = "not in"))
        /\ scene.op = "extremum" => r.value \in {given[i] : i \in DOMAIN given}
             \cup {scene.args[i] : i \in 2 .. Len(scene.args)} \cup {scene.config.default}

===========================================================================
