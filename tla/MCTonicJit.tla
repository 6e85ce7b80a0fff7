---------------------------- MODULE MCTonicJit ----------------------------
(* Functions for the two tiers.                                            *)
EXTENDS TonicJit

MCMinInt == -4

I(op, a, b, c, n, k) == [op |-> op, a |-> a, b |-> b, c |-> c, n |-> n, k |-> k]
Put(a, k) == I("Const", a, 1, 1, 0, k)
Get(a, b) == I("Move", a, b, 1, 0, None)
Glob(a, symbol) == I("LoadGlobal", a, symbol, 1, 0, None)
Cell(a) == I("LoadCell", a, 1, 1, 0, None)
Do(op, a, b, c) == I(op, a, b, c, 0, None)
Goto(t) == I("Jump", t, 1, 1, 0, None)
Unless(a, t) == I("JumpFalse", a, t, 1, 0, None)
CallFn(a, f, first, n) == I("Call", a, f, first, n, None)
Give(a) == I("Return", a, 1, 1, 0, None)
Fn(n) == Val("fn", n)
Type(n) == Val("type", n)

Sig(params, result) == [params |-> params, result |-> result]
IntSig == Sig(<<{"int"}>>, {"int"})
Plan(own, callees) == [own |-> own, callees |-> callees]
Self == [kind |-> "self"]
IsInstance == [kind |-> "isinstance"]
Builtin == [kind |-> "builtin"]
Leaf(code, params, regs, sigs) ==
  [kind |-> "leaf", code |-> code, params |-> params, regs |-> regs, sigs |-> sigs]
(* A Tonic function that is not a leaf; its body is not modelled.          *)
Function(params, sigs) ==
  [kind |-> "function", code |-> <<I("List", 1, 1, 1, 0, None), Give(1)>>, params |-> params,
   regs |-> params + 1, sigs |-> sigs]
Increment(sigs) == Leaf(<<Put(2, IntV(1)), Do("Add", 3, 1, 2), Give(3)>>, 1, 3, sigs)
Square(sigs) == Leaf(<<Do("Mul", 2, 1, 1), Give(2)>>, 1, 2, sigs)

Base == [sigs |-> <<Unannotated>>, plans |-> {Plan(1, 1)}, advisory |-> {}, fns |-> <<Self>>,
         answers |-> {None}, globals |-> <<>>, rebinds |-> {}, warm |-> FALSE]
Of(code, params, regs, args) == [code |-> code, params |-> params, regs |-> regs, args |-> args]
Ints(ns) == {<<IntV(n)>> : n \in ns}

(* s = 1; while i < n: s = s + s; i = i + 1; return s                      *)
Doubling ==
  Of(<<Put(2, IntV(1)), Put(3, IntV(0)), Put(5, IntV(1)), Do("Lt", 4, 3, 1), Unless(4, 9),
       Do("Add", 2, 2, 2), Do("Add", 3, 3, 5), Goto(4), Give(2)>>, 1, 5,
     Ints({2, 4}) \cup {<<FloatV(2)>>, <<BoolV(TRUE)>>})
TypedLoop ==
  Doubling @@ [sigs |-> <<IntSig, Unannotated, Sig(<<{"int", "bool"}>>, {"int"})>>,
               plans |-> {Plan(1, 1), Plan(2, 1), Plan(3, 1)},
               fns |-> <<Self, Self>>] @@ Base
UntypedLoop == Doubling @@ [warm |-> TRUE] @@ Base

(* if x is None: return 0; return x + 1                                    *)
Optional ==
  Of(<<Put(2, None), Do("Is", 3, 1, 2), Unless(3, 6), Put(4, IntV(0)), Give(4),
       Put(5, IntV(1)), Do("Add", 6, 1, 5), Give(6)>>, 1, 6,
     Ints({1, 4}) \cup {<<None>>, <<FloatV(1)>>, <<BoolV(TRUE)>>})
  @@ [sigs |-> <<Sig(<<{"int", "none"}>>, {"int"})>>] @@ Base

(* if isinstance(x, int): return x + 1; return 0                           *)
InstanceTest ==
  Of(<<Glob(2, 1), Get(3, 1), Glob(4, 2), CallFn(5, 2, 3, 2), Unless(5, 9), Put(6, IntV(1)),
       Do("Add", 7, 1, 6), Give(7), Put(8, IntV(0)), Give(8)>>, 1, 8,
     Ints({1}) \cup {<<FloatV(1)>>})
  @@ [sigs |-> <<Sig(<<{"int", "float"}>>, {"int"})>>, fns |-> <<Self, IsInstance, Builtin>>,
      globals |-> <<Fn(2), Type(1)>>, answers |-> {BoolV(TRUE), BoolV(FALSE), Raised(5)},
      rebinds |-> {[symbol |-> 1, value |-> Fn(3)], [symbol |-> 1, value |-> Fn(2)],
                   [symbol |-> 2, value |-> Type(3)], [symbol |-> 1, value |-> Unbound]}] @@ Base

(* s = x; while i < n: s = s * x; i = i + 1; return s                      *)
FloatLoop ==
  Of(<<Get(3, 1), Put(4, IntV(0)), Put(6, IntV(1)), Do("Lt", 5, 4, 2), Unless(5, 9),
       Do("Mul", 3, 3, 1), Do("Add", 4, 4, 6), Goto(4), Give(3)>>, 2, 6,
     {<<FloatV(2), IntV(2)>>, <<IntV(2), IntV(2)>>, <<FloatV(2), FloatV(1)>>, <<None, IntV(1)>>})
  @@ Base
(* if x is None: return 1.0; return x * x                                  *)
OptionalFloat ==
  Of(<<Put(2, None), Do("Is", 3, 1, 2), Unless(3, 6), Put(4, FloatV(1)), Give(4),
       Do("Mul", 5, 1, 1), Give(5)>>, 1, 5,
     {<<FloatV(2)>>, <<None>>, <<IntV(2)>>})
  @@ [sigs |-> <<Sig(<<{"float", "none"}>>, {"float"})>>] @@ Base

(* s = n; while i < n: s = g(s); i = i + 1; return s                       *)
CallLoop ==
  Of(<<Get(2, 1), Put(3, IntV(0)), Put(5, IntV(1)), Do("Lt", 4, 3, 1), Unless(4, 10), Glob(6, 1),
       CallFn(2, 6, 2, 1), Do("Add", 3, 3, 5), Goto(4), Give(2)>>, 1, 6,
     Ints({2}) \cup {<<FloatV(3)>>})
  @@ [fns |-> <<Self, Increment(<<Unannotated>>), Square(<<Unannotated>>)>>,
      globals |-> <<Fn(2)>>, rebinds |-> {[symbol |-> 1, value |-> Fn(3)]}] @@ Base

(* y = g(x); return y + x, where g promises an integer.                    *)
CallResult ==
  Of(<<Glob(2, 1), Get(3, 1), CallFn(4, 2, 3, 1), Do("Add", 5, 4, 1), Give(5)>>, 1, 5, Ints({1}))
  @@ [sigs |-> <<IntSig, Sig(<<{"int"}>>, {"int", "float"})>>,
      plans |-> {Plan(1, 1), Plan(2, 1), Plan(1, 2), Plan(2, 2)},
      fns |-> <<Self, Function(1, <<IntSig, Sig(<<{"int"}>>, {"bool"})>>)>>,
      globals |-> <<Fn(2)>>,
      answers |-> {IntV(2), BoolV(TRUE), Object, Raised(5)}] @@ Base

(* if n < 1: return g(n); return f(n - 1)                                  *)
Recursion ==
  Of(<<Put(2, IntV(1)), Do("Lt", 3, 1, 2), Unless(3, 7), Glob(4, 2), CallFn(5, 4, 1, 1), Give(5),
       Glob(4, 1), Do("Sub", 6, 1, 2), CallFn(5, 4, 6, 1), Give(5)>>, 1, 6, Ints({0, 1, 2, 3}))
  @@ [sigs |-> <<IntSig>>, fns |-> <<Self, Increment(<<IntSig>>)>>,
      globals |-> <<Fn(1), Fn(2)>>, warm |-> TRUE] @@ Base

(* y: int = cell; return y + x                                             *)
Advisory ==
  Of(<<Cell(2), Get(3, 2), Do("Add", 4, 3, 1), Give(4)>>, 1, 4, Ints({1}))
  @@ [sigs |-> <<IntSig>>, advisory |-> {[pc |-> 1, result |-> {"int"}]},
      answers |-> {IntV(1), IntV(4), Object}] @@ Base
(* return cell                                                             *)
ReturnsAny ==
  Of(<<Cell(2), Give(2)>>, 1, 2, Ints({1}))
  @@ [sigs |-> <<IntSig>>, answers |-> {IntV(1), IntV(9), None}] @@ Base

(* return a // b + a % b                                                   *)
Division ==
  Of(<<Do("FloorDiv", 3, 1, 2), Do("Mod", 4, 1, 2), Do("Add", 5, 3, 4), Give(5)>>, 2, 5,
     {<<IntV(a), IntV(b)>> : a \in {-4, -3, 3}, b \in {-2, -1, 0, 2}})
  @@ [sigs |-> <<Sig(<<{"int"}, {"int"}>>, {"int"})>>] @@ Base
(* if not x: return -x; x is not x; return x == x                          *)
Unary ==
  Of(<<Do("Not", 2, 1, 1), Unless(2, 5), Do("Neg", 3, 1, 1), Give(3), Do("IsNot", 2, 1, 1),
       Do("Eq", 4, 1, 1), Give(4)>>, 1, 4,
     Ints({0, 1, 9}) \cup {<<None>>, <<Object>>, <<BoolV(FALSE)>>, <<FloatV(0)>>}) @@ Base
TrueDivision ==
  Of(<<Glob(2, 1), Do("Div", 3, 2, 1), Get(4, 3), Get(5, 4), Get(4, 5), Get(5, 4), Get(4, 5),
       Get(5, 4), Get(4, 5), Get(5, 4), Get(4, 5), Give(4)>>, 1, 5,
     Ints({0, 1}) \cup {<<Object>>})
  @@ [globals |-> <<Unbound>>, rebinds |-> {[symbol |-> 1, value |-> IntV(2)]}] @@ Base

(* return x * x: too small for a function of its own, and a list           *)
Small == Of(<<Do("Mul", 2, 1, 1), Give(2)>>, 1, 2, Ints({2}) \cup {<<FloatV(2)>>})
  @@ [warm |-> TRUE] @@ Base
Mixed ==
  Of(<<Do("Mul", 2, 1, 1), Do("Neg", 3, 1, 1), Give(2)>>, 1, 3,
     {<<BoolV(TRUE)>>, <<IntV(2)>>, <<IntV(4)>>})
  @@ [sigs |-> <<Sig(<<{"int", "bool"}>>, {"int"})>>] @@ Base
Lists == Of(<<I("List", 2, 1, 1, 0, None), Give(2)>>, 1, 2, Ints({1}))
  @@ [sigs |-> <<IntSig>>, warm |-> TRUE] @@ Base

MCScenes == <<TypedLoop, UntypedLoop, Optional, InstanceTest, FloatLoop, OptionalFloat, CallLoop,
              CallResult, Recursion, Advisory, ReturnsAny, Division, Unary, TrueDivision, Small,
              Mixed, Lists>>
=============================================================================
