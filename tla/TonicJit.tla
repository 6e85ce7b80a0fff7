------------------------------ MODULE TonicJit ------------------------------
(***************************************************************************)
(* The tiers of one function: the interpreter with its call profiles, the  *)
(* decision to compile, the native code with its guards, side exits and    *)
(* deoptimizations, and the annotations that a specialization rests on.    *)
(*                                                                         *)
(* A second interpreter, ref, executes the same function step by step with *)
(* the machine: native code is right when nobody can tell the two apart.   *)
(* A callee other than the function itself runs to its end in one step.    *)
(* The value of a call of opaque code, and of a cell, is any of the        *)
(* answers of the scene, the same for both interpreters.                   *)
(***************************************************************************)
EXTENDS TonicJitAnalysis

CONSTANTS
  Scenes,           \* the functions: code, annotations, globals and arguments
  MaxCalls,         \* calls of the function from the outside
  MaxFrames,        \* limits.frames
  JitThreshold,     \* calls before a function without a loop is compiled
  OsrThreshold,     \* calls and iterations before a loop is compiled
  QuickenThreshold, \* calls of a callee before its call site is specialized
  MinInstructions,  \* jit_min_instructions
  DeoptLimit,       \* JIT_DEOPT_LIMIT
  PollInterval,     \* BACKEDGE_POLL_INTERVAL
  PollAnswers,      \* what Runtime::poll may answer: 0 goes on, 1 asks for a deopt
  MaxCode,          \* jit_max_code_bytes, in instructions
  WarmupCode        \* jit_warmup_max_code_bytes, in instructions

ASSUME TierAssumption ==
  /\ {MaxCalls, MaxFrames, JitThreshold, OsrThreshold, QuickenThreshold, DeoptLimit,
      PollInterval} \subseteq Nat \ {0}
  /\ {MinInstructions, MaxCode, WarmupCode} \subseteq Nat
  /\ PollAnswers \subseteq 0 .. 1

VARIABLES
  scene,    \* the function under test, an index of Scenes
  frames,   \* the activations of the function, the innermost last
  ref,      \* the activations of the reference interpreter
  cache,    \* jit_cache: what is known of the code
  hot,      \* jit_hotness
  profile,  \* the call profiles of the function's call sites
  plan,     \* the versions of the annotations: of the function and of its callees
  globals,  \* the values of the global symbols
  used,     \* jit_code_budget_used
  explicit, \* the function objects with jit_compile_requested
  calls,    \* the number of calls so far
  ended     \* the outcome of the last call, for the machine and for ref

vars == <<scene, frames, ref, cache, hot, profile, plan, globals, used, explicit, calls, ended>>

S == Scenes[scene]
Code == S.code
TypeNames == <<"int", "bool", "float">>
NameError == Raised(1)
TypeError == Raised(2)
ZeroDivisionError == Raised(3)
RecursionError == Raised(4)
UnboundLocalError == Raised(6)
JitError == Raised(7)

(***************************************************************************)
(* The operations of the heap.                                             *)
(***************************************************************************)
FloorQuotient(l, r) == IF r > 0 THEN l \div r ELSE (0 - l) \div (0 - r)
FloatIn(l, r) == "float" \in {l.t, r.t}
binary(op, l, r) ==
  IF ~(Numeric(l) /\ Numeric(r)) THEN TypeError
  ELSE IF op \in {"Div", "FloorDiv", "Mod"} /\ r.n = 0 THEN ZeroDivisionError
  ELSE LET n == CASE op = "Add" -> l.n + r.n
                  [] op = "Sub" -> l.n - r.n
                  [] op = "Mul" -> l.n * r.n
                  [] op \in {"FloorDiv", "Div"} -> FloorQuotient(l.n, r.n)
                  [] op = "Mod" -> l.n - r.n * FloorQuotient(l.n, r.n)
       IN IF op = "Div" \/ FloatIn(l, r) THEN FloatV(n) ELSE IntV(n)
compare(op, l, r) ==
  IF Numeric(l) /\ Numeric(r) THEN BoolV(IF op = "Eq" THEN l.n = r.n ELSE l.n < r.n)
  ELSE IF op = "Eq" THEN BoolV(l = r) ELSE TypeError
negative(v) ==
  IF ~Numeric(v) THEN TypeError
  ELSE IF v.t = "float" THEN FloatV(0 - v.n) ELSE IntV(0 - v.n)
truth(v) == IF Numeric(v) THEN v.n # 0 ELSE v # None

(***************************************************************************)
(* The interpreter.                                                        *)
(***************************************************************************)
Operands(i) ==
  CASE i.op \in Branches \cup {"Return", "StoreCell"} -> {i.a}
    [] i.op \in {"Move", "Neg", "Not"} -> {i.b}
    [] i.op \in Arithmetic \cup Comparisons \cup Identities \cup {"FloorDiv", "Mod", "Div"} ->
         {i.b, i.c}
    [] i.op = "Call" -> {i.b} \cup i.c .. i.c + i.n - 1
    [] OTHER -> {}
Arguments(i, regs) == [j \in 1 .. i.n |-> regs[i.c + j - 1]]

Evaluate(i, regs, answer) ==
  IF \E r \in Operands(i) : regs[r] = Unbound THEN UnboundLocalError
  ELSE CASE i.op = "Const" -> i.k
         [] i.op = "Move" -> regs[i.b]
         [] i.op = "LoadGlobal" -> IF globals[i.b] = Unbound THEN NameError ELSE globals[i.b]
         [] i.op = "LoadCell" -> answer
         [] i.op \in Arithmetic \cup {"FloorDiv", "Mod", "Div"} ->
              binary(i.op, regs[i.b], regs[i.c])
         [] i.op \in Comparisons -> compare(i.op, regs[i.b], regs[i.c])
         [] i.op \in Identities -> BoolV((regs[i.b] = regs[i.c]) = (i.op = "Is"))
         [] i.op = "Neg" -> negative(regs[i.b])
         [] i.op = "Not" -> BoolV(~truth(regs[i.b]))
         [] OTHER -> Object

NextPc(i, pc, regs) ==
  CASE i.op = "Jump" -> i.a
    [] i.op \in Branches ->
         IF truth(regs[i.a]) = (i.op = "JumpTrue") THEN i.b ELSE pc + 1
    [] OTHER -> pc + 1

(* One instruction other than a call or a return.                          *)
Interpret(f, answer) ==
  LET i == Code[f.pc]
      v == Evaluate(i, f.regs, answer)
  IN IF v.t = "raise" THEN [f EXCEPT !.raise = v.n]
     ELSE [f EXCEPT !.pc = NextPc(i, f.pc, f.regs),
                    !.regs = IF instruction_writes_a(i) THEN [@ EXCEPT ![i.a] = v] ELSE @]

(* A function value is Val("fn", n); n is its index in the scene.          *)
FnCode(n) == IF S.fns[n].kind = "self" THEN Code ELSE S.fns[n].code
FnParams(n) == IF S.fns[n].kind = "self" THEN S.params ELSE S.fns[n].params
FnRegisters(n) == IF S.fns[n].kind = "self" THEN S.regs ELSE S.fns[n].regs
IsFunction(v) == v.t = "fn" /\ S.fns[v.n].kind \in {"self", "leaf", "function"}
direct_call_target(v, i) == IsFunction(v) /\ FnParams(v.n) = i.n

Bound(arguments, registers) == arguments @@ [r \in 1 .. registers |-> Unbound]

(* The value of a leaf for its arguments.  Operate gives the value of an   *)
(* operation, or Raised.                                                   *)
RunLeaf(n, arguments, Operate(_, _, _)) ==
  LET Step(s, i) ==
        LET v == CASE i.op = "Const" -> i.k
                   [] i.op = "Return" -> s.regs[i.a]
                   [] i.op = "Move" -> s.regs[i.b]
                   [] OTHER -> Operate(i.op, s.regs[i.b], s.regs[i.c])
        IN IF s.value.t = "raise" THEN s
           ELSE [regs |-> [s.regs EXCEPT ![i.a] = v], value |-> v]
  IN FoldLeft(Step, [regs |-> Bound(arguments, FnRegisters(n)), value |-> None],
              StraightLine(FnCode(n))).value

isinstance(v, type) ==
  IF type.t # "type" THEN TypeError
  ELSE BoolV(v.t \in TestedTypes(TypeNames[type.n]))

(* The result of a call that is over in one step.  A Tonic function needs  *)
(* a frame.                                                                *)
Invoke(callee, arguments, depth, answer) ==
  IF callee.t # "fn" THEN TypeError
  ELSE IF IsFunction(callee) /\ FnParams(callee.n) # Len(arguments) THEN TypeError
  ELSE IF IsFunction(callee) /\ depth >= MaxFrames THEN RecursionError
  ELSE CASE S.fns[callee.n].kind = "isinstance" -> isinstance(arguments[1], arguments[2])
         [] S.fns[callee.n].kind = "leaf" -> RunLeaf(callee.n, arguments, binary)
         [] OTHER -> answer

(***************************************************************************)
(* The profiles of a call site: the adaptive state, the expanded profile   *)
(* and the float profile.                                                  *)
(***************************************************************************)
Site(state, callee, other, count) ==
  [state |-> state, callee |-> callee, other |-> other, count |-> count]
Generic == Site("generic", 0, 0, 0)
Count(callee, count) == [callee |-> callee, count |-> count]
NoCount == Count(0, 0)
Fresh == [site |-> Generic, expanded |-> NoCount, floats |-> NoCount]
NoProfile == [sites |-> [pc \in DOMAIN Code |-> Fresh], pics |-> 0]
Counted(c, callee) == IF c.callee = callee THEN [c EXCEPT !.count = @ + 1] ELSE Count(callee, 1)

observe_float_call(p, callee, arguments) ==
  [p EXCEPT !.floats =
     IF arguments # <<>> /\ \A j \in DOMAIN arguments : arguments[j].t = "float"
     THEN Counted(@, callee) ELSE NoCount]
observe_expanded_call(p, callee) == [p EXCEPT !.expanded = Counted(@, callee)]
observe_simple_call(site, callee) ==
  LET count == IF site.state = "observed" /\ site.callee = callee THEN site.count + 1 ELSE 1
  IN IF site.state \in {"tonic", "pic"} THEN site
     ELSE IF count >= QuickenThreshold THEN Site("tonic", callee, 0, 0)
     ELSE Site("observed", callee, 0, count)

install_call_pic(all, pc, previous, callee) ==
  IF all.pics >= Len(Code) THEN [all EXCEPT !.sites[pc].site = Generic]
  ELSE [sites |-> [all.sites EXCEPT ![pc].site = Site("pic", previous, callee, 0)],
        pics |-> all.pics + 1]

(* The profiles after a call of callee at pc; entered says that the call   *)
(* pushed a frame, failed that it raised.                                  *)
Profiled(all, pc, callee, arguments, entered, failed) ==
  LET n == IF callee.t = "fn" THEN callee.n ELSE 0
      p == observe_float_call(all.sites[pc], n, arguments)
      site == p.site
      hit == \/ site.state = "tonic" /\ site.callee = n
             \/ site.state = "pic" /\ n \in {site.callee, site.other}
      missed == site.state = "tonic" /\ ~hit
      reset == IF site.state \in {"tonic", "pic"} THEN [p EXCEPT !.site = Generic] ELSE p
      expanded == observe_expanded_call(reset, n)
      With(q) == [all EXCEPT !.sites[pc] = q]
  IN IF hit THEN With(p)
     ELSE IF ~entered THEN With([reset EXCEPT !.site = IF failed THEN @ ELSE Generic])
     ELSE IF missed THEN install_call_pic(With(expanded), pc, site.callee, n)
     ELSE With([expanded EXCEPT !.site = observe_simple_call(@, n)])

jit_direct_call_profile_pending ==
  \E pc \in DOMAIN Code :
    LET p == profile.sites[pc] IN
    \/ /\ p.site.state = "observed"
       /\ p.site.count >= QuickenThreshold - 1
       /\ is_direct_call_inlineable(FnCode(p.site.callee))
    \/ p.expanded.callee # 0 /\ p.expanded.count = QuickenThreshold - 1

(***************************************************************************)
(* What the annotations and the profiles give to the compiler.             *)
(***************************************************************************)
Unannotated == [params |-> <<>>, result |-> Unknown]
Signature == S.sigs[plan.own]
CalleeSignature(n) ==
  CASE S.fns[n].kind = "self" -> Signature
    [] S.fns[n].kind \in {"leaf", "function"} -> S.fns[n].sigs[plan.callees]
    [] OTHER -> Unannotated
Annotated(signature) == signature.result # Unknown
annotation_arguments_match(signature, regs) ==
  \A r \in DOMAIN signature.params : annotation_parameter_matches(signature.params[r], regs[r])

Direct(pc, callee, float, result) ==
  [pc |-> pc, callee |-> callee, float |-> float, result |-> result]
jit_direct_calls ==
  LET Profile(pc) == profile.sites[pc]
      Callee(pc) ==
        IF Profile(pc).site.state = "tonic" THEN Profile(pc).site.callee
        ELSE IF Profile(pc).expanded.count >= QuickenThreshold THEN Profile(pc).expanded.callee
        ELSE 0
      Float(pc) ==
        /\ Profile(pc).floats.callee = Callee(pc)
        /\ Profile(pc).floats.count >= QuickenThreshold
        /\ is_direct_float_leaf_inlineable(FnCode(Callee(pc)), FnParams(Callee(pc)))
      Inlined(pc) ==
        /\ Code[pc].op = "Call"
        /\ Callee(pc) # 0
        /\ direct_call_target(Val("fn", Callee(pc)), Code[pc])
        /\ is_direct_call_inlineable(FnCode(Callee(pc)))
  IN {Direct(pc, Callee(pc), Float(pc), Unknown) : pc \in {q \in DOMAIN Code : Inlined(q)}}

immediate_parameters(signature) ==
  \A r \in DOMAIN signature.params :
    signature.params[r] \notin {Unknown, Floating, {"float", "none"}}

(* The calls of annotated functions that are found through a global.       *)
AnnotatedCallee(pc) ==
  LET writers == WritersOf(Code, 1, pc, Code[pc].b)
      load == Code[Latest(writers)]
  IN IF Code[pc].op # "Call" \/ writers = {} THEN 0
     ELSE IF load.op # "LoadGlobal" THEN 0
     ELSE IF /\ direct_call_target(globals[load.b], Code[pc])
             /\ Annotated(CalleeSignature(globals[load.b].n))
     THEN globals[load.b].n ELSE 0

(* The result of the call is a fact of the caller when the return of the   *)
(* inlined callee is proven from its annotated parameters.                 *)
InlinedResult(site) ==
  LET signature == site.signature
      kinds == {signature.params[r] : r \in DOMAIN signature.params}
      code == FnCode(site.callee)
  IN /\ typed_return_is_proven(code, FnRegisters(site.callee), signature)
     /\ IF signature.result = Floating
        THEN kinds \subseteq {Floating} /\ is_direct_float_leaf_inlineable(code, FnParams(site.callee))
        ELSE /\ is_direct_call_inlineable(code)
             /\ signature.result \subseteq {"int", "bool", "none"}
             /\ IF signature.result = {"int"} THEN kinds \subseteq {{"int"}}
                ELSE immediate_parameters(signature)
GuardedResult(site) ==
  immediate_parameters(site.signature) /\ site.signature.result # Floating

AnnotatedCalls(inlined, guarded) ==
  [calls |-> {Direct(s.pc, s.callee, s.signature.result = Floating, s.signature.result) : s \in inlined},
   results |-> {[pc |-> s.pc, result |-> s.signature.result] : s \in guarded},
   callees |-> {s.callee : s \in inlined \cup guarded}]
GuardedCalls(sites, inlined) ==
  AnnotatedCalls(inlined, {s \in sites \ inlined : GuardedResult(s)})
InlinedCalls(sites) == GuardedCalls(sites, {s \in sites : InlinedResult(s)})
AnnotatedSites ==
  {[pc |-> pc, callee |-> AnnotatedCallee(pc), signature |-> CalleeSignature(AnnotatedCallee(pc))] :
     pc \in {q \in DOMAIN Code : AnnotatedCallee(q) # 0}}
jit_annotation_direct_calls == InlinedCalls(AnnotatedSites)

At(set, pc) == \E x \in set : x.pc = pc
Without(set, others) == {x \in set : ~At(others, x.pc)}
add_advisory_results(env) ==
  [env EXCEPT !.direct = Without(@, S.advisory),
              !.results = Without(@, S.advisory) \cup S.advisory]

RECURSIVE jit_static_global_value(_, _)
jit_static_global_value(register, before) ==
  LET writers == {q \in WritersOf(Code, 1, before, register) :
                    Code[q].op \notin {"Jump", "JumpFalse", "JumpTrue", "Return"}}
      w == Code[Latest(writers)]
  IN IF writers = {} THEN Unbound
     ELSE IF w.op = "Move" THEN jit_static_global_value(w.b, Latest(writers))
     ELSE IF w.op = "LoadGlobal" THEN globals[w.b] ELSE Unbound
TypeTest(pc, callee, type) ==
  {[pc |-> pc, callee |-> callee, type |-> type, kind |-> TypeNames[n]] :
     n \in {m \in {type.n} : /\ callee.t = "fn" /\ type.t = "type"
                             /\ S.fns[callee.n].kind = "isinstance"}}
jit_annotation_type_tests ==
  UNION {TypeTest(pc, jit_static_global_value(Code[pc].b, pc),
                  jit_static_global_value(Code[pc].c + 1, pc)) :
           pc \in {q \in DOMAIN Code : Code[q].op = "Call" /\ Code[q].n = 2}}

WithTypeTests(env) == [env EXCEPT !.tests = Without(jit_annotation_type_tests, env.results)]
Environment(profiled, found) ==
  WithTypeTests(add_advisory_results(
    [direct |-> Without(Without(profiled, found.results), found.calls) \cup found.calls,
     results |-> found.results, tests |-> {}]))

(***************************************************************************)
(* Compilation.                                                            *)
(***************************************************************************)
Entry(state) ==
  [state |-> state, typed |-> FALSE, facts |-> NoMap, floats |-> NoMap, env |-> NoEnv,
   deopts |-> 0, function |-> 0, plan |-> [own |-> 1, callees |-> 1], callees |-> {},
   result |-> Unknown, proven |-> FALSE, resumable |-> FALSE]
Untried == Entry("untried")
Unsupported == Entry("unsupported")

HasFloat(kind) == "float" \in kind
has_guarded_float_union(signature, env) ==
  \/ \E r \in DOMAIN signature.params : HasFloat(signature.params[r])
  \/ HasFloat(signature.result)
  \/ \E r \in env.results \cup env.direct : HasFloat(r.result)

Resumable(env) ==
  \/ \E pc \in DOMAIN Code :
       \/ Code[pc].op \in {"LoadGlobal", "LoadCell", "StoreCell", "Call"}
       \/ Code[pc].op = "Move" /\ IsGuarded(env, pc)
  \/ has_backedge(Code)

(* signature is Unannotated when the code is compiled from profiles only.  *)
Compiled(signature, env, facts, exact_float_parameters, function, callees) ==
  [Entry("compiled") EXCEPT
     !.typed = Annotated(signature), !.facts = facts, !.env = env,
     !.floats = IF Annotated(signature) /\ has_guarded_float_union(signature, env)
                THEN analyze_typed_float_execution(Code, facts)
                ELSE analyze_float_execution(Code, exact_float_parameters),
     !.function = function, !.plan = plan, !.callees = callees \ {function},
     !.result = signature.result,
     !.proven = Annotated(signature) /\ return_proven(Code, facts, signature.result),
     !.resumable = Resumable(env)]

TypedFloatParameters(signature) ==
  {r \in DOMAIN signature.params : signature.params[r] = Floating}
CompiledIn(env, function, callees) ==
  Compiled(Signature, env, analyze_typed_scalar_execution(Code, S.regs, Signature, env),
           TypedFloatParameters(Signature), function, callees)
CompiledTyped(profiled, function, found) ==
  CompiledIn(Environment(profiled, found), function, found.callees)
CompiledUntyped(regs) ==
  Compiled(Unannotated, [NoEnv EXCEPT !.direct = jit_direct_calls], NoMap,
           {r \in 1 .. S.params : regs[r].t = "float"}, 0, {})

OwnPlanCurrent == plan.own = cache.plan.own
annotation_guard_current ==
  /\ plan.own = cache.plan.own
  /\ cache.callees # {} => plan.callees = cache.plan.callees

(***************************************************************************)
(* try_jit up to the native code: whether it runs, and what is left in the *)
(* cache.                                                                  *)
(***************************************************************************)
Decision(run, entry, hotness, budget) ==
  [run |-> run, cache |-> entry, hot |-> hotness, used |-> budget]
profitable_size ==
  IF MinInstructions = 0 THEN 0
  ELSE MinInstructions +
         4 * Cardinality({pc \in DOMAIN Code : Code[pc].op \in {"Div", "LoadGlobal"}})
FloatLeaf(regs) ==
  /\ ~has_backedge(Code)
  /\ S.params > 0
  /\ is_direct_float_leaf_inlineable(Code, S.params)
  /\ \A r \in 1 .. S.params : regs[r].t = "float"

CompileDecision(f, hotness, typed) ==
  IF ~validate_supported(Code) \/ used + Len(Code) > MaxCode
  THEN Decision(FALSE, Unsupported, hotness, used)
  ELSE Decision(TRUE,
                IF typed THEN CompiledTyped(jit_direct_calls, f.fn, jit_annotation_direct_calls)
                ELSE CompiledUntyped(f.regs),
                hotness, used + Len(Code))

UntriedDecision(f) ==
  LET resuming == f.resume
      typed == ~resuming /\ Annotated(Signature)
      requested == f.fn \in explicit
      loop == has_backedge(Code)
      counted == IF typed \/ requested \/ resuming THEN hot ELSE hot + 1
  IN IF typed /\ ~annotation_arguments_match(Signature, f.regs)
     THEN Decision(FALSE, Untried, hot, used)
     ELSE IF ~typed /\ ~requested /\
             (FloatLeaf(f.regs) \/ (~loop /\ Len(Code) < profitable_size))
     THEN Decision(FALSE, Unsupported, hot, used)
     ELSE IF /\ ~typed /\ ~requested /\ ~resuming
             /\ \/ counted < (IF loop THEN OsrThreshold ELSE JitThreshold)
                \/ jit_direct_call_profile_pending
     THEN Decision(FALSE, Untried, counted, used)
     ELSE CompileDecision(f, counted, typed)

CacheDecision(f) ==
  IF cache.state = "unsupported" THEN Decision(FALSE, cache, hot, used)
  ELSE IF cache.state = "untried" THEN UntriedDecision(f)
  ELSE IF ~cache.typed THEN Decision(TRUE, cache, hot, used)
  ELSE IF f.fn # cache.function THEN Decision(FALSE, cache, hot, used)
  ELSE IF ~annotation_guard_current THEN Decision(FALSE, Untried, hot, used)
  ELSE Decision(annotation_arguments_match(Signature, f.regs), cache, hot, used)

(* Inlined calls push no frame, so they are not entered at the limit.      *)
BelowLimit(d) ==
  [d EXCEPT !.run = @ /\ (d.cache.env.direct # {} => Len(frames) < MaxFrames)]
TierDecision(f) == BelowLimit(CacheDecision(f))

(***************************************************************************)
(* The native code.  A word that is no integer decodes to some integer.    *)
(***************************************************************************)
FactAt(entry, pc, r) == IF pc \in DOMAIN entry.facts THEN entry.facts[pc][r] ELSE Unknown
FloatsAt(entry, pc) == IF pc \in DOMAIN entry.floats THEN entry.floats[pc] ELSE {}
decode_int(v) == IF exact_int(v) THEN v.n ELSE MaxInt
decode_known_integer(v, fact) ==
  IF fact = {"bool"} \/ (fact = {"int", "bool"} /\ exact_bool(v))
  THEN IF v = BoolV(TRUE) THEN 1 ELSE 0
  ELSE decode_int(v)
known_integer_truth(v, fact) ==
  IF fact = {"bool"} \/ (fact = {"int", "bool"} /\ exact_bool(v))
  THEN v = BoolV(TRUE)
  ELSE decode_int(v) # 0
immediate_truth(v) == IF exact_int(v) THEN v.n # 0 ELSE v = BoolV(TRUE)
IsImmediate(v) == exact_int(v) \/ exact_bool(v) \/ v = None

(* sdiv and srem round towards zero; the result is adjusted to the floor.  *)
NativeQuotient(l, r) ==
  LET Abs(n) == IF n < 0 THEN 0 - n ELSE n
      q == Abs(l) \div Abs(r)
  IN IF l * r < 0 THEN 0 - q ELSE q
NativeInteger(op, l, r) ==
  LET q == NativeQuotient(l, r)
      rest == l - q * r
      adjust == rest # 0 /\ l * r < 0
  IN CASE op = "Add" -> l + r
       [] op = "Sub" -> l - r
       [] op = "Mul" -> l * r
       [] op = "FloorDiv" -> IF adjust THEN q - 1 ELSE q
       [] op = "Mod" -> IF adjust THEN rest + r ELSE rest

(* How an instruction leaves the native code, or goes on in it.            *)
Outcome(kind, f, value) == [kind |-> kind, f |-> f, value |-> value]
deopt(f, pc) == Outcome("deopt", [f EXCEPT !.pc = pc], None)
side_exit(f) == Outcome("exit", f, None)
fallthrough(f, r, v) == Outcome("next", [f EXCEPT !.pc = @ + 1, !.regs[r] = v], None)
StoreFloat(f, r, v) == Outcome("next", [f EXCEPT !.pc = @ + 1, !.slots[r] = v], None)
runtime_guard(f, r, v) == IF v.t = "raise" THEN Outcome("raise", f, v) ELSE fallthrough(f, r, v)
InRange(f, r, n) == IF immediate_range(n) THEN fallthrough(f, r, IntV(n)) ELSE deopt(f, f.pc)

LowerConst(f, i) ==
  IF i.k.t = "float" /\ cache.floats # NoMap THEN StoreFloat(f, i.a, i.k)
  ELSE fallthrough(f, i.a, i.k)
LowerMove(f, i) ==
  IF IsGuarded(cache.env, f.pc) THEN side_exit(f)
  ELSE IF i.b \in FloatsAt(cache, f.pc) THEN StoreFloat(f, i.a, f.slots[i.b])
  ELSE fallthrough(f, i.a, f.regs[i.b])
LowerLoadGlobal(f, i) ==
  IF IsGuarded(cache.env, f.pc) THEN side_exit(f)
  ELSE runtime_guard(f, i.a, IF globals[i.b] = Unbound THEN NameError ELSE globals[i.b])

IntegerFacts(f, i) ==
  is_integer_like(FactAt(cache, f.pc, i.b)) /\ is_integer_like(FactAt(cache, f.pc, i.c))
LowerArithmetic(f, i) ==
  LET l == f.regs[i.b]
      r == f.regs[i.c]
      typed == IntegerFacts(f, i)
      Decode(v, reg) ==
        IF typed THEN decode_known_integer(v, FactAt(cache, f.pc, reg)) ELSE decode_int(v)
      m == Decode(l, i.b)
      n == Decode(r, i.c)
      helper == runtime_guard(f, i.a, binary(i.op, l, r))
  IN IF {i.b, i.c} \subseteq FloatsAt(cache, f.pc)
     THEN StoreFloat(f, i.a, binary(i.op, f.slots[i.b], f.slots[i.c]))
     ELSE IF cache.floats # NoMap /\ ~typed THEN helper
     ELSE IF ~typed /\ ~(exact_int(l) /\ exact_int(r))
     THEN IF has_backedge(Code) THEN helper ELSE deopt(f, f.pc)
     ELSE IF i.op \in {"FloorDiv", "Mod"} /\ n = 0 THEN deopt(f, f.pc)
     ELSE InRange(f, i.a, NativeInteger(i.op, m, n))
LowerDiv(f, i) == runtime_guard(f, i.a, binary("Div", f.regs[i.b], f.regs[i.c]))
LowerNeg(f, i) ==
  LET fact == FactAt(cache, f.pc, i.b)
      v == f.regs[i.b]
  IN IF is_integer_like(fact) THEN InRange(f, i.a, 0 - decode_known_integer(v, fact))
     ELSE IF exact_int(v) THEN InRange(f, i.a, 0 - v.n) ELSE deopt(f, f.pc)
LowerComparison(f, i) ==
  LET l == f.regs[i.b]
      r == f.regs[i.c]
      typed == IntegerFacts(f, i)
      m == IF typed THEN decode_known_integer(l, FactAt(cache, f.pc, i.b)) ELSE decode_int(l)
      n == IF typed THEN decode_known_integer(r, FactAt(cache, f.pc, i.c)) ELSE decode_int(r)
  IN IF cache.floats # NoMap /\ ~typed THEN runtime_guard(f, i.a, compare(i.op, l, r))
     ELSE IF ~typed /\ ~(exact_int(l) /\ exact_int(r)) THEN deopt(f, f.pc)
     ELSE fallthrough(f, i.a, BoolV(IF i.op = "Eq" THEN m = n ELSE m < n))
LowerIdentity(f, i) == fallthrough(f, i.a, BoolV((f.regs[i.b] = f.regs[i.c]) = (i.op = "Is")))

(* A truth value from a fact, or from the word, which must be immediate.   *)
NativeTruth(f, r) ==
  LET fact == FactAt(cache, f.pc, r)
  IN IF is_integer_like(fact) THEN known_integer_truth(f.regs[r], fact)
     ELSE immediate_truth(f.regs[r])
HasTruth(f, r) == is_integer_like(FactAt(cache, f.pc, r)) \/ IsImmediate(f.regs[r])
LowerNot(f, i) ==
  IF HasTruth(f, i.b) THEN fallthrough(f, i.a, BoolV(~NativeTruth(f, i.b))) ELSE deopt(f, f.pc)

(* The unboxed floats are boxed before the interpreter goes on at pc.      *)
DeoptUnboxed(f, pc) == deopt(f, pc)
emit_float_deopt(f, pc) ==
  deopt([f EXCEPT !.regs = [r \in DOMAIN @ |->
           IF r \in FloatsAt(cache, pc) THEN f.slots[r] ELSE @[r]]], pc)
emit_backedge_poll(f, target, answer) ==
  IF f.poll > 1 THEN Outcome("next", [f EXCEPT !.pc = target, !.poll = @ - 1], None)
  ELSE IF answer = 1 /\ FloatsAt(cache, target) # {} THEN emit_float_deopt(f, target)
  ELSE Outcome("next", [f EXCEPT !.pc = target, !.poll = PollInterval], None)
Edge(f, target, answer) ==
  IF target <= f.pc THEN emit_backedge_poll(f, target, answer)
  ELSE Outcome("next", [f EXCEPT !.pc = target], None)

(* On an edge to where more registers are floats, those are unboxed.       *)
emit_float_edge_initialization(f, target) ==
  LET new == FloatsAt(cache, target) \ FloatsAt(cache, f.pc)
  IN [ok |-> \A r \in new : f.regs[r].t = "float",
      f |-> [f EXCEPT !.slots = [r \in DOMAIN @ |-> IF r \in new THEN f.regs[r] ELSE @[r]]]]
LowerBranch(f, i, answer) ==
  LET target == IF NativeTruth(f, i.a) = (i.op = "JumpTrue") THEN i.b ELSE f.pc + 1
      edge == emit_float_edge_initialization(f, target)
  IN IF ~HasTruth(f, i.a) THEN deopt(f, f.pc)
     ELSE IF ~edge.ok THEN deopt(f, target)
     ELSE Edge(edge.f, target, answer)

(* The body of the callee in place of the call.  An operation on anything  *)
(* but small integers gives the whole call back to the interpreter.        *)
InlineInteger(op, l, r) ==
  IF exact_int(l) /\ exact_int(r) /\ immediate_range(NativeInteger(op, l.n, r.n))
  THEN IntV(NativeInteger(op, l.n, r.n)) ELSE TypeError
emit_direct_float_call(f, i, d) ==
  LET arguments == Arguments(i, f.regs)
  IN IF \E j \in DOMAIN arguments : arguments[j].t # "float" THEN deopt(f, f.pc)
     ELSE fallthrough(f, i.a, RunLeaf(d.callee, arguments, binary))
emit_direct_call(f, i, d) ==
  LET arguments == Arguments(i, f.regs)
      value == RunLeaf(d.callee, arguments, InlineInteger)
  IN IF f.regs[i.b] # Val("fn", d.callee) THEN deopt(f, f.pc)
     ELSE IF d.float THEN emit_direct_float_call(f, i, d)
     ELSE IF Unbound \in Range(arguments) \/ value.t = "raise" THEN deopt(f, f.pc)
     ELSE fallthrough(f, i.a, value)
LowerCall(f, i) ==
  IF At(cache.env.direct, f.pc)
  THEN emit_direct_call(f, i, CHOOSE d \in cache.env.direct : d.pc = f.pc)
  ELSE side_exit(f)
LowerReturn(f, i) ==
  LET v == IF i.a \in FloatsAt(cache, f.pc) THEN f.slots[i.a] ELSE f.regs[i.a]
  IN Outcome("return", [f EXCEPT !.regs = [[@ EXCEPT ![i.a] = v] EXCEPT ![1] = v]], v)

Lower(f, answer) ==
  LET i == Code[f.pc]
  IN CASE i.op = "Const" -> LowerConst(f, i)
       [] i.op = "Move" -> LowerMove(f, i)
       [] i.op = "LoadGlobal" -> LowerLoadGlobal(f, i)
       [] i.op \in Arithmetic \cup {"FloorDiv", "Mod"} -> LowerArithmetic(f, i)
       [] i.op = "Div" -> LowerDiv(f, i)
       [] i.op = "Neg" -> LowerNeg(f, i)
       [] i.op \in Comparisons -> LowerComparison(f, i)
       [] i.op \in Identities -> LowerIdentity(f, i)
       [] i.op = "Not" -> LowerNot(f, i)
       [] i.op = "Jump" -> Edge(f, i.a, answer)
       [] i.op \in Branches -> LowerBranch(f, i, answer)
       [] i.op = "Call" -> LowerCall(f, i)
       [] i.op = "Return" -> LowerReturn(f, i)
       [] OTHER -> side_exit(f)

(* What the entry of the native code checks for the pc where it starts.    *)
emit_guarded_type_test_resume_guards(entry, f) ==
  \A t \in entry.env.tests : t.pc + 1 = f.pc =>
    f.regs[Code[t.pc].b] = t.callee /\ f.regs[Code[t.pc].c + 1] = t.type
ParametersGuarded(entry, f) ==
  \A r \in 1 .. S.params : annotation_parameter_matches(FactAt(entry, f.pc, r), f.regs[r])
emit_typed_scalar_entry_guards(entry, f) ==
  \A r \in DOMAIN f.regs :
    LET fact == FactAt(entry, f.pc, r)
    IN fact # Floating => annotation_parameter_matches(fact, f.regs[r])
emit_float_entry_initialization(entry, f) ==
  [ok |-> \A r \in FloatsAt(entry, f.pc) : f.regs[r].t = "float",
   slots |-> [r \in DOMAIN f.regs |->
                IF r \in FloatsAt(entry, f.pc) THEN f.regs[r] ELSE Unbound]]
run_from(entry, f) ==
  LET floats == emit_float_entry_initialization(entry, f)
  IN IF f.pc # 1 /\ ~entry.resumable THEN Outcome("raise", f, JitError)
     ELSE IF /\ emit_guarded_type_test_resume_guards(entry, f)
             /\ emit_typed_scalar_entry_guards(entry, f)
             /\ floats.ok
     THEN Outcome("next", [f EXCEPT !.native = TRUE, !.poll = PollInterval,
                                    !.slots = floats.slots], None)
     ELSE deopt(f, f.pc)

(***************************************************************************)
(* The steps.                                                              *)
(***************************************************************************)
NewFrame(arguments, fn, dest) ==
  [pc |-> 1, regs |-> Bound(arguments, S.regs), slots |-> Bound(<<>>, S.regs), poll |-> 0,
   native |-> FALSE, resume |-> FALSE, attempted |-> cache.state = "unsupported",
   stepping |-> FALSE, fn |-> fn, dest |-> dest, raise |-> 0]
NewRef(arguments, dest) ==
  [pc |-> 1, regs |-> Bound(arguments, S.regs), dest |-> dest, raise |-> 0]
Top == frames[Len(frames)]
RefTop == ref[Len(ref)]
Replaced(s, x) == [s EXCEPT ![Len(s)] = x]
Running == frames # <<>>
NotEnded == [jit |-> None, interp |-> None]

Init ==
  /\ scene \in DOMAIN Scenes
  /\ frames = <<>>
  /\ ref = <<>>
  /\ cache = Untried
  /\ hot = 0
  /\ profile = NoProfile
  /\ plan = [own |-> 1, callees |-> 1]
  /\ globals = S.globals
  /\ used = 0
  /\ explicit = {}
  /\ calls = 0
  /\ ended = NotEnded

Start ==
  /\ ~Running
  /\ calls < MaxCalls
  /\ \E arguments \in S.args, n \in {m \in DOMAIN S.fns : S.fns[m].kind = "self"} :
       /\ frames' = <<NewFrame(arguments, n, 0)>>
       /\ ref' = <<NewRef(arguments, 0)>>
  /\ calls' = calls + 1
  /\ ended' = NotEnded
  /\ UNCHANGED <<scene, cache, hot, profile, plan, globals, used, explicit>>

(* The reference after it executed the current instruction, and the value  *)
(* with which a call ends.                                                 *)
RefStep(answer) == Interpret(RefTop, answer)
CallEnds(value, refvalue) ==
  /\ frames' = <<>>
  /\ ref' = <<>>
  /\ ended' = [jit |-> value, interp |-> refvalue]
RefError(f) == IF f.raise = 0 THEN None ELSE Raised(f.raise)

(* A deoptimization: the frame continues in the interpreter, and code that *)
(* is deoptimized too often is given up.                                   *)
AfterDeopt(entry) ==
  IF entry.deopts + 1 >= DeoptLimit THEN Unsupported ELSE [entry EXCEPT !.deopts = @ + 1]

(* The loop of run_until asks for native code at these points.             *)
Entering == Top.resume \/ (Top.pc = 1 /\ ~Top.attempted)
try_jit ==
  /\ Running
  /\ ~Top.native /\ ~Top.stepping
  /\ Entering
  /\ \E d \in {TierDecision(Top)},
        f \in {[Top EXCEPT !.resume = FALSE, !.attempted = @ \/ ~Top.resume]} :
     LET start == run_from(d.cache, f)
         failed == d.run /\ start.kind = "raise"
     IN /\ hot' = d.hot
        /\ used' = d.used
        /\ cache' = IF d.run /\ start.kind = "deopt" THEN AfterDeopt(d.cache) ELSE d.cache
        /\ frames' = IF failed THEN <<>> ELSE Replaced(frames, IF d.run THEN start.f ELSE f)
        /\ ref' = IF failed THEN <<>> ELSE ref
        /\ ended' = IF failed THEN [jit |-> start.value, interp |-> None] ELSE ended
  /\ UNCHANGED <<scene, profile, plan, globals, explicit, calls>>

(* After a side exit the interpreter executes one instruction, then native *)
(* code is asked for again.                                                *)
ResumedAtOnce(f) == [f EXCEPT !.resume = TRUE]
SideExit(f) == [f EXCEPT !.resume = TRUE, !.stepping = TRUE]

(* The reference executes the whole of an inlined call.                    *)
RefCalled(value) ==
  IF value.t = "raise" THEN [RefTop EXCEPT !.raise = value.n]
  ELSE [RefTop EXCEPT !.pc = @ + 1, !.regs[Code[RefTop.pc].a] = value]
RefAfter ==
  IF Code[Top.pc].op # "Call" THEN RefStep(None)
  ELSE RefCalled(Invoke(RefTop.regs[Code[RefTop.pc].b],
                        Arguments(Code[RefTop.pc], RefTop.regs), Len(frames), None))

(* One instruction of the native code.                                     *)
Native ==
  /\ Running
  /\ Top.native
  /\ \E answer \in PollAnswers : \E o \in {Lower(Top, answer)}, after \in {RefAfter} :
     LET back == [o.f EXCEPT !.native = FALSE, !.slots = Bound(<<>>, S.regs), !.poll = 0]
     IN \/ /\ o.kind = "next"
           /\ frames' = Replaced(frames, o.f)
           /\ ref' = Replaced(ref, after)
           /\ UNCHANGED <<cache, ended>>
        \/ /\ o.kind = "raise"
           /\ CallEnds(o.value, RefError(after))
           /\ UNCHANGED cache
        \/ /\ o.kind = "deopt"
           /\ frames' = Replaced(frames, back)
           /\ ref' = IF o.f.pc = Top.pc THEN ref ELSE Replaced(ref, after)
           /\ cache' = AfterDeopt(cache)
           /\ UNCHANGED ended
        \/ /\ o.kind = "exit"
           /\ frames' = Replaced(frames, SideExit(back))
           /\ UNCHANGED <<ref, cache, ended>>
        \/ /\ o.kind = "return"
           /\ frames' = Replaced(frames, back)
           /\ cache' = IF /\ cache.typed /\ ~cache.proven
                          /\ ~annotation_result_matches(cache.result, o.value)
                       THEN AfterDeopt(cache) ELSE cache
           /\ UNCHANGED <<ref, ended>>
  /\ UNCHANGED <<scene, hot, profile, plan, globals, used, explicit, calls>>

Interpreting ==
  /\ Running
  /\ ~Top.native
  /\ Top.stepping \/ ~Entering

(* jump counts the iterations of a loop that is not compiled.              *)
Backedge == \E t \in Targets(Code, Top.pc) : t <= Top.pc
Counts(after) == Backedge /\ after.pc <= Top.pc /\ cache.state = "untried"
Interpreted ==
  /\ Interpreting
  /\ Code[Top.pc].op \notin {"Call", "Return"}
  /\ \E answer \in IF Code[Top.pc].op = "LoadCell" THEN S.answers ELSE {None} :
     \E after \in {Interpret(Top, answer)}, refafter \in {RefStep(answer)} :
     LET hotness == IF Counts(after) THEN hot + 1 ELSE hot
     IN /\ hot' = hotness
        /\ IF after.raise # 0 THEN CallEnds(Raised(after.raise), RefError(refafter))
           ELSE /\ frames' = Replaced(frames,
                     [after EXCEPT !.stepping = FALSE,
                                   !.resume = @ \/ (Counts(after) /\ hotness >= OsrThreshold)])
                /\ ref' = Replaced(ref, refafter)
                /\ UNCHANGED ended
  /\ UNCHANGED <<scene, cache, profile, plan, globals, used, explicit, calls>>

CallValue(i, regs, depth, answer) ==
  IF \E r \in Operands(i) : regs[r] = Unbound THEN UnboundLocalError
  ELSE Invoke(regs[i.b], Arguments(i, regs), depth, answer)

(* A call that is over in one step.  Opaque code may change annotations.   *)
execute_call ==
  /\ Interpreting
  /\ Code[Top.pc].op = "Call"
  /\ LET i == Code[Top.pc]
         callee == Top.regs[i.b]
         arguments == Arguments(i, Top.regs)
         unbound == \E r \in Operands(i) : Top.regs[r] = Unbound
         self == callee.t = "fn" /\ S.fns[callee.n].kind = "self" /\ Len(arguments) = S.params
         opaque == callee.t = "fn" /\ S.fns[callee.n].kind \in {"builtin", "function"}
         continued == [Top EXCEPT !.pc = @ + 1, !.stepping = FALSE]
         refcontinued == [RefTop EXCEPT !.pc = @ + 1]
     IN \E answer \in IF opaque THEN S.answers ELSE {None},
           next \in IF opaque THEN S.plans ELSE {plan} :
        \E value \in {CallValue(i, Top.regs, Len(frames), answer)},
           refvalue \in {CallValue(i, RefTop.regs, Len(ref), answer)} :
           /\ profile' = IF unbound THEN profile
                         ELSE Profiled(profile, Top.pc, callee, arguments,
                                       direct_call_target(callee, i) /\ Len(frames) < MaxFrames,
                                       value.t = "raise")
           /\ plan' = IF next.own >= plan.own /\ next.callees >= plan.callees THEN next ELSE plan
           /\ \/ /\ value.t = "raise"
                 /\ CallEnds(value, refvalue)
              \/ /\ value.t # "raise" /\ self
                 /\ frames' = Append(Replaced(frames, continued), NewFrame(arguments, callee.n, i.a))
                 /\ ref' = Append(Replaced(ref, refcontinued),
                                  NewRef(Arguments(i, RefTop.regs), i.a))
                 /\ UNCHANGED ended
              \/ /\ value.t # "raise" /\ ~self
                 /\ frames' = Replaced(frames, [continued EXCEPT !.regs[i.a] = value])
                 /\ ref' = Replaced(ref,
                      IF refvalue.t = "raise" THEN [RefTop EXCEPT !.raise = refvalue.n]
                      ELSE [refcontinued EXCEPT !.regs[i.a] = refvalue])
                 /\ UNCHANGED ended
  /\ UNCHANGED <<scene, cache, hot, globals, used, explicit, calls>>

Return ==
  /\ Interpreting
  /\ Code[Top.pc].op = "Return"
  /\ LET a == Code[Top.pc].a
         v == Top.regs[a]
         w == RefTop.regs[Code[RefTop.pc].a]
         Resumed(s, f, x) == Replaced(Front(s), [s[Len(s) - 1] EXCEPT !.regs[f.dest] = x])
     IN IF v = Unbound THEN CallEnds(UnboundLocalError, IF w = Unbound THEN UnboundLocalError ELSE w)
        ELSE IF Len(frames) = 1 THEN CallEnds(v, w)
        ELSE /\ frames' = Resumed(frames, Top, v)
             /\ ref' = Resumed(ref, RefTop, w)
             /\ UNCHANGED ended
  /\ UNCHANGED <<scene, cache, hot, profile, plan, globals, used, explicit, calls>>

(* Between two calls the program may replace annotations, rebind a global  *)
(* or ask for the compilation of a function.                               *)
ChangeAnnotations ==
  /\ ~Running
  /\ \E next \in S.plans :
       /\ next.own >= plan.own /\ next.callees >= plan.callees /\ next # plan
       /\ plan' = next
  /\ UNCHANGED <<scene, frames, ref, cache, hot, profile, globals, used, explicit, calls, ended>>
store_global ==
  /\ ~Running
  /\ \E g \in S.rebinds :
       /\ globals[g.symbol] # g.value
       /\ globals' = [globals EXCEPT ![g.symbol] = g.value]
  /\ UNCHANGED <<scene, frames, ref, cache, hot, profile, plan, used, explicit, calls, ended>>

warmup_module_jit ==
  /\ ~Running
  /\ S.warm
  /\ \E n \in {m \in DOMAIN S.fns : S.fns[m].kind = "self"} :
     LET limit == IF used + WarmupCode < MaxCode THEN used + WarmupCode ELSE MaxCode
         compiles == cache.state = "untried" /\ Annotated(Signature) /\ validate_supported(Code)
         fits == used + Len(Code) <= limit
     IN /\ n \notin explicit
        /\ explicit' = explicit \cup {n}
        /\ cache' = IF ~compiles THEN cache
                    ELSE IF fits THEN CompiledTyped({}, n, jit_annotation_direct_calls)
                    ELSE Unsupported
        /\ used' = IF compiles /\ fits THEN used + Len(Code) ELSE used
  /\ UNCHANGED <<scene, frames, ref, hot, profile, plan, globals, calls, ended>>

(* The program does something else.                                        *)
Idle == ~Running /\ UNCHANGED vars

Machine == try_jit \/ Native \/ Interpreted \/ execute_call \/ Return
Next == Start \/ Machine \/ ChangeAnnotations \/ store_global \/ warmup_module_jit \/ Idle

(* The loop of run_until executes instruction after instruction: while a   *)
(* call runs, steps keep happening, and they are steps of Machine.  This   *)
(* is weak fairness of Machine without ENABLED; that Machine is enabled    *)
(* whenever a call runs is what the absence of deadlock shows.             *)
Fairness == []<>~Running \/ []<><<Running>>_vars
Spec == Init /\ [][Next]_vars /\ Fairness

(***************************************************************************)
(* Properties.                                                             *)
(***************************************************************************)
(* The registers that may be read before they are written, for every pc.   *)
RECURSIVE LiveFrom(_, _)
LiveFrom(code, live) ==
  LET Successors(pc) ==
        IF code[pc].op = "Return" THEN {}
        ELSE IF code[pc].op = "Jump" THEN {code[pc].a}
        ELSE (Targets(code, pc) \cup {pc + 1}) \cap DOMAIN code
      After(pc) == UNION {live[t] : t \in Successors(pc)}
      Before(pc) ==
        Operands(code[pc]) \cup
        {r \in After(pc) : ~(instruction_writes_a(code[pc]) /\ code[pc].a = r)}
      next == [pc \in DOMAIN code |-> Before(pc)] @@ live
  IN IF next = live THEN live ELSE LiveFrom(code, next)
Live == [s \in DOMAIN Scenes |->
           LiveFrom(Scenes[s].code, [pc \in DOMAIN Scenes[s].code |-> {}])]

(* Nobody can tell that the function was compiled: the machine is always   *)
(* at the instruction where the reference interpreter is, whenever the     *)
(* interpreter takes over after a deoptimization, a side exit or a return  *)
(* every register that can still be read holds the reference value, and    *)
(* every call ends with the same value or the same error.                  *)
CompiledAgrees ==
  /\ ended.jit = ended.interp
  /\ Len(frames) = Len(ref)
  /\ \A n \in DOMAIN frames :
       /\ ref[n].raise = 0
       /\ frames[n].pc = ref[n].pc
       /\ ~frames[n].native =>
            \A r \in Live[scene][frames[n].pc] : frames[n].regs[r] = ref[n].regs[r]

(* What the type analysis concluded for an instruction is true of the      *)
(* values when native code executes it, however it was entered, although   *)
(* the guards check facts at entries only: the code decodes such words     *)
(* without a check of their tags.  The map of unboxed floats is exact: a   *)
(* register that it names has its value in the stack slot, every other     *)
(* register that can still be read has it in the register file.            *)
FactsHold ==
  Running /\ Top.native =>
    \A r \in Live[scene][Top.pc] :
      /\ LET fact == FactAt(cache, Top.pc, r)
         IN HasFloat(fact) \/ annotation_parameter_matches(fact, RefTop.regs[r])
      /\ RefTop.regs[r] = IF r \in FloatsAt(cache, Top.pc) THEN Top.slots[r] ELSE Top.regs[r]

(* Code that was specialized for annotations runs only while those         *)
(* annotations, and the ones of the callees whose results it relies on,    *)
(* are in force, for the function object that they belong to.              *)
NoStaleSpecialization ==
  Running /\ Top.native /\ cache.typed =>
    /\ Top.fn = cache.function
    /\ cache.result = Signature.result
    /\ cache.facts = analyze_typed_scalar_execution(Code, S.regs, Signature, cache.env)
    /\ \A r \in cache.env.results \ S.advisory :
         CalleeSignature(AnnotatedCallee(r.pc)).result = r.result

(* A call ends: native code, side exits, deoptimizations and resumptions   *)
(* never hand the same instruction back and forth.                         *)
CallsEnd == Running ~> ~Running
=============================================================================
