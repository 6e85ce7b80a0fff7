-------------------------- MODULE TonicJitAnalysis --------------------------
(***************************************************************************)
(* What the native compiler works out about a function before it emits     *)
(* code: the scalar facts that hold before every instruction, the          *)
(* registers that are kept as unboxed floats, the facts that a branch      *)
(* adds, which returns are proven, and which code is supported at all.     *)
(*                                                                         *)
(* An instruction is a record: op, the operands a, b and c, the number n   *)
(* of arguments of a call, and the constant k.  Registers and program      *)
(* counters start at 1.  The first argument of a call is in register c.    *)
(* A fact is the set of the types that a register may have; the empty set  *)
(* is ScalarFact::Unknown, or ScalarType::Dynamic in a signature.          *)
(***************************************************************************)
EXTENDS Integers, Sequences, FiniteSets, SequencesExt, TLC

CONSTANTS
  MinInt, MaxInt  \* the integers that a tagged word holds

ASSUME IntegersAssumption == MinInt \in Int /\ MaxInt \in Int /\ MinInt < 0 /\ MaxInt > 1

(* Values.  An integer outside of MinInt .. MaxInt is an object of the     *)
(* heap, and so is every float.  Raised stands for an error.               *)
Val(t, n) == [t |-> t, n |-> n]
None == Val("none", 0)
Unbound == Val("unbound", 0)
Object == Val("obj", 0)
IntV(n) == Val("int", n)
FloatV(n) == Val("float", n)
BoolV(b) == Val("bool", IF b THEN 1 ELSE 0)
Raised(kind) == Val("raise", kind)
Numeric(v) == v.t \in {"int", "bool", "float"}

immediate_range(n) == n \in MinInt .. MaxInt
exact_int(v) == v.t = "int" /\ immediate_range(v.n)
exact_bool(v) == v.t = "bool"

Latest(S) == CHOOSE x \in S : \A y \in S : y <= x

(***************************************************************************)
(* ScalarFact.                                                             *)
(***************************************************************************)
Unknown == {}
Floating == {"float"}
is_integer_like(f) == f # Unknown /\ f \subseteq {"int", "bool"}
matches_signature(f, kind) == f # Unknown /\ f \subseteq kind
merge(f, g) ==
  IF f = g THEN f ELSE IF Unknown \in {f, g} THEN Unknown ELSE f \cup g
MergeStates(s, t) == [r \in DOMAIN s |-> merge(s[r], t[r])]

(* The values that an entry guard accepts for a fact, or a parameter for   *)
(* the type of its annotation.                                             *)
annotation_parameter_matches(kind, v) ==
  \/ kind = Unknown
  \/ "int" \in kind /\ exact_int(v)
  \/ "bool" \in kind /\ exact_bool(v)
  \/ "float" \in kind /\ v.t = "float"
  \/ "none" \in kind /\ v = None
annotation_result_matches(kind, v) == v.t \in kind

instruction_writes_a(i) ==
  i.op \notin {"Jump", "JumpFalse", "JumpTrue", "Return", "StoreCell"}
Arithmetic == {"Add", "Sub", "Mul"}
Comparisons == {"Eq", "Lt"}
Identities == {"Is", "IsNot"}
Branches == {"JumpFalse", "JumpTrue"}

Targets(code, pc) ==
  CASE code[pc].op = "Jump" -> {code[pc].a}
    [] code[pc].op \in Branches -> {code[pc].b}
    [] OTHER -> {}
has_backedge(code) == \E pc \in DOMAIN code : \E t \in Targets(code, pc) : t <= pc

typed_block_starts(code) ==
  {1} \cup UNION {Targets(code, pc) : pc \in DOMAIN code}
      \cup {pc + 1 : pc \in {q \in DOMAIN code : code[q].op \in Branches \cup {"Return"}}}
BlockStart(code, pc) == Latest({s \in typed_block_starts(code) : s <= pc})
WritersOf(code, first, before, r) == {q \in first .. before - 1 : code[q].a = r}

(* The registers that hold the same value as r at the instruction at: r,   *)
(* what it was moved from, and so on, within the block.                    *)
RECURSIVE Aliases(_, _, _, _, _, _)
Aliases(code, first, known, r, before, at) ==
  LET writers == WritersOf(code, first, before, r)
      w == Latest(writers)
  IN IF \/ writers = {}
        \/ code[w].op # "Move"
        \/ code[w].b \in known
        \/ WritersOf(code, w + 1, at, code[w].b) # {}
     THEN known
     ELSE Aliases(code, first, known \cup {code[w].b}, code[w].b, w, at)

Refined(state, registers, original, yes, no) ==
  LET same == {r \in registers : state[r] = original}
  IN [refined |-> TRUE, yes |-> [r \in same |-> yes] @@ state,
      no |-> [r \in same |-> no] @@ state]
Unrefined(state) == [refined |-> FALSE, yes |-> state, no |-> state]

(* A branch on "x is None", where x may be None and something else; the    *)
(* test is the instruction at.                                             *)
OptionalOperand(test, state) ==
  LET Optional(r, other) ==
        state[other] = {"none"} /\ "none" \in state[r] /\ state[r] # {"none"}
  IN IF Optional(test.b, test.c) THEN {test.b}
     ELSE IF Optional(test.c, test.b) THEN {test.c} ELSE {}
OptionalRefined(code, first, at, state, tested) ==
  Refined(state, Aliases(code, first, {tested}, tested, at, at), state[tested],
          IF code[at].op = "Is" THEN {"none"} ELSE state[tested] \ {"none"},
          IF code[at].op = "Is" THEN state[tested] \ {"none"} ELSE {"none"})
OptionalBranch(code, first, writers, state) ==
  IF writers = {} THEN Unrefined(state)
  ELSE LET at == Latest(writers)
           tested == IF code[at].op \in Identities THEN OptionalOperand(code[at], state) ELSE {}
       IN IF tested = {} THEN Unrefined(state)
          ELSE OptionalRefined(code, first, at, state, CHOOSE r \in tested : TRUE)
refine_optional_identity_branch(code, pc, condition, state) ==
  OptionalBranch(code, BlockStart(code, pc),
                 WritersOf(code, BlockStart(code, pc), pc, condition), state)

(* A branch on isinstance(x, T): what the two sides know of x.             *)
TestedTypes(kind) == IF kind = "int" THEN {"int", "bool"} ELSE {kind}
TestRefined(code, first, at, state, kind) ==
  LET x == code[at].c
      yes == state[x] \cap TestedTypes(kind)
      no == state[x] \ TestedTypes(kind)
  IN IF \/ Unknown \in {yes, no}
        \/ kind = "int" /\ state[x] \in {{"bool", "float"}, {"bool", "float", "none"}}
     THEN Unrefined(state)
     ELSE Refined(state, Aliases(code, first, {x}, x, at, at), state[x], yes, no)
TypeTestBranch(code, first, writers, state, tests) ==
  LET test == {t \in tests : writers # {} /\ t.pc = Latest(writers)}
  IN IF test = {} THEN Unrefined(state)
     ELSE TestRefined(code, first, Latest(writers), state, (CHOOSE t \in test : TRUE).kind)
refine_guarded_type_test_branch(code, pc, condition, state, tests) ==
  TypeTestBranch(code, BlockStart(code, pc),
                 {q \in WritersOf(code, BlockStart(code, pc), pc, condition) :
                    instruction_writes_a(code[q])}, state, tests)

(***************************************************************************)
(* The facts that an instruction leaves.  env holds what the runtime knows *)
(* of the function: direct calls, guarded results and guarded type tests.  *)
(***************************************************************************)
NoEnv == [direct |-> {}, results |-> {}, tests |-> {}]
ResultAt(env, pc) ==
  LET known == {r \in env.results : r.pc = pc} \cup {d \in env.direct : d.pc = pc}
  IN IF known = {} THEN Unknown ELSE (CHOOSE r \in known : TRUE).result
IsGuarded(env, pc) == \E r \in env.results : r.pc = pc

ConstantFact(k) ==
  IF exact_int(k) \/ k.t \in {"bool", "float", "none"} THEN {k.t} ELSE Unknown
TypedFact(code, pc, state, env) ==
  LET i == code[pc]
      l == state[i.b]
      r == state[i.c]
      integers == is_integer_like(l) /\ is_integer_like(r)
  IN CASE i.op = "Const" -> ConstantFact(i.k)
       [] i.op = "Move" -> IF IsGuarded(env, pc) THEN ResultAt(env, pc) ELSE l
       [] i.op \in Arithmetic \cup {"FloorDiv", "Mod"} ->
            IF integers THEN {"int"}
            ELSE IF i.op \in Arithmetic /\ l = Floating /\ r = Floating THEN Floating
            ELSE Unknown
       [] i.op = "Div" ->
            IF \A f \in {l, r} : is_integer_like(f) \/ f = Floating THEN Floating ELSE Unknown
       [] i.op = "Neg" ->
            IF is_integer_like(l) THEN {"int"} ELSE IF l = Floating THEN Floating ELSE Unknown
       [] i.op \in Comparisons -> IF Unknown \in {l, r} THEN Unknown ELSE {"bool"}
       [] i.op \in Identities \cup {"Not"} -> {"bool"}
       [] i.op = "Call" /\ (\E t \in env.tests : t.pc = pc) -> {"bool"}
       [] OTHER -> ResultAt(env, pc)
TypedAfter(code, pc, state, env) ==
  IF instruction_writes_a(code[pc])
  THEN (code[pc].a :> TypedFact(code, pc, state, env)) @@ state
  ELSE state

(* The successors of an instruction, in the order in which they are        *)
(* queued, each with its state.                                            *)
Following(code, pc, state) == IF pc + 1 \in DOMAIN code THEN << <<pc + 1, state>> >> ELSE <<>>
RefinedBranch(code, pc, state, env, optional) ==
  IF optional.refined THEN optional
  ELSE refine_guarded_type_test_branch(code, pc, code[pc].a, state, env.tests)
BranchSuccessors(code, pc, branch) ==
  IF code[pc].op = "JumpTrue" THEN << <<code[pc].b, branch.yes>> >> \o Following(code, pc, branch.no)
  ELSE << <<code[pc].b, branch.no>> >> \o Following(code, pc, branch.yes)
TypedSuccessors(code, pc, after, env) ==
  CASE code[pc].op = "Return" -> <<>>
    [] code[pc].op = "Jump" -> << <<code[pc].a, after>> >>
    [] code[pc].op \in Branches ->
         BranchSuccessors(code, pc,
           RefinedBranch(code, pc, after, env,
                         refine_optional_identity_branch(code, pc, code[pc].a, after)))
    [] OTHER -> Following(code, pc, after)

(* A work list of instructions: a successor is queued when its state is    *)
(* new or changes.                                                         *)
WorkList(before, queue) == [before |-> before, queue |-> queue]
Flow(flow, edges, Merge(_, _)) ==
  LET Joined(work, pc, state) ==
        IF pc \in DOMAIN work.before THEN Merge(work.before[pc], state) ELSE state
      Queue(work, pc, state) ==
        IF pc \in DOMAIN work.before /\ state = work.before[pc] THEN work
        ELSE WorkList((pc :> state) @@ work.before, Append(work.queue, pc))
      Propagate(work, edge) == Queue(work, edge[1], Joined(work, edge[1], edge[2]))
  IN FoldLeft(Propagate, WorkList(flow.before, Tail(flow.queue)), edges)

RECURSIVE TypedFlow(_, _, _)
TypedFlow(code, env, flow) ==
  LET pc == Head(flow.queue)
  IN IF flow.queue = <<>> THEN flow.before
     ELSE TypedFlow(code, env,
            Flow(flow, TypedSuccessors(code, pc, TypedAfter(code, pc, flow.before[pc], env), env),
                 MergeStates))

analyze_typed_scalar_execution(code, registers, signature, env) ==
  LET initial == signature.params @@ [r \in 1 .. registers |-> Unknown]
  IN TypedFlow(code, env, WorkList(1 :> initial, <<1>>))
return_proven(code, before, result) ==
  LET returns == {pc \in DOMAIN before : code[pc].op = "Return"}
  IN returns # {} /\ \A pc \in returns : matches_signature(before[pc][code[pc].a], result)
typed_return_is_proven(code, registers, signature) ==
  return_proven(code, analyze_typed_scalar_execution(code, registers, signature, NoEnv),
                signature.result)

(***************************************************************************)
(* The registers that are unboxed floats before every instruction.  A      *)
(* function without a map has the empty function.                          *)
(***************************************************************************)
NoMap == <<>>
FloatOperands(i) ==
  CASE i.op \in Arithmetic \cup Comparisons \cup Identities \cup {"FloorDiv", "Mod", "Div"} ->
         {i.b, i.c}
    [] i.op \in {"Neg", "Not"} -> {i.b}
    [] i.op \in Branches -> {i.a}
    [] OTHER -> {}
FloatResult(i, floats) ==
  CASE i.op = "Const" -> i.k.t = "float"
    [] i.op = "Move" -> i.b \in floats
    [] i.op \in Arithmetic -> {i.b, i.c} \subseteq floats
    [] OTHER -> FALSE
FloatFits(i, floats) ==
  /\ i.op \notin {"Call", "LoadCell", "StoreCell", "List"}
  /\ IF i.op \in Arithmetic THEN i.b \in floats <=> i.c \in floats
     ELSE FloatOperands(i) \cap floats = {}
FloatAfter(i, floats) ==
  IF ~instruction_writes_a(i) THEN floats
  ELSE IF FloatResult(i, floats) THEN floats \cup {i.a} ELSE floats \ {i.a}
FloatSuccessors(code, pc, floats) ==
  LET i == code[pc]
      after == FloatAfter(i, floats)
  IN CASE i.op = "Return" -> <<>>
       [] i.op = "Jump" -> << <<i.a, after>> >>
       [] i.op \in Branches -> << <<i.b, after>> >> \o Following(code, pc, after)
       [] OTHER -> Following(code, pc, after)
MergeFloats(s, t) == s \cap t

RECURSIVE FloatFlow(_, _, _)
FloatFlow(code, flow, worth) ==
  LET pc == Head(flow.queue)
      i == code[pc]
      floats == flow.before[pc]
  IN IF flow.queue = <<>> THEN IF worth THEN flow.before ELSE NoMap
     ELSE IF ~FloatFits(i, floats) THEN NoMap
     ELSE FloatFlow(code, Flow(flow, FloatSuccessors(code, pc, floats), MergeFloats),
                    worth \/ (i.op \in Arithmetic /\ i.b \in floats))

analyze_float_execution(code, exact_float_parameters) ==
  IF exact_float_parameters = {} THEN NoMap
  ELSE FloatFlow(code, WorkList(1 :> exact_float_parameters, <<1>>), FALSE)

(* With a signature that mentions floats, the map follows from the facts.  *)
TypedFloats(state) == {r \in DOMAIN state : state[r] = Floating}
TypedFloatSafe(i, floats) ==
  LET touched == (FloatOperands(i) \cap floats) # {}
  IN CASE i.op \in {"Const", "Move", "LoadGlobal", "Jump", "Return"} -> TRUE
       [] i.op \in Arithmetic -> {i.b, i.c} \subseteq floats \/ ~touched
       [] i.op \in Identities \cup Branches -> ~touched
       [] OTHER -> floats = {}
analyze_typed_float_execution(code, typed) ==
  LET before == [pc \in DOMAIN typed |-> TypedFloats(typed[pc])]
      EdgeSafe(pc, t) ==
        /\ before[pc] \subseteq before[t]
        /\ code[pc].op = "Jump" => before[t] \subseteq before[pc]
      Edges(pc) == IF code[pc].op \in Branches THEN Targets(code, pc) \cup {pc + 1}
                   ELSE Targets(code, pc)
  IN IF /\ \E pc \in DOMAIN before : before[pc] # {}
        /\ \A pc \in DOMAIN before :
             /\ TypedFloatSafe(code[pc], before[pc])
             /\ \A t \in Edges(pc) \cap DOMAIN before : EdgeSafe(pc, t)
     THEN before ELSE NoMap

(***************************************************************************)
(* Which code is compiled, and which is copied into its caller.            *)
(***************************************************************************)
Supported == Arithmetic \cup Comparisons \cup Identities \cup Branches \cup
  {"Const", "Move", "LoadGlobal", "LoadCell", "StoreCell", "Div", "FloorDiv", "Mod", "Neg", "Not",
   "Jump", "Call", "Return"}
validate_supported(code) ==
  \A pc \in DOMAIN code :
    /\ code[pc].op \in Supported
    /\ code[pc].op \notin {"Jump", "Return"} => pc + 1 \in DOMAIN code

StraightLine(code) ==
  LET returns == {pc \in DOMAIN code : code[pc].op = "Return"}
  IN IF returns = {} THEN <<>> ELSE SubSeq(code, 1, CHOOSE pc \in returns : \A q \in returns : pc <= q)
is_direct_call_inlineable(code) ==
  /\ StraightLine(code) # <<>>
  /\ \A pc \in DOMAIN StraightLine(code) :
       LET i == code[pc] IN
       /\ i.op \in Arithmetic \cup {"Move", "Const", "Return"}
       /\ i.op = "Const" => ConstantFact(i.k) \notin {Unknown, Floating}

(* Every operand is a parameter or a float computed before.                *)
is_direct_float_leaf_inlineable(code, params) ==
  LET body == StraightLine(code)
      Floats(pc) == 1 .. params \cup {body[q].a : q \in 1 .. pc - 1}
  IN /\ body # <<>>
     /\ \A pc \in DOMAIN body :
          LET i == body[pc] IN
          CASE i.op = "Move" -> i.b \in Floats(pc)
            [] i.op \in Arithmetic -> {i.b, i.c} \subseteq Floats(pc)
            [] i.op = "Return" -> i.a \in Floats(pc)
            [] OTHER -> FALSE
=============================================================================
