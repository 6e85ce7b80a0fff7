------------------------ MODULE TonicUnwindingProofs ------------------------
(***************************************************************************)
(* Proofs about TonicUnwinding, for any numbers of generators, awaitables, *)
(* modules and frames and for programs of any kind: what runs is on the    *)
(* stack, no import is left half done, a continuation belongs to its       *)
(* caller's instruction, unwinding ends, and it skips no handler.          *)
(*                                                                         *)
(* The argument: every instruction makes one Move of the stack (none, a    *)
(* push, a pop, a failure of the active frame), and every step of          *)
(* dispatch_exception that does not convert the exception Cuts the stack   *)
(* at a frame k.  The two shapes keep each part of the invariant.  The     *)
(* awaitables need one more fact: the drivers of generators are only       *)
(* HandedOver, from one that ends to one that begins.                      *)
(***************************************************************************)
EXTENDS TonicUnwinding, FiniteSetTheorems, SequenceTheorems, WellFoundedInduction, TLAPS

-----------------------------------------------------------------------------
(* Types.                                                                  *)

Kinds ==
  Plain \cup Protocols \cup {"YieldFrom", "YieldFromClose", "Import", "AsyncGeneratorDrive"}

Delegates == Generators \cup Awaitables \cup {"object", None}

Actions ==
  [kind : Kinds, ref : Modules \cup Awaitables \cup {None}, closing : BOOLEAN,
   completion : Completions \cup {None}, iterator : Delegates]

Ops == {"none", "Call", "Next", "Import", "YieldFrom", "Resumed", "Item"}

Frames ==
  [code : Codes, at : Places, op : Ops, action : Actions, gen : Generators \cup {None},
   delegate : Delegates, injected : Exceptions \cup {None}, strayed : BOOLEAN]

GeneratorObjects ==
  [state : {"free", "Created", "Running", "Suspended", "Completed"}, at : Sites,
   delegate : Delegates, driver : Awaitables \cup {None}]

AwaitableObjects ==
  {x \in [state : {"free", "Created", "Running", "Completed"}, gen : Generators \cup {None},
          op : {None, "send", "throw", "close"}] :
     x.state \in {"Created", "Running"} => x.gen \in Generators}

ModuleObjects == [state : {"Uninitialized", "Initializing", "Loaded"}, dirty : BOOLEAN]

TypeOK ==
  /\ frames \in Seq(Frames)
  /\ bases \in Seq(Nat) /\ Len(bases) > 0
  /\ gens \in [Generators -> GeneratorObjects]
  /\ awaits \in [Awaitables -> AwaitableObjects]
  /\ modules \in [Modules -> ModuleObjects]
  /\ raised \in Errors \cup {None}
  /\ uses \in Programs
  /\ abandoned \subseteq Modules

-----------------------------------------------------------------------------
(* What a step leaves of the stack: its first k frames, of which only the   *)
(* last one may have moved on.  An Op::Next that fails may also replace the *)
(* continuation of that frame.                                              *)

Alike(f, h) ==
  /\ h.code = f.code /\ h.gen = f.gen /\ h.strayed = f.strayed
  /\ \/ h.action = f.action
     \/ /\ Replaced
        /\ \/ /\ f.action.kind = "AsyncGeneratorDrive" /\ h.action.kind = "AsyncGeneratorDrive"
              /\ h.action.ref = f.action.ref /\ h.action.completion # None
           \/ f.action.kind # "AsyncGeneratorDrive" /\ h.action.kind = "YieldFrom"

Keeps(fs, hs, k) ==
  /\ k \in 0 .. Len(fs) /\ hs \in Seq(Frames) /\ k <= Len(hs)
  /\ \A i \in 1 .. k : Alike(fs[i], hs[i])
  /\ \A i \in 1 .. k : i < k => hs[i] = fs[i]

LEMMA FrameFields ==
  ASSUME NEW f \in Frames
  PROVE  /\ f.code \in Codes /\ f.at \in Places /\ f.op \in Ops /\ f.action \in Actions
         /\ f.gen \in Generators \cup {None} /\ f.delegate \in Delegates
         /\ f.injected \in Exceptions \cup {None} /\ f.strayed \in BOOLEAN
BY DEF Frames

LEMMA ActionFields ==
  ASSUME NEW c \in Actions
  PROVE  /\ c.kind \in Kinds /\ c.ref \in Modules \cup Awaitables \cup {None}
         /\ c.closing \in BOOLEAN /\ c.completion \in Completions \cup {None}
         /\ c.iterator \in Delegates
BY DEF Actions

LEMMA LenOf ==
  ASSUME NEW fs \in Seq(Frames)
  PROVE  /\ Len(fs) \in Nat /\ DOMAIN fs = 1 .. Len(fs)
         /\ \A i \in 1 .. Len(fs) : fs[i] \in Frames
         /\ fs = << >> <=> Len(fs) = 0
         /\ Keeps(fs, fs, Len(fs))
<1>1. /\ Len(fs) \in Nat /\ DOMAIN fs = 1 .. Len(fs)
      /\ \A i \in 1 .. Len(fs) : fs[i] \in Frames
  BY LenProperties, ElementOfSeq
<1>2. fs = << >> <=> Len(fs) = 0
  BY <1>1, EmptySeq
<1> QED
  BY <1>1, <1>2 DEF Keeps, Alike

LEMMA LastKeeps ==
  ASSUME NEW fs \in Seq(Frames), NEW n \in Nat, n = Len(fs), n # 0,
         NEW hs \in Seq(Frames), Len(hs) = n,
         \A i \in 1 .. n : i # n => hs[i] = fs[i], Alike(fs[n], hs[n])
  PROVE  Keeps(fs, hs, n)
<1>1. \A i \in 1 .. n : Alike(fs[i], hs[i])
  BY DEF Alike
<1> QED
  BY <1>1 DEF Keeps

\* Only the last frame is another.
LEMMA LastReplaced ==
  ASSUME NEW fs \in Seq(Frames), fs # << >>, NEW x \in Frames, Alike(Last(fs), x)
  PROVE  /\ [fs EXCEPT ![Len(fs)] = x] \in Seq(Frames)
         /\ Len([fs EXCEPT ![Len(fs)] = x]) = Len(fs)
         /\ [fs EXCEPT ![Len(fs)] = x] # << >>
         /\ Last([fs EXCEPT ![Len(fs)] = x]) = x
         /\ Keeps(fs, [fs EXCEPT ![Len(fs)] = x], Len(fs))
<1>1. PICK n \in Nat : n = Len(fs) /\ n # 0
  BY LenOf
<1>2. PICK hs : hs = [fs EXCEPT ![Len(fs)] = x]
  OBVIOUS
<1>3. /\ hs \in Seq(Frames) /\ Len(hs) = Len(fs)
      /\ \A i \in 1 .. Len(fs) : hs[i] = IF i = Len(fs) THEN x ELSE fs[i]
  <2>1. Len(fs) \in 1 .. Len(fs)
    BY <1>1
  <2> QED
    BY <1>2, <2>1, ExceptSeq
<1> HIDE <1>2
<1>4. hs[n] = x /\ Len(hs) = n /\ hs \in Seq(Frames)
      /\ \A i \in 1 .. n : i # n => hs[i] = fs[i]
  BY <1>1, <1>3
<1>5. Keeps(fs, hs, n) /\ hs # << >> /\ Last(hs) = x
  BY <1>1, <1>4, LastKeeps, LenOf DEF Last
<1> QED
  BY <1>1, <1>2, <1>4, <1>5

LEMMA ExecutingKeeps ==
  ASSUME frames \in Seq(Frames), frames # << >>, NEW op \in Ops, NEW at \in Sites
  PROVE  /\ Executing(op, at) \in Seq(Frames) /\ Len(Executing(op, at)) = Len(frames)
         /\ Executing(op, at) # << >>
         /\ Keeps(frames, Executing(op, at), Len(frames))
         /\ Last(Executing(op, at)).op = op /\ Last(Executing(op, at)).at = at
         /\ Last(Executing(op, at)).action = Top.action
         /\ Last(Executing(op, at)).gen = Top.gen /\ Last(Executing(op, at)).code = Top.code
<1>1. Len(frames) \in Nat \ {0} /\ Len(frames) \in DOMAIN frames /\ Top \in Frames
  BY LenOf DEF Top, Last
<1>2. PICK x : x = [Top EXCEPT !.op = op, !.at = at]
  OBVIOUS
<1>3. /\ x \in Frames /\ Alike(Top, x) /\ x.op = op /\ x.at = at
      /\ x.action = Top.action /\ x.gen = Top.gen /\ x.code = Top.code
  BY <1>1, <1>2 DEF Frames, Alike, Places
<1>4. Executing(op, at) = [frames EXCEPT ![Len(frames)] = x]
  BY <1>1, <1>2 DEF Executing, Top, Last
<1> QED
  BY <1>3, <1>4, LastReplaced DEF Top

LEMMA AlikeTrans ==
  ASSUME NEW f, NEW g, NEW h, Alike(f, g), Alike(g, h)
  PROVE  Alike(f, h)
BY DEF Alike

LEMMA KeepsTrans ==
  ASSUME NEW fs, NEW gs, NEW hs, NEW k \in Nat, Keeps(fs, gs, k), Len(gs) = k, Keeps(gs, hs, k)
  PROVE  Keeps(fs, hs, k)
<1>1. \A i \in 1 .. k : Alike(fs[i], hs[i])
  BY AlikeTrans DEF Keeps
<1>2. \A i \in 1 .. k : i < k => hs[i] = fs[i]
  BY DEF Keeps
<1> QED
  BY <1>1, <1>2 DEF Keeps

LEMMA PushKeeps ==
  ASSUME NEW fs, NEW gs, NEW k \in Nat, Keeps(fs, gs, k), Len(gs) = k, NEW f \in Frames
  PROVE  /\ Append(gs, f) \in Seq(Frames) /\ Len(Append(gs, f)) = k + 1
         /\ Keeps(fs, Append(gs, f), k)
         /\ Append(gs, f)[k + 1] = f /\ Last(Append(gs, f)) = f
         /\ \A i \in 1 .. k : Append(gs, f)[i] = gs[i]
<1>1. gs \in Seq(Frames)
  BY DEF Keeps
<1>2. PICK hs : hs = Append(gs, f)
  OBVIOUS
<1>3. /\ hs \in Seq(Frames) /\ Len(hs) = k + 1 /\ hs[k + 1] = f
      /\ \A i \in 1 .. k : hs[i] = gs[i]
  BY <1>1, <1>2, AppendProperties
<1> HIDE <1>2
<1>4. Keeps(fs, hs, k)
  BY <1>3 DEF Keeps
<1>5. Last(hs) = f
  BY <1>3 DEF Last
<1> QED
  BY <1>2, <1>3, <1>4, <1>5

LEMMA CutKeeps ==
  ASSUME NEW fs \in Seq(Frames), NEW k \in 0 .. Len(fs)
  PROVE  /\ SubSeq(fs, 1, k) \in Seq(Frames) /\ Len(SubSeq(fs, 1, k)) = k
         /\ Keeps(fs, SubSeq(fs, 1, k), k)
         /\ \A i \in 1 .. k : SubSeq(fs, 1, k)[i] = fs[i]
<1>1. PICK n \in Nat : n = Len(fs)
  BY LenOf
<1>2. k \in 0 .. n /\ \A i \in 1 .. k : i \in 1 .. n /\ fs[i] \in Frames
  BY <1>1, LenOf
<1>3. PICK hs : hs = SubSeq(fs, 1, k)
  OBVIOUS
<1>4. /\ hs \in Seq(Frames) /\ Len(hs) = IF 1 <= k THEN k - 1 + 1 ELSE 0
      /\ \A i \in 1 .. k - 1 + 1 : hs[i] = fs[1 + i - 1]
  BY <1>2, <1>3, SubSeqProperties
<1> HIDE <1>3
<1>5. /\ hs \in Seq(Frames) /\ Len(hs) = k
      /\ \A i \in 1 .. k : hs[i] = fs[i]
  BY <1>2, <1>4
<1>6. Keeps(fs, hs, k)
  BY <1>1, <1>2, <1>5 DEF Keeps, Alike
<1> QED
  BY <1>3, <1>5, <1>6

LEMMA BelowKeeps ==
  ASSUME NEW fs \in Seq(Frames), fs # << >>
  PROVE  /\ Below(fs) \in Seq(Frames) /\ Len(Below(fs)) = Len(fs) - 1 /\ Len(fs) - 1 \in Nat
         /\ Keeps(fs, Below(fs), Len(fs) - 1)
         /\ \A i \in 1 .. Len(fs) - 1 : Below(fs)[i] = fs[i]
<1>1. PICK k : k = Len(fs) - 1
  OBVIOUS
<1>2. k \in 0 .. Len(fs) /\ k \in Nat
  BY <1>1, LenOf
<1>3. Below(fs) = SubSeq(fs, 1, k)
  BY <1>1 DEF Below
<1>4. /\ Below(fs) \in Seq(Frames) /\ Len(Below(fs)) = k /\ Keeps(fs, Below(fs), k)
      /\ \A i \in 1 .. k : Below(fs)[i] = fs[i]
  BY <1>2, <1>3, CutKeeps
<1> QED
  BY <1>1, <1>2, <1>4

LEMMA DoneKeeps ==
  ASSUME NEW fs \in Seq(Frames)
  PROVE  /\ Done(fs) \in Seq(Frames) /\ Len(Done(fs)) = Len(fs)
         /\ Keeps(fs, Done(fs), Len(fs))
         /\ fs # << >> => Last(Done(fs)).at = "plain"
<1>1. CASE fs = << >>
  BY <1>1, LenOf DEF Done
<1>2. CASE fs # << >>
  <2>1. Len(fs) \in Nat \ {0} /\ Len(fs) \in DOMAIN fs /\ Last(fs) \in Frames
    BY <1>2, LenOf DEF Last
  <2>2. PICK x : x = [Last(fs) EXCEPT !.op = "none", !.at = "plain"]
    OBVIOUS
  <2>3. x \in Frames /\ Alike(Last(fs), x) /\ x.at = "plain"
    BY <2>1, <2>2 DEF Frames, Alike, Places, Sites, Ops
  <2>4. Done(fs) = [fs EXCEPT ![Len(fs)] = x]
    BY <1>2, <2>1, <2>2 DEF Done, Last
  <2> QED
    BY <1>2, <2>3, <2>4, LastReplaced
<1> QED
  BY <1>1, <1>2

LEMMA ItemKeeps ==
  ASSUME NEW fs \in Seq(Frames), NEW d \in Delegates
  PROVE  /\ WithItem(fs, d) \in Seq(Frames) /\ Len(WithItem(fs, d)) = Len(fs)
         /\ Keeps(fs, WithItem(fs, d), Len(fs))
         /\ fs # << >> => Last(WithItem(fs, d)).at = Last(fs).at
<1>1. CASE fs = << >>
  <2>1. Len(fs) = 0 /\ DOMAIN fs = {}
    BY <1>1, LenOf
  <2>2. WithItem(fs, d) = fs
    BY <1>1, <2>1 DEF WithItem
  <2> QED
    BY <1>1, <2>2, LenOf
<1>2. CASE fs # << >>
  <2>1. Len(fs) \in Nat \ {0} /\ Len(fs) \in DOMAIN fs /\ Last(fs) \in Frames
    BY <1>2, LenOf DEF Last
  <2>2. PICK x : x = [Last(fs) EXCEPT !.delegate = d, !.op = "Item"]
    OBVIOUS
  <2>3. x \in Frames /\ Alike(Last(fs), x) /\ x.at = Last(fs).at
    BY <2>1, <2>2 DEF Frames, Alike, Ops
  <2>4. PICK gs : gs = [fs EXCEPT ![Len(fs)] = x]
    OBVIOUS
  <2>5. WithItem(fs, d) = gs
    BY <2>1, <2>2, <2>4 DEF WithItem, Last
  <2>6. /\ gs \in Seq(Frames) /\ Len(gs) = Len(fs)
        /\ Keeps(fs, gs, Len(fs)) /\ Last(gs) = x
    BY <1>2, <2>3, <2>4, LastReplaced
  <2> QED
    BY <2>3, <2>5, <2>6
<1> QED
  BY <1>1, <1>2

LEMMA FreedKeeps ==
  ASSUME NEW fs \in Seq(Frames), NEW n, n = Len(fs)
  PROVE  /\ [fs EXCEPT ![n].delegate = None] \in Seq(Frames)
         /\ Len([fs EXCEPT ![n].delegate = None]) = Len(fs)
         /\ Keeps(fs, [fs EXCEPT ![n].delegate = None], Len(fs))
<1>1. CASE fs = << >>
  <2>1. Len(fs) = 0 /\ DOMAIN fs = {}
    BY <1>1, LenOf
  <2>2. [fs EXCEPT ![n].delegate = None] = fs
    BY <1>1, <2>1
  <2> QED
    BY <1>1, <2>2, LenOf
<1>2. CASE fs # << >>
  <2>1. Len(fs) \in Nat \ {0} /\ Len(fs) \in DOMAIN fs /\ Last(fs) \in Frames
    BY <1>2, LenOf DEF Last
  <2>2. PICK x : x = [Last(fs) EXCEPT !.delegate = None]
    OBVIOUS
  <2>3. x \in Frames /\ Alike(Last(fs), x)
    BY <2>1, <2>2 DEF Frames, Alike, Delegates
  <2>4. [fs EXCEPT ![n].delegate = None] = [fs EXCEPT ![Len(fs)] = x]
    BY <2>1, <2>2 DEF Last
  <2> QED
    BY <1>2, <2>3, <2>4, LastReplaced, ZenonT(30)
<1> QED
  BY <1>1, <1>2

LEMMA YieldFromFramesKeeps ==
  ASSUME frames \in Seq(Frames), frames # << >>, NEW at \in Sites
  PROVE  /\ YieldFromFrames(at) \in Seq(Frames) /\ Len(YieldFromFrames(at)) = Len(frames)
         /\ YieldFromFrames(at) # << >>
         /\ Keeps(frames, YieldFromFrames(at), Len(frames))
         /\ Last(YieldFromFrames(at)).op = "YieldFrom" /\ Last(YieldFromFrames(at)).at = at
         /\ Last(YieldFromFrames(at)).code = Top.code
<1>1. Len(frames) \in Nat \ {0} /\ Len(frames) \in DOMAIN frames /\ Top \in Frames
  BY LenOf DEF Top, Last
<1>2. PICK x : x = [Top EXCEPT !.op = "YieldFrom", !.at = at, !.delegate = None, !.injected = None]
  OBVIOUS
<1>3. x \in Frames /\ Alike(Top, x) /\ x.op = "YieldFrom" /\ x.at = at /\ x.code = Top.code
  BY <1>1, <1>2 DEF Frames, Alike, Places, Delegates, Ops
<1>4. YieldFromFrames(at) = [frames EXCEPT ![Len(frames)] = x]
  <2>1. Executing("YieldFrom", at) =
          [frames EXCEPT ![Len(frames)] = [Top EXCEPT !.op = "YieldFrom", !.at = at]]
    BY <1>1 DEF Executing, Top, Last
  <2>2. PICK y : y = [Top EXCEPT !.op = "YieldFrom", !.at = at]
    OBVIOUS
  <2>3. x = [y EXCEPT !.delegate = None, !.injected = None]
    BY <1>2, <2>2
  <2>4. YieldFromFrames(at) =
          [[frames EXCEPT ![Len(frames)] = y] EXCEPT
             ![Len(frames)].delegate = None, ![Len(frames)].injected = None]
    BY <2>1, <2>2 DEF YieldFromFrames
  <2> HIDE <1>2
  <2> QED
    BY <1>1, <2>3, <2>4
<1> QED
  BY <1>3, <1>4, LastReplaced DEF Top

-----------------------------------------------------------------------------
(* The inductive invariant.                                                *)

Linked(f) ==
  /\ f.action.kind = "Import" => f.action.ref \in Modules
  /\ f.action.kind = "AsyncGeneratorDrive" =>
       f.action.ref \in Awaitables /\ f.action.completion \in Completions

LinksOK == \A i \in 1 .. Len(frames) : Linked(frames[i])

\* The continuations of the frames that native code pushes.
Entries == {"Value", "Close", "YieldFrom"}

\* The depths of the native callers grow, and an exception in flight has frames
\* above the innermost of them.
BasesOK ==
  /\ \A i \in 1 .. Len(bases) : bases[i] <= Len(frames)
  /\ \A i, j \in 1 .. Len(bases) : i < j => bases[i] < bases[j]
  /\ raised # None => Base < Len(frames)
  /\ \A i \in 1 .. Len(bases) :
       bases[i] < Len(frames) => frames[bases[i] + 1].action.kind \in Entries

OneFrame ==
  \A i, j \in 1 .. Len(frames) :
    (frames[i].gen # None /\ frames[i].gen = frames[j].gen) => i = j

RunningHasFrame ==
  \A g \in Generators :
    gens[g].state = "Running" => \E i \in 1 .. Len(frames) : frames[i].gen = g

\* The frame of a completed generator is the one that has raised the exception,
\* or no frame from it upwards can stop the exception any more.
Unwound(i) ==
  /\ raised # None /\ Base < i
  /\ \/ i = Len(frames)
     \/ raised.exc = "Other" /\ \A j \in i .. Len(frames) : ~InRegion(j)

FramesRun ==
  \A i \in 1 .. Len(frames) :
    frames[i].gen # None =>
      \/ gens[frames[i].gen].state = "Running"
      \/ gens[frames[i].gen].state = "Completed" /\ Unwound(i)

AsyncDriven ==
  \A i \in 1 .. Len(frames) :
    (frames[i].gen # None /\ KindOf[frames[i].gen] = "async") =>
      \/ frames[i].action.kind = "AsyncGeneratorDrive"
      \/ frames[i].action.kind = "Close" /\ "finalizers" \in uses

DriversSet ==
  \A a \in Awaitables :
    awaits[a].state = "Running" =>
      gens[awaits[a].gen].state = "Completed" \/ gens[awaits[a].gen].driver = a

OneDriver ==
  \A a, b \in Awaitables :
    (awaits[a].state = "Running" /\ awaits[b].state = "Running" /\ awaits[a].gen = awaits[b].gen)
      => a = b

GeneratorsOK == OneFrame /\ RunningHasFrame /\ FramesRun /\ AsyncDriven

ImportsOK ==
  /\ \A i \in 1 .. Len(frames) :
       frames[i].action.kind = "Import" => modules[frames[i].action.ref].state = "Initializing"
  /\ \A i, j \in 1 .. Len(frames) :
       (frames[i].action.kind = "Import" /\ frames[j].action.kind = "Import" /\
        frames[i].action.ref = frames[j].action.ref) => i = j
  /\ \A m \in Modules : modules[m].state = "Uninitialized" => ~modules[m].dirty
  /\ (~CutOff /\ ~Replaced) =>
       \A m \in Modules :
         modules[m].state = "Initializing" =>
           \/ m \in abandoned
           \/ \E i \in 1 .. Len(frames) :
                frames[i].action.kind = "Import" /\ frames[i].action.ref = m

\* The continuation f belongs to an instruction op of its caller.
Continues(f, op) ==
  /\ f.action.kind = "IteratorNext" => op = "Next"
  /\ f.action.kind \in {"YieldFrom", "YieldFromClose"} => op = "YieldFrom"
  /\ f.action.kind = "Import" => op = "Import"
  /\ ~f.strayed

NothingMistaken == uses \cap {"failing_next", "athrow_stop"} = {}

ContinuationsOK ==
  NothingMistaken => \A i \in 2 .. Len(frames) : Continues(frames[i], frames[i - 1].op)

\* Every generator function, function and module has code of its own.
CodesDistinct ==
  /\ \A g, h \in Generators : CodeOf[g] = CodeOf[h] => g = h
  /\ \A g \in Generators : CodeOf[g] \notin Functions \cup Modules \cup {"main"}
  /\ Functions \cap Modules = {} /\ "main" \notin Functions \cup Modules

\* Without recursion every frame has a code of its own.
CodesApart ==
  /\ \A i, j \in 1 .. Len(frames) : frames[i].code = frames[j].code => i = j
  /\ \A i \in 1 .. Len(frames) :
       /\ frames[i].gen # None => frames[i].code = CodeOf[frames[i].gen]
       /\ frames[i].gen = None => frames[i].code \in Functions \cup Modules \cup {"main"}
       /\ frames[i].code \in Modules => modules[frames[i].code].state # "Uninitialized"
       /\ frames[i].action.kind = "Import" => frames[i].action.ref = frames[i].code

\* An exception blames the instruction that its frame is at.
FaultPlaced ==
  (raised # None /\ Top.code = raised.code) => Top.at = raised.at

DirectCuts == (raised # None /\ raised.direct) => CutOff

\* The conditions under which the parts hold are conditions on the program.
IInv ==
  /\ TypeOK /\ LinksOK /\ BasesOK /\ ContinuationsOK /\ ImportsOK /\ DirectCuts
  /\ Accounted => GeneratorsOK /\ DriversSet /\ OneDriver
  /\ (Accounted /\ CodesDistinct /\ "recursion" \notin uses) => CodesApart /\ FaultPlaced

-----------------------------------------------------------------------------
(* What an instruction does to the stack, the generators and the modules:   *)
(* every one of them makes one of these moves.                              *)

SameStates == \A g \in Generators : gens'[g].state = gens[g].state
OtherStates(g) == \A h \in Generators : h # g => gens'[h].state = gens[h].state

\* The exception is one of the instruction of the active frame.
Blames ==
  raised' # None =>
    /\ raised'.code = Top.code /\ ~raised'.direct
    /\ Len(frames') = Len(frames) => Last(frames').at = raised'.at

\* The active frame goes on, or fails.
Stays ==
  /\ Keeps(frames, frames', Len(frames)) /\ Len(frames') = Len(frames)
  /\ Blames
  /\ bases' = bases
  /\ \A g \in Generators :
       gens'[g].state = gens[g].state \/ (gens[g].state # "Running" /\ gens'[g].state # "Running")
  /\ modules' = modules

\* A module that is being imported binds a name.
Binds ==
  /\ frames' = frames /\ raised' = None /\ bases' = bases
  /\ SameStates
  /\ Top.action.kind = "Import"
  /\ modules' = [modules EXCEPT ![Top.action.ref].dirty = TRUE]

\* The generator of the active frame ends with an exception.
Fails ==
  /\ Keeps(frames, frames', Len(frames)) /\ Len(frames') = Len(frames)
  /\ raised' # None /\ Blames
  /\ bases' = bases
  /\ Top.gen # None /\ gens'[Top.gen].state = "Completed" /\ OtherStates(Top.gen)
  /\ modules' = modules

\* An async generator that nothing drives fails to yield.
Strands ==
  /\ Keeps(frames, frames', Len(frames)) /\ Len(frames') = Len(frames)
  /\ raised' # None /\ Blames
  /\ bases' = bases
  /\ Top.gen # None /\ KindOf[Top.gen] = "async"
  /\ Top.action.kind \notin {"AsyncGeneratorDrive", "Close"}
  /\ modules' = modules

Pushes(f) ==
  /\ f \in Frames /\ Linked(f)
  /\ Keeps(frames, frames', Len(frames)) /\ Len(frames') = Len(frames) + 1
  /\ frames'[Len(frames) + 1] = f
  /\ NothingMistaken => Continues(f, frames'[Len(frames)].op)
  /\ \/ bases' = bases
     \/ bases' = Append(bases, Len(frames)) /\ f.action.kind \in Entries

\* A function is called, or the body of a module.
Calls(f) ==
  /\ Pushes(f) /\ f.gen = None /\ raised' = None
  /\ SameStates
  /\ \/ /\ f.code \in Functions /\ ("recursion" \in uses \/ ~OnStack(f.code))
        /\ f.action.kind # "Import"
        /\ modules' = modules
     \/ /\ f.code \in Modules /\ modules[f.code].state = "Uninitialized"
        /\ f.action.kind = "Import" /\ f.action.ref = f.code
        /\ modules' = [modules EXCEPT ![f.code].state = "Initializing"]

\* A generator is resumed, with an exception or without one.
Enters(g, f) ==
  /\ Pushes(f) /\ f.gen = g /\ f.code = CodeOf[g]
  /\ gens[g].state \notin {"Running", "Completed"} /\ gens'[g].state = "Running"
  /\ OtherStates(g)
  /\ f.action.kind # "Import"
  /\ KindOf[g] = "async" =>
       \/ f.action.kind = "AsyncGeneratorDrive"
       \/ f.action.kind = "Close" /\ "finalizers" \in uses
  /\ \/ Blames
     \/ raised'.code = f.code /\ raised'.at = f.at /\ ~raised'.direct
  /\ modules' = modules

\* The active frame is left.
Leaves ==
  /\ Keeps(frames, frames', Len(frames) - 1) /\ Len(frames') = Len(frames) - 1
  /\ Blames
  /\ raised' # None => Top.action.kind \notin Entries
  /\ bases' = bases
  /\ \/ Top.gen = None /\ SameStates
     \/ Top.gen # None /\ gens'[Top.gen].state # "Running" /\ OtherStates(Top.gen)
  /\ \/ Top.action.kind # "Import" /\ modules' = modules
     \/ /\ Top.action.kind = "Import"
        /\ modules' = [modules EXCEPT ![Top.action.ref].state = "Loaded"]

Move ==
  /\ raised = None /\ Base < Len(frames)
  /\ uses' = uses /\ abandoned' = abandoned
  /\ \/ Stays \/ Binds \/ Fails \/ Strands \/ Leaves
     \/ \E f \in Frames : Calls(f)
     \/ \E g \in Generators, f \in Frames : Enters(g, f)

LEMMA ErrorFields ==
  ASSUME NEW exc \in Exceptions, NEW code \in Codes, NEW at \in Places
  PROVE  /\ Error(exc, code, at) \in Errors /\ Error(exc, code, at) # None
         /\ Error(exc, code, at).exc = exc /\ Error(exc, code, at).code = code
         /\ Error(exc, code, at).at = at /\ ~ Error(exc, code, at).direct
<1>1. Error(exc, code, at) \in Errors
  BY DEF Error, Errors
<1>2. None \notin Errors
  BY UnwindingAssumption
<1> QED
  BY <1>1, <1>2 DEF Error

LEMMA TopFacts ==
  ASSUME TypeOK, LinksOK, Running
  PROVE  /\ frames \in Seq(Frames) /\ frames # << >>
         /\ Len(frames) \in Nat \ {0} /\ Len(frames) - 1 \in Nat
         /\ Top = frames[Len(frames)] /\ Top \in Frames /\ Linked(Top)
         /\ Top.code \in Codes /\ Top.at \in Places /\ Top.action \in Actions
         /\ Top.gen \in Generators \cup {None} /\ Top.delegate \in Delegates
         /\ Top.injected \in Exceptions \cup {None}
         /\ raised = None /\ Base < Len(frames) /\ Base \in Nat
<1>1. frames \in Seq(Frames) /\ Len(frames) \in Nat
  BY LenOf DEF TypeOK
<1>2. Base \in Nat
  <2>1. bases \in Seq(Nat) /\ Len(bases) \in 1 .. Len(bases)
    BY LenProperties DEF TypeOK
  <2> QED
    BY <2>1, ElementOfSeq DEF Base, Last
<1>3. raised = None /\ Base < Len(frames) /\ Len(frames) # 0
  BY <1>1, <1>2 DEF Running
<1>4. Len(frames) \in 1 .. Len(frames) /\ Len(frames) - 1 \in Nat
  BY <1>1, <1>3
<1>5. Top = frames[Len(frames)] /\ Top \in Frames /\ Linked(Top)
  BY <1>1, <1>4, LenOf DEF Top, Last, LinksOK
<1> QED
  BY <1>1, <1>2, <1>3, <1>4, <1>5, FrameFields, LenOf

\* An error of the active frame, which is otherwise left as fs.
LEMMA FailureMoves ==
  ASSUME TypeOK, LinksOK, Running,
         NEW fs, Keeps(frames, fs, Len(frames)), Len(fs) = Len(frames),
         NEW at \in Sites, Last(fs).at = at, NEW exc \in Exceptions,
         frames' = fs, FailHere(exc, at),
         bases' = bases, modules' = modules, uses' = uses, abandoned' = abandoned,
         \A g \in Generators :
           gens'[g].state = gens[g].state \/ (gens[g].state # "Running" /\ gens'[g].state # "Running")
  PROVE  /\ Move /\ frames' \in Seq(Frames) /\ raised' \in Errors
<1>1. Top.code \in Codes /\ at \in Places
  BY TopFacts DEF Places
<1>2. /\ raised' \in Errors /\ raised' # None /\ raised'.code = Top.code
      /\ raised'.at = at /\ ~raised'.direct
  BY <1>1, ErrorFields DEF FailHere
<1>3. Blames
  BY <1>2 DEF Blames
<1>4. Stays
  BY <1>3 DEF Stays
<1>5. frames' \in Seq(Frames)
  BY DEF Keeps
<1> QED
  BY <1>2, <1>4, <1>5, TopFacts DEF Move

\* An instruction of the active frame fails.
LEMMA RaiseMoves ==
  ASSUME TypeOK, LinksOK, Running, NEW op \in Ops, NEW at \in Sites, NEW exc \in Exceptions,
         frames' = Executing(op, at), FailHere(exc, at),
         bases' = bases, modules' = modules, uses' = uses, abandoned' = abandoned,
         \A g \in Generators :
           gens'[g].state = gens[g].state \/ (gens[g].state # "Running" /\ gens'[g].state # "Running")
  PROVE  /\ Move /\ frames' \in Seq(Frames) /\ raised' \in Errors
<1>1. /\ Keeps(frames, Executing(op, at), Len(frames))
      /\ Len(Executing(op, at)) = Len(frames) /\ Last(Executing(op, at)).at = at
  BY TopFacts, ExecutingKeeps
<1> QED
  BY <1>1, FailureMoves

\* The active frame goes on without an error.
LEMMA ProgressMoves ==
  ASSUME TypeOK, LinksOK, Running,
         NEW fs, Keeps(frames, fs, Len(frames)), Len(fs) = Len(frames),
         frames' = fs, raised' = None,
         bases' = bases, modules' = modules, uses' = uses, abandoned' = abandoned,
         \A g \in Generators :
           gens'[g].state = gens[g].state \/ (gens[g].state # "Running" /\ gens'[g].state # "Running")
  PROVE  /\ Move /\ frames' \in Seq(Frames)
<1>1. Stays
  BY DEF Stays, Blames
<1>2. frames' \in Seq(Frames)
  BY DEF Keeps
<1> QED
  BY <1>1, <1>2, TopFacts DEF Move

LEMMA ReturnActionFields ==
  ASSUME NEW kind \in Kinds
  PROVE  /\ ReturnAction(kind) \in Actions
         /\ ReturnAction(kind).kind = kind /\ ReturnAction(kind).completion = None
         /\ ReturnAction(kind).ref = None /\ ReturnAction(kind).iterator = None
         /\ ~ ReturnAction(kind).closing
BY DEF ReturnAction, Actions, Delegates

LEMMA NewFrameFields ==
  ASSUME NEW code \in Codes, NEW action \in Actions
  PROVE  /\ NewFrame(code, action) \in Frames
         /\ NewFrame(code, action).code = code /\ NewFrame(code, action).action = action
         /\ NewFrame(code, action).gen = None /\ NewFrame(code, action).at = "plain"
         /\ ~ NewFrame(code, action).strayed
BY DEF NewFrame, Frames, Places, Sites, Ops, Delegates

\* A frame is pushed onto fs.
LEMMA PushMoves ==
  ASSUME TypeOK, LinksOK, Running,
         NEW fs, Keeps(frames, fs, Len(frames)), Len(fs) = Len(frames),
         NEW f \in Frames, Linked(f), frames' = Append(fs, f),
         NothingMistaken => Continues(f, Last(fs).op),
         \/ bases' = bases
         \/ bases' = Append(bases, Len(frames)) /\ f.action.kind \in Entries
  PROVE  /\ Pushes(f) /\ frames' \in Seq(Frames)
         /\ Last(frames') = f /\ Len(frames') # Len(frames)
<1>1. PICK n \in Nat \ {0} : n = Len(frames)
  BY TopFacts
<1>2. /\ frames' \in Seq(Frames) /\ Len(frames') = n + 1 /\ Keeps(frames, frames', n)
      /\ frames'[n + 1] = f /\ Last(frames') = f /\ \A i \in 1 .. n : frames'[i] = fs[i]
  BY <1>1, PushKeeps
<1>3. frames'[n] = fs[n] /\ Last(fs) = fs[n]
  BY <1>1, <1>2 DEF Last
<1> QED
  BY <1>1, <1>2, <1>3 DEF Pushes

LEMMA CallMoves ==
  ASSUME TypeOK, LinksOK, NEW f \in Functions, NEW kind \in Plain \cup Protocols, NEW at \in Sites,
         Call(f, kind, at)
  PROVE  TypeOK' /\ Move
<1>1. Running
  BY DEF Call, Free
<1>2. CASE Len(frames) >= MaxFrames
  <2>1. FailHere("Other", at) /\ frames' = Executing("Call", at)
    BY <1>2 DEF Call
  <2>2. Move /\ frames' \in Seq(Frames) /\ raised' \in Errors
    BY <1>1, <2>1, RaiseMoves DEF Call, Ops, Exceptions
  <2> QED
    BY <2>2 DEF TypeOK, Call
<1>3. CASE ~ (Len(frames) >= MaxFrames)
  <2> DEFINE op == IF kind = "IteratorNext" THEN "Next" ELSE "Call"
             fs == Executing(op, at)
             h == NewFrame(f, ReturnAction(kind))
  <2>1. frames' = Append(fs, h) /\ raised' = None
    BY <1>3 DEF Call
  <2>2. /\ Keeps(frames, fs, Len(frames)) /\ Len(fs) = Len(frames) /\ Last(fs).op = op
    BY <1>1, TopFacts, ExecutingKeeps DEF Ops
  <2>3. /\ h \in Frames /\ h.gen = None /\ h.code = f /\ h.action.kind = kind /\ ~h.strayed
    BY ReturnActionFields, NewFrameFields DEF Kinds, Codes
  <2>4. kind \notin {"Import", "AsyncGeneratorDrive", "YieldFrom", "YieldFromClose"}
    BY DEF Plain, Protocols, Consumers
  <2>5. Linked(h) /\ Continues(h, op)
    BY <2>3, <2>4 DEF Linked, Continues
  <2> HIDE DEF fs, h, op
  <2>6. Pushes(h) /\ frames' \in Seq(Frames)
    BY <1>1, <2>1, <2>2, <2>3, <2>5, PushMoves DEF Call
  <2>7. Calls(h)
    BY <2>1, <2>3, <2>4, <2>6 DEF Calls, Call, SameStates
  <2>8. Move
    BY <1>1, <2>3, <2>7, TopFacts DEF Move, Call
  <2> QED
    BY <2>1, <2>6, <2>8 DEF TypeOK, Call
<1> QED
  BY <1>2, <1>3

LEMMA ResumeError ==
  ASSUME TypeOK, NEW g \in Generators
  PROVE  /\ resume_error(g) \in {"Other", "StopIteration", "StopAsyncIteration", None}
         /\ resume_error(g) \in Exceptions \cup {None}
         /\ resume_error(g) = None => gens[g].state \notin {"Running", "Completed"}
<1>1. KindOf[g] \in {"generator", "coroutine", "async"}
  BY UnwindingAssumption
<1>2. None \notin {"Other", "StopIteration", "StopAsyncIteration"}
  BY UnwindingAssumption DEF Exceptions
<1>3. resume_error(g) \in {"Other", "StopIteration", "StopAsyncIteration", None}
  BY <1>1 DEF resume_error
<1>4. ASSUME gens[g].state \in {"Running", "Completed"} PROVE resume_error(g) # None
  BY <1>1, <1>2, <1>4 DEF resume_error
<1> QED
  BY <1>3, <1>4 DEF Exceptions

LEMMA GeneratorFields ==
  ASSUME TypeOK, NEW g \in Generators
  PROVE  /\ gens[g] \in GeneratorObjects
         /\ gens[g].state \in {"free", "Created", "Running", "Suspended", "Completed"}
         /\ gens[g].at \in Sites /\ gens[g].delegate \in Delegates
         /\ gens[g].driver \in Awaitables \cup {None}
BY DEF TypeOK, GeneratorObjects

LEMMA ResumedFields ==
  ASSUME TypeOK, NEW g \in Generators, NEW rs, rs = resume_state(g)
  PROVE  /\ rs \in [Generators -> GeneratorObjects]
         /\ rs[g].state = "Running" /\ rs[g].driver = gens[g].driver
         /\ \A h \in Generators : h # g => rs[h] = gens[h]
<1>1. PICK o : o = [gens[g] EXCEPT !.state = "Running", !.delegate = None]
  OBVIOUS
<1>2. /\ gens \in [Generators -> GeneratorObjects]
      /\ rs = [gens EXCEPT ![g] = o]
  BY <1>1 DEF TypeOK, resume_state
<1>3. /\ gens[g].at \in Sites /\ gens[g].driver \in Awaitables \cup {None} /\ None \in Delegates
      /\ gens[g] \in GeneratorObjects
  BY GeneratorFields DEF Delegates
<1>4. o = [state |-> "Running", at |-> gens[g].at, delegate |-> None, driver |-> gens[g].driver]
  BY <1>1, <1>3 DEF GeneratorObjects
<1>5. o \in GeneratorObjects /\ o.state = "Running" /\ o.driver = gens[g].driver
  BY <1>3, <1>4 DEF GeneratorObjects
<1> QED
  BY <1>2, <1>5

LEMMA ResumeState ==
  ASSUME TypeOK, NEW g \in Generators, gens' = resume_state(g)
  PROVE  /\ gens' \in [Generators -> GeneratorObjects]
         /\ gens'[g].state = "Running" /\ OtherStates(g)
         /\ \A h \in Generators : gens'[h].driver = gens[h].driver
BY ResumedFields DEF OtherStates

\* The frame of a resumed generator.
ResumedFrame(f, g, action) ==
  /\ f \in Frames /\ f.gen = g /\ f.code = CodeOf[g] /\ f.action = action /\ ~f.strayed
  /\ f.at = gens[g].at

LEMMA ResumeFrames ==
  ASSUME TypeOK, NEW g \in Generators, NEW action \in Actions, NEW fs
  PROVE  \E f \in Frames : ResumedFrame(f, g, action) /\ resume_frames(fs, g, action) = Append(fs, f)
<1>1. gens[g].at \in Places /\ gens[g].delegate \in Delegates /\ CodeOf[g] \in Codes
  BY GeneratorFields DEF Places, Codes
<1>2. PICK f : f = [NewFrame(CodeOf[g], action) EXCEPT
                      !.at = gens[g].at, !.op = "Resumed", !.gen = g, !.delegate = gens[g].delegate]
  OBVIOUS
<1>3. ResumedFrame(f, g, action)
  BY <1>1, <1>2 DEF ResumedFrame, NewFrame, Frames, Ops
<1>4. resume_frames(fs, g, action) = Append(fs, f)
  BY <1>2 DEF resume_frames
<1> QED
  BY <1>3, <1>4 DEF ResumedFrame

LEMMA AppendReplaced ==
  ASSUME NEW fs \in Seq(Frames), NEW f \in Frames, NEW x \in Frames
  PROVE  /\ [Append(fs, f) EXCEPT ![Len(Append(fs, f))] = x] = Append(fs, x)
         /\ Len(Append(fs, f)) \in DOMAIN Append(fs, f)
         /\ Append(fs, f)[Len(Append(fs, f))] = f
         /\ Append(fs, f) \in Seq(Frames) /\ Len(Append(fs, f)) = Len(fs) + 1
<1>1. PICK n \in Nat : n = Len(fs)
  BY LenOf
<1>2. PICK hs : hs = Append(fs, f)
  OBVIOUS
<1>3. /\ hs \in Seq(Frames) /\ Len(hs) = n + 1 /\ hs[n + 1] = f /\ n + 1 \in DOMAIN hs
      /\ \A i \in 1 .. n : hs[i] = fs[i]
  BY <1>1, <1>2, AppendProperties, LenOf
<1>4. PICK ls : ls = Append(fs, x)
  OBVIOUS
<1>5. /\ ls \in Seq(Frames) /\ Len(ls) = n + 1 /\ ls[n + 1] = x
      /\ \A i \in 1 .. n : ls[i] = fs[i]
  BY <1>1, <1>4, AppendProperties
<1>6. PICK ks : ks = [hs EXCEPT ![Len(hs)] = x]
  OBVIOUS
<1>7. /\ ks \in Seq(Frames) /\ Len(ks) = n + 1
      /\ \A i \in 1 .. n + 1 : ks[i] = IF i = n + 1 THEN x ELSE hs[i]
  <2>1. n + 1 \in 1 .. Len(hs)
    BY <1>3
  <2> QED
    BY <1>3, <1>6, <2>1, ExceptSeq
<1> HIDE <1>2, <1>4, <1>6
<1>8. \A i \in 1 .. n + 1 : ks[i] = ls[i]
  BY <1>3, <1>5, <1>7
<1>9. ks = ls
  BY <1>5, <1>7, <1>8, SeqEqual
<1> QED
  BY <1>1, <1>2, <1>3, <1>4, <1>6, <1>9

LEMMA InjectedAppend ==
  ASSUME NEW fs \in Seq(Frames), NEW f \in Frames, NEW exc \in Exceptions \cup {None}
  PROVE  [Append(fs, f) EXCEPT ![Len(Append(fs, f))].injected = exc]
           = Append(fs, [f EXCEPT !.injected = exc])
<1>1. PICK x : x = [f EXCEPT !.injected = exc]
  OBVIOUS
<1>2. x \in Frames
  BY <1>1 DEF Frames
<1>3. PICK hs : hs = Append(fs, f)
  OBVIOUS
<1>4. hs[Len(hs)] = f /\ Len(hs) \in DOMAIN hs /\ [hs EXCEPT ![Len(hs)] = x] = Append(fs, x)
  BY <1>2, <1>3, AppendReplaced
<1> HIDE <1>3
<1>5. [hs EXCEPT ![Len(hs)].injected = exc] = [hs EXCEPT ![Len(hs)] = x]
  BY <1>1, <1>4
<1> QED
  BY <1>1, <1>3, <1>4, <1>5

\* A generator is resumed on top of fs.
LEMMA EnterMoves ==
  ASSUME TypeOK, LinksOK, Running,
         NEW fs, Keeps(frames, fs, Len(frames)), Len(fs) = Len(frames),
         NEW g \in Generators, gens[g].state \notin {"Running", "Completed"},
         gens'[g].state = "Running", OtherStates(g),
         NEW action \in Actions, NEW f \in Frames,
         f.gen = g, f.code = CodeOf[g], f.action = action, frames' = Append(fs, f), Linked(f),
         NothingMistaken => Continues(f, Last(fs).op),
         action.kind # "Import",
         KindOf[g] = "async" =>
           \/ action.kind = "AsyncGeneratorDrive"
           \/ action.kind = "Close" /\ "finalizers" \in uses,
         \/ bases' = bases
         \/ bases' = Append(bases, Len(frames)) /\ action.kind \in Entries,
         \/ raised' = None
         \/ raised'.code = Top.code /\ ~raised'.direct
         \/ raised'.code = f.code /\ raised'.at = f.at /\ ~raised'.direct,
         modules' = modules, uses' = uses, abandoned' = abandoned
  PROVE  Move /\ frames' \in Seq(Frames)
<1>1. /\ Pushes(f) /\ frames' \in Seq(Frames) /\ Len(frames') # Len(frames)
  BY PushMoves
<1>2. \/ Blames
      \/ raised'.code = f.code /\ raised'.at = f.at /\ ~raised'.direct
  BY <1>1 DEF Blames
<1>3. Enters(g, f)
  BY <1>1, <1>2 DEF Enters
<1> QED
  BY <1>1, <1>3, TopFacts DEF Move

\* Injecting an exception into a generator that has just been resumed.
LEMMA InjectMoves ==
  ASSUME TypeOK, LinksOK, Running,
         NEW fs, Keeps(frames, fs, Len(frames)), Len(fs) = Len(frames),
         NEW g \in Generators, resume_error(g) = None, gens' = resume_state(g),
         NEW action \in Actions,
         action.kind \notin {"Import", "AsyncGeneratorDrive", "IteratorNext", "YieldFrom",
                             "YieldFromClose"},
         KindOf[g] = "async" => action.kind = "Close" /\ "finalizers" \in uses,
         NEW exc \in Exceptions, NEW code \in Codes, NEW at \in Places,
         inject(resume_frames(fs, g, action), gens[g].delegate # None, exc, code, at),
         code = Top.code \/ (code = CodeOf[g] /\ at = gens[g].at),
         \/ bases' = bases
         \/ bases' = Append(bases, Len(frames)) /\ action.kind \in Entries,
         modules' = modules, uses' = uses, abandoned' = abandoned
  PROVE  Move /\ frames' \in Seq(Frames) /\ raised' \in Errors \cup {None}
<1>1. /\ gens[g].state \notin {"Running", "Completed"}
      /\ gens'[g].state = "Running" /\ OtherStates(g)
  BY ResumeError, ResumeState
<1>2. PICK f \in Frames : ResumedFrame(f, g, action) /\ resume_frames(fs, g, action) = Append(fs, f)
  BY ResumeFrames
<1>3. fs \in Seq(Frames)
  BY DEF Keeps
<1>4. CASE gens[g].delegate # None
  <2>1. PICK h : h = [f EXCEPT !.injected = exc]
    OBVIOUS
  <2>2. h \in Frames /\ h.gen = g /\ h.code = CodeOf[g] /\ h.action = action /\ ~h.strayed
    BY <1>2, <2>1 DEF ResumedFrame, Frames
  <2>3. frames' = Append(fs, h) /\ raised' = None
    <3>1. PICK rs : rs = resume_frames(fs, g, action)
      OBVIOUS
    <3>2. frames' = [rs EXCEPT ![Len(rs)].injected = exc] /\ raised' = None
      BY <1>4, <3>1 DEF inject
    <3>3. rs = Append(fs, f)
      BY <1>2, <3>1
    <3>4. [rs EXCEPT ![Len(rs)].injected = exc] = Append(fs, [f EXCEPT !.injected = exc])
      BY <1>3, <3>3, InjectedAppend
    <3> QED
      BY <2>1, <3>2, <3>4
  <2>4. Linked(h) /\ Continues(h, Last(fs).op)
    BY <2>2 DEF Linked, Continues
  <2> HIDE <2>1
  <2> QED
    BY <1>1, <2>2, <2>3, <2>4, EnterMoves
<1>5. CASE gens[g].delegate = None
  <2>1. frames' = Append(fs, f) /\ raised' = Error(exc, code, at)
    BY <1>2, <1>5 DEF inject
  <2>2. raised' \in Errors /\ raised'.code = code /\ raised'.at = at /\ ~raised'.direct
    BY <2>1, ErrorFields
  <2>3. f.gen = g /\ f.code = CodeOf[g] /\ f.action = action /\ ~f.strayed /\ f.at = gens[g].at
    BY <1>2 DEF ResumedFrame
  <2>4. Linked(f) /\ Continues(f, Last(fs).op)
    BY <2>3 DEF Linked, Continues
  <2> QED
    BY <1>1, <2>1, <2>2, <2>3, <2>4, EnterMoves
<1> QED
  BY <1>4, <1>5

\* The continuation belongs to the instruction op, and names what it drives.
Fitting(action, op) ==
  /\ action.kind # "Import"
  /\ action.kind = "AsyncGeneratorDrive" =>
       action.ref \in Awaitables /\ action.completion \in Completions
  /\ NothingMistaken =>
       /\ action.kind = "IteratorNext" => op = "Next"
       /\ action.kind \in {"YieldFrom", "YieldFromClose"} => op = "YieldFrom"

LEMMA ResumeMoves ==
  ASSUME TypeOK, LinksOK, Running,
         NEW fs, Keeps(frames, fs, Len(frames)), Len(fs) = Len(frames),
         NEW g \in Generators, gens[g].state \notin {"Running", "Completed"},
         gens'[g].state = "Running", OtherStates(g),
         NEW action \in Actions, Fitting(action, Last(fs).op),
         frames' = resume_frames(fs, g, action),
         KindOf[g] = "async" => action.kind = "AsyncGeneratorDrive",
         raised' = None \/ (raised'.code = Top.code /\ ~raised'.direct),
         bases' = bases, modules' = modules, uses' = uses, abandoned' = abandoned
  PROVE  Move /\ frames' \in Seq(Frames)
<1>1. PICK f \in Frames : ResumedFrame(f, g, action) /\ resume_frames(fs, g, action) = Append(fs, f)
  BY ResumeFrames
<1>2. f.gen = g /\ f.code = CodeOf[g] /\ f.action = action /\ ~f.strayed
  BY <1>1 DEF ResumedFrame
<1>3. Linked(f) /\ (NothingMistaken => Continues(f, Last(fs).op)) /\ action.kind # "Import"
  BY <1>2 DEF Linked, Continues, Fitting
<1>4. frames' = Append(fs, f)
  BY <1>1
<1> QED
  BY <1>2, <1>3, <1>4, EnterMoves

LEMMA FreezeMoves ==
  ASSUME TypeOK, LinksOK, NEW g \in Generators, freeze_generator_call(g)
  PROVE  TypeOK' /\ Move
<1>1. Running
  BY DEF freeze_generator_call, Free
<1>2. gens' \in [Generators -> GeneratorObjects]
  BY DEF freeze_generator_call, TypeOK, GeneratorObjects
<1>3. \A h \in Generators :
        gens'[h].state = gens[h].state \/ (gens[h].state # "Running" /\ gens'[h].state # "Running")
  BY DEF freeze_generator_call, TypeOK
<1>4. frames' = frames /\ raised' = None
  BY <1>1, TopFacts DEF freeze_generator_call
<1>5. Move
  BY <1>1, <1>3, <1>4, TopFacts, LenOf, ProgressMoves DEF freeze_generator_call
<1> QED
  BY <1>2, <1>4, <1>5 DEF TypeOK, freeze_generator_call

LEMMA RaiseOpMoves ==
  ASSUME TypeOK, LinksOK, NEW exc \in Exceptions, NEW at \in Sites, OpRaise(exc, at)
  PROVE  TypeOK' /\ Move
<1>1. Running
  BY DEF OpRaise, Free
<1>2. Move /\ frames' \in Seq(Frames) /\ raised' \in Errors
  BY <1>1, RaiseMoves DEF OpRaise, Ops
<1> QED
  BY <1>2 DEF TypeOK, OpRaise

\* An Op::Next that fails replaces the continuation of its own frame.
LEMMA ReplacedKeeps ==
  ASSUME TypeOK, LinksOK, Running, Replaced, NEW fs, Keeps(frames, fs, Len(frames)),
         Len(fs) = Len(frames), NEW g \in Generators
  PROVE  /\ Keeps(frames, [fs EXCEPT ![Len(fs)].action = set_yield_from_completion(@, g)], Len(frames))
         /\ Len([fs EXCEPT ![Len(fs)].action = set_yield_from_completion(@, g)]) = Len(frames)
         /\ Last([fs EXCEPT ![Len(fs)].action = set_yield_from_completion(@, g)]).at = Last(fs).at
<1> DEFINE c == set_yield_from_completion(Last(fs).action, g)
<1>1. /\ fs \in Seq(Frames) /\ Len(fs) \in Nat \ {0} /\ fs # << >> /\ Len(fs) \in DOMAIN fs
      /\ Last(fs) \in Frames /\ Last(fs).action \in Actions
  <2>1. fs \in Seq(Frames) /\ Len(fs) \in Nat \ {0}
    BY TopFacts DEF Keeps
  <2>2. fs # << >> /\ Len(fs) \in DOMAIN fs /\ Last(fs) \in Frames
    BY <2>1, LenOf DEF Last
  <2> QED
    BY <2>1, <2>2, FrameFields
<1>2. c \in Actions /\ c.kind \in {"AsyncGeneratorDrive", "YieldFrom"}
      /\ (Last(fs).action.kind = "AsyncGeneratorDrive" =>
            c.kind = "AsyncGeneratorDrive" /\ c.ref = Last(fs).action.ref /\ c.completion # None)
      /\ (Last(fs).action.kind # "AsyncGeneratorDrive" => c.kind = "YieldFrom")
  <2>1. "YieldFrom" # None
    BY UnwindingAssumption DEF Completions
  <2>2. Last(fs).action \in Actions /\ g \in Delegates
    BY <1>1 DEF Delegates
  <2>3. CASE Last(fs).action.kind = "AsyncGeneratorDrive"
    BY <2>1, <2>2, <2>3 DEF set_yield_from_completion, Actions, Completions
  <2>4. CASE Last(fs).action.kind # "AsyncGeneratorDrive"
    BY <2>1, <2>2, <2>4 DEF set_yield_from_completion, ReturnAction, Actions, Completions, Kinds,
       Delegates
  <2> QED
    BY <2>3, <2>4
<1>3. PICK x : x = [Last(fs) EXCEPT !.action = c]
  OBVIOUS
<1> HIDE DEF c
<1>4. x \in Frames /\ x.action = c /\ x.code = Last(fs).code /\ x.gen = Last(fs).gen
      /\ x.strayed = Last(fs).strayed /\ x.at = Last(fs).at
  BY <1>1, <1>2, <1>3 DEF Frames
<1>5. Alike(Last(fs), x)
  BY <1>2, <1>4 DEF Alike
<1>6. [fs EXCEPT ![Len(fs)].action = set_yield_from_completion(@, g)] = [fs EXCEPT ![Len(fs)] = x]
  BY <1>1, <1>3 DEF Last, c
<1>7. PICK hs : hs = [fs EXCEPT ![Len(fs)] = x]
  OBVIOUS
<1>8. /\ Keeps(fs, hs, Len(fs)) /\ Len(hs) = Len(fs) /\ Last(hs) = x
  BY <1>1, <1>4, <1>5, <1>7, LastReplaced
<1>9. Keeps(frames, hs, Len(frames))
  BY <1>1, <1>8, KeepsTrans, TopFacts
<1> QED
  BY <1>4, <1>6, <1>7, <1>8, <1>9

\* The active frame goes on behind the instruction that has left it as fs.
LEMMA DoneMoves ==
  ASSUME TypeOK, LinksOK, Running,
         NEW fs, Keeps(frames, fs, Len(frames)), Len(fs) = Len(frames),
         frames' = Done(fs), raised' = None,
         bases' = bases, modules' = modules, uses' = uses, abandoned' = abandoned,
         \A g \in Generators :
           gens'[g].state = gens[g].state \/ (gens[g].state # "Running" /\ gens'[g].state # "Running")
  PROVE  /\ Move /\ frames' \in Seq(Frames)
<1>1. fs \in Seq(Frames) /\ Len(frames) \in Nat
  BY TopFacts DEF Keeps
<1>2. Keeps(fs, Done(fs), Len(frames)) /\ Len(Done(fs)) = Len(frames)
  BY <1>1, DoneKeeps
<1>3. Keeps(frames, Done(fs), Len(frames))
  BY <1>1, <1>2, KeepsTrans
<1> QED
  BY <1>2, <1>3, ProgressMoves

LEMMA OpNextMoves ==
  ASSUME TypeOK, LinksOK, NEW g \in Generators, NEW at \in Sites, OpNext(g, at)
  PROVE  TypeOK' /\ Move
<1>1. Running /\ KindOf[g] # "async"
  BY DEF OpNext, Free
<1>2. /\ Keeps(frames, Executing("Next", at), Len(frames))
      /\ Len(Executing("Next", at)) = Len(frames)
      /\ Last(Executing("Next", at)).op = "Next" /\ Last(Executing("Next", at)).at = at
  BY <1>1, TopFacts, ExecutingKeeps DEF Ops
<1>3. resume_error(g) \in Exceptions \cup {None} /\ None # "StopIteration" /\ raised = None
  BY <1>1, ResumeError, UnwindingAssumption, TopFacts DEF Exceptions
<1>4. CASE resume_error(g) = None
  <2>1. /\ frames' = resume_frames(Executing("Next", at), g, ReturnAction("IteratorNext"))
        /\ gens' = resume_state(g) /\ raised' = None
    BY <1>3, <1>4 DEF OpNext
  <2>2. ReturnAction("IteratorNext") \in Actions
        /\ Fitting(ReturnAction("IteratorNext"), "Next")
    BY ReturnActionFields DEF Kinds, Plain, Fitting
  <2>3. Move /\ frames' \in Seq(Frames)
    BY <1>1, <1>2, <1>4, <2>1, <2>2, ResumeError, ResumeState, ResumeMoves DEF OpNext
  <2> QED
    BY <2>1, <2>3, ResumeState DEF TypeOK, OpNext
<1>5. CASE resume_error(g) = "StopIteration"
  <2>1. frames' = Done(Executing("Next", at)) /\ gens' = gens /\ raised' = raised
    BY <1>3, <1>5 DEF OpNext
  <2>2. Move /\ frames' \in Seq(Frames)
    BY <1>1, <1>2, <1>3, <2>1, DoneMoves DEF OpNext
  <2> QED
    BY <2>1, <2>2 DEF TypeOK, OpNext
<1>6. CASE resume_error(g) \notin {None, "StopIteration"}
  <2>1. /\ Replaced
        /\ frames' = [Executing("Next", at) EXCEPT ![Len(Executing("Next", at))].action =
                        set_yield_from_completion(@, g)]
        /\ FailHere(resume_error(g), at) /\ gens' = gens
    BY <1>6 DEF OpNext, Replaced
  <2>2. PICK hs : hs = [Executing("Next", at) EXCEPT ![Len(Executing("Next", at))].action =
                          set_yield_from_completion(@, g)]
    OBVIOUS
  <2>3. Keeps(frames, hs, Len(frames)) /\ Len(hs) = Len(frames) /\ Last(hs).at = at
    BY <1>1, <1>2, <2>1, <2>2, ReplacedKeeps
  <2>4. Move /\ frames' \in Seq(Frames) /\ raised' \in Errors
    BY <1>1, <1>3, <1>6, <2>1, <2>2, <2>3, FailureMoves DEF OpNext
  <2> QED
    BY <2>1, <2>4 DEF TypeOK, OpNext
<1> QED
  BY <1>4, <1>5, <1>6

LEMMA ResumeCallMoves ==
  ASSUME TypeOK, LinksOK, NEW g \in Generators, NEW kind \in Consumers \cup {"Next", "NextDefault"},
         NEW at \in Sites, ResumeCall(g, kind, at)
  PROVE  TypeOK' /\ Move
<1>1. Running /\ KindOf[g] # "async"
  BY DEF ResumeCall, Free
<1>2. /\ Keeps(frames, Executing("Call", at), Len(frames))
      /\ Len(Executing("Call", at)) = Len(frames) /\ Last(Executing("Call", at)).at = at
  BY <1>1, TopFacts, ExecutingKeeps DEF Ops
<1>3. resume_error(g) \in Exceptions \cup {None}
  BY <1>1, ResumeError
<1>4. CASE resume_error(g) = None
  <2>1. /\ frames' = resume_frames(Executing("Call", at), g, ReturnAction(kind))
        /\ gens' = resume_state(g) /\ raised' = None
    BY <1>4 DEF ResumeCall
  <2>2. kind \in Kinds
        /\ kind \notin {"Import", "AsyncGeneratorDrive", "IteratorNext", "YieldFrom", "YieldFromClose"}
    BY DEF Kinds, Plain, Protocols, Consumers
  <2>3. ReturnAction(kind) \in Actions /\ Fitting(ReturnAction(kind), Last(Executing("Call", at)).op)
    BY <2>2, ReturnActionFields DEF Fitting
  <2>4. Move /\ frames' \in Seq(Frames)
    BY <1>1, <1>2, <1>4, <2>1, <2>3, ResumeError, ResumeState, ResumeMoves DEF ResumeCall
  <2> QED
    BY <2>1, <2>4, ResumeState DEF TypeOK, ResumeCall
<1>5. CASE resume_error(g) # None /\ frames' = Done(Executing("Call", at)) /\ raised' = None
  <2>1. gens' = gens
    BY <1>5 DEF ResumeCall
  <2>2. Move /\ frames' \in Seq(Frames)
    BY <1>1, <1>2, <1>5, <2>1, DoneMoves DEF ResumeCall
  <2> QED
    BY <1>5, <2>1, <2>2 DEF TypeOK, ResumeCall
<1>6. CASE resume_error(g) # None /\ frames' = Executing("Call", at) /\ FailHere(resume_error(g), at)
  <2>1. gens' = gens
    BY <1>6 DEF ResumeCall
  <2>2. Move /\ frames' \in Seq(Frames) /\ raised' \in Errors
    BY <1>1, <1>3, <1>6, <2>1, RaiseMoves DEF ResumeCall, Ops
  <2> QED
    BY <2>1, <2>2 DEF TypeOK, ResumeCall
<1> QED
  BY <1>4, <1>5, <1>6 DEF ResumeCall

LEMMA ThrowMoves ==
  ASSUME TypeOK, LinksOK, NEW g \in Generators, NEW exc \in Exceptions, NEW at \in Sites,
         GeneratorThrow(g, exc, at)
  PROVE  TypeOK' /\ Move
<1>1. Running /\ KindOf[g] # "async" /\ finish_generator_throw(g, exc, at)
  BY DEF GeneratorThrow, Free
<1>2. /\ Keeps(frames, Executing("Call", at), Len(frames))
      /\ Len(Executing("Call", at)) = Len(frames) /\ Last(Executing("Call", at)).at = at
  BY <1>1, TopFacts, ExecutingKeeps DEF Ops
<1>3. resume_error(g) \in Exceptions \cup {None}
  BY <1>1, ResumeError
<1>4. CASE resume_error(g) = None
  <2>1. /\ inject(resume_frames(Executing("Call", at), g, ReturnAction("Next")),
                  gens[g].delegate # None, exc, Top.code, at)
        /\ gens' = resume_state(g)
    BY <1>1, <1>4 DEF finish_generator_throw
  <2>2. ReturnAction("Next") \in Actions /\ ReturnAction("Next").kind = "Next"
    BY ReturnActionFields DEF Kinds, Plain
  <2>3. Move /\ frames' \in Seq(Frames) /\ raised' \in Errors \cup {None}
    <3>1. PICK action \in Actions : action = ReturnAction("Next") /\ action.kind = "Next"
      BY <2>2
    <3>2. Top.code \in Codes /\ at \in Places
      BY <1>1, TopFacts DEF Places
    <3>3. /\ bases' = bases /\ modules' = modules /\ uses' = uses /\ abandoned' = abandoned
      BY <1>1 DEF finish_generator_throw
    <3>4. inject(resume_frames(Executing("Call", at), g, action), gens[g].delegate # None, exc,
                 Top.code, at)
      BY <2>1, <3>1
    <3>5. action.kind \notin {"Import", "AsyncGeneratorDrive", "IteratorNext", "YieldFrom",
                               "YieldFromClose"}
      BY <3>1
    <3> QED
      BY <1>1, <1>2, <1>4, <2>1, <3>2, <3>3, <3>4, <3>5, InjectMoves
  <2> QED
    BY <1>1, <2>1, <2>3, ResumeState DEF TypeOK, finish_generator_throw
<1>5. CASE resume_error(g) # None
  <2>1. PICK error \in Exceptions : frames' = Executing("Call", at) /\ FailHere(error, at)
    BY <1>1, <1>3, <1>5 DEF finish_generator_throw
  <2>2. gens' = gens
    BY <1>1, <1>5 DEF finish_generator_throw
  <2>3. Move /\ frames' \in Seq(Frames) /\ raised' \in Errors
    BY <1>1, <2>1, <2>2, RaiseMoves DEF finish_generator_throw, Ops
  <2> QED
    BY <1>1, <2>2, <2>3 DEF TypeOK, finish_generator_throw
<1> QED
  BY <1>4, <1>5

LEMMA CompleteFields ==
  ASSUME TypeOK, NEW G, gens' = complete_generators(G)
  PROVE  /\ gens' \in [Generators -> GeneratorObjects]
         /\ \A g \in Generators :
              gens'[g].state = IF g \in G THEN "Completed" ELSE gens[g].state
<1>1. \A g \in Generators :
        /\ gens'[g] \in GeneratorObjects
        /\ gens'[g].state = IF g \in G THEN "Completed" ELSE gens[g].state
  BY DEF TypeOK, complete_generators, GeneratorObjects, Delegates
<1> QED
  BY <1>1 DEF complete_generators

LEMMA AwaitFields ==
  ASSUME TypeOK, NEW A, awaits' = set_await_completed(A)
  PROVE  /\ awaits' \in [Awaitables -> AwaitableObjects]
         /\ \A a \in Awaitables :
              /\ awaits'[a].state = IF a \in A THEN "Completed" ELSE awaits[a].state
              /\ awaits'[a].gen = awaits[a].gen /\ awaits'[a].op = awaits[a].op
<1>1. \A a \in Awaitables :
        /\ awaits'[a] \in AwaitableObjects
        /\ awaits'[a].state = IF a \in A THEN "Completed" ELSE awaits[a].state
        /\ awaits'[a].gen = awaits[a].gen /\ awaits'[a].op = awaits[a].op
  BY DEF TypeOK, set_await_completed, AwaitableObjects
<1> QED
  BY <1>1 DEF set_await_completed

LEMMA CompleteOne ==
  ASSUME TypeOK, NEW g \in Generators, gens' = complete_generator(g)
  PROVE  /\ gens' \in [Generators -> GeneratorObjects]
         /\ gens'[g].state = "Completed" /\ OtherStates(g)
<1>1. PICK G : G = {g}
  OBVIOUS
<1>2. gens' = complete_generators(G)
  BY <1>1 DEF complete_generator
<1>3. /\ gens' \in [Generators -> GeneratorObjects]
      /\ \A h \in Generators : gens'[h].state = IF h \in G THEN "Completed" ELSE gens[h].state
  BY <1>2, CompleteFields
<1> QED
  BY <1>1, <1>3 DEF OtherStates

LEMMA CloseMoves ==
  ASSUME TypeOK, LinksOK, NEW g \in Generators, NEW at \in Sites, GeneratorClose(g, at)
  PROVE  TypeOK' /\ Move
<1>1. /\ Running /\ KindOf[g] # "async"
      /\ bases' = bases /\ awaits' = awaits /\ modules' = modules /\ uses' = uses
      /\ abandoned' = abandoned
  BY DEF GeneratorClose, Free
<1>2. /\ Keeps(frames, Executing("Call", at), Len(frames))
      /\ Len(Executing("Call", at)) = Len(frames) /\ Last(Executing("Call", at)).at = at
      /\ raised = None
  BY <1>1, TopFacts, ExecutingKeeps DEF Ops
<1>3. CASE gens[g].state \in {"Completed", "Created"}
  <2>1. frames' = Done(Executing("Call", at)) /\ gens' = complete_generator(g) /\ raised' = raised
    BY <1>3 DEF GeneratorClose
  <2>2. /\ gens' \in [Generators -> GeneratorObjects]
        /\ \A h \in Generators :
             gens'[h].state = gens[h].state \/ (gens[h].state # "Running" /\ gens'[h].state # "Running")
    BY <1>3, <2>1, CompleteOne DEF OtherStates
  <2>3. Move /\ frames' \in Seq(Frames)
    BY <1>1, <1>2, <2>1, <2>2, DoneMoves
  <2> QED
    BY <1>1, <2>1, <2>2, <2>3 DEF TypeOK
<1>4. CASE gens[g].state = "Suspended" /\ resume_error(g) = None
  <2>1. /\ inject(resume_frames(Executing("Call", at), g, ReturnAction("Close")),
                  gens[g].delegate # None, "GeneratorExit", Top.code, at)
        /\ gens' = resume_state(g)
    BY <1>4 DEF GeneratorClose
  <2>2. ReturnAction("Close") \in Actions /\ ReturnAction("Close").kind = "Close"
    BY ReturnActionFields DEF Kinds, Plain
  <2>3. PICK action \in Actions : action = ReturnAction("Close") /\ action.kind = "Close"
    BY <2>2
  <2>4. Top.code \in Codes /\ at \in Places /\ "GeneratorExit" \in Exceptions
    BY <1>1, TopFacts DEF Places, Exceptions
  <2>5. inject(resume_frames(Executing("Call", at), g, action), gens[g].delegate # None,
               "GeneratorExit", Top.code, at)
    BY <2>1, <2>3
  <2>6. action.kind \notin {"Import", "AsyncGeneratorDrive", "IteratorNext", "YieldFrom",
                            "YieldFromClose"}
    BY <2>3
  <2>7. Move /\ frames' \in Seq(Frames) /\ raised' \in Errors \cup {None}
    BY <1>1, <1>2, <1>4, <2>1, <2>4, <2>5, <2>6, InjectMoves
  <2> QED
    BY <1>1, <2>1, <2>7, ResumeState DEF TypeOK
<1>5. CASE ~(gens[g].state \in {"Completed", "Created"})
           /\ ~(gens[g].state = "Suspended" /\ resume_error(g) = None)
  <2>1. frames' = Executing("Call", at) /\ FailHere("Other", at) /\ gens' = gens
    BY <1>5 DEF GeneratorClose
  <2>2. Move /\ frames' \in Seq(Frames) /\ raised' \in Errors
    BY <1>1, <2>1, RaiseMoves DEF Ops, Exceptions
  <2> QED
    BY <1>1, <2>1, <2>2 DEF TypeOK
<1> QED
  BY <1>3, <1>4, <1>5

LEMMA ImportMoves ==
  ASSUME TypeOK, LinksOK, NEW m \in Modules, NEW at \in Sites, invoke_import(m, at)
  PROVE  TypeOK' /\ Move
<1>1. /\ Running /\ raised = None
      /\ bases' = bases /\ gens' = gens /\ awaits' = awaits /\ uses' = uses
      /\ abandoned' = abandoned
  BY TopFacts DEF invoke_import, Free
<1>2. CASE modules[m].state # "Uninitialized"
  <2>1. frames' = Done(frames) /\ modules' = modules /\ raised' = raised
    BY <1>2 DEF invoke_import
  <2>2. Keeps(frames, frames, Len(frames))
    BY <1>1, TopFacts, LenOf
  <2>3. Move /\ frames' \in Seq(Frames)
    BY <1>1, <2>1, <2>2, DoneMoves
  <2> QED
    BY <1>1, <2>1, <2>3 DEF TypeOK
<1>3. CASE modules[m].state = "Uninitialized" /\ Len(frames) >= MaxFrames
  <2>1. frames' = Executing("Call", at) /\ FailHere("Other", at) /\ modules' = modules
    BY <1>3 DEF invoke_import
  <2>2. Move /\ frames' \in Seq(Frames) /\ raised' \in Errors
    BY <1>1, <2>1, RaiseMoves DEF Ops, Exceptions
  <2> QED
    BY <1>1, <2>1, <2>2 DEF TypeOK
<1>4. CASE modules[m].state = "Uninitialized" /\ ~(Len(frames) >= MaxFrames)
  <2>1. PICK action : action = [ReturnAction("Import") EXCEPT !.ref = m]
    OBVIOUS
  <2>2. action \in Actions /\ action.kind = "Import" /\ action.ref = m
    BY <2>1 DEF ReturnAction, Actions, Kinds, Delegates
  <2>3. PICK h : h = NewFrame(m, action)
    OBVIOUS
  <2>4. /\ h \in Frames /\ h.gen = None /\ h.code = m /\ h.action = action /\ ~h.strayed
    BY <2>2, <2>3, NewFrameFields DEF Codes
  <2>5. PICK fs : fs = Executing("Import", at)
    OBVIOUS
  <2>6. /\ Keeps(frames, fs, Len(frames)) /\ Len(fs) = Len(frames) /\ Last(fs).op = "Import"
    BY <1>1, <2>5, TopFacts, ExecutingKeeps DEF Ops
  <2>7. /\ frames' = Append(fs, h) /\ raised' = raised
        /\ modules' = [modules EXCEPT ![m].state = "Initializing"]
    BY <1>4, <2>1, <2>3, <2>5 DEF invoke_import
  <2> HIDE <2>1, <2>3, <2>5
  <2>8. Linked(h) /\ Continues(h, Last(fs).op)
    BY <2>2, <2>4, <2>6 DEF Linked, Continues
  <2>9. Pushes(h) /\ frames' \in Seq(Frames)
    BY <1>1, <2>4, <2>6, <2>7, <2>8, PushMoves
  <2>10. Calls(h)
    BY <1>1, <1>4, <2>2, <2>4, <2>7, <2>9 DEF Calls, SameStates
  <2>11. Move
    BY <1>1, <2>4, <2>10, TopFacts DEF Move
  <2>12. modules' \in [Modules -> ModuleObjects]
    BY <2>7 DEF TypeOK, ModuleObjects
  <2> QED
    BY <1>1, <2>7, <2>9, <2>11, <2>12 DEF TypeOK
<1> QED
  BY <1>2, <1>3, <1>4

LEMMA StoreGlobalMoves ==
  ASSUME TypeOK, LinksOK, StoreGlobal
  PROVE  TypeOK' /\ Move
<1>1. Running
  BY DEF StoreGlobal, Free
<1>2. Binds
  BY <1>1, TopFacts DEF Binds, StoreGlobal, SameStates
<1>3. modules' \in [Modules -> ModuleObjects]
  BY DEF StoreGlobal, TypeOK, ModuleObjects
<1>4. Move
  BY <1>1, <1>2, TopFacts DEF Move, StoreGlobal
<1> QED
  BY <1>3, <1>4 DEF TypeOK, StoreGlobal

LEMMA DelegationFields ==
  ASSUME NEW d \in Delegates
  PROVE  /\ Delegation(d) \in Actions /\ Delegation(d).kind = "YieldFrom"
         /\ ReturnAction("YieldFromClose") \in Actions
         /\ ReturnAction("YieldFromClose").kind = "YieldFromClose"
BY DEF Delegation, ReturnAction, Actions, Kinds, Delegates

LEMMA YieldFromGeneratorMoves ==
  ASSUME TypeOK, LinksOK, NEW g \in Generators, NEW at \in Sites, YieldFromGenerator(g, at)
  PROVE  TypeOK' /\ Move
<1>1. /\ Running /\ KindOf[g] # "async" /\ raised = None
      /\ bases' = bases /\ awaits' = awaits /\ modules' = modules /\ uses' = uses
      /\ abandoned' = abandoned
  BY TopFacts DEF YieldFromGenerator, InYieldFrom, Running
<1>2. PICK fs : fs = YieldFromFrames(at)
  OBVIOUS
<1>3. /\ Keeps(frames, fs, Len(frames)) /\ Len(fs) = Len(frames)
      /\ Last(fs).op = "YieldFrom" /\ Last(fs).at = at
  BY <1>1, <1>2, TopFacts, YieldFromFramesKeeps
<1>4. resume_error(g) \in Exceptions \cup {None} /\ None # "StopIteration"
  BY ResumeError, UnwindingAssumption DEF Exceptions
<1>5. CASE resume_error(g) = None
  <2>1. PICK action : action = IF Top.injected = "GeneratorExit" THEN ReturnAction("YieldFromClose")
                                                                 ELSE Delegation(g)
    OBVIOUS
  <2>2. action \in Actions /\ action.kind \in {"YieldFrom", "YieldFromClose"}
    BY <2>1, DelegationFields DEF Delegates
  <2>3. /\ frames' = resume_frames(fs, g, action) /\ gens' = resume_state(g)
        /\ raised' = IF Top.injected = None THEN None ELSE Error(Top.injected, Top.code, at)
    BY <1>2, <1>4, <1>5, <2>1 DEF YieldFromGenerator
  <2>4. /\ raised' \in Errors \cup {None}
        /\ raised' = None \/ (raised'.code = Top.code /\ ~raised'.direct)
    BY <1>1, <2>3, TopFacts, ErrorFields DEF Places
  <2>5. Fitting(action, Last(fs).op)
    BY <1>3, <2>2 DEF Fitting
  <2> HIDE <1>2, <2>1
  <2>6. Move /\ frames' \in Seq(Frames)
    BY <1>1, <1>3, <1>5, <2>2, <2>3, <2>4, <2>5, ResumeError, ResumeState, ResumeMoves
  <2> QED
    BY <1>1, <2>3, <2>4, <2>6, ResumeState DEF TypeOK
<1>6. CASE resume_error(g) = "StopIteration" /\ Top.injected = None
  <2>1. frames' = Done(fs) /\ gens' = gens /\ raised' = raised
    BY <1>2, <1>4, <1>6 DEF YieldFromGenerator
  <2>2. Move /\ frames' \in Seq(Frames)
    BY <1>1, <1>3, <2>1, DoneMoves
  <2> QED
    BY <1>1, <2>1, <2>2 DEF TypeOK
<1>7. CASE resume_error(g) # None /\ ~(resume_error(g) = "StopIteration" /\ Top.injected = None)
  <2>1. frames' = fs /\ FailHere(resume_error(g), at) /\ gens' = gens
    BY <1>2, <1>7 DEF YieldFromGenerator
  <2>2. Move /\ frames' \in Seq(Frames) /\ raised' \in Errors
    BY <1>1, <1>3, <1>4, <1>7, <2>1, FailureMoves
  <2> QED
    BY <1>1, <2>1, <2>2 DEF TypeOK
<1> QED
  BY <1>5, <1>6, <1>7

LEMMA YieldFromObjectMoves ==
  ASSUME TypeOK, LinksOK, NEW f \in Functions, NEW at \in Sites, YieldFromObject(f, at)
  PROVE  TypeOK' /\ Move
<1>1. /\ Running /\ raised = None
      /\ bases' = bases /\ gens' = gens /\ awaits' = awaits /\ modules' = modules /\ uses' = uses
      /\ abandoned' = abandoned
  BY TopFacts DEF YieldFromObject, InYieldFrom, Running
<1>2. PICK fs : fs = YieldFromFrames(at)
  OBVIOUS
<1>3. /\ Keeps(frames, fs, Len(frames)) /\ Len(fs) = Len(frames)
      /\ Last(fs).op = "YieldFrom" /\ Last(fs).at = at /\ fs \in Seq(Frames) /\ Len(frames) \in Nat
  BY <1>1, <1>2, TopFacts, YieldFromFramesKeeps DEF Keeps
<1>4. CASE frames' = Done(fs) /\ raised' = raised
  <2>1. Move /\ frames' \in Seq(Frames)
    BY <1>1, <1>3, <1>4, DoneMoves
  <2> QED
    BY <1>1, <1>4, <2>1 DEF TypeOK
<1>5. CASE frames' = WithItem(fs, "object") /\ raised' = raised
  <2>1. Keeps(fs, WithItem(fs, "object"), Len(frames)) /\ Len(WithItem(fs, "object")) = Len(frames)
    BY <1>3, ItemKeeps DEF Delegates
  <2>2. Keeps(frames, WithItem(fs, "object"), Len(frames))
    BY <1>3, <2>1, KeepsTrans
  <2>3. Move /\ frames' \in Seq(Frames)
    BY <1>1, <1>5, <2>1, <2>2, ProgressMoves
  <2> QED
    BY <1>1, <1>5, <2>3 DEF TypeOK
<1>6. CASE frames' = fs /\ FailHere(IF Top.injected = None THEN "AttributeError" ELSE Top.injected, at)
  <2>1. PICK exc \in Exceptions : FailHere(exc, at)
    BY <1>1, <1>6, TopFacts DEF Exceptions
  <2>2. Move /\ frames' \in Seq(Frames) /\ raised' \in Errors
    BY <1>1, <1>3, <1>6, <2>1, FailureMoves
  <2> QED
    BY <1>1, <2>2 DEF TypeOK
<1>7. CASE /\ "recursion" \in uses \/ ~OnStack(f)
           /\ frames' = Append(fs, NewFrame(f, IF Top.injected = "GeneratorExit"
                                               THEN ReturnAction("YieldFromClose")
                                               ELSE Delegation("object")))
           /\ raised' = raised
  <2>1. PICK action : action = IF Top.injected = "GeneratorExit" THEN ReturnAction("YieldFromClose")
                                                                 ELSE Delegation("object")
    OBVIOUS
  <2>2. action \in Actions /\ action.kind \in {"YieldFrom", "YieldFromClose"}
    BY <2>1, DelegationFields DEF Delegates
  <2>3. PICK h : h = NewFrame(f, action)
    OBVIOUS
  <2>4. h \in Frames /\ h.gen = None /\ h.code = f /\ h.action = action /\ ~h.strayed
    BY <2>2, <2>3, NewFrameFields DEF Codes
  <2>5. frames' = Append(fs, h)
    BY <1>7, <2>1, <2>3
  <2> HIDE <2>1, <2>3
  <2>6. Linked(h) /\ Continues(h, Last(fs).op)
    BY <1>3, <2>2, <2>4 DEF Linked, Continues
  <2>7. Pushes(h) /\ frames' \in Seq(Frames)
    BY <1>1, <1>3, <2>4, <2>5, <2>6, PushMoves
  <2>8. Calls(h)
    BY <1>1, <1>7, <2>2, <2>4, <2>7 DEF Calls, SameStates
  <2>9. Move
    BY <1>1, <2>4, <2>8, TopFacts DEF Move
  <2> QED
    BY <1>1, <1>7, <2>7, <2>9 DEF TypeOK
<1> QED
  BY <1>2, <1>4, <1>5, <1>6, <1>7 DEF YieldFromObject

LEMMA AllocateMoves ==
  ASSUME TypeOK, LinksOK, NEW a \in Awaitables, NEW g \in Generators,
         NEW op \in {"send", "throw", "close"}, alloc_async_generator_awaitable(a, g, op)
  PROVE  TypeOK' /\ Move
<1>1. Running
  BY DEF alloc_async_generator_awaitable, Free
<1>2. awaits' \in [Awaitables -> AwaitableObjects]
  BY DEF alloc_async_generator_awaitable, TypeOK, AwaitableObjects
<1>3. /\ frames' = frames /\ raised' = None /\ bases' = bases /\ gens' = gens
      /\ modules' = modules /\ uses' = uses /\ abandoned' = abandoned
  BY <1>1, TopFacts DEF alloc_async_generator_awaitable
<1>4. Keeps(frames, frames, Len(frames))
  BY <1>1, TopFacts, LenOf
<1>5. Move
  BY <1>1, <1>3, <1>4, ProgressMoves
<1> QED
  BY <1>2, <1>3, <1>5 DEF TypeOK

-----------------------------------------------------------------------------
(* Driving an awaitable.                                                   *)

\* Of the generators that awaitables drive at most those of a change hands, and
\* one that is claimed runs.
HandedOver(a, gs, as) ==
  /\ \A g \in Generators : gens[g].state = "Completed" => gs[g].state = "Completed"
  /\ \A b \in Awaitables :
       as[b].state = "Running" /\ b # a => awaits[b].state = "Running" /\ as[b].gen = awaits[b].gen
  /\ \A g \in Generators :
       \/ gs[g].driver = gens[g].driver
       \/ gs[g].state = "Completed"
       \/ gens[g].driver \in {None, a}
  /\ (a \in Awaitables /\ as[a].state = "Running") =>
       /\ as[a].gen = awaits[a].gen /\ awaits[a].gen \in Generators
       /\ \/ gs[awaits[a].gen].driver = a /\ gs[awaits[a].gen].state = "Running"
          \/ awaits[a].state = "Running" /\ gs[awaits[a].gen].driver = gens[awaits[a].gen].driver

Rested(fs, r) ==
  /\ r.fs = fs
  /\ \A g \in Generators :
       r.gens[g].state = gens[g].state \/ (gens[g].state # "Running" /\ r.gens[g].state # "Running")

Entered(fs, a, exc, r, f) ==
  /\ f.gen = awaits[a].gen /\ f.code = CodeOf[awaits[a].gen] /\ ~f.strayed
  /\ f.action.kind = "AsyncGeneratorDrive" /\ f.action.ref = a /\ f.action.completion \in Completions
  /\ r.fs = Append(fs, f)
  /\ r.error \in {None, exc, "GeneratorExit"}
  /\ awaits[a].gen \in Generators
  /\ gens[awaits[a].gen].state \notin {"Running", "Completed"}
  /\ r.gens[awaits[a].gen].state = "Running"
  /\ \A h \in Generators : h # awaits[a].gen => r.gens[h].state = gens[h].state

Driven(fs, a, exc, r) ==
  /\ r.gens \in [Generators -> GeneratorObjects] /\ r.awaits \in [Awaitables -> AwaitableObjects]
  /\ r.error \in Exceptions \cup {None}
  /\ Rested(fs, r) \/ \E f \in Frames : Entered(fs, a, exc, r, f)
  /\ HandedOver(a, r.gens, r.awaits)

LEMMA OutcomeFields ==
  ASSUME NEW fs, NEW gs, NEW as, NEW error
  PROVE  /\ Outcome(fs, gs, as, error).fs = fs /\ Outcome(fs, gs, as, error).gens = gs
         /\ Outcome(fs, gs, as, error).awaits = as /\ Outcome(fs, gs, as, error).error = error
BY DEF Outcome

LEMMA AwaitableFields ==
  ASSUME TypeOK, NEW a \in Awaitables
  PROVE  /\ awaits[a] \in AwaitableObjects
         /\ awaits[a].state \in {"free", "Created", "Running", "Completed"}
         /\ awaits[a].state \in {"Created", "Running"} => awaits[a].gen \in Generators
         /\ awaits[a].op \in {None, "send", "throw", "close"}
BY DEF TypeOK, AwaitableObjects

\* What an awaitable that is completed leaves.
LEMMA CompletedAwait ==
  ASSUME TypeOK, NEW a \in Awaitables
  PROVE  /\ set_await_completed({a}) \in [Awaitables -> AwaitableObjects]
         /\ set_await_completed({a})[a].state = "Completed"
         /\ \A b \in Awaitables : b # a => set_await_completed({a})[b] = awaits[b]
         /\ \A b \in Awaitables : set_await_completed({a})[b].gen = awaits[b].gen
BY DEF TypeOK, set_await_completed, AwaitableObjects

\* An awaitable that is not resumed.
LEMMA NothingDriven ==
  ASSUME TypeOK, NEW fs, NEW a \in Awaitables, NEW exc, NEW error \in Exceptions \cup {None},
         NEW r,
         r = Outcome(fs, gens, awaits, error) \/ r = Outcome(fs, gens, set_await_completed({a}), error)
  PROVE  Driven(fs, a, exc, r)
<1>1. /\ r.gens = gens /\ r.error = error /\ r.fs = fs
      /\ r.awaits = awaits \/ r.awaits = set_await_completed({a})
  BY OutcomeFields
<1>2. r.awaits \in [Awaitables -> AwaitableObjects]
  BY <1>1, CompletedAwait DEF TypeOK
<1>3. HandedOver(a, gens, awaits)
  BY AwaitableFields DEF HandedOver
<1>4. HandedOver(a, gens, set_await_completed({a}))
  BY CompletedAwait, AwaitableFields DEF HandedOver
<1>5. Rested(fs, r)
  BY <1>1 DEF Rested
<1> QED
  BY <1>1, <1>2, <1>3, <1>4, <1>5 DEF Driven, TypeOK

LEMMA ClaimDriven ==
  ASSUME TypeOK, NEW fs \in Seq(Frames), NEW a \in Awaitables,
         awaits[a].state \in {"Created", "Running"}, NEW closing \in BOOLEAN,
         NEW completion \in Completions, NEW exc \in Exceptions \cup {None}, NEW accepts \in BOOLEAN,
         NEW r, r = claim_and_resume(fs, a, Drive(a, closing, completion), exc, accepts)
  PROVE  Driven(fs, a, exc, r)
<1>1. PICK g \in Generators : g = awaits[a].gen
  BY AwaitableFields
<1>2. PICK action : action = Drive(a, closing, completion)
  OBVIOUS
<1>3. /\ action \in Actions /\ action.kind = "AsyncGeneratorDrive" /\ action.ref = a
      /\ action.completion = completion
  BY <1>2 DEF Drive, ReturnAction, Actions, Kinds, Delegates
<1>4. PICK error : error = IF gens[g].state = "Created" /\ ~accepts THEN "Other" ELSE resume_error(g)
  OBVIOUS
<1>5. error \in Exceptions \cup {None} /\ (error = None => resume_error(g) = None)
  <2>1. "Other" \in Exceptions /\ "Other" # None
    BY UnwindingAssumption DEF Exceptions
  <2> QED
    BY <1>4, <2>1, ResumeError
<1>6. CASE gens[g].driver \notin {None, a}
  <2>1. r = Outcome(fs, gens, awaits, "Other")
    BY <1>1, <1>6 DEF claim_and_resume
  <2> QED
    BY <2>1, NothingDriven DEF Exceptions
<1>7. CASE gens[g].driver \in {None, a} /\ error # None
  <2>1. r = Outcome(fs, [gens EXCEPT ![g].driver = None], set_await_completed({a}), error)
    BY <1>1, <1>4, <1>7 DEF claim_and_resume
  <2>2. PICK gs : gs = [gens EXCEPT ![g].driver = None]
    OBVIOUS
  <2>3. /\ gs \in [Generators -> GeneratorObjects]
        /\ \A h \in Generators : gs[h].state = gens[h].state
        /\ \A h \in Generators : h # g => gs[h].driver = gens[h].driver
    BY <2>2 DEF TypeOK, GeneratorObjects
  <2>4. r.fs = fs /\ r.gens = gs /\ r.awaits = set_await_completed({a}) /\ r.error = error
    BY <2>1, <2>2, OutcomeFields
  <2> HIDE <2>2
  <2>5. Rested(fs, r)
    BY <2>3, <2>4 DEF Rested
  <2>6. HandedOver(a, gs, set_await_completed({a}))
    BY <1>7, <2>3, CompletedAwait DEF HandedOver
  <2> QED
    BY <1>5, <2>3, <2>4, <2>5, <2>6, CompletedAwait DEF Driven
<1>8. CASE gens[g].driver \in {None, a} /\ error = None
  <2>1. resume_error(g) = None /\ gens[g].state \notin {"Running", "Completed"}
    BY <1>5, <1>8, ResumeError
  <2>2. PICK f \in Frames : ResumedFrame(f, g, action) /\ resume_frames(fs, g, action) = Append(fs, f)
    BY <1>3, ResumeFrames
  <2>3. PICK entered : entered = resume_frames(fs, g, action)
    OBVIOUS
  <2>4. r = Outcome(IF gens[g].delegate # None /\ exc # None
                    THEN [entered EXCEPT ![Len(entered)].injected = exc] ELSE entered,
                    [resume_state(g) EXCEPT ![g].driver = a],
                    [awaits EXCEPT ![a].state = "Running"],
                    IF gens[g].delegate # None THEN None ELSE exc)
    BY <1>1, <1>2, <1>4, <1>8, <2>3 DEF claim_and_resume
  <2>5. PICK h \in Frames : /\ h.gen = g /\ h.code = CodeOf[g] /\ ~h.strayed /\ h.action = action
                            /\ r.fs = Append(fs, h)
    <3>1. CASE gens[g].delegate # None /\ exc # None
      <4>1. r.fs = [entered EXCEPT ![Len(entered)].injected = exc]
        BY <2>4, <3>1, OutcomeFields
      <4>2. entered = Append(fs, f)
        BY <2>2, <2>3
      <4>3. [entered EXCEPT ![Len(entered)].injected = exc] = Append(fs, [f EXCEPT !.injected = exc])
        <5>1. PICK x \in Exceptions : x = exc
          BY <3>1
        <5>2. [Append(fs, f) EXCEPT ![Len(Append(fs, f))].injected = x] = Append(fs, [f EXCEPT !.injected = x])
          BY InjectedAppend
        <5> QED
          BY <4>2, <5>1, <5>2
      <4>4. r.fs = Append(fs, [f EXCEPT !.injected = exc])
        BY <4>1, <4>3
      <4>5. PICK x : x = [f EXCEPT !.injected = exc]
        OBVIOUS
      <4>6. x \in Frames /\ x.gen = g /\ x.code = CodeOf[g] /\ ~x.strayed /\ x.action = action
        BY <2>2, <4>5 DEF ResumedFrame, Frames
      <4> QED
        BY <4>4, <4>5, <4>6
    <3>2. CASE ~(gens[g].delegate # None /\ exc # None)
      <4>1. r.fs = entered
        BY <2>4, <3>2, OutcomeFields
      <4>2. r.fs = Append(fs, f)
        BY <2>2, <2>3, <4>1
      <4> QED
        BY <2>2, <4>2 DEF ResumedFrame
    <3> QED
      BY <3>1, <3>2
  <2>6. /\ r.gens = [resume_state(g) EXCEPT ![g].driver = a]
        /\ r.awaits = [awaits EXCEPT ![a].state = "Running"]
        /\ r.error = IF gens[g].delegate # None THEN None ELSE exc
    BY <2>4, OutcomeFields
  <2>7. /\ r.gens \in [Generators -> GeneratorObjects]
        /\ r.gens[g].state = "Running" /\ r.gens[g].driver = a
        /\ \A x \in Generators : x # g => r.gens[x] = gens[x]
    <3>1. PICK rs : rs = resume_state(g)
      OBVIOUS
    <3>2. /\ rs \in [Generators -> GeneratorObjects] /\ rs[g].state = "Running"
          /\ \A x \in Generators : x # g => rs[x] = gens[x]
      BY <3>1, ResumedFields
    <3>3. r.gens = [rs EXCEPT ![g].driver = a]
      BY <2>6, <3>1
    <3>4. PICK gs : gs = [rs EXCEPT ![g].driver = a]
      OBVIOUS
    <3>5. /\ gs \in [Generators -> GeneratorObjects] /\ gs[g].state = "Running" /\ gs[g].driver = a
          /\ \A x \in Generators : x # g => gs[x] = gens[x]
      BY <3>2, <3>4 DEF GeneratorObjects
    <3> QED
      BY <3>3, <3>4, <3>5
  <2>8. /\ r.awaits \in [Awaitables -> AwaitableObjects]
        /\ \A b \in Awaitables : b # a => r.awaits[b] = awaits[b]
        /\ r.awaits[a].gen = awaits[a].gen
    <3>1. PICK as : as = [awaits EXCEPT ![a].state = "Running"]
      OBVIOUS
    <3>2. awaits[a].gen \in Generators
      BY <1>1
    <3>3. /\ as \in [Awaitables -> AwaitableObjects]
          /\ \A b \in Awaitables : b # a => as[b] = awaits[b]
          /\ as[a].gen = awaits[a].gen
      BY <3>1, <3>2 DEF TypeOK, AwaitableObjects
    <3> QED
      BY <2>6, <3>1, <3>3
  <2>9. Entered(fs, a, exc, r, h)
    BY <1>1, <1>3, <2>1, <2>5, <2>6, <2>7 DEF Entered
  <2>10. HandedOver(a, r.gens, r.awaits)
    BY <1>1, <1>8, <2>1, <2>7, <2>8 DEF HandedOver
  <2> QED
    BY <2>6, <2>7, <2>8, <2>9, <2>10 DEF Driven
<1> QED
  BY <1>6, <1>7, <1>8

LEMMA CompletionFields ==
  ASSUME TypeOK, NEW g \in Generators
  PROVE  /\ complete_generator(g) \in [Generators -> GeneratorObjects]
         /\ complete_generator(g)[g].state = "Completed"
         /\ \A h \in Generators : h # g => complete_generator(g)[h] = gens[h]
BY DEF TypeOK, complete_generator, complete_generators, GeneratorObjects, Delegates

\* An awaitable is closed before its generator has started.
LEMMA NeverDriven ==
  ASSUME TypeOK, NEW fs, NEW a \in Awaitables, awaits[a].state \in {"Created", "Running"},
         gens[awaits[a].gen].state = "Created", NEW exc,
         NEW error \in Exceptions \cup {None}, NEW r, r = Outcome(fs, complete_generator(awaits[a].gen), set_await_completed({a}), error)
  PROVE  Driven(fs, a, exc, r)
<1>1. PICK g \in Generators : g = awaits[a].gen
  BY AwaitableFields
<1>2. /\ r.fs = fs /\ r.gens = complete_generator(g) /\ r.awaits = set_await_completed({a})
      /\ r.error = error
  BY <1>1, OutcomeFields
<1>3. Rested(fs, r)
  <2>1. PICK gs : gs = complete_generator(g)
    OBVIOUS
  <2>2. /\ gs[g].state = "Completed" /\ gens[g].state = "Created"
        /\ \A h \in Generators : h # g => gs[h] = gens[h]
    BY <1>1, <2>1, CompletionFields
  <2>3. r.fs = fs /\ r.gens = gs
    BY <1>2, <2>1
  <2> QED
    BY <2>2, <2>3 DEF Rested
<1>4. HandedOver(a, r.gens, r.awaits)
  <2>1. PICK gs, as : gs = complete_generator(g) /\ as = set_await_completed({a})
    OBVIOUS
  <2>2. /\ gs[g].state = "Completed" /\ \A h \in Generators : h # g => gs[h] = gens[h]
        /\ as[a].state = "Completed" /\ \A b \in Awaitables : b # a => as[b] = awaits[b]
    BY <2>1, CompletionFields, CompletedAwait
  <2>3. HandedOver(a, gs, as)
    BY <2>2 DEF HandedOver
  <2> QED
    BY <1>2, <2>1, <2>3
<1> QED
  BY <1>2, <1>3, <1>4, CompletionFields, CompletedAwait DEF Driven

LEMMA DriveDriven ==
  ASSUME TypeOK, NEW fs \in Seq(Frames), NEW a \in Awaitables, awaits[a].state # "free",
         NEW exc \in Exceptions, NEW accepts \in BOOLEAN,
         NEW r, r = drive_async_generator_awaitable(fs, a, exc, accepts)
  PROVE  Driven(fs, a, exc, r)
<1>1. awaits[a].state \in {"Created", "Running", "Completed"}
  BY AwaitableFields
<1>2. PICK closing \in BOOLEAN : closing = (awaits[a].op = "close")
  OBVIOUS
<1>3. PICK injected \in Exceptions \cup {None} :
        injected = CASE awaits[a].state # "Created" -> None
                     [] awaits[a].op = "throw" -> exc
                     [] closing -> "GeneratorExit"
                     [] OTHER -> None
  BY DEF Exceptions
<1>4. {"Other", "StopIteration", "StopAsyncIteration"} \subseteq Exceptions
  BY DEF Exceptions
<1>5. CASE awaits[a].state = "Completed"
  <2>1. r = Outcome(fs, gens, awaits, "Other")
    BY <1>5 DEF drive_async_generator_awaitable
  <2> QED
    BY <1>4, <2>1, NothingDriven
<1>6. CASE awaits[a].state # "Completed" /\ gens[awaits[a].gen].state = "Completed"
  <2>1. r = Outcome(fs, gens, set_await_completed({a}),
                    IF awaits[a].op = "close" THEN "StopIteration" ELSE "StopAsyncIteration")
    BY <1>6 DEF drive_async_generator_awaitable
  <2> QED
    BY <1>4, <2>1, NothingDriven
<1>7. CASE /\ awaits[a].state # "Completed" /\ gens[awaits[a].gen].state = "Created"
           /\ awaits[a].op = "close"
  <2>1. r = Outcome(fs, complete_generator(awaits[a].gen), set_await_completed({a}), "StopIteration")
    BY <1>7 DEF drive_async_generator_awaitable
  <2> QED
    BY <1>1, <1>4, <1>7, <2>1, NeverDriven
<1>8. CASE /\ awaits[a].state # "Completed" /\ gens[awaits[a].gen].state # "Completed"
           /\ ~(gens[awaits[a].gen].state = "Created" /\ awaits[a].op = "close")
  <2>1. r = claim_and_resume(fs, a, Drive(a, closing, "Direct"), injected, accepts)
    BY <1>2, <1>3, <1>8 DEF drive_async_generator_awaitable
  <2>2. Driven(fs, a, injected, r)
    BY <1>1, <1>8, <2>1, ClaimDriven DEF Completions
  <2>3. injected \in {None, exc, "GeneratorExit"}
    BY <1>3
  <2>4. ASSUME NEW f \in Frames, Entered(fs, a, injected, r, f) PROVE Entered(fs, a, exc, r, f)
    BY <2>3, <2>4 DEF Entered
  <2> QED
    BY <2>2, <2>4 DEF Driven
<1> QED
  BY <1>5, <1>6, <1>7, <1>8

LEMMA InjectDriven ==
  ASSUME TypeOK, NEW fs \in Seq(Frames), NEW a \in Awaitables, awaits[a].state # "free",
         NEW exc \in Exceptions, NEW closing \in BOOLEAN,
         NEW r, r = inject_async_generator_awaitable(fs, a, exc, closing)
  PROVE  Driven(fs, a, exc, r)
<1>1. awaits[a].state \in {"Created", "Running", "Completed"}
  BY AwaitableFields
<1>2. CASE awaits[a].state = "Completed"
  <2>1. r = Outcome(fs, gens, awaits, IF closing THEN None ELSE exc)
    BY <1>2 DEF inject_async_generator_awaitable
  <2> QED
    BY <2>1, NothingDriven
<1>3. CASE awaits[a].state # "Completed" /\ closing /\ gens[awaits[a].gen].state = "Created"
  <2>1. r = Outcome(fs, complete_generator(awaits[a].gen), set_await_completed({a}), None)
    BY <1>3 DEF inject_async_generator_awaitable
  <2> QED
    BY <1>1, <1>3, <2>1, NeverDriven
<1>4. CASE awaits[a].state # "Completed" /\ ~(closing /\ gens[awaits[a].gen].state = "Created")
  <2>1. PICK completion \in Completions : completion = IF closing THEN "CloseMethod" ELSE "Direct"
    BY DEF Completions
  <2>2. r = claim_and_resume(fs, a, Drive(a, closing, completion), exc, TRUE)
    BY <1>4, <2>1 DEF inject_async_generator_awaitable
  <2> QED
    BY <1>1, <1>4, <2>2, ClaimDriven
<1> QED
  BY <1>2, <1>3, <1>4

\* An instruction drives an awaitable: the active frame goes on or fails, or the
\* frame of the generator is on top of it.
LEMMA DrivenMoves ==
  ASSUME TypeOK, LinksOK, Running,
         NEW fs, Keeps(frames, fs, Len(frames)), Len(fs) = Len(frames),
         NEW at \in Sites, Last(fs).at = at,
         NEW a \in Awaitables, NEW exc, NEW r, Driven(fs, a, exc, r),
         gens' = r.gens, awaits' = r.awaits,
         \/ Rested(fs, r) /\ frames' = fs
         \/ \E f, h \in Frames :
              /\ Entered(fs, a, exc, r, f)
              /\ h.gen = f.gen /\ h.code = f.code
              /\ h.action.kind = "AsyncGeneratorDrive" /\ h.action.ref = a
              /\ h.action.completion \in Completions
              /\ NothingMistaken => ~h.strayed
              /\ frames' = Append(fs, h),
         raised' \in Errors \cup {None},
         raised' # None => raised'.code = Top.code /\ raised'.at = at /\ ~raised'.direct,
         bases' = bases, modules' = modules, uses' = uses, abandoned' = abandoned
  PROVE  TypeOK' /\ Move
<1>1. gens' \in [Generators -> GeneratorObjects] /\ awaits' \in [Awaitables -> AwaitableObjects]
  BY DEF Driven
<1>2. CASE Rested(fs, r) /\ frames' = fs
  <2>1. \A g \in Generators :
          gens'[g].state = gens[g].state \/ (gens[g].state # "Running" /\ gens'[g].state # "Running")
    BY <1>2 DEF Rested
  <2>2. Stays
    BY <1>2, <2>1 DEF Stays, Blames
  <2>3. frames' \in Seq(Frames)
    BY <1>2 DEF Keeps
  <2>4. Move
    BY <2>2, TopFacts DEF Move
  <2> QED
    BY <1>1, <2>3, <2>4 DEF TypeOK
<1>3. ASSUME NEW f \in Frames, NEW h \in Frames, Entered(fs, a, exc, r, f),
             h.gen = f.gen, h.code = f.code,
             h.action.kind = "AsyncGeneratorDrive", h.action.ref = a,
             h.action.completion \in Completions,
             NothingMistaken => ~h.strayed,
             frames' = Append(fs, h)
      PROVE  Move /\ frames' \in Seq(Frames)
  <2>1. PICK g \in Generators : g = awaits[a].gen
    BY <1>3 DEF Entered
  <2>2. /\ gens[g].state \notin {"Running", "Completed"}
        /\ gens'[g].state = "Running" /\ OtherStates(g)
        /\ h.gen = g /\ h.code = CodeOf[g]
    BY <1>3, <2>1 DEF Entered, OtherStates
  <2>3. Linked(h) /\ (NothingMistaken => Continues(h, Last(fs).op))
    BY <1>3 DEF Linked, Continues
  <2>4. h.action \in Actions /\ h.action.kind # "Import"
    BY <1>3, FrameFields
  <2>5. raised' = None \/ (raised'.code = Top.code /\ ~raised'.direct)
    OBVIOUS
  <2> QED
    BY <1>3, <2>2, <2>3, <2>4, <2>5, EnterMoves
<1>4. Move /\ frames' \in Seq(Frames)
  <2>1. CASE Rested(fs, r) /\ frames' = fs
    <3>1. frames' \in Seq(Frames)
      BY <2>1 DEF Keeps
    <3>2. Stays
      BY <2>1 DEF Stays, Blames, Rested
    <3> QED
      BY <3>1, <3>2, TopFacts DEF Move
  <2> QED
    BY <1>3, <2>1
<1> QED
  BY <1>1, <1>4 DEF TypeOK

LEMMA AwaitableCallMoves ==
  ASSUME TypeOK, LinksOK, NEW a \in Awaitables, NEW method \in {"send", "throw", "close"},
         NEW exc \in Exceptions, NEW accepts \in BOOLEAN, NEW at \in Sites,
         AwaitableCall(a, method, exc, accepts, at)
  PROVE  TypeOK' /\ Move /\ HandedOver(a, gens', awaits')
<1>1. /\ Running /\ awaits[a].state # "free"
      /\ bases' = bases /\ modules' = modules /\ uses' = uses /\ abandoned' = abandoned
  BY DEF AwaitableCall, Free
<1>2. PICK fs : fs = Executing("Call", at)
  OBVIOUS
<1>3. /\ Keeps(frames, fs, Len(frames)) /\ Len(fs) = Len(frames) /\ Last(fs).at = at
      /\ fs \in Seq(Frames)
  BY <1>1, <1>2, TopFacts, ExecutingKeeps DEF Ops
<1>4. PICK r : r = CASE method = "send" -> drive_async_generator_awaitable(fs, a, exc, accepts)
                     [] method = "throw" -> AwaitThrow(fs, a, exc)
                     [] method = "close" -> AwaitClose(fs, a)
  OBVIOUS
<1>5. /\ frames' = r.fs /\ gens' = r.gens /\ awaits' = r.awaits
      /\ raised' = IF r.error = None THEN None ELSE Error(r.error, Top.code, at)
  BY <1>2, <1>4 DEF AwaitableCall
<1>6. PICK e : Driven(fs, a, e, r)
  <2>1. CASE method = "send"
    <3>1. r = drive_async_generator_awaitable(fs, a, exc, accepts)
      BY <1>4, <2>1
    <3> QED
      BY <1>1, <1>3, <3>1, DriveDriven
  <2>2. CASE method = "throw"
    <3>1. r = inject_async_generator_awaitable(fs, a, exc, FALSE)
      BY <1>4, <2>2 DEF AwaitThrow
    <3> QED
      BY <1>1, <1>3, <3>1, InjectDriven
  <2>3. CASE method = "close"
    <3>1. r = inject_async_generator_awaitable(fs, a, "GeneratorExit", TRUE)
      BY <1>4, <2>3 DEF AwaitClose
    <3> QED
      BY <1>1, <1>3, <3>1, InjectDriven DEF Exceptions
  <2> QED
    BY <2>1, <2>2, <2>3
<1> HIDE <1>2, <1>4
<1>7. /\ raised' \in Errors \cup {None}
      /\ raised' # None => raised'.code = Top.code /\ raised'.at = at /\ ~raised'.direct
  BY <1>1, <1>5, <1>6, ErrorFields, TopFacts DEF Driven, Places
<1>8. \/ Rested(fs, r) /\ frames' = fs
      \/ \E f, h \in Frames :
           /\ Entered(fs, a, e, r, f)
           /\ h.gen = f.gen /\ h.code = f.code
           /\ h.action.kind = "AsyncGeneratorDrive" /\ h.action.ref = a
           /\ h.action.completion \in Completions
           /\ NothingMistaken => ~h.strayed
           /\ frames' = Append(fs, h)
  <2>1. CASE Rested(fs, r)
    BY <1>5, <2>1 DEF Rested
  <2>2. CASE \E f \in Frames : Entered(fs, a, e, r, f)
    <3>1. PICK f \in Frames : Entered(fs, a, e, r, f)
      BY <2>2
    <3> QED
      BY <1>5, <3>1 DEF Entered
  <2> QED
    BY <1>6, <2>1, <2>2 DEF Driven
<1>9. HandedOver(a, gens', awaits')
  BY <1>5, <1>6 DEF Driven
<1> QED
  BY <1>1, <1>3, <1>5, <1>6, <1>7, <1>8, <1>9, DrivenMoves

\* The continuation of the frame that has been entered is set, and whether it strays.
LEMMA CompletedAppend ==
  ASSUME NEW fs \in Seq(Frames), NEW f \in Frames, NEW c \in Actions, NEW e \in BOOLEAN
  PROVE  \E h \in Frames :
           /\ h.gen = f.gen /\ h.code = f.code /\ h.strayed = e /\ h.action = c
           /\ [Append(fs, f) EXCEPT ![Len(Append(fs, f))].action = c,
                                    ![Len(Append(fs, f))].strayed = e] = Append(fs, h)
<1>1. PICK hs : hs = Append(fs, f)
  OBVIOUS
<1>2. PICK y : y = [f EXCEPT !.action = c]
  OBVIOUS
<1>3. PICK h : h = [y EXCEPT !.strayed = e]
  OBVIOUS
<1>4. y \in Frames /\ y.gen = f.gen /\ y.code = f.code /\ y.action = c
  BY <1>2 DEF Frames
<1>5. h \in Frames /\ h.gen = f.gen /\ h.code = f.code /\ h.action = c /\ h.strayed = e
  BY <1>3, <1>4 DEF Frames
<1>6. hs[Len(hs)] = f /\ Len(hs) \in DOMAIN hs /\ [hs EXCEPT ![Len(hs)] = y] = Append(fs, y)
  BY <1>1, <1>4, AppendReplaced
<1>7. PICK n : n = Len(hs)
  OBVIOUS
<1>8. PICK ks : ks = [hs EXCEPT ![n].action = c]
  OBVIOUS
<1>9. ks = [hs EXCEPT ![n] = y]
  BY <1>2, <1>6, <1>7, <1>8
<1>10. ks = Append(fs, y)
  BY <1>6, <1>7, <1>9
<1>11. ks[n] = y /\ n \in DOMAIN ks /\ n = Len(ks)
  <2>1. Len(hs) = Len(fs) + 1 /\ Len(Append(fs, y)) = Len(fs) + 1
    BY <1>1, <1>4, AppendReplaced
  <2> QED
    BY <1>4, <1>7, <1>10, <2>1, AppendReplaced
<1>12. [ks EXCEPT ![Len(ks)] = h] = Append(fs, h)
  BY <1>4, <1>5, <1>10, AppendReplaced
<1>13. [ks EXCEPT ![n].strayed = e] = Append(fs, h)
  BY <1>3, <1>11, <1>12
<1>14. [hs EXCEPT ![Len(hs)].action = c, ![Len(hs)].strayed = e] = [ks EXCEPT ![n].strayed = e]
  BY <1>7, <1>8
<1> QED
  BY <1>1, <1>5, <1>13, <1>14

\* The completion of an await.
LEMMA AwaitCompletion ==
  ASSUME NEW c \in Actions, c.kind = "AsyncGeneratorDrive", NEW a \in Awaitables,
         NEW d, d = set_yield_from_close_completion(c) \/ d = set_yield_from_completion(c, a)
  PROVE  /\ d \in Actions /\ d.kind = "AsyncGeneratorDrive" /\ d.ref = c.ref
         /\ d.completion \in Completions
<1>1. a \in Delegates /\ {"YieldFrom", "YieldFromClose"} \subseteq Completions
  BY DEF Delegates, Completions
<1> QED
  BY <1>1 DEF set_yield_from_close_completion, set_yield_from_completion, Actions

LEMMA AwaitMoves ==
  ASSUME TypeOK, LinksOK, NEW a \in Awaitables, NEW exc \in Exceptions, NEW accepts \in BOOLEAN,
         NEW at \in Sites, YieldFromAwaitable(a, exc, accepts, at)
  PROVE  TypeOK' /\ Move /\ HandedOver(a, gens', awaits')
<1> DEFINE fs == YieldFromFrames(at)
           closing == Top.injected = "GeneratorExit"
           r == CASE Top.injected = None -> drive_async_generator_awaitable(fs, a, exc, accepts)
                  [] closing -> inject_async_generator_awaitable(fs, a, Top.injected, TRUE)
                  [] OTHER -> inject_async_generator_awaitable(fs, a, Top.injected, FALSE)
           entered == Len(r.fs) > Len(fs)
           ended == ~closing /\ r.error = "StopIteration"
           error == IF closing /\ ~entered /\ r.error = None THEN Top.injected ELSE r.error
           c == r.fs[Len(r.fs)].action
           d == IF closing THEN set_yield_from_close_completion(c) ELSE set_yield_from_completion(c, a)
<1>1. /\ Running /\ awaits[a].state # "free"
      /\ bases' = bases /\ modules' = modules /\ uses' = uses /\ abandoned' = abandoned
      /\ "StopIteration" \in {exc, Top.injected} => "athrow_stop" \in uses
  BY DEF YieldFromAwaitable, InYieldFrom
<1>2. gens' = r.gens /\ awaits' = r.awaits
  BY DEF YieldFromAwaitable
<1>3. raised' = IF ended \/ error = None THEN None ELSE Error(error, Top.code, at)
  BY DEF YieldFromAwaitable
<1>4. frames' = IF entered
                THEN [r.fs EXCEPT
                        ![Len(r.fs)].action = IF closing
                                              THEN set_yield_from_close_completion(@)
                                              ELSE set_yield_from_completion(@, a),
                        ![Len(r.fs)].strayed = ended]
                ELSE r.fs
  BY DEF YieldFromAwaitable
<1>5. frames' = IF entered
                THEN [r.fs EXCEPT ![Len(r.fs)].action = d, ![Len(r.fs)].strayed = ended]
                ELSE r.fs
  BY <1>4
<1>6. /\ Keeps(frames, fs, Len(frames)) /\ Len(fs) = Len(frames) /\ Last(fs).at = at
      /\ fs \in Seq(Frames) /\ Len(frames) \in Nat
  BY <1>1, TopFacts, YieldFromFramesKeeps
<1>7. /\ Top.injected = None => r = drive_async_generator_awaitable(fs, a, exc, accepts)
      /\ Top.injected # None =>
           \/ r = inject_async_generator_awaitable(fs, a, Top.injected, TRUE)
           \/ r = inject_async_generator_awaitable(fs, a, Top.injected, FALSE)
  <2>1. None # "GeneratorExit"
    BY UnwindingAssumption DEF Exceptions
  <2> QED
    BY <2>1
<1> HIDE DEF fs, r
<1>8. PICK e \in Exceptions : e \in {exc, Top.injected} /\ Driven(fs, a, e, r)
  <2>1. CASE Top.injected = None
    BY <1>1, <1>6, <1>7, <2>1, DriveDriven
  <2>2. CASE Top.injected # None
    <3>1. Top.injected \in Exceptions
      BY <1>1, <2>2, TopFacts
    <3>2. Driven(fs, a, Top.injected, r)
      BY <1>1, <1>6, <1>7, <2>2, <3>1, InjectDriven
    <3> QED
      BY <3>1, <3>2
  <2> QED
    BY <2>1, <2>2
<1>9. error \in Exceptions \cup {None}
  BY <1>1, <1>8, TopFacts DEF Driven
<1> HIDE DEF error
<1>10. /\ raised' \in Errors \cup {None}
       /\ raised' # None => raised'.code = Top.code /\ raised'.at = at /\ ~raised'.direct
  BY <1>1, <1>3, <1>9, ErrorFields, TopFacts DEF Places
<1>11. CASE Rested(fs, r)
  <2>1. r.fs = fs
    BY <1>11 DEF Rested
  <2>2. ~entered
    BY <1>6, <2>1
  <2>3. frames' = fs
    BY <1>5, <2>1, <2>2
  <2> QED
    BY <1>1, <1>2, <1>6, <1>8, <1>10, <1>11, <2>3, DrivenMoves DEF Driven
<1>12. ASSUME NEW f \in Frames, Entered(fs, a, e, r, f)
       PROVE  TypeOK' /\ Move /\ HandedOver(a, gens', awaits')
  <2>1. r.fs = Append(fs, f) /\ f.action.kind = "AsyncGeneratorDrive" /\ f.action.ref = a
    BY <1>12 DEF Entered
  <2>2. Len(r.fs) = Len(fs) + 1 /\ r.fs[Len(r.fs)] = f
    BY <1>6, <2>1, AppendReplaced
  <2>3. entered /\ c = f.action
    BY <1>6, <2>2
  <2>4. d \in Actions /\ d.kind = "AsyncGeneratorDrive" /\ d.ref = a /\ d.completion \in Completions
    BY <2>1, <2>3, AwaitCompletion, FrameFields
  <2>5. NothingMistaken => ~ended
    <3>1. SUFFICES ASSUME NothingMistaken, ended PROVE FALSE
      OBVIOUS
    <3>2. r.error = "StopIteration" /\ r.error \in {None, e, "GeneratorExit"}
      BY <1>12, <3>1 DEF Entered
    <3>3. None # "StopIteration"
      BY UnwindingAssumption DEF Exceptions
    <3>4. "athrow_stop" \in uses
      BY <1>1, <1>8, <3>2, <3>3
    <3> QED
      BY <3>1, <3>4 DEF NothingMistaken
  <2>6. frames' = [Append(fs, f) EXCEPT ![Len(Append(fs, f))].action = d,
                                        ![Len(Append(fs, f))].strayed = ended]
    BY <1>5, <2>1, <2>3
  <2>7. ended \in BOOLEAN
    OBVIOUS
  <2> HIDE DEF d, ended
  <2>8. PICK h \in Frames :
          /\ h.gen = f.gen /\ h.code = f.code /\ h.strayed = ended /\ h.action = d
          /\ [Append(fs, f) EXCEPT ![Len(Append(fs, f))].action = d,
                                   ![Len(Append(fs, f))].strayed = ended] = Append(fs, h)
    BY <1>6, <2>4, <2>7, CompletedAppend
  <2>9. /\ h.gen = f.gen /\ h.code = f.code
        /\ h.action.kind = "AsyncGeneratorDrive" /\ h.action.ref = a
        /\ h.action.completion \in Completions
        /\ NothingMistaken => ~h.strayed
        /\ frames' = Append(fs, h)
    BY <2>4, <2>5, <2>6, <2>8
  <2>10. \E f1, h1 \in Frames :
           /\ Entered(fs, a, e, r, f1)
           /\ h1.gen = f1.gen /\ h1.code = f1.code
           /\ h1.action.kind = "AsyncGeneratorDrive" /\ h1.action.ref = a
           /\ h1.action.completion \in Completions
           /\ NothingMistaken => ~h1.strayed
           /\ frames' = Append(fs, h1)
    BY <1>12, <2>9
  <2> QED
    BY <1>1, <1>2, <1>6, <1>8, <1>10, <2>10, DrivenMoves DEF Driven
<1> QED
  BY <1>8, <1>11, <1>12 DEF Driven

-----------------------------------------------------------------------------
(* The end of a frame.                                                     *)

LEMMA BelowFacts ==
  ASSUME TypeOK, LinksOK, Running
  PROVE  /\ Below(frames) \in Seq(Frames) /\ Len(Below(frames)) = Len(frames) - 1
         /\ Len(frames) - 1 \in Nat /\ Len(frames) - 1 # Len(frames)
         /\ Keeps(frames, Below(frames), Len(frames) - 1)
         /\ Keeps(frames, Done(Below(frames)), Len(frames) - 1)
         /\ Len(Done(Below(frames))) = Len(frames) - 1 /\ Done(Below(frames)) \in Seq(Frames)
         /\ \A d \in Delegates :
              /\ Keeps(frames, WithItem(Below(frames), d), Len(frames) - 1)
              /\ Len(WithItem(Below(frames), d)) = Len(frames) - 1
              /\ WithItem(Below(frames), d) \in Seq(Frames)
<1>1. PICK k \in Nat : k = Len(frames) - 1 /\ k # Len(frames)
  <2>1. Len(frames) \in Nat /\ Len(frames) - 1 \in Nat
    BY TopFacts
  <2> QED
    BY <2>1
<1>2. PICK cs \in Seq(Frames) : cs = Below(frames) /\ Len(cs) = k /\ Keeps(frames, cs, k)
  BY <1>1, TopFacts, BelowKeeps
<1> HIDE <1>1
<1>3. Keeps(frames, Done(cs), k) /\ Len(Done(cs)) = k /\ Done(cs) \in Seq(Frames)
  BY <1>2, DoneKeeps, KeepsTrans
<1>4. ASSUME NEW d \in Delegates
      PROVE  /\ Keeps(frames, WithItem(cs, d), k) /\ Len(WithItem(cs, d)) = k
             /\ WithItem(cs, d) \in Seq(Frames)
  BY <1>2, ItemKeeps, KeepsTrans
<1> QED
  BY <1>1, <1>2, <1>3, <1>4

\* The stack without the active frame.
Left ==
  /\ Keeps(frames, frames', Len(frames) - 1) /\ Len(frames') = Len(frames) - 1
  /\ frames' \in Seq(Frames) /\ raised' \in Errors \cup {None}
  /\ Blames
  /\ raised' # None => Top.action.kind \notin Entries
  /\ modules' \in [Modules -> ModuleObjects]
  /\ \/ Top.action.kind # "Import" /\ modules' = modules
     \/ /\ Top.action.kind = "Import"
        /\ modules' = [modules EXCEPT ![Top.action.ref].state = "Loaded"]

LEMMA ContinueLeaves ==
  ASSUME TypeOK, LinksOK, Running, NEW at \in Sites, Continue([Top EXCEPT !.at = at])
  PROVE  Left
<1>1. PICK f : f = [Top EXCEPT !.at = at]
  OBVIOUS
<1>2. /\ Top \in Frames /\ Top.action \in Actions /\ raised = None /\ Top.code \in Codes
      /\ at \in Places /\ Top.action.iterator \in Delegates
  BY TopFacts, ActionFields DEF Places
<1>3. f.action = Top.action /\ f.code = Top.code /\ f.at = at
  BY <1>1, <1>2 DEF Frames
<1>4. Continue(f)
  BY <1>1
<1> HIDE <1>1
<1>5. PICK cs : cs = Below(frames)
  OBVIOUS
<1>6. Len(frames) - 1 # Len(frames) /\ modules \in [Modules -> ModuleObjects]
  BY BelowFacts DEF TypeOK
<1>7. CASE \/ Top.action.kind \in Plain
           \/ Top.action.kind = "AsyncGeneratorDrive" /\ Top.action.completion # "YieldFrom"
  <2>1. frames' = Done(cs) /\ modules' = modules /\ raised' = raised
    BY <1>3, <1>4, <1>5, <1>7 DEF Continue, Plain, Protocols, Consumers
  <2>2. Top.action.kind # "Import"
    BY <1>7 DEF Plain
  <2> QED
    BY <1>2, <1>5, <1>6, <2>1, <2>2, BelowFacts DEF Left, Blames
<1>8. CASE \/ Top.action.kind = "YieldFrom"
           \/ Top.action.kind = "AsyncGeneratorDrive" /\ Top.action.completion = "YieldFrom"
  <2>1. frames' = WithItem(cs, Top.action.iterator) /\ modules' = modules /\ raised' = raised
    BY <1>3, <1>4, <1>5, <1>8 DEF Continue, Plain, Protocols, Consumers
  <2> QED
    BY <1>2, <1>5, <1>6, <1>8, <2>1, BelowFacts DEF Left, Blames
<1>9. CASE Top.action.kind = "YieldFromClose"
  <2>1. frames' = cs /\ raised' = Error("GeneratorExit", Top.code, at) /\ modules' = modules
    BY <1>3, <1>4, <1>5, <1>9 DEF Continue, Plain, Protocols, Consumers
  <2>2. raised' \in Errors /\ raised'.code = Top.code /\ ~raised'.direct
    BY <1>2, <2>1, ErrorFields DEF Exceptions
  <2> QED
    BY <1>5, <1>6, <1>9, <2>1, <2>2, BelowFacts DEF Left, Blames, Entries
<1>10. CASE Top.action.kind = "Import"
  <2>1. /\ frames' = Done(cs) /\ raised' = raised
        /\ modules' = [modules EXCEPT ![Top.action.ref].state = "Loaded"]
    BY <1>3, <1>4, <1>5, <1>10 DEF Continue, Plain, Protocols, Consumers
  <2>2. modules' \in [Modules -> ModuleObjects]
    BY <1>6, <2>1 DEF ModuleObjects
  <2> QED
    BY <1>2, <1>5, <1>6, <1>10, <2>1, <2>2, BelowFacts DEF Left, Blames
<1>11. CASE Top.action.kind \in Protocols
  <2>1. ContinueProtocol(f)
    BY <1>3, <1>4, <1>11 DEF Continue, Plain, Protocols, Consumers
  <2>2. modules' = modules /\ Top.action.kind \notin Entries /\ Top.action.kind # "Import"
    BY <1>11, <2>1 DEF ContinueProtocol, Protocols, Consumers, Entries
  <2>3. CASE frames' = Done(cs) /\ raised' = raised
    BY <1>2, <1>5, <1>6, <2>2, <2>3, BelowFacts DEF Left, Blames
  <2>4. CASE frames' = cs /\ raised' = Error("Other", Top.code, at)
    <3>1. raised' \in Errors /\ raised'.code = Top.code /\ ~raised'.direct
      BY <1>2, <2>4, ErrorFields DEF Exceptions
    <3> QED
      BY <1>5, <1>6, <2>2, <2>4, <3>1, BelowFacts DEF Left, Blames
  <2> QED
    BY <1>3, <1>5, <2>1, <2>3, <2>4 DEF ContinueProtocol
<1> QED
  BY <1>2, <1>7, <1>8, <1>9, <1>10, <1>11, ActionFields DEF Kinds

LEMMA OpReturnMoves ==
  ASSUME TypeOK, LinksOK, NEW at \in Sites, OpReturn(at)
  PROVE  TypeOK' /\ Move
<1>1. /\ Running /\ Top.gen = None /\ Continue([Top EXCEPT !.at = at])
      /\ bases' = bases /\ gens' = gens /\ awaits' = awaits /\ uses' = uses
      /\ abandoned' = abandoned
  BY DEF OpReturn, Free
<1>2. Left
  BY <1>1, ContinueLeaves
<1>3. Leaves
  BY <1>1, <1>2 DEF Left, Leaves, SameStates
<1>4. Move
  BY <1>1, <1>3, TopFacts DEF Move
<1> QED
  BY <1>1, <1>2, <1>4 DEF TypeOK, Left

\* The generator of the active frame ends, and its frame raises an exception.
LEMMA FailsMoves ==
  ASSUME TypeOK, LinksOK, Running, NEW at \in Sites, NEW exc \in Exceptions,
         Top.gen # None, gens' = complete_generator(Top.gen),
         frames' = Executing("Call", at), FailHere(exc, at),
         bases' = bases, modules' = modules, uses' = uses, abandoned' = abandoned
  PROVE  /\ Move /\ frames' \in Seq(Frames) /\ raised' \in Errors
         /\ gens' \in [Generators -> GeneratorObjects]
<1>1. Top.gen \in Generators /\ Top.code \in Codes /\ at \in Places
  BY TopFacts DEF Places
<1>2. /\ gens' \in [Generators -> GeneratorObjects]
      /\ gens'[Top.gen].state = "Completed" /\ OtherStates(Top.gen)
  BY <1>1, CompleteOne
<1>3. /\ Keeps(frames, frames', Len(frames)) /\ Len(frames') = Len(frames)
      /\ Last(frames').at = at /\ frames' \in Seq(Frames)
  BY TopFacts, ExecutingKeeps DEF Ops
<1>4. /\ raised' \in Errors /\ raised' # None /\ raised'.code = Top.code
      /\ raised'.at = at /\ ~raised'.direct
  BY <1>1, ErrorFields DEF FailHere
<1>5. Blames
  BY <1>3, <1>4 DEF Blames
<1>6. Fails
  BY <1>2, <1>3, <1>4, <1>5 DEF Fails
<1> QED
  BY <1>2, <1>3, <1>4, <1>6, TopFacts DEF Move

LEMMA ReturnGeneratorMoves ==
  ASSUME TypeOK, LinksOK, NEW at \in Sites, ReturnGenerator(at)
  PROVE  TypeOK' /\ Move
<1>1. Running
  BY DEF ReturnGenerator, Free
<1>2. /\ Move /\ frames' \in Seq(Frames) /\ raised' \in Errors
      /\ gens' \in [Generators -> GeneratorObjects]
  BY <1>1, FailsMoves DEF ReturnGenerator, Exceptions
<1> QED
  BY <1>2 DEF TypeOK, ReturnGenerator

LEMMA ReturnAsyncMoves ==
  ASSUME TypeOK, LinksOK, NEW at \in Sites, ReturnAsync(at)
  PROVE  TypeOK' /\ Move
<1>1. /\ Running /\ Top.gen # None /\ gens' = complete_generator(Top.gen)
      /\ bases' = bases /\ modules' = modules /\ uses' = uses /\ abandoned' = abandoned
      /\ raised = None /\ Top.gen \in Generators /\ Top.code \in Codes /\ at \in Places
  BY TopFacts DEF ReturnAsync, Free, Places
<1>2. awaits' \in [Awaitables -> AwaitableObjects]
  <2>1. awaits' = awaits \/ awaits' = set_await_completed({Top.action.ref})
    BY DEF ReturnAsync
  <2> QED
    BY <2>1, AwaitFields DEF TypeOK
<1>3. CASE \E exc \in Exceptions : frames' = Executing("Call", at) /\ FailHere(exc, at)
  <2>1. /\ Move /\ frames' \in Seq(Frames) /\ raised' \in Errors
        /\ gens' \in [Generators -> GeneratorObjects]
    BY <1>1, <1>3, FailsMoves
  <2> QED
    BY <1>1, <1>2, <2>1 DEF TypeOK
<1>4. CASE /\ Top.action.kind = "AsyncGeneratorDrive"
           /\ frames' = Below(frames)
           /\ raised' = IF Top.action.completion = "YieldFromClose"
                        THEN Error("GeneratorExit", Top.code, at) ELSE None
  <2>1. /\ raised' \in Errors \cup {None}
        /\ raised' # None => raised'.code = Top.code /\ ~raised'.direct
    BY <1>1, <1>4, ErrorFields DEF Exceptions
  <2>2. /\ gens' \in [Generators -> GeneratorObjects]
        /\ gens'[Top.gen].state = "Completed" /\ OtherStates(Top.gen)
    BY <1>1, CompleteOne
  <2>3. /\ Keeps(frames, frames', Len(frames) - 1) /\ Len(frames') = Len(frames) - 1
        /\ frames' \in Seq(Frames) /\ Len(frames) - 1 # Len(frames)
    BY <1>1, <1>4, BelowFacts
  <2>4. Leaves
    BY <1>1, <1>4, <2>1, <2>2, <2>3 DEF Leaves, Blames, Entries
  <2>5. Move
    BY <1>1, <2>4, TopFacts DEF Move
  <2> QED
    BY <1>1, <1>2, <2>1, <2>2, <2>3, <2>5 DEF TypeOK
<1> QED
  BY <1>3, <1>4 DEF ReturnAsync, Exceptions

\* The generator of the active frame is suspended.
LEMMA SuspendedFields ==
  ASSUME TypeOK, NEW g \in Generators, g = Top.gen, NEW at \in Sites, Top.delegate \in Delegates,
         NEW gs, gs = suspend_active_generator(at)
  PROVE  /\ gs \in [Generators -> GeneratorObjects]
         /\ gs[g].state = "Suspended" /\ gs[g].driver = gens[g].driver
         /\ \A h \in Generators : h # g => gs[h] = gens[h]
<1>1. PICK o : o = [gens[g] EXCEPT !.state = "Suspended", !.at = at, !.delegate = Top.delegate]
  OBVIOUS
<1>2. /\ gens \in [Generators -> GeneratorObjects]
      /\ gs = [gens EXCEPT ![g] = o]
  BY <1>1 DEF TypeOK, suspend_active_generator
<1>3. gens[g].driver \in Awaitables \cup {None} /\ gens[g] \in GeneratorObjects
  BY GeneratorFields
<1>4. o = [state |-> "Suspended", at |-> at, delegate |-> Top.delegate, driver |-> gens[g].driver]
  BY <1>1, <1>3 DEF GeneratorObjects
<1>5. o \in GeneratorObjects /\ o.state = "Suspended" /\ o.driver = gens[g].driver
  BY <1>3, <1>4 DEF GeneratorObjects
<1> QED
  BY <1>2, <1>5

LEMMA SuspendFields ==
  ASSUME TypeOK, NEW g \in Generators, g = Top.gen, NEW at \in Sites, Top.delegate \in Delegates,
         gens' = suspend_active_generator(at)
  PROVE  /\ gens' \in [Generators -> GeneratorObjects]
         /\ gens'[g].state = "Suspended" /\ OtherStates(g)
         /\ \A h \in Generators : gens'[h].driver = gens[h].driver
BY SuspendedFields DEF OtherStates

LEMMA OpYieldMoves ==
  ASSUME TypeOK, LinksOK, NEW at \in Sites, OpYield(at)
  PROVE  TypeOK' /\ Move
<1>1. /\ Running /\ Top.gen # None
      /\ bases' = bases /\ uses' = uses /\ abandoned' = abandoned
      /\ Top.gen \in Generators /\ Top.delegate \in Delegates
  BY TopFacts DEF OpYield, Yielding
<1>2. CASE /\ gens' = complete_generator(Top.gen)
           /\ awaits' = set_await_completed({Top.action.ref})
           /\ frames' = Executing("Call", at) /\ FailHere("Other", at) /\ modules' = modules
  <2>1. /\ Move /\ frames' \in Seq(Frames) /\ raised' \in Errors
        /\ gens' \in [Generators -> GeneratorObjects]
    BY <1>1, <1>2, FailsMoves DEF Exceptions
  <2>2. awaits' \in [Awaitables -> AwaitableObjects]
    BY <1>2, AwaitFields
  <2> QED
    BY <1>1, <1>2, <2>1, <2>2 DEF TypeOK
<1>3. CASE /\ gens' = suspend_active_generator(at) /\ Continue([Top EXCEPT !.at = at])
           /\ awaits' = awaits
  <2>1. Left
    BY <1>1, <1>3, ContinueLeaves
  <2>2. /\ gens' \in [Generators -> GeneratorObjects]
        /\ gens'[Top.gen].state = "Suspended" /\ OtherStates(Top.gen)
    BY <1>1, <1>3, SuspendFields
  <2>3. Leaves
    BY <1>1, <2>1, <2>2 DEF Left, Leaves
  <2>4. Move
    BY <1>1, <2>3, TopFacts DEF Move
  <2> QED
    BY <1>1, <1>3, <2>1, <2>2, <2>4 DEF TypeOK, Left
<1> QED
  BY <1>2, <1>3 DEF OpYield

LEMMA YieldAgainMoves ==
  ASSUME TypeOK, LinksOK, NEW at \in Sites, YieldAgain(at)
  PROVE  TypeOK' /\ Move
<1>1. Running
  BY DEF YieldAgain, Yielding
<1>2. PICK fs : fs = Executing("Resumed", at)
  OBVIOUS
<1>3. Keeps(frames, fs, Len(frames)) /\ Len(fs) = Len(frames)
  BY <1>1, <1>2, TopFacts, ExecutingKeeps DEF Ops
<1>4. /\ frames' = fs /\ raised' = None /\ gens' = gens /\ bases' = bases /\ modules' = modules
      /\ uses' = uses /\ abandoned' = abandoned
  BY <1>1, <1>2, TopFacts DEF YieldAgain
<1>5. Move /\ frames' \in Seq(Frames)
  BY <1>1, <1>3, <1>4, ProgressMoves
<1> QED
  BY <1>4, <1>5 DEF TypeOK, YieldAgain

LEMMA OpAsyncYieldMoves ==
  ASSUME TypeOK, LinksOK, NEW at \in Sites, OpAsyncYield(at)
  PROVE  TypeOK' /\ Move
<1>1. /\ Running /\ Top.gen # None /\ KindOf[Top.gen] = "async" /\ Top.delegate = None
      /\ bases' = bases /\ modules' = modules /\ uses' = uses /\ abandoned' = abandoned
      /\ Top.gen \in Generators /\ Top.delegate \in Delegates /\ raised = None
      /\ Top.code \in Codes /\ at \in Places
  BY TopFacts DEF OpAsyncYield, Yielding, Places
<1>2. "Other" \in Exceptions /\ "StopIteration" \in Exceptions
  BY DEF Exceptions
<1>3. CASE Top.action.kind = "Close"
  <2>1. /\ gens' = complete_generator(Top.gen) /\ frames' = Executing("Call", at)
        /\ FailHere("Other", at) /\ awaits' = awaits
    BY <1>3 DEF OpAsyncYield
  <2>2. /\ Move /\ frames' \in Seq(Frames) /\ raised' \in Errors
        /\ gens' \in [Generators -> GeneratorObjects]
    BY <1>1, <1>2, <2>1, FailsMoves
  <2> QED
    BY <1>1, <2>1, <2>2 DEF TypeOK
<1>4. CASE Top.action.kind \notin {"AsyncGeneratorDrive", "Close"}
  <2>1. /\ gens' = suspend_active_generator(at) /\ frames' = Executing("Call", at)
        /\ FailHere("Other", at) /\ awaits' = awaits
    BY <1>4 DEF OpAsyncYield
  <2>2. /\ Keeps(frames, frames', Len(frames)) /\ Len(frames') = Len(frames)
        /\ Last(frames').at = at /\ frames' \in Seq(Frames)
    BY <1>1, <2>1, TopFacts, ExecutingKeeps DEF Ops
  <2>3. /\ raised' \in Errors /\ raised' # None /\ raised'.code = Top.code
        /\ raised'.at = at /\ ~raised'.direct
    BY <1>1, <1>2, <2>1, ErrorFields DEF FailHere
  <2>4. Blames
    BY <2>2, <2>3 DEF Blames
  <2>5. Strands
    BY <1>1, <1>4, <2>2, <2>3, <2>4 DEF Strands
  <2>6. Move
    BY <1>1, <2>5, TopFacts DEF Move
  <2>7. gens' \in [Generators -> GeneratorObjects]
    BY <1>1, <2>1, SuspendFields
  <2> QED
    BY <1>1, <2>1, <2>2, <2>3, <2>6, <2>7 DEF TypeOK
<1>5. CASE Top.action.kind = "AsyncGeneratorDrive"
  <2>1. awaits' = set_await_completed({Top.action.ref})
    BY <1>5 DEF OpAsyncYield
  <2>2. awaits' \in [Awaitables -> AwaitableObjects]
    BY <2>1, AwaitFields
  <2>3. /\ gens' \in [Generators -> GeneratorObjects]
        /\ gens'[Top.gen].state # "Running" /\ OtherStates(Top.gen)
    <3>1. CASE Top.action.closing
      <4>1. gens' = complete_generator(Top.gen)
        BY <1>5, <3>1 DEF OpAsyncYield
      <4> QED
        BY <1>1, <4>1, CompleteOne
    <3>2. CASE ~Top.action.closing
      <4>1. gens' = [suspend_active_generator(at) EXCEPT ![Top.gen].driver =
                       IF @ = Top.action.ref THEN None ELSE @]
        BY <1>5, <3>2 DEF OpAsyncYield
      <4>2. PICK gs : gs = suspend_active_generator(at)
        OBVIOUS
      <4>3. /\ gs \in [Generators -> GeneratorObjects]
            /\ gs[Top.gen].state = "Suspended"
            /\ \A h \in Generators : h # Top.gen => gs[h] = gens[h]
        BY <1>1, <4>2, SuspendedFields
      <4>4. gens' = [gs EXCEPT ![Top.gen].driver = IF @ = Top.action.ref THEN None ELSE @]
        BY <4>1, <4>2
      <4> QED
        BY <1>1, <4>3, <4>4 DEF GeneratorObjects, OtherStates
    <3> QED
      BY <3>1, <3>2
  <2>4. /\ Keeps(frames, frames', Len(frames) - 1) /\ Len(frames') = Len(frames) - 1
        /\ frames' \in Seq(Frames) /\ Len(frames) - 1 # Len(frames)
    <3>1. CASE frames' = Below(frames)
      BY <1>1, <3>1, BelowFacts
    <3>2. CASE frames' = Done([Below(frames) EXCEPT ![Len(frames) - 1].delegate = None])
      <4>1. PICK k \in Nat : k = Len(frames) - 1 /\ k # Len(frames)
        BY <1>1, BelowFacts
      <4>2. PICK cs \in Seq(Frames) : cs = Below(frames) /\ Len(cs) = k /\ Keeps(frames, cs, k)
        BY <1>1, <4>1, BelowFacts
      <4>3. PICK hs : hs = [cs EXCEPT ![k].delegate = None]
        OBVIOUS
      <4>4. Keeps(cs, hs, k) /\ Len(hs) = k /\ hs \in Seq(Frames)
        BY <4>2, <4>3, FreedKeeps
      <4>5. Keeps(hs, Done(hs), k) /\ Len(Done(hs)) = k /\ Done(hs) \in Seq(Frames)
        BY <4>4, DoneKeeps
      <4>6. Keeps(frames, hs, k)
        BY <4>2, <4>4, KeepsTrans
      <4>7. Keeps(frames, Done(hs), k)
        BY <4>4, <4>5, <4>6, KeepsTrans
      <4>8. frames' = Done(hs)
        BY <3>2, <4>1, <4>2, <4>3
      <4> QED
        BY <4>1, <4>5, <4>7, <4>8
    <3> QED
      BY <1>5, <3>1, <3>2 DEF OpAsyncYield
  <2>5. /\ raised' \in Errors \cup {None}
        /\ raised' # None => raised'.code = Top.code /\ ~raised'.direct
    <3>1. raised' \in {None, Error("Other", Top.code, at), Error("StopIteration", Top.code, at)}
      BY <1>1, <1>5 DEF OpAsyncYield
    <3> QED
      BY <1>1, <1>2, <3>1, ErrorFields
  <2>6. Leaves
    BY <1>1, <1>5, <2>3, <2>4, <2>5 DEF Leaves, Blames, Entries
  <2>7. Move
    BY <1>1, <2>6, TopFacts DEF Move
  <2> QED
    BY <1>1, <2>2, <2>3, <2>4, <2>5, <2>7 DEF TypeOK
<1> QED
  BY <1>3, <1>4, <1>5

LEMMA BasesFacts ==
  ASSUME TypeOK, LinksOK
  PROVE  /\ bases \in Seq(Nat) /\ Len(bases) \in Nat \ {0} /\ Base \in Nat
         /\ \A i \in 1 .. Len(bases) : bases[i] \in Nat
         /\ Base = bases[Len(bases)]
         /\ Append(bases, Len(frames)) \in Seq(Nat)
         /\ Len(Append(bases, Len(frames))) = Len(bases) + 1
         /\ Append(bases, Len(frames))[Len(bases) + 1] = Len(frames)
         /\ \A i \in 1 .. Len(bases) : Append(bases, Len(frames))[i] = bases[i]
<1>1. bases \in Seq(Nat) /\ Len(bases) \in Nat \ {0} /\ Len(frames) \in Nat
  BY LenProperties DEF TypeOK
<1>2. Len(bases) \in 1 .. Len(bases) /\ \A i \in 1 .. Len(bases) : bases[i] \in Nat
  BY <1>1, ElementOfSeq
<1> QED
  BY <1>1, <1>2, AppendProperties DEF Base, Last

LEMMA NativeCallMoves ==
  ASSUME TypeOK, LinksOK, NEW f \in Functions, NEW at \in Sites, NativeCall(f, at)
  PROVE  TypeOK' /\ Move
<1>1. /\ Running /\ raised = None /\ bases' = Append(bases, Len(frames))
      /\ gens' = gens /\ awaits' = awaits /\ modules' = modules /\ raised' = raised
      /\ uses' = uses /\ abandoned' = abandoned /\ ("recursion" \in uses \/ ~OnStack(f))
  BY TopFacts DEF NativeCall, Free
<1>2. PICK fs : fs = Executing("Call", at)
  OBVIOUS
<1>3. Keeps(frames, fs, Len(frames)) /\ Len(fs) = Len(frames)
  BY <1>1, <1>2, TopFacts, ExecutingKeeps DEF Ops
<1>4. PICK h : h = NewFrame(f, ReturnAction("Value"))
  OBVIOUS
<1>5. /\ h \in Frames /\ h.gen = None /\ h.code = f /\ h.action.kind = "Value" /\ ~h.strayed
  BY <1>4, ReturnActionFields, NewFrameFields DEF Kinds, Plain, Codes
<1>6. frames' = Append(fs, h)
  BY <1>2, <1>4 DEF NativeCall
<1> HIDE <1>2, <1>4
<1>7. Linked(h) /\ Continues(h, Last(fs).op) /\ h.action.kind \in Entries
  BY <1>5 DEF Linked, Continues, Entries
<1>8. Pushes(h) /\ frames' \in Seq(Frames)
  BY <1>1, <1>3, <1>5, <1>6, <1>7, PushMoves
<1>9. Calls(h)
  BY <1>1, <1>5, <1>8 DEF Calls, SameStates
<1>10. Move
  BY <1>1, <1>5, <1>9, TopFacts DEF Move
<1>11. bases' \in Seq(Nat) /\ Len(bases') > 0
  BY <1>1, BasesFacts
<1> QED
  BY <1>1, <1>8, <1>10, <1>11 DEF TypeOK

LEMMA FinalizeMoves ==
  ASSUME TypeOK, LinksOK, NEW g \in Generators, finalize_one_generator(g)
  PROVE  TypeOK' /\ Move
<1>1. /\ Running /\ "finalizers" \in uses /\ resume_error(g) = None
      /\ bases' = Append(bases, Len(frames)) /\ gens' = resume_state(g)
      /\ awaits' = awaits /\ modules' = modules /\ uses' = uses /\ abandoned' = abandoned
      /\ inject(resume_frames(frames, g, ReturnAction("Close")), gens[g].delegate # None,
                "GeneratorExit", CodeOf[g], gens[g].at)
  BY DEF finalize_one_generator
<1>2. PICK action \in Actions : action = ReturnAction("Close") /\ action.kind = "Close"
  BY ReturnActionFields DEF Kinds, Plain
<1>3. inject(resume_frames(frames, g, action), gens[g].delegate # None,
             "GeneratorExit", CodeOf[g], gens[g].at)
  BY <1>1, <1>2
<1>4. Keeps(frames, frames, Len(frames)) /\ Len(frames) = Len(frames)
  BY <1>1, TopFacts, LenOf
<1>5. action.kind \notin {"Import", "AsyncGeneratorDrive", "IteratorNext", "YieldFrom",
                          "YieldFromClose"} /\ action.kind \in Entries
  BY <1>2 DEF Entries
<1>6. CodeOf[g] \in Codes /\ gens[g].at \in Places /\ "GeneratorExit" \in Exceptions
  BY GeneratorFields DEF Codes, Places, Exceptions
<1>7. Move /\ frames' \in Seq(Frames) /\ raised' \in Errors \cup {None}
  BY <1>1, <1>2, <1>3, <1>4, <1>5, <1>6, InjectMoves
<1>8. bases' \in Seq(Nat) /\ Len(bases') > 0
  BY <1>1, BasesFacts
<1> QED
  BY <1>1, <1>7, <1>8, ResumeState DEF TypeOK

LEMMA InstructionMoves ==
  ASSUME TypeOK, LinksOK, Instruction
  PROVE  TypeOK' /\ Move
<1>1. uses \cap Functions \subseteq Functions /\ uses \cap Generators \subseteq Generators
      /\ uses \cap Modules \subseteq Modules /\ uses \cap Awaitables \subseteq Awaitables
      /\ uses \cap (Plain \cup Protocols) \subseteq Plain \cup Protocols
      /\ uses \cap Exceptions \subseteq Exceptions
      /\ uses \cap (Consumers \cup {"Next", "NextDefault"}) \subseteq Consumers \cup {"Next", "NextDefault"}
  OBVIOUS
<1> QED
  BY <1>1, CallMoves, FreezeMoves, OpNextMoves, ResumeCallMoves, ThrowMoves, CloseMoves, RaiseOpMoves,
     ImportMoves, StoreGlobalMoves, YieldFromGeneratorMoves, YieldFromObjectMoves, AllocateMoves,
     AwaitableCallMoves, AwaitMoves, OpReturnMoves, ReturnGeneratorMoves, ReturnAsyncMoves,
     OpYieldMoves, YieldAgainMoves, OpAsyncYieldMoves, NativeCallMoves, FinalizeMoves
     DEF Instruction

-----------------------------------------------------------------------------
(* A move preserves each part of the invariant.                            *)

LEMMA MoveFacts ==
  ASSUME TypeOK, LinksOK, BasesOK, Move
  PROVE  /\ raised = None /\ Len(frames) \in Nat \ {0} /\ Len(frames) - 1 \in Nat
         /\ Base \in Nat /\ Base < Len(frames)
         /\ Top = frames[Len(frames)] /\ Top \in Frames
         /\ \A i \in 1 .. Len(frames) : frames[i] \in Frames
         /\ \A i \in 1 .. Len(bases) : bases[i] \in Nat /\ bases[i] <= Base
         /\ uses' = uses /\ abandoned' = abandoned
<1>1. /\ raised = None /\ Base < Len(frames) /\ uses' = uses /\ abandoned' = abandoned
  BY DEF Move
<1>2. Running
  BY <1>1 DEF Running
<1>3. ASSUME NEW i \in 1 .. Len(bases) PROVE bases[i] \in Nat /\ bases[i] <= Base
  <2>1. /\ Len(bases) \in Nat \ {0} /\ \A j \in 1 .. Len(bases) : bases[j] \in Nat
        /\ Base = bases[Len(bases)] /\ Len(bases) \in 1 .. Len(bases)
    BY BasesFacts
  <2>2. bases[i] \in Nat /\ Base \in Nat /\ i <= Len(bases) /\ i \in Nat
    BY <2>1
  <2>3. i < Len(bases) => bases[i] < Base
    BY <2>1 DEF BasesOK
  <2> QED
    BY <2>1, <2>2, <2>3
<1>4. \A i \in 1 .. Len(frames) : frames[i] \in Frames
  BY LenOf DEF TypeOK
<1> QED
  BY <1>1, <1>2, <1>3, <1>4, TopFacts

LEMMA AlikeEntries ==
  ASSUME NEW f, NEW h, Alike(f, h), f.action.kind \in Entries
  PROVE  h.action.kind \in Entries
BY DEF Alike, Entries

LEMMA AlikeLinked ==
  ASSUME NEW f, NEW h \in Frames, Alike(f, h), Linked(f)
  PROVE  Linked(h)
<1>1. h.action.completion \in Completions \cup {None}
  BY FrameFields, ActionFields
<1>2. CASE h.action = f.action
  BY <1>2 DEF Linked
<1>3. CASE h.action # f.action
  BY <1>1, <1>3 DEF Linked, Alike
<1> QED
  BY <1>2, <1>3

\* An import stays one, and no other frame becomes one.
LEMMA AlikeImports ==
  ASSUME NEW f, NEW h, Alike(f, h)
  PROVE  /\ h.action.kind = "Import" => f.action.kind = "Import" /\ h.action.ref = f.action.ref
         /\ ~Replaced => h.action = f.action
BY DEF Alike

\* What is left of the stack by every move.
LEMMA MoveShape ==
  ASSUME TypeOK, LinksOK, BasesOK, Move
  PROVE  \E k \in {Len(frames) - 1, Len(frames)} :
           /\ Keeps(frames, frames', k)
           /\ \/ /\ Len(frames') = k /\ bases' = bases
                 /\ k # Len(frames) => (raised' # None => Top.action.kind \notin Entries)
              \/ /\ k = Len(frames) /\ Len(frames') = k + 1
                 /\ \E f \in Frames : Pushes(f)
<1>1. CASE Stays \/ Fails \/ Strands
  BY <1>1 DEF Stays, Fails, Strands
<1>2. CASE Binds
  <2>1. Keeps(frames, frames, Len(frames))
    BY LenOf DEF TypeOK
  <2> QED
    BY <1>2, <2>1 DEF Binds
<1>3. CASE Leaves
  BY <1>3 DEF Leaves
<1>4. CASE \E f \in Frames : Pushes(f)
  BY <1>4 DEF Pushes
<1>5. ASSUME NEW f \in Frames, Calls(f) PROVE Pushes(f)
  BY <1>5 DEF Calls
<1>6. ASSUME NEW g \in Generators, NEW f \in Frames, Enters(g, f) PROVE Pushes(f)
  BY <1>6 DEF Enters
<1> QED
  BY <1>1, <1>2, <1>3, <1>4, <1>5, <1>6 DEF Move

LEMMA MoveLinks ==
  ASSUME TypeOK, TypeOK', LinksOK, BasesOK, Move
  PROVE  LinksOK'
<1>1. PICK n \in Nat : n = Len(frames) /\ n # 0
  BY MoveFacts
<1>2. PICK k \in {n - 1, n} :
        /\ Keeps(frames, frames', k)
        /\ \/ Len(frames') = k
           \/ Len(frames') = k + 1 /\ k = n /\ \E f \in Frames : Pushes(f)
  BY <1>1, MoveShape
<1>3. k \in Nat /\ k <= n
  BY <1>1, <1>2
<1>4. ASSUME NEW i \in 1 .. k PROVE Linked(frames'[i])
  <2>1. i \in 1 .. n /\ frames'[i] \in Frames
    BY <1>2, <1>3, LenOf DEF TypeOK
  <2>2. Linked(frames[i]) /\ Alike(frames[i], frames'[i])
    BY <1>1, <1>2, <2>1 DEF LinksOK, Keeps
  <2> QED
    BY <2>1, <2>2, AlikeLinked
<1>5. ASSUME NEW f \in Frames, Pushes(f), k = n PROVE Linked(frames'[k + 1])
  BY <1>1, <1>5 DEF Pushes
<1>6. \A i \in 1 .. Len(frames') : Linked(frames'[i])
  <2>1. CASE Len(frames') = k
    BY <1>4, <2>1
  <2>2. CASE Len(frames') = k + 1 /\ k = n /\ \E f \in Frames : Pushes(f)
    <3>1. Linked(frames'[k + 1])
      BY <1>5, <2>2
    <3>2. ASSUME NEW i \in 1 .. k + 1 PROVE i = k + 1 \/ i \in 1 .. k
      BY <1>3
    <3> QED
      BY <1>4, <2>2, <3>1, <3>2
  <2> QED
    BY <1>2, <2>1, <2>2
<1> QED
  BY <1>6 DEF LinksOK, Linked

LEMMA MoveBases ==
  ASSUME TypeOK, TypeOK', LinksOK, BasesOK, Move
  PROVE  BasesOK'
<1>1. PICK n \in Nat : n = Len(frames) /\ n # 0
  BY MoveFacts
<1>2. PICK k \in {n - 1, n} :
        /\ Keeps(frames, frames', k)
        /\ \/ /\ Len(frames') = k /\ bases' = bases
              /\ k # n => (raised' # None => Top.action.kind \notin Entries)
           \/ Len(frames') = k + 1 /\ k = n /\ \E f \in Frames : Pushes(f)
  BY <1>1, MoveShape
<1>3. /\ k \in Nat /\ k <= n /\ Base \in Nat /\ Base < n /\ Base <= k
  BY <1>1, <1>2, MoveFacts
<1>4. PICK l \in Nat \ {0} :
        /\ l = Len(bases) /\ Base = bases[l]
        /\ \A i \in 1 .. l : bases[i] \in Nat /\ bases[i] <= Base
        /\ \A i, j \in 1 .. l : i < j => bases[i] < bases[j]
  BY BasesFacts, MoveFacts DEF BasesOK
<1>5. ASSUME NEW i \in 1 .. l, bases[i] < k PROVE frames'[bases[i] + 1].action.kind \in Entries
  <2>1. bases[i] + 1 \in 1 .. k /\ bases[i] < n
    BY <1>3, <1>4, <1>5
  <2>2. frames[bases[i] + 1].action.kind \in Entries
    BY <1>1, <1>4, <2>1 DEF BasesOK
  <2>3. Alike(frames[bases[i] + 1], frames'[bases[i] + 1])
    BY <1>2, <2>1 DEF Keeps
  <2> QED
    BY <2>2, <2>3, AlikeEntries
<1>6. CASE /\ Len(frames') = k /\ bases' = bases
           /\ k # n => (raised' # None => Top.action.kind \notin Entries)
  <2>1. Base' = Base /\ Len(bases') = l
    BY <1>4, <1>6 DEF Base, Last
  <2>2. raised' # None => Base < k
    <3>1. SUFFICES ASSUME raised' # None, Base = k PROVE FALSE
      BY <1>3
    <3>2. k = n - 1 /\ k # n
      BY <1>1, <1>2, <1>3, <3>1
    <3>3. Top = frames[Base + 1] /\ Base < Len(frames)
      BY <1>1, <3>1, <3>2, MoveFacts
    <3>4. Top.action.kind \in Entries
      BY <1>4, <3>3 DEF BasesOK
    <3> QED
      BY <1>6, <3>1, <3>2, <3>4
  <2>3. \A i \in 1 .. l : bases[i] <= k
    BY <1>3, <1>4
  <2> QED
    BY <1>4, <1>5, <1>6, <2>1, <2>2, <2>3 DEF BasesOK
<1>7. ASSUME Len(frames') = k + 1, k = n, NEW f \in Frames, Pushes(f), bases' = bases
      PROVE  BasesOK'
  <2>1. Base' = Base /\ Len(bases') = l
    BY <1>4, <1>7 DEF Base, Last
  <2>2. \A i \in 1 .. l : bases[i] <= k + 1 /\ bases[i] < k
    BY <1>3, <1>4, <1>7
  <2>3. Base < k + 1
    BY <1>3
  <2> QED
    BY <1>4, <1>5, <1>7, <2>1, <2>2, <2>3 DEF BasesOK
<1>8. ASSUME Len(frames') = k + 1, k = n, NEW f \in Frames, Pushes(f),
             bases' = Append(bases, n), f.action.kind \in Entries
      PROVE  BasesOK'
  <2>1. /\ Len(bases') = l + 1 /\ bases'[l + 1] = n
        /\ \A i \in 1 .. l : bases'[i] = bases[i]
    BY <1>1, <1>4, <1>8, BasesFacts
  <2>2. Base' = n
    BY <2>1 DEF Base, Last
  <2>3. \A i \in 1 .. l + 1 : i = l + 1 \/ i \in 1 .. l
    BY <1>4
  <2>4. \A i \in 1 .. l + 1 : bases'[i] <= n + 1
    <3>1. \A i \in 1 .. l : bases'[i] <= n + 1
      BY <1>3, <1>4, <2>1
    <3> QED
      BY <1>1, <2>1, <2>3, <3>1
  <2>5. ASSUME NEW i \in 1 .. l + 1, NEW j \in 1 .. l + 1, i < j PROVE bases'[i] < bases'[j]
    <3>1. i \in 1 .. l
      BY <1>4, <2>5
    <3>2. CASE j = l + 1
      BY <1>3, <1>4, <2>1, <3>1, <3>2
    <3>3. CASE j \in 1 .. l
      BY <1>4, <2>1, <2>5, <3>1, <3>3
    <3> QED
      BY <2>3, <3>2, <3>3
  <2>6. ASSUME NEW i \in 1 .. l + 1 PROVE frames'[bases'[i] + 1].action.kind \in Entries
    <3>1. CASE i = l + 1
      <4>1. frames'[n + 1] = f
        BY <1>1, <1>8 DEF Pushes
      <4> QED
        BY <1>8, <2>1, <3>1, <4>1
    <3>2. CASE i \in 1 .. l
      <4>1. bases[i] < k
        BY <1>3, <1>4, <1>8, <3>2
      <4> QED
        BY <1>5, <2>1, <3>2, <4>1
    <3> QED
      BY <2>3, <3>1, <3>2
  <2> QED
    BY <1>1, <1>8, <2>1, <2>2, <2>4, <2>5, <2>6 DEF BasesOK
<1>9. ASSUME NEW f \in Frames, Pushes(f)
      PROVE  bases' = bases \/ (bases' = Append(bases, n) /\ f.action.kind \in Entries)
  BY <1>1, <1>9 DEF Pushes
<1> QED
  BY <1>2, <1>6, <1>7, <1>8, <1>9

LEMMA MoveContinuations ==
  ASSUME TypeOK, TypeOK', LinksOK, BasesOK, ContinuationsOK, Move
  PROVE  ContinuationsOK'
<1>1. PICK n \in Nat : n = Len(frames) /\ n # 0
  BY MoveFacts
<1>2. PICK k \in {n - 1, n} :
        /\ Keeps(frames, frames', k)
        /\ \/ Len(frames') = k
           \/ Len(frames') = k + 1 /\ k = n /\ \E f \in Frames : Pushes(f)
  BY <1>1, MoveShape
<1>3. SUFFICES ASSUME NothingMistaken, NEW i \in 2 .. Len(frames')
               PROVE  Continues(frames'[i], frames'[i - 1].op)
  BY MoveFacts DEF ContinuationsOK, NothingMistaken, Continues
<1>4. ~Replaced
  BY <1>3 DEF NothingMistaken, Replaced
<1>5. CASE i <= k
  <2>1. i \in 1 .. k /\ i - 1 \in 1 .. k /\ i - 1 < k /\ i \in 2 .. n
    BY <1>1, <1>2, <1>5
  <2>2. frames'[i - 1] = frames[i - 1] /\ Alike(frames[i], frames'[i])
    BY <1>2, <2>1 DEF Keeps
  <2>3. frames'[i].action = frames[i].action /\ frames'[i].strayed = frames[i].strayed
    BY <1>4, <2>2 DEF Alike
  <2>4. Continues(frames[i], frames[i - 1].op)
    BY <1>1, <1>3, <2>1 DEF ContinuationsOK
  <2> QED
    BY <2>2, <2>3, <2>4 DEF Continues
<1>6. CASE ~(i <= k)
  <2>1. PICK f \in Frames : Pushes(f)
    BY <1>1, <1>2, <1>6
  <2>2. i = n + 1 /\ i - 1 = n
    BY <1>1, <1>2, <1>6
  <2>3. frames'[n + 1] = f /\ Continues(f, frames'[n].op)
    BY <1>1, <1>3, <2>1 DEF Pushes
  <2> QED
    BY <2>2, <2>3
<1> QED
  BY <1>5, <1>6

LEMMA KeptFrames ==
  ASSUME TypeOK, NEW hs, NEW k, Keeps(frames, hs, k)
  PROVE  /\ k \in Nat /\ k <= Len(frames) /\ Len(frames) \in Nat /\ Len(hs) \in Nat
         /\ \A i \in 1 .. k :
              /\ i \in 1 .. Len(frames) /\ frames[i] \in Frames /\ hs[i] \in Frames
              /\ Alike(frames[i], hs[i])
              /\ hs[i].gen = frames[i].gen /\ hs[i].code = frames[i].code
              /\ hs[i].action.kind = "Import" =>
                   frames[i].action.kind = "Import" /\ frames[i].action.ref = hs[i].action.ref
              /\ ~Replaced => hs[i].action = frames[i].action
<1>1. PICK n \in Nat : n = Len(frames)
  BY LenOf DEF TypeOK
<1>2. k \in Nat /\ k <= n /\ hs \in Seq(Frames) /\ k <= Len(hs) /\ Len(hs) \in Nat
  BY <1>1, LenOf DEF Keeps
<1>3. ASSUME NEW i \in 1 .. k
      PROVE  /\ i \in 1 .. n /\ frames[i] \in Frames /\ hs[i] \in Frames
             /\ Alike(frames[i], hs[i])
  <2>1. i \in 1 .. n /\ i \in 1 .. Len(hs)
    BY <1>1, <1>2
  <2> QED
    BY <1>1, <1>2, <2>1, LenOf DEF TypeOK, Keeps
<1>4. ASSUME NEW i \in 1 .. k
      PROVE  /\ hs[i].gen = frames[i].gen /\ hs[i].code = frames[i].code
             /\ hs[i].action.kind = "Import" =>
                  frames[i].action.kind = "Import" /\ frames[i].action.ref = hs[i].action.ref
             /\ ~Replaced => hs[i].action = frames[i].action
  BY <1>3, AlikeImports DEF Alike
<1> QED
  BY <1>1, <1>2, <1>3, <1>4

\* The imports of the frames that stay.
LEMMA ImportsStay ==
  ASSUME TypeOK, LinksOK, ImportsOK, NEW k, Keeps(frames, frames', k),
         k = Len(frames) \/ (k = Len(frames) - 1 /\ Top.action.kind # "Import"),
         \/ Len(frames') = k
         \/ Len(frames') = k + 1 /\ frames'[k + 1].action.kind # "Import",
         modules' = modules, abandoned' = abandoned, uses' = uses
  PROVE  ImportsOK'
<1>1. PICK n \in Nat : n = Len(frames)
  BY LenOf DEF TypeOK
<1>2. k \in Nat /\ k <= n
  BY <1>1, KeptFrames
<1>3. ASSUME NEW i \in 1 .. Len(frames'), frames'[i].action.kind = "Import"
      PROVE  /\ i \in 1 .. k /\ i \in 1 .. n /\ frames[i].action.kind = "Import"
             /\ frames[i].action.ref = frames'[i].action.ref
  <2>1. i \in 1 .. k
    BY <1>2, <1>3
  <2> QED
    BY <1>1, <1>3, <2>1, KeptFrames
<1>4. \A i \in 1 .. Len(frames') :
        frames'[i].action.kind = "Import" => modules'[frames'[i].action.ref].state = "Initializing"
  BY <1>1, <1>3 DEF ImportsOK
<1>5. \A i, j \in 1 .. Len(frames') :
        (frames'[i].action.kind = "Import" /\ frames'[j].action.kind = "Import" /\
         frames'[i].action.ref = frames'[j].action.ref) => i = j
  BY <1>1, <1>3 DEF ImportsOK
<1>6. ASSUME ~CutOff, ~Replaced, NEW m \in Modules, modules[m].state = "Initializing", m \notin abandoned
      PROVE  \E i \in 1 .. Len(frames') :
               frames'[i].action.kind = "Import" /\ frames'[i].action.ref = m
  <2>1. PICK i \in 1 .. n : frames[i].action.kind = "Import" /\ frames[i].action.ref = m
    BY <1>1, <1>6 DEF ImportsOK
  <2>2. i \in 1 .. k
    <3>1. CASE k = n
      BY <3>1
    <3>2. CASE k = n - 1 /\ Top.action.kind # "Import"
      <4>1. i # n
        BY <1>1, <2>1, <3>2 DEF Top, Last
      <4> QED
        BY <3>2, <4>1
    <3> QED
      BY <1>1, <3>1, <3>2
  <2>3. frames'[i].action = frames[i].action /\ i \in 1 .. Len(frames')
    BY <1>2, <1>6, <2>2, KeptFrames
  <2> QED
    BY <2>1, <2>3
<1>7. (~CutOff' /\ ~Replaced') =>
        \A m \in Modules :
          modules'[m].state = "Initializing" =>
            \/ m \in abandoned'
            \/ \E i \in 1 .. Len(frames') :
                 frames'[i].action.kind = "Import" /\ frames'[i].action.ref = m
  BY <1>6 DEF CutOff, Replaced
<1>8. \A m \in Modules : modules'[m].state = "Uninitialized" => ~modules'[m].dirty
  BY DEF ImportsOK
<1> QED
  BY <1>4, <1>5, <1>7, <1>8 DEF ImportsOK

\* A module is loaded.
LEMMA ImportLeaves ==
  ASSUME TypeOK, LinksOK, BasesOK, ImportsOK, Move, Leaves, Top.action.kind = "Import"
  PROVE  ImportsOK'
<1>1. PICK n \in Nat : n = Len(frames) /\ n # 0
  BY MoveFacts
<1>2. PICK k \in Nat : k = n - 1 /\ Keeps(frames, frames', k) /\ Len(frames') = k /\ k < n
  BY <1>1 DEF Leaves
<1>3. PICK m \in Modules : /\ m = Top.action.ref /\ modules[m].state = "Initializing"
                           /\ frames[n].action.kind = "Import" /\ frames[n].action.ref = m
  <2>1. Top = frames[n] /\ n \in 1 .. n
    BY <1>1, MoveFacts
  <2> QED
    BY <1>1, <2>1 DEF LinksOK, Linked, ImportsOK
<1>4. /\ \A x \in Modules : x # m => modules'[x] = modules[x]
      /\ modules'[m].state = "Loaded"
  BY <1>3 DEF Leaves, TypeOK, ModuleObjects
<1>5. ASSUME NEW i \in 1 .. k, frames'[i].action.kind = "Import"
      PROVE  /\ i \in 1 .. n /\ frames[i].action.kind = "Import"
             /\ frames[i].action.ref = frames'[i].action.ref
             /\ frames[i].action.ref # m /\ frames[i].action.ref \in Modules
  <2>1. /\ i \in 1 .. n /\ frames[i].action.kind = "Import"
        /\ frames[i].action.ref = frames'[i].action.ref
    BY <1>1, <1>2, <1>5, KeptFrames
  <2>2. i # n /\ n \in 1 .. n
    BY <1>1, <1>2
  <2> QED
    BY <1>1, <1>3, <2>1, <2>2 DEF ImportsOK, LinksOK, Linked
<1>6. \A i \in 1 .. Len(frames') :
        frames'[i].action.kind = "Import" => modules'[frames'[i].action.ref].state = "Initializing"
  BY <1>1, <1>2, <1>4, <1>5 DEF ImportsOK
<1>7. \A i, j \in 1 .. Len(frames') :
        (frames'[i].action.kind = "Import" /\ frames'[j].action.kind = "Import" /\
         frames'[i].action.ref = frames'[j].action.ref) => i = j
  BY <1>1, <1>2, <1>5 DEF ImportsOK
<1>8. ASSUME ~CutOff, ~Replaced, NEW x \in Modules, modules'[x].state = "Initializing", x \notin abandoned
      PROVE  \E i \in 1 .. Len(frames') :
               frames'[i].action.kind = "Import" /\ frames'[i].action.ref = x
  <2>1. x # m /\ modules[x].state = "Initializing"
    BY <1>4, <1>8
  <2>2. PICK i \in 1 .. n : frames[i].action.kind = "Import" /\ frames[i].action.ref = x
    BY <1>1, <1>8, <2>1 DEF ImportsOK
  <2>3. i \in 1 .. k
    BY <1>2, <1>3, <2>1, <2>2
  <2>4. frames'[i].action = frames[i].action
    BY <1>2, <1>8, <2>3, KeptFrames
  <2> QED
    BY <1>2, <2>2, <2>3, <2>4
<1>9. uses' = uses /\ abandoned' = abandoned
  BY MoveFacts
<1>10. (~CutOff' /\ ~Replaced') =>
        \A x \in Modules :
          modules'[x].state = "Initializing" =>
            \/ x \in abandoned'
            \/ \E i \in 1 .. Len(frames') :
                 frames'[i].action.kind = "Import" /\ frames'[i].action.ref = x
  BY <1>8, <1>9 DEF CutOff, Replaced
<1>11. \A x \in Modules : modules'[x].state = "Uninitialized" => ~modules'[x].dirty
  BY <1>4 DEF ImportsOK
<1> QED
  BY <1>6, <1>7, <1>10, <1>11 DEF ImportsOK

\* A module is imported.
LEMMA ImportCalled ==
  ASSUME TypeOK, TypeOK', LinksOK, BasesOK, ImportsOK, Move, NEW f \in Frames, Calls(f),
         f.action.kind = "Import"
  PROVE  ImportsOK'
<1>1. PICK n \in Nat : n = Len(frames) /\ n # 0
  BY MoveFacts
<1>2. Keeps(frames, frames', n) /\ Len(frames') = n + 1 /\ frames'[n + 1] = f
  BY <1>1 DEF Calls, Pushes
<1>3. PICK m \in Modules : /\ m = f.action.ref /\ modules[m].state = "Uninitialized"
                           /\ modules' = [modules EXCEPT ![m].state = "Initializing"]
  BY DEF Calls
<1>4. /\ \A x \in Modules : x # m => modules'[x] = modules[x]
      /\ modules'[m].state = "Initializing" /\ modules'[m].dirty = modules[m].dirty
  BY <1>3 DEF TypeOK, ModuleObjects
<1>5. ASSUME NEW i \in 1 .. n, frames'[i].action.kind = "Import"
      PROVE  /\ frames[i].action.kind = "Import"
             /\ frames[i].action.ref = frames'[i].action.ref
             /\ frames[i].action.ref # m /\ frames[i].action.ref \in Modules
             /\ modules[frames[i].action.ref].state = "Initializing"
  <2>1. /\ frames[i].action.kind = "Import" /\ frames[i].action.ref = frames'[i].action.ref
    BY <1>1, <1>2, <1>5, KeptFrames
  <2> QED
    BY <1>1, <1>3, <2>1 DEF ImportsOK, LinksOK, Linked
<1>6. \A i \in 1 .. n + 1 : i = n + 1 \/ i \in 1 .. n
  OBVIOUS
<1>7. \A i \in 1 .. n + 1 :
        frames'[i].action.kind = "Import" => modules'[frames'[i].action.ref].state = "Initializing"
  BY <1>2, <1>3, <1>4, <1>5, <1>6
<1>8. ASSUME NEW i \in 1 .. n + 1, NEW j \in 1 .. n + 1,
             frames'[i].action.kind = "Import", frames'[j].action.kind = "Import",
             frames'[i].action.ref = frames'[j].action.ref
      PROVE  i = j
  <2>1. CASE i = n + 1 /\ j = n + 1
    BY <2>1
  <2>2. CASE i \in 1 .. n /\ j = n + 1
    BY <1>2, <1>3, <1>5, <1>8, <2>2
  <2>3. CASE i = n + 1 /\ j \in 1 .. n
    BY <1>2, <1>3, <1>5, <1>8, <2>3
  <2>4. CASE i \in 1 .. n /\ j \in 1 .. n
    BY <1>1, <1>5, <1>8, <2>4 DEF ImportsOK
  <2> QED
    BY <1>6, <2>1, <2>2, <2>3, <2>4
<1>9. ASSUME ~CutOff, ~Replaced, NEW x \in Modules, modules'[x].state = "Initializing", x \notin abandoned
      PROVE  \E i \in 1 .. n + 1 :
               frames'[i].action.kind = "Import" /\ frames'[i].action.ref = x
  <2>1. CASE x = m
    <3>1. n + 1 \in 1 .. n + 1
      OBVIOUS
    <3> QED
      BY <1>2, <1>3, <2>1, <3>1
  <2>2. CASE x # m
    <3>1. PICK i \in 1 .. n : frames[i].action.kind = "Import" /\ frames[i].action.ref = x
      BY <1>1, <1>4, <1>9, <2>2 DEF ImportsOK
    <3>2. frames'[i].action = frames[i].action /\ i \in 1 .. n + 1
      BY <1>2, <1>9, KeptFrames
    <3> QED
      BY <3>1, <3>2
  <2> QED
    BY <2>1, <2>2
<1>10. uses' = uses /\ abandoned' = abandoned
  BY MoveFacts
<1>11. (~CutOff' /\ ~Replaced') =>
        \A x \in Modules :
          modules'[x].state = "Initializing" =>
            \/ x \in abandoned'
            \/ \E i \in 1 .. Len(frames') :
                 frames'[i].action.kind = "Import" /\ frames'[i].action.ref = x
  BY <1>2, <1>9, <1>10 DEF CutOff, Replaced
<1>12. \A x \in Modules : modules'[x].state = "Uninitialized" => ~modules'[x].dirty
  BY <1>4 DEF ImportsOK
<1> QED
  BY <1>2, <1>7, <1>8, <1>11, <1>12 DEF ImportsOK

\* A module that is being imported binds a name.
LEMMA ImportBinds ==
  ASSUME TypeOK, LinksOK, BasesOK, ImportsOK, Move, Binds
  PROVE  ImportsOK'
<1>1. Len(frames) \in 1 .. Len(frames) /\ Top = frames[Len(frames)]
  BY MoveFacts
<1>2. PICK m \in Modules : m = Top.action.ref /\ modules[m].state = "Initializing"
  BY <1>1 DEF Binds, LinksOK, Linked, ImportsOK
<1>3. /\ \A x \in Modules : modules'[x].state = modules[x].state
      /\ \A x \in Modules : x # m => modules'[x] = modules[x]
  BY <1>2 DEF Binds, TypeOK, ModuleObjects
<1>4. frames' = frames /\ uses' = uses /\ abandoned' = abandoned
  BY MoveFacts DEF Binds
<1>5. \A i \in 1 .. Len(frames) :
        frames[i].action.kind = "Import" => modules'[frames[i].action.ref].state = "Initializing"
  BY <1>3 DEF ImportsOK, LinksOK, Linked
<1>6. \A x \in Modules : modules'[x].state = "Uninitialized" => ~modules'[x].dirty
  BY <1>2, <1>3 DEF ImportsOK
<1>7. (~CutOff' /\ ~Replaced') =>
        \A x \in Modules :
          modules'[x].state = "Initializing" =>
            \/ x \in abandoned
            \/ \E i \in 1 .. Len(frames) :
                 frames[i].action.kind = "Import" /\ frames[i].action.ref = x
  BY <1>3, <1>4 DEF ImportsOK, CutOff, Replaced
<1>8. \A i, j \in 1 .. Len(frames) :
        (frames[i].action.kind = "Import" /\ frames[j].action.kind = "Import" /\
         frames[i].action.ref = frames[j].action.ref) => i = j
  BY DEF ImportsOK
<1> QED
  BY <1>4, <1>5, <1>6, <1>7, <1>8 DEF ImportsOK

LEMMA MoveImports ==
  ASSUME TypeOK, TypeOK', LinksOK, BasesOK, ImportsOK, Move
  PROVE  ImportsOK'
<1>1. uses' = uses /\ abandoned' = abandoned
  BY MoveFacts
<1>2. CASE Stays \/ Fails \/ Strands
  <2>1. Keeps(frames, frames', Len(frames)) /\ Len(frames') = Len(frames) /\ modules' = modules
    BY <1>2 DEF Stays, Fails, Strands
  <2> QED
    BY <1>1, <2>1, ImportsStay
<1>3. CASE Leaves /\ Top.action.kind # "Import"
  <2>1. /\ Keeps(frames, frames', Len(frames) - 1) /\ Len(frames') = Len(frames) - 1
        /\ modules' = modules
    BY <1>3 DEF Leaves
  <2> QED
    BY <1>1, <1>3, <2>1, ImportsStay
<1>4. ASSUME NEW f \in Frames, Pushes(f), f.action.kind # "Import", modules' = modules
      PROVE  ImportsOK'
  <2>1. /\ Keeps(frames, frames', Len(frames)) /\ Len(frames') = Len(frames) + 1
        /\ frames'[Len(frames) + 1] = f
    BY <1>4 DEF Pushes
  <2> QED
    BY <1>1, <1>4, <2>1, ImportsStay
<1>5. ASSUME NEW f \in Frames, Calls(f) PROVE ImportsOK'
  <2>1. CASE f.action.kind = "Import"
    BY <1>5, <2>1, ImportCalled
  <2>2. CASE f.action.kind # "Import"
    BY <1>4, <1>5, <2>2 DEF Calls
  <2> QED
    BY <2>1, <2>2
<1>6. ASSUME NEW g \in Generators, NEW f \in Frames, Enters(g, f) PROVE ImportsOK'
  BY <1>4, <1>6 DEF Enters
<1> QED
  BY <1>2, <1>3, <1>5, <1>6, ImportBinds, ImportLeaves DEF Move

\* In a move the generators of all frames run.
LEMMA AllRun ==
  ASSUME TypeOK, FramesRun, raised = None, NEW i \in 1 .. Len(frames), frames[i].gen # None
  PROVE  frames[i].gen \in Generators /\ gens[frames[i].gen].state = "Running"
<1>1. frames[i].gen \in Generators
  BY LenOf, FrameFields DEF TypeOK
<1> QED
  BY <1>1 DEF FramesRun, Unwound

LEMMA AlikeDriven ==
  ASSUME Accounted, NEW f, NEW h, Alike(f, h),
         \/ f.action.kind = "AsyncGeneratorDrive"
         \/ f.action.kind = "Close" /\ "finalizers" \in uses
  PROVE  \/ h.action.kind = "AsyncGeneratorDrive"
         \/ h.action.kind = "Close" /\ "finalizers" \in uses
BY DEF Alike, Accounted

\* No two frames belong to one generator, and what drives an async one is right.
LEMMA OwnersKept ==
  ASSUME TypeOK, Accounted, OneFrame, AsyncDriven, uses' = uses,
         NEW k, Keeps(frames, frames', k),
         Len(frames') = k \/ (Len(frames') = k + 1 /\ frames'[k + 1].gen = None)
  PROVE  OneFrame' /\ AsyncDriven'
<1>1. k \in Nat
  BY KeptFrames
<1>2. ASSUME NEW i \in 1 .. Len(frames'), frames'[i].gen # None
      PROVE  /\ i \in 1 .. Len(frames) /\ frames[i].gen = frames'[i].gen
             /\ Alike(frames[i], frames'[i])
  <2>1. i \in 1 .. k
    BY <1>1, <1>2
  <2> QED
    BY <2>1, KeptFrames
<1>3. OneFrame'
  BY <1>2 DEF OneFrame
<1>4. ASSUME NEW i \in 1 .. Len(frames'), frames'[i].gen # None, KindOf[frames'[i].gen] = "async"
      PROVE  \/ frames'[i].action.kind = "AsyncGeneratorDrive"
             \/ frames'[i].action.kind = "Close" /\ "finalizers" \in uses'
  BY <1>2, <1>4, AlikeDriven DEF AsyncDriven
<1> QED
  BY <1>3, <1>4 DEF AsyncDriven

\* The generators of the stack go on.
LEMMA GeneratorsStay ==
  ASSUME TypeOK, Accounted, GeneratorsOK, raised = None, uses' = uses,
         Keeps(frames, frames', Len(frames)),
         \/ Len(frames') = Len(frames)
         \/ Len(frames') = Len(frames) + 1 /\ frames'[Len(frames) + 1].gen = None,
         \A g \in Generators :
           gens'[g].state = gens[g].state \/ (gens[g].state # "Running" /\ gens'[g].state # "Running")
  PROVE  GeneratorsOK'
<1>1. OneFrame' /\ AsyncDriven'
  BY OwnersKept DEF GeneratorsOK
<1>2. PICK n \in Nat : n = Len(frames)
  BY LenOf DEF TypeOK
<1>3. ASSUME NEW i \in 1 .. Len(frames'), frames'[i].gen # None
      PROVE  gens'[frames'[i].gen].state = "Running"
  <2>1. i \in 1 .. n
    BY <1>2, <1>3
  <2>2. frames'[i].gen = frames[i].gen
    BY <1>2, <2>1, KeptFrames
  <2> QED
    BY <1>2, <1>3, <2>1, <2>2, AllRun DEF GeneratorsOK
<1>4. ASSUME NEW g \in Generators, gens'[g].state = "Running"
      PROVE  \E i \in 1 .. Len(frames') : frames'[i].gen = g
  <2>1. PICK i \in 1 .. n : frames[i].gen = g
    BY <1>2, <1>4 DEF GeneratorsOK, RunningHasFrame
  <2>2. frames'[i].gen = g /\ i \in 1 .. Len(frames')
    BY <1>2, <2>1, KeptFrames
  <2> QED
    BY <2>2
<1> QED
  BY <1>1, <1>3, <1>4 DEF GeneratorsOK, FramesRun, RunningHasFrame

LEMMA GeneratorFails ==
  ASSUME TypeOK, TypeOK', LinksOK, BasesOK, BasesOK', Accounted, GeneratorsOK, Move, Fails
  PROVE  GeneratorsOK'
<1>1. PICK n \in Nat : n = Len(frames) /\ n # 0 /\ n \in 1 .. n /\ Top = frames[n] /\ raised = None
  BY MoveFacts
<1>2. Keeps(frames, frames', n) /\ Len(frames') = n /\ raised' # None /\ uses' = uses
  BY <1>1, MoveFacts DEF Fails
<1>3. OneFrame' /\ AsyncDriven'
  BY <1>2, OwnersKept DEF GeneratorsOK
<1>4. PICK g \in Generators : /\ g = Top.gen /\ frames[n].gen = g /\ gens'[g].state = "Completed"
                              /\ \A h \in Generators : h # g => gens'[h].state = gens[h].state
  BY <1>1, AllRun DEF Fails, GeneratorsOK, OtherStates
<1>5. Unwound(n)'
  BY <1>1, <1>2 DEF Unwound, BasesOK
<1>6. ASSUME NEW i \in 1 .. n, frames'[i].gen # None
      PROVE  \/ gens'[frames'[i].gen].state = "Running"
             \/ gens'[frames'[i].gen].state = "Completed" /\ Unwound(i)'
  <2>1. frames'[i].gen = frames[i].gen
    BY <1>1, <1>2, KeptFrames
  <2>2. CASE i = n
    BY <1>4, <1>5, <2>1, <2>2
  <2>3. CASE i # n
    <3>1. frames[i].gen # g /\ frames[i].gen \in Generators /\ gens[frames[i].gen].state = "Running"
      BY <1>1, <1>4, <1>6, <2>1, <2>3, AllRun, UnwindingAssumption DEF GeneratorsOK, OneFrame
    <3> QED
      BY <1>4, <2>1, <3>1
  <2> QED
    BY <2>2, <2>3
<1>7. ASSUME NEW h \in Generators, gens'[h].state = "Running"
      PROVE  \E i \in 1 .. n : frames'[i].gen = h
  <2>1. gens[h].state = "Running"
    BY <1>4, <1>7
  <2>2. PICK i \in 1 .. n : frames[i].gen = h
    BY <1>1, <2>1 DEF GeneratorsOK, RunningHasFrame
  <2> QED
    BY <1>1, <1>2, <2>2, KeptFrames
<1> QED
  BY <1>2, <1>3, <1>6, <1>7 DEF GeneratorsOK, FramesRun, RunningHasFrame

LEMMA GeneratorLeaves ==
  ASSUME TypeOK, TypeOK', LinksOK, BasesOK, Accounted, GeneratorsOK, Move, Leaves
  PROVE  GeneratorsOK'
<1>1. PICK n \in Nat : n = Len(frames) /\ n # 0 /\ n \in 1 .. n /\ Top = frames[n] /\ raised = None
  BY MoveFacts
<1>2. PICK k \in Nat : k = n - 1 /\ Keeps(frames, frames', k) /\ Len(frames') = k /\ uses' = uses
  BY <1>1, MoveFacts DEF Leaves
<1>3. OneFrame' /\ AsyncDriven'
  BY <1>2, OwnersKept DEF GeneratorsOK
<1>4. \A g \in Generators : g # Top.gen => gens'[g].state = gens[g].state
  BY DEF Leaves, SameStates, OtherStates
<1>5. ASSUME NEW g \in Generators, g = Top.gen PROVE gens'[g].state # "Running"
  <2>1. g # None
    BY UnwindingAssumption
  <2> QED
    BY <1>5, <2>1 DEF Leaves
<1>6. ASSUME NEW i \in 1 .. k, frames'[i].gen # None
      PROVE  gens'[frames'[i].gen].state = "Running"
  <2>1. frames'[i].gen = frames[i].gen /\ i \in 1 .. n /\ i # n
    BY <1>1, <1>2, KeptFrames
  <2>2. frames[i].gen # Top.gen /\ frames[i].gen \in Generators /\ gens[frames[i].gen].state = "Running"
    BY <1>1, <1>6, <2>1, AllRun DEF GeneratorsOK, OneFrame
  <2> QED
    BY <1>4, <2>1, <2>2
<1>7. ASSUME NEW h \in Generators, gens'[h].state = "Running"
      PROVE  \E i \in 1 .. k : frames'[i].gen = h
  <2>1. h # Top.gen /\ gens[h].state = "Running"
    BY <1>4, <1>5, <1>7
  <2>2. PICK i \in 1 .. n : frames[i].gen = h
    BY <1>1, <2>1 DEF GeneratorsOK, RunningHasFrame
  <2>3. i \in 1 .. k
    BY <1>1, <1>2, <2>1, <2>2
  <2> QED
    BY <1>2, <2>2, <2>3, KeptFrames
<1> QED
  BY <1>2, <1>3, <1>6, <1>7 DEF GeneratorsOK, FramesRun, RunningHasFrame

LEMMA GeneratorEnters ==
  ASSUME TypeOK, TypeOK', LinksOK, BasesOK, Accounted, GeneratorsOK, Move,
         NEW g \in Generators, NEW f \in Frames, Enters(g, f)
  PROVE  GeneratorsOK'
<1>1. PICK n \in Nat : n = Len(frames) /\ n # 0 /\ raised = None
  BY MoveFacts
<1>2. /\ Keeps(frames, frames', n) /\ Len(frames') = n + 1 /\ uses' = uses
      /\ frames'[n + 1] = f /\ f.gen = g
      /\ gens[g].state # "Running" /\ gens'[g].state = "Running"
      /\ \A h \in Generators : h # g => gens'[h].state = gens[h].state
  BY <1>1, MoveFacts DEF Enters, Pushes, OtherStates
<1>3. ASSUME NEW i \in 1 .. n, frames'[i].gen # None
      PROVE  /\ frames'[i].gen = frames[i].gen /\ frames[i].gen # g
             /\ frames[i].gen \in Generators /\ gens[frames[i].gen].state = "Running"
             /\ Alike(frames[i], frames'[i])
  <2>1. frames'[i].gen = frames[i].gen /\ Alike(frames[i], frames'[i])
    BY <1>1, <1>2, KeptFrames
  <2> QED
    BY <1>1, <1>2, <1>3, <2>1, AllRun DEF GeneratorsOK
<1>4. \A i \in 1 .. n + 1 : i = n + 1 \/ i \in 1 .. n
  OBVIOUS
<1>5. OneFrame'
  <2>1. ASSUME NEW i \in 1 .. n + 1, NEW j \in 1 .. n + 1, frames'[i].gen # None,
               frames'[i].gen = frames'[j].gen
        PROVE  i = j
    <3>1. CASE i = n + 1
      BY <1>2, <1>3, <1>4, <2>1, <3>1
    <3>2. CASE j = n + 1
      BY <1>2, <1>3, <1>4, <2>1, <3>2
    <3>3. CASE i \in 1 .. n /\ j \in 1 .. n
      BY <1>1, <1>3, <2>1, <3>3 DEF GeneratorsOK, OneFrame
    <3> QED
      BY <1>4, <3>1, <3>2, <3>3
  <2> QED
    BY <1>2, <2>1 DEF OneFrame
<1>6. AsyncDriven'
  <2>1. ASSUME NEW i \in 1 .. n + 1, frames'[i].gen # None, KindOf[frames'[i].gen] = "async"
        PROVE  \/ frames'[i].action.kind = "AsyncGeneratorDrive"
               \/ frames'[i].action.kind = "Close" /\ "finalizers" \in uses
    <3>1. CASE i = n + 1
      BY <1>2, <2>1, <3>1 DEF Enters
    <3>2. CASE i \in 1 .. n
      <4>1. \/ frames[i].action.kind = "AsyncGeneratorDrive"
            \/ frames[i].action.kind = "Close" /\ "finalizers" \in uses
        BY <1>1, <1>3, <2>1, <3>2 DEF GeneratorsOK, AsyncDriven
      <4> QED
        BY <1>3, <2>1, <3>2, <4>1, AlikeDriven
    <3> QED
      BY <1>4, <3>1, <3>2
  <2> QED
    BY <1>2, <2>1 DEF AsyncDriven
<1>7. \A i \in 1 .. n + 1 : frames'[i].gen # None => gens'[frames'[i].gen].state = "Running"
  BY <1>2, <1>3, <1>4
<1>8. ASSUME NEW h \in Generators, gens'[h].state = "Running"
      PROVE  \E i \in 1 .. n + 1 : frames'[i].gen = h
  <2>1. CASE h = g
    <3>1. n + 1 \in 1 .. n + 1
      OBVIOUS
    <3> QED
      BY <1>2, <2>1, <3>1
  <2>2. CASE h # g
    <3>1. PICK i \in 1 .. n : frames[i].gen = h
      BY <1>1, <1>2, <1>8, <2>2 DEF GeneratorsOK, RunningHasFrame
    <3>2. frames'[i].gen = h /\ i \in 1 .. n + 1
      BY <1>2, <3>1, KeptFrames
    <3> QED
      BY <3>2
  <2> QED
    BY <2>1, <2>2
<1> QED
  BY <1>2, <1>5, <1>6, <1>7, <1>8 DEF GeneratorsOK, FramesRun, RunningHasFrame

LEMMA MoveGenerators ==
  ASSUME TypeOK, TypeOK', LinksOK, BasesOK, BasesOK', Accounted, GeneratorsOK, Move
  PROVE  GeneratorsOK'
<1>1. uses' = uses /\ raised = None
  BY MoveFacts
<1>2. CASE Stays
  BY <1>1, <1>2, GeneratorsStay DEF Stays
<1>3. CASE Binds
  <2>1. Keeps(frames, frames', Len(frames)) /\ Len(frames') = Len(frames)
    BY <1>3, LenOf DEF Binds, TypeOK
  <2> QED
    BY <1>1, <1>3, <2>1, GeneratorsStay DEF Binds, SameStates
<1>4. CASE Strands
  <2>1. Len(frames) \in 1 .. Len(frames) /\ Top = frames[Len(frames)]
    BY MoveFacts
  <2> QED
    BY <1>4, <2>1 DEF Strands, GeneratorsOK, AsyncDriven
<1>5. ASSUME NEW f \in Frames, Calls(f) PROVE GeneratorsOK'
  <2>1. /\ Keeps(frames, frames', Len(frames)) /\ Len(frames') = Len(frames) + 1
        /\ frames'[Len(frames) + 1].gen = None
    BY <1>5 DEF Calls, Pushes
  <2> QED
    BY <1>1, <1>5, <2>1, GeneratorsStay DEF Calls, SameStates
<1> QED
  BY <1>2, <1>3, <1>4, <1>5, GeneratorFails, GeneratorLeaves, GeneratorEnters DEF Move

\* The code of a frame is that of its generator, its function or its module.
CodeFits(f, ms) ==
  /\ f.gen # None => f.code = CodeOf[f.gen]
  /\ f.gen = None => f.code \in Functions \cup Modules \cup {"main"}
  /\ f.code \in Modules => ms[f.code].state # "Uninitialized"
  /\ f.action.kind = "Import" => f.action.ref = f.code

LEMMA CodesKept ==
  ASSUME TypeOK, CodesApart, NEW k, Keeps(frames, frames', k),
         \/ Len(frames') = k
         \/ /\ Len(frames') = k + 1
            /\ CodeFits(frames'[k + 1], modules')
            /\ \A i \in 1 .. k : frames[i].code # frames'[k + 1].code,
         \A i \in 1 .. k, m \in Modules :
           (m = frames[i].code /\ modules[m].state # "Uninitialized") => modules'[m].state # "Uninitialized"
  PROVE  CodesApart'
<1>1. k \in Nat
  BY KeptFrames
<1>2. ASSUME NEW i \in 1 .. k
      PROVE  /\ i \in 1 .. Len(frames) /\ frames'[i].code = frames[i].code
             /\ CodeFits(frames'[i], modules')
  <2>1. /\ i \in 1 .. Len(frames) /\ frames'[i].gen = frames[i].gen
        /\ frames'[i].code = frames[i].code
        /\ frames'[i].action.kind = "Import" =>
             frames[i].action.kind = "Import" /\ frames[i].action.ref = frames'[i].action.ref
    BY KeptFrames
  <2> QED
    BY <2>1 DEF CodesApart, CodeFits
<1>3. \A i \in 1 .. Len(frames') : i \in 1 .. k \/ (i = k + 1 /\ Len(frames') = k + 1)
  BY <1>1
<1>4. \A i \in 1 .. Len(frames') : CodeFits(frames'[i], modules')
  BY <1>2, <1>3
<1>5. \A i, j \in 1 .. Len(frames') : frames'[i].code = frames'[j].code => i = j
  BY <1>2, <1>3 DEF CodesApart
<1> QED
  BY <1>4, <1>5 DEF CodesApart, CodeFits

LEMMA MoveCodes ==
  ASSUME TypeOK, TypeOK', LinksOK, BasesOK, BasesOK', GeneratorsOK, ImportsOK,
         CodesDistinct, "recursion" \notin uses, CodesApart, Move
  PROVE  CodesApart'
<1>1. PICK n \in Nat : n = Len(frames) /\ n # 0 /\ raised = None /\ n \in 1 .. n /\ Top = frames[n]
  BY MoveFacts
<1>2. CASE Stays \/ Fails \/ Strands
  <2>1. Keeps(frames, frames', n) /\ Len(frames') = n /\ modules' = modules
    BY <1>1, <1>2 DEF Stays, Fails, Strands
  <2> QED
    BY <2>1, CodesKept
<1>3. CASE Binds
  <2>1. Keeps(frames, frames', n) /\ Len(frames') = n
    BY <1>1, <1>3, LenOf DEF Binds, TypeOK
  <2>2. \A m \in Modules : modules'[m].state = modules[m].state
    BY <1>3 DEF Binds, TypeOK, ModuleObjects
  <2> QED
    BY <2>1, <2>2, CodesKept
<1>4. CASE Leaves
  <2>1. Keeps(frames, frames', n - 1) /\ Len(frames') = n - 1
    BY <1>1, <1>4 DEF Leaves
  <2>2. ASSUME NEW m \in Modules, modules[m].state # "Uninitialized"
        PROVE  modules'[m].state # "Uninitialized"
    <3>1. modules \in [Modules -> ModuleObjects]
      BY DEF TypeOK
    <3>2. \/ modules' = modules
          \/ modules' = [modules EXCEPT ![Top.action.ref].state = "Loaded"]
      BY <1>4 DEF Leaves
    <3> QED
      BY <2>2, <3>1, <3>2 DEF ModuleObjects
  <2> QED
    BY <2>1, <2>2, CodesKept
<1>5. ASSUME NEW f \in Frames, Calls(f) PROVE CodesApart'
  <2>1. Keeps(frames, frames', n) /\ Len(frames') = n + 1 /\ frames'[n + 1] = f /\ f.gen = None
    BY <1>1, <1>5 DEF Calls, Pushes
  <2>2. CASE f.code \in Functions /\ ~OnStack(f.code) /\ f.action.kind # "Import" /\ modules' = modules
    <3>1. CodeFits(f, modules')
      BY <2>1, <2>2 DEF CodeFits, CodesDistinct
    <3>2. \A i \in 1 .. n : frames[i].code # f.code
      BY <1>1, <2>2, LenOf DEF OnStack, TypeOK
    <3> QED
      BY <2>1, <2>2, <3>1, <3>2, CodesKept
  <2>3. CASE /\ f.code \in Modules /\ modules[f.code].state = "Uninitialized"
             /\ f.action.kind = "Import" /\ f.action.ref = f.code
             /\ modules' = [modules EXCEPT ![f.code].state = "Initializing"]
    <3>1. /\ modules'[f.code].state = "Initializing"
          /\ \A m \in Modules : m # f.code => modules'[m] = modules[m]
      BY <2>3 DEF TypeOK, ModuleObjects
    <3>2. CodeFits(f, modules')
      BY <2>1, <2>3, <3>1 DEF CodeFits
    <3>3. \A i \in 1 .. n : frames[i].code # f.code
      BY <1>1, <2>3 DEF CodesApart
    <3>4. \A m \in Modules :
            modules[m].state # "Uninitialized" => modules'[m].state # "Uninitialized"
      BY <2>3, <3>1
    <3> QED
      BY <2>1, <3>2, <3>3, <3>4, CodesKept
  <2> QED
    BY <1>5, <2>2, <2>3 DEF Calls
<1>6. ASSUME NEW g \in Generators, NEW f \in Frames, Enters(g, f) PROVE CodesApart'
  <2>1. /\ Keeps(frames, frames', n) /\ Len(frames') = n + 1 /\ frames'[n + 1] = f
        /\ f.gen = g /\ f.code = CodeOf[g] /\ modules' = modules /\ f.action.kind # "Import"
        /\ gens[g].state # "Running"
    BY <1>1, <1>6 DEF Enters, Pushes
  <2>2. g # None
    BY UnwindingAssumption
  <2>3. CodeFits(f, modules')
    BY <2>1, <2>2 DEF CodeFits, CodesDistinct
  <2>4. ASSUME NEW i \in 1 .. n PROVE frames[i].code # f.code
    <3>1. CASE frames[i].gen = None
      BY <1>1, <2>1, <3>1 DEF CodesApart, CodesDistinct
    <3>2. CASE frames[i].gen # None
      <4>1. frames[i].gen \in Generators /\ gens[frames[i].gen].state = "Running"
        BY <1>1, <3>2, AllRun DEF GeneratorsOK
      <4>2. frames[i].code = CodeOf[frames[i].gen] /\ frames[i].gen # g
        BY <1>1, <2>1, <3>2, <4>1 DEF CodesApart
      <4> QED
        BY <2>1, <4>1, <4>2 DEF CodesDistinct
    <3> QED
      BY <3>1, <3>2
  <2> QED
    BY <2>1, <2>3, <2>4, CodesKept
<1> QED
  BY <1>2, <1>3, <1>4, <1>5, <1>6 DEF Move

LEMMA MoveFaults ==
  ASSUME TypeOK, TypeOK', LinksOK, BasesOK, BasesOK', CodesApart, CodesApart', Move
  PROVE  FaultPlaced'
<1>1. PICK n \in Nat : n = Len(frames) /\ n # 0 /\ n \in 1 .. n /\ Top = frames[n] /\ n - 1 \in Nat
  BY MoveFacts
<1>2. SUFFICES ASSUME raised' # None, Top'.code = raised'.code PROVE Top'.at = raised'.at
  BY DEF FaultPlaced
<1>3. CASE Stays \/ Fails \/ Strands
  BY <1>2, <1>3 DEF Stays, Fails, Strands, Blames, Top
<1>4. CASE Leaves
  <2>1. /\ Keeps(frames, frames', n - 1) /\ Len(frames') = n - 1
        /\ raised'.code = Top.code
    BY <1>1, <1>2, <1>4 DEF Leaves, Blames
  <2>2. Len(frames') # 0
    <3>1. Base' \in Nat /\ Base' < Len(frames')
      <4>1. bases' = bases
        BY <1>4 DEF Leaves
      <4>2. Base' = Base
        BY <4>1 DEF Base
      <4> QED
        BY <1>2, <4>2, MoveFacts DEF BasesOK
    <3> QED
      BY <1>1, <2>1, <3>1
  <2>3. n - 1 \in 1 .. n - 1 /\ n - 1 \in 1 .. n /\ n - 1 # n
    BY <1>1, <2>1, <2>2
  <2>4. Top' = frames'[n - 1] /\ frames'[n - 1].code = frames[n - 1].code
    BY <2>1, <2>3, KeptFrames DEF Top, Last
  <2>5. frames[n - 1].code # frames[n].code
    BY <1>1, <2>3 DEF CodesApart
  <2> QED
    BY <1>1, <1>2, <2>1, <2>4, <2>5
<1>5. ASSUME NEW g \in Generators, NEW f \in Frames, Enters(g, f) PROVE Top'.at = raised'.at
  <2>1. /\ Keeps(frames, frames', n) /\ Len(frames') = n + 1 /\ frames'[n + 1] = f
    BY <1>1, <1>5 DEF Enters, Pushes
  <2>2. Top' = f
    BY <2>1 DEF Top, Last
  <2>3. CASE raised'.code = f.code /\ raised'.at = f.at
    BY <2>2, <2>3
  <2>4. CASE Blames
    <3>1. raised'.code = Top.code /\ frames'[n].code = frames[n].code
      BY <1>1, <1>2, <2>1, <2>4, KeptFrames DEF Blames
    <3>2. n \in 1 .. n + 1 /\ n + 1 \in 1 .. n + 1 /\ n # n + 1
      BY <1>1
    <3>3. frames'[n].code # frames'[n + 1].code
      BY <2>1, <3>2 DEF CodesApart
    <3> QED
      BY <1>1, <1>2, <2>1, <2>2, <3>1, <3>3
  <2> QED
    BY <1>5, <2>3, <2>4 DEF Enters
<1>6. CASE Binds \/ \E f \in Frames : Calls(f)
  BY <1>2, <1>6 DEF Binds, Calls
<1> QED
  BY <1>3, <1>4, <1>5, <1>6 DEF Move

LEMMA MoveDirect ==
  ASSUME Move
  PROVE  DirectCuts'
<1>1. ASSUME raised' # None PROVE ~raised'.direct
  <2>1. CASE Stays \/ Fails \/ Strands \/ Leaves
    BY <1>1, <2>1 DEF Stays, Fails, Strands, Leaves, Blames
  <2>2. CASE Binds \/ \E f \in Frames : Calls(f)
    BY <1>1, <2>2 DEF Binds, Calls
  <2>3. CASE \E g \in Generators, f \in Frames : Enters(g, f)
    BY <1>1, <2>3 DEF Enters, Blames
  <2> QED
    BY <2>1, <2>2, <2>3 DEF Move
<1> QED
  BY <1>1 DEF DirectCuts

-----------------------------------------------------------------------------
(* Which awaitable drives an async generator.                              *)

LEMMA DriversKept ==
  ASSUME TypeOK, TypeOK', DriversSet, OneDriver, NEW a, HandedOver(a, gens', awaits')
  PROVE  DriversSet' /\ OneDriver'
<1>1. \A b \in Awaitables :
        awaits'[b].state = "Running" => awaits'[b].gen \in Generators /\ b # None
  BY UnwindingAssumption DEF TypeOK, AwaitableObjects
<1>2. \A g \in Generators : gens'[g].state = "Running" => gens'[g].state # "Completed"
  OBVIOUS
<1>3. ASSUME NEW b \in Awaitables, awaits'[b].state = "Running"
      PROVE  gens'[awaits'[b].gen].state = "Completed" \/ gens'[awaits'[b].gen].driver = b
  <2>1. PICK g \in Generators : g = awaits'[b].gen
    BY <1>1, <1>3
  <2>2. b # None
    BY <1>1, <1>3
  <2>3. CASE b # a
    <3>1. awaits[b].state = "Running" /\ awaits[b].gen = g
      BY <1>3, <2>1, <2>3 DEF HandedOver
    <3>2. gens[g].state = "Completed" \/ gens[g].driver = b
      BY <3>1 DEF DriversSet
    <3> QED
      BY <2>1, <2>2, <2>3, <3>2 DEF HandedOver
  <2>4. CASE b = a
    <3>1. awaits[a].gen = g
      BY <1>3, <2>1, <2>4 DEF HandedOver
    <3>2. CASE gens'[g].driver = a
      BY <2>1, <2>4, <3>2
    <3>3. CASE awaits[a].state = "Running" /\ gens'[g].driver = gens[g].driver
      <4>1. gens[g].state = "Completed" \/ gens[g].driver = a
        BY <2>4, <3>1, <3>3 DEF DriversSet
      <4> QED
        BY <2>1, <2>4, <3>3, <4>1 DEF HandedOver
    <3> QED
      BY <1>3, <2>4, <3>1, <3>2, <3>3 DEF HandedOver
  <2> QED
    BY <2>3, <2>4
<1>4. DriversSet'
  BY <1>3 DEF DriversSet
<1>5. ASSUME NEW b \in Awaitables, NEW c \in Awaitables, b # c,
             awaits'[b].state = "Running", awaits'[c].state = "Running",
             awaits'[b].gen = awaits'[c].gen, c # a
      PROVE  FALSE
  <2>1. awaits[c].state = "Running" /\ awaits[c].gen = awaits'[c].gen
    BY <1>5 DEF HandedOver
  <2>2. CASE b # a
    <3>1. awaits[b].state = "Running" /\ awaits[b].gen = awaits'[b].gen
      BY <1>5, <2>2 DEF HandedOver
    <3> QED
      BY <1>5, <2>1, <3>1 DEF OneDriver
  <2>3. CASE b = a
    <3>1. awaits[a].gen = awaits'[a].gen
      BY <1>5, <2>3 DEF HandedOver
    <3>2. CASE awaits[a].state = "Running"
      BY <1>5, <2>1, <2>3, <3>1, <3>2 DEF OneDriver
    <3>3. CASE awaits[a].state # "Running"
      <4>1. gens'[awaits'[a].gen].driver = a /\ gens'[awaits'[a].gen].state = "Running"
        BY <1>5, <2>3, <3>1, <3>3 DEF HandedOver
      <4>2. gens'[awaits'[c].gen].state = "Completed" \/ gens'[awaits'[c].gen].driver = c
        BY <1>3, <1>5
      <4> QED
        BY <1>5, <2>3, <4>1, <4>2
    <3> QED
      BY <3>2, <3>3
  <2> QED
    BY <2>2, <2>3
<1>6. OneDriver'
  BY <1>5 DEF OneDriver
<1> QED
  BY <1>4, <1>6

\* Nothing is claimed, and what loses its driver is completed.
Released ==
  /\ \A g \in Generators : gens[g].state = "Completed" => gens'[g].state = "Completed"
  /\ \A g \in Generators : gens'[g].driver = gens[g].driver \/ gens'[g].state = "Completed"
  /\ awaits' = awaits \/ \E A \in SUBSET (Awaitables \cup Modules \cup {None}) : awaits' = set_await_completed(A)

LEMMA AwaitsCompleted ==
  ASSUME TypeOK, NEW A
  PROVE  /\ set_await_completed(A) \in [Awaitables -> AwaitableObjects]
         /\ \A b \in Awaitables :
              /\ set_await_completed(A)[b].state =
                   IF b \in A THEN "Completed" ELSE awaits[b].state
              /\ set_await_completed(A)[b].gen = awaits[b].gen
<1>1. \A b \in Awaitables : awaits[b] \in AwaitableObjects
  BY DEF TypeOK
<1>2. \A b \in Awaitables :
        /\ [awaits[b] EXCEPT !.state = "Completed"] \in AwaitableObjects
        /\ [awaits[b] EXCEPT !.state = "Completed"].state = "Completed"
        /\ [awaits[b] EXCEPT !.state = "Completed"].gen = awaits[b].gen
  BY <1>1 DEF AwaitableObjects
<1> QED
  BY <1>1, <1>2 DEF set_await_completed

LEMMA ReleasedHandsOver ==
  ASSUME TypeOK, Released
  PROVE  HandedOver(None, gens', awaits')
<1>1. None \notin Awaitables
  BY UnwindingAssumption
<1>2. \A b \in Awaitables :
        awaits'[b].state = "Running" => awaits[b].state = "Running" /\ awaits'[b].gen = awaits[b].gen
  <2>1. CASE awaits' = awaits
    BY <2>1
  <2>2. CASE awaits' # awaits
    <3>1. PICK A : awaits' = set_await_completed(A)
      BY <2>2 DEF Released
    <3> QED
      BY <3>1, AwaitsCompleted
  <2> QED
    BY <2>1, <2>2
<1> QED
  BY <1>1, <1>2 DEF HandedOver, Released

LEMMA UnchangedReleased ==
  ASSUME gens' = gens, awaits' = awaits
  PROVE  Released
BY DEF Released

LEMMA ResumedReleased ==
  ASSUME TypeOK, NEW g \in Generators, resume_error(g) = None, gens' = resume_state(g),
         awaits' = awaits
  PROVE  Released
<1>1. gens[g].state # "Completed"
  BY ResumeError
<1>2. \A h \in Generators : gens'[h].driver = gens[h].driver /\ (h # g => gens'[h] = gens[h])
  BY DEF resume_state, TypeOK, GeneratorObjects
<1> QED
  BY <1>1, <1>2 DEF Released

LEMMA CompletedReleased ==
  ASSUME TypeOK, NEW G, gens' = complete_generators(G), NEW A \in SUBSET (Awaitables \cup Modules \cup {None}),
         awaits' = awaits \/ awaits' = set_await_completed(A)
  PROVE  Released
<1>1. \A h \in Generators : h \notin G => gens'[h] = gens[h]
  BY DEF complete_generators
<1>2. \A h \in Generators : h \in G => gens'[h].state = "Completed"
  BY CompleteFields
<1> QED
  BY <1>1, <1>2 DEF Released

LEMMA StillReleases ==
  ASSUME \/ \E f \in Functions, kind \in Kinds, at \in Sites : Call(f, kind, at)
         \/ \E exc \in Exceptions, at \in Sites : OpRaise(exc, at)
         \/ \E m \in Modules, at \in Sites : invoke_import(m, at)
         \/ StoreGlobal
         \/ \E f \in Functions, at \in Sites : YieldFromObject(f, at)
         \/ \E at \in Sites : OpReturn(at)
         \/ \E at \in Sites : YieldAgain(at)
         \/ \E f \in Functions, at \in Sites : NativeCall(f, at)
  PROVE  Released
<1>1. gens' = gens /\ awaits' = awaits
  BY DEF Call, OpRaise, invoke_import, StoreGlobal, YieldFromObject, OpReturn, YieldAgain, NativeCall
<1> QED
  BY <1>1, UnchangedReleased

LEMMA FreezeReleases ==
  ASSUME TypeOK, NEW g \in Generators, freeze_generator_call(g)
  PROVE  Released
<1>1. gens' = [gens EXCEPT ![g].state = "Created"] /\ gens[g].state = "free" /\ awaits' = awaits
  BY DEF freeze_generator_call
<1>2. \A h \in Generators : gens'[h].driver = gens[h].driver /\ (h # g => gens'[h] = gens[h])
  BY <1>1 DEF TypeOK, GeneratorObjects
<1> QED
  BY <1>1, <1>2 DEF Released

LEMMA ResumptionReleases ==
  ASSUME TypeOK, NEW g \in Generators, NEW at \in Sites,
         \/ OpNext(g, at)
         \/ \E kind \in Kinds : ResumeCall(g, kind, at)
         \/ \E exc \in Exceptions : GeneratorThrow(g, exc, at)
         \/ YieldFromGenerator(g, at)
  PROVE  Released
<1>1. awaits' = awaits
  BY DEF OpNext, ResumeCall, GeneratorThrow, finish_generator_throw, YieldFromGenerator
<1>2. gens' = gens \/ (resume_error(g) = None /\ gens' = resume_state(g))
  <2>1. CASE OpNext(g, at)
    BY <2>1 DEF OpNext
  <2>2. CASE \E kind \in Kinds : ResumeCall(g, kind, at)
    BY <2>2 DEF ResumeCall
  <2>3. CASE \E exc \in Exceptions : GeneratorThrow(g, exc, at)
    BY <2>3 DEF GeneratorThrow, finish_generator_throw
  <2>4. CASE YieldFromGenerator(g, at)
    BY <2>4 DEF YieldFromGenerator
  <2> QED
    BY <2>1, <2>2, <2>3, <2>4
<1> QED
  BY <1>1, <1>2, UnchangedReleased, ResumedReleased

LEMMA ClosingReleases ==
  ASSUME TypeOK, NEW g \in Generators, NEW at \in Sites, GeneratorClose(g, at) \/ finalize_one_generator(g)
  PROVE  Released
<1>1. awaits' = awaits
  BY DEF GeneratorClose, finalize_one_generator
<1>2. \/ gens' = gens
      \/ resume_error(g) = None /\ gens' = resume_state(g)
      \/ gens' = complete_generators({g})
  BY DEF GeneratorClose, finalize_one_generator, complete_generator
<1> QED
  BY <1>1, <1>2, UnchangedReleased, ResumedReleased, CompletedReleased

LEMMA AllocateHandsOver ==
  ASSUME TypeOK, NEW a \in Awaitables, NEW g \in Generators, NEW op \in {"send", "throw", "close"},
         alloc_async_generator_awaitable(a, g, op)
  PROVE  HandedOver(None, gens', awaits')
<1>1. gens' = gens /\ awaits' = [awaits EXCEPT ![a] = [state |-> "Created", gen |-> g, op |-> op]]
  BY DEF alloc_async_generator_awaitable
<1>2. \A b \in Awaitables : (b # a => awaits'[b] = awaits[b]) /\ awaits'[a].state = "Created"
  BY <1>1 DEF TypeOK
<1>3. None \notin Awaitables
  BY UnwindingAssumption
<1> QED
  BY <1>1, <1>2, <1>3 DEF HandedOver

\* A generator ends, or is suspended.
LEMMA EndingHandsOver ==
  ASSUME TypeOK, LinksOK, FramesRun, NEW at \in Sites,
         ReturnGenerator(at) \/ ReturnAsync(at) \/ OpYield(at) \/ OpAsyncYield(at)
  PROVE  \E a \in Awaitables \cup {None} : HandedOver(a, gens', awaits')
<1>1. Running /\ Top.gen # None
  BY DEF ReturnGenerator, ReturnAsync, OpYield, OpAsyncYield, Yielding, Free
<1>2. PICK g \in Generators : g = Top.gen /\ gens[g].state = "Running"
  <2>1. Len(frames) \in 1 .. Len(frames) /\ Top = frames[Len(frames)] /\ raised = None
    BY <1>1, TopFacts
  <2> QED
    BY <1>1, <2>1, AllRun
<1>3. /\ Top.delegate \in Delegates
      /\ {Top.action.ref} \in SUBSET (Awaitables \cup Modules \cup {None})
      /\ Top.action.kind = "AsyncGeneratorDrive" => Top.action.ref \in Awaitables
  BY <1>1, TopFacts, ActionFields DEF Linked
<1>4. CASE /\ gens' = complete_generator(Top.gen)
           /\ awaits' = awaits \/ awaits' = set_await_completed({Top.action.ref})
  <2>1. Released
    BY <1>2, <1>3, <1>4, CompletedReleased DEF complete_generator
  <2> QED
    BY <2>1, ReleasedHandsOver
<1>5. CASE gens' = suspend_active_generator(at) /\ awaits' = awaits
  <2>1. gens'[g].state = "Suspended" /\ OtherStates(g) /\ \A h \in Generators : gens'[h].driver = gens[h].driver
    BY <1>2, <1>3, <1>5, SuspendFields
  <2>2. Released
    BY <1>2, <1>5, <2>1 DEF Released, OtherStates
  <2> QED
    BY <2>2, ReleasedHandsOver
<1>6. CASE /\ gens' = [suspend_active_generator(at) EXCEPT ![Top.gen].driver =
                         IF @ = Top.action.ref THEN None ELSE @]
           /\ awaits' = set_await_completed({Top.action.ref})
           /\ Top.action.kind = "AsyncGeneratorDrive"
  <2>1. PICK a \in Awaitables : a = Top.action.ref
    BY <1>3, <1>6
  <2>2. \A h \in Generators :
          /\ h # g => gens'[h] = gens[h]
          /\ gens'[g].driver = gens[g].driver \/ gens[g].driver = a
    BY <1>2, <1>6, <2>1 DEF suspend_active_generator, TypeOK, GeneratorObjects
  <2>3. \A b \in Awaitables :
          /\ awaits'[b].state = IF b = a THEN "Completed" ELSE awaits[b].state
          /\ awaits'[b].gen = awaits[b].gen
    BY <1>6, <2>1, AwaitsCompleted
  <2>4. HandedOver(a, gens', awaits')
    BY <1>2, <2>2, <2>3 DEF HandedOver
  <2> QED
    BY <2>4
<1>7. ReturnGenerator(at) => gens' = complete_generator(Top.gen) /\ awaits' = awaits
  BY DEF ReturnGenerator
<1>8. ReturnAsync(at) =>
        /\ gens' = complete_generator(Top.gen)
        /\ awaits' = awaits \/ awaits' = set_await_completed({Top.action.ref})
  BY DEF ReturnAsync
<1>9. OpYield(at) =>
        \/ gens' = complete_generator(Top.gen) /\ awaits' = set_await_completed({Top.action.ref})
        \/ gens' = suspend_active_generator(at) /\ awaits' = awaits
  BY DEF OpYield
<1>10. OpAsyncYield(at) =>
        \/ /\ gens' = complete_generator(Top.gen)
           /\ awaits' = awaits \/ awaits' = set_await_completed({Top.action.ref})
        \/ gens' = suspend_active_generator(at) /\ awaits' = awaits
        \/ /\ gens' = [suspend_active_generator(at) EXCEPT ![Top.gen].driver =
                         IF @ = Top.action.ref THEN None ELSE @]
           /\ awaits' = set_await_completed({Top.action.ref})
           /\ Top.action.kind = "AsyncGeneratorDrive"
  BY DEF OpAsyncYield
<1> QED
  BY <1>4, <1>5, <1>6, <1>7, <1>8, <1>9, <1>10

LEMMA InstructionHandsOver ==
  ASSUME TypeOK, LinksOK, FramesRun, Instruction
  PROVE  \E a \in Awaitables \cup {None} : HandedOver(a, gens', awaits')
<1>1. /\ uses \cap Functions \subseteq Functions /\ uses \cap Generators \subseteq Generators
      /\ uses \cap Modules \subseteq Modules /\ uses \cap Awaitables \subseteq Awaitables
      /\ uses \cap (Plain \cup Protocols) \subseteq Kinds
      /\ uses \cap Exceptions \subseteq Exceptions
      /\ uses \cap (Consumers \cup {"Next", "NextDefault"}) \subseteq Kinds
  BY DEF Kinds, Plain, Protocols
<1>2. Released => \E a \in Awaitables \cup {None} : HandedOver(a, gens', awaits')
  BY ReleasedHandsOver
<1>3. CASE \E a \in Awaitables, method \in {"send", "throw", "close"}, exc \in Exceptions,
              accepts \in BOOLEAN, at \in Sites : AwaitableCall(a, method, exc, accepts, at)
  BY <1>3, AwaitableCallMoves
<1>4. CASE \E a \in Awaitables, exc \in Exceptions, accepts \in BOOLEAN, at \in Sites :
              YieldFromAwaitable(a, exc, accepts, at)
  BY <1>4, AwaitMoves
<1>5. CASE \E a \in Awaitables, g \in Generators, op \in {"send", "throw", "close"} :
              alloc_async_generator_awaitable(a, g, op)
  BY <1>5, AllocateHandsOver
<1>6. CASE \/ \E f \in Functions, kind \in Kinds, at \in Sites : Call(f, kind, at)
           \/ \E exc \in Exceptions, at \in Sites : OpRaise(exc, at)
           \/ \E m \in Modules, at \in Sites : invoke_import(m, at)
           \/ StoreGlobal
           \/ \E f \in Functions, at \in Sites : YieldFromObject(f, at)
           \/ \E at \in Sites : OpReturn(at)
           \/ \E at \in Sites : YieldAgain(at)
           \/ \E f \in Functions, at \in Sites : NativeCall(f, at)
  BY <1>2, <1>6, StillReleases
<1>7. CASE \E g \in Generators : freeze_generator_call(g)
  BY <1>2, <1>7, FreezeReleases
<1>8. CASE \E g \in Generators, at \in Sites :
             \/ OpNext(g, at)
             \/ \E kind \in Kinds : ResumeCall(g, kind, at)
             \/ \E exc \in Exceptions : GeneratorThrow(g, exc, at)
             \/ YieldFromGenerator(g, at)
  BY <1>2, <1>8, ResumptionReleases
<1>9. CASE \/ \E g \in Generators, at \in Sites : GeneratorClose(g, at)
           \/ \E g \in Generators : finalize_one_generator(g)
  <2>1. "try" \in Sites
    BY DEF Sites
  <2> QED
    BY <1>2, <1>9, <2>1, ClosingReleases
<1>10. CASE \E at \in Sites : ReturnGenerator(at) \/ ReturnAsync(at) \/ OpYield(at) \/ OpAsyncYield(at)
  BY <1>10, EndingHandsOver
<1> QED
  BY <1>1, <1>3, <1>4, <1>5, <1>6, <1>7, <1>8, <1>9, <1>10, Zenon DEF Instruction

-----------------------------------------------------------------------------
(* Native code returns.                                                    *)

LEMMA CallerDepth ==
  ASSUME TypeOK, LinksOK, BasesOK, Len(bases) > 1, bases' = Below(bases)
  PROVE  /\ bases' \in Seq(Nat) /\ Len(bases') = Len(bases) - 1 /\ Len(bases') > 0
         /\ \A i \in 1 .. Len(bases') : bases'[i] = bases[i] /\ i \in 1 .. Len(bases)
         /\ Base' \in Nat /\ Base' < Base
         /\ frames[Base' + 1].action.kind \in Entries \/ Base' >= Len(frames)
<1>1. PICK n \in Nat : n = Len(bases) /\ n > 1
  BY BasesFacts
<1>2. \A i \in 1 .. n : bases[i] \in Nat
  BY <1>1, BasesFacts
<1>3. PICK bs : bs = SubSeq(bases, 1, n - 1)
  OBVIOUS
<1>4. /\ bs \in Seq(Nat) /\ Len(bs) = IF 1 <= n - 1 THEN n - 1 - 1 + 1 ELSE 0
      /\ \A i \in 1 .. n - 1 - 1 + 1 : bs[i] = bases[1 + i - 1]
  <2>1. n - 1 \in Int /\ 1 \in Int /\ \A i \in 1 .. n - 1 : bases[i] \in Nat
    BY <1>1, <1>2
  <2> QED
    BY <1>3, <2>1, SubSeqProperties
<1>5. bases' = bs
  BY <1>1, <1>3 DEF Below
<1> HIDE <1>3
<1>6. /\ bs \in Seq(Nat) /\ Len(bs) = n - 1 /\ n - 1 \in 1 .. n
      /\ \A i \in 1 .. n - 1 : bs[i] = bases[i] /\ i \in 1 .. n
  BY <1>1, <1>4
<1>7. Base' = bases[n - 1]
  BY <1>5, <1>6 DEF Base, Last
<1>8. bases[n - 1] < bases[n] /\ Base = bases[n]
  <2>1. n - 1 \in 1 .. Len(bases) /\ n \in 1 .. Len(bases) /\ n - 1 < n
    BY <1>1, <1>6
  <2> QED
    BY <1>1, <2>1, BasesFacts DEF BasesOK
<1>9. bases[n - 1] < Len(frames) => frames[bases[n - 1] + 1].action.kind \in Entries
  BY <1>1, <1>6 DEF BasesOK
<1>10. bases[n - 1] \in Nat /\ Len(frames) \in Nat
  BY <1>2, <1>6, LenOf DEF TypeOK
<1> QED
  BY <1>1, <1>5, <1>6, <1>7, <1>8, <1>9, <1>10

LEMMA NativeReturnPreserves ==
  ASSUME IInv, NativeReturn
  PROVE  IInv'
<1>1. /\ TypeOK /\ LinksOK /\ BasesOK /\ ContinuationsOK /\ ImportsOK /\ DirectCuts
      /\ raised = None /\ raised' = None /\ Len(bases) > 1 /\ bases' = Below(bases)
      /\ frames' = frames /\ gens' = gens /\ awaits' = awaits /\ modules' = modules
      /\ uses' = uses /\ abandoned' = abandoned
  BY DEF IInv, NativeReturn
<1>2. TypeOK'
  BY <1>1, CallerDepth DEF TypeOK
<1>3. LinksOK' /\ ContinuationsOK' /\ ImportsOK' /\ DirectCuts'
  BY <1>1 DEF LinksOK, ContinuationsOK, ImportsOK, DirectCuts, NothingMistaken, CutOff, Replaced
<1>4. BasesOK'
  BY <1>1, CallerDepth DEF BasesOK
<1>5. Accounted' => GeneratorsOK' /\ DriversSet' /\ OneDriver'
  <2>1. (Accounted' => Accounted) /\ (OneFrame => OneFrame') /\ (RunningHasFrame => RunningHasFrame')
        /\ (AsyncDriven => AsyncDriven') /\ (DriversSet => DriversSet') /\ (OneDriver => OneDriver')
    BY <1>1 DEF Accounted, CutOff, Replaced, OneFrame, RunningHasFrame, AsyncDriven, DriversSet, OneDriver
  <2>2. FramesRun => FramesRun'
    BY <1>1 DEF FramesRun, Unwound
  <2> QED
    BY <2>1, <2>2 DEF IInv, GeneratorsOK
<1>6. (Accounted' /\ CodesDistinct' /\ "recursion" \notin uses') => CodesApart' /\ FaultPlaced'
  <2>1. /\ Accounted' => Accounted
        /\ CodesDistinct' => CodesDistinct
        /\ CodesApart => CodesApart'
        /\ FaultPlaced'
    BY <1>1 DEF Accounted, CutOff, Replaced, CodesDistinct, CodesApart, FaultPlaced
  <2> QED
    BY <1>1, <2>1 DEF IInv
<1> QED
  BY <1>2, <1>3, <1>4, <1>5, <1>6 DEF IInv

LEMMA InstructionPreserves ==
  ASSUME IInv, Instruction
  PROVE  IInv'
<1>1. /\ TypeOK /\ LinksOK /\ BasesOK /\ ContinuationsOK /\ ImportsOK /\ DirectCuts
      /\ Accounted => GeneratorsOK /\ DriversSet /\ OneDriver
      /\ (Accounted /\ CodesDistinct /\ "recursion" \notin uses) => CodesApart /\ FaultPlaced
  BY DEF IInv
<1>2. TypeOK' /\ Move
  BY <1>1, InstructionMoves
<1>3. LinksOK' /\ BasesOK' /\ ContinuationsOK' /\ ImportsOK' /\ DirectCuts'
  BY <1>1, <1>2, MoveLinks, MoveBases, MoveContinuations, MoveImports, MoveDirect
<1>4. (Accounted' => Accounted) /\ (CodesDistinct' => CodesDistinct) /\ uses' = uses
  BY <1>2 DEF Move, Accounted, CutOff, Replaced, CodesDistinct
<1>5. ASSUME Accounted PROVE GeneratorsOK'
  BY <1>1, <1>2, <1>3, <1>5, MoveGenerators
<1>6. ASSUME Accounted PROVE DriversSet' /\ OneDriver'
  <2>1. FramesRun
    BY <1>1, <1>6 DEF GeneratorsOK
  <2>2. PICK a \in Awaitables \cup {None} : HandedOver(a, gens', awaits')
    BY <1>1, <2>1, InstructionHandsOver
  <2> QED
    BY <1>1, <1>2, <1>6, <2>2, DriversKept
<1>7. ASSUME Accounted, CodesDistinct, "recursion" \notin uses PROVE CodesApart' /\ FaultPlaced'
  <2>1. CodesApart'
    BY <1>1, <1>2, <1>3, <1>7, MoveCodes
  <2> QED
    BY <1>1, <1>2, <1>3, <1>7, <2>1, MoveFaults
<1> QED
  BY <1>2, <1>3, <1>4, <1>5, <1>6, <1>7 DEF IInv

-----------------------------------------------------------------------------
(* A call of dispatch_exception.                                           *)

\* A set of numbers up to n has a greatest one.
LEMMA GreatestMember ==
  ASSUME NEW S \in SUBSET Nat, S # {}, NEW n \in Nat, \A j \in S : j <= n
  PROVE  \E i \in S : \A j \in S : j <= i
<1> DEFINE M == {m \in Nat : \A j \in S : j <= m}
           R == OpToRel(<, Nat)
<1>1. IsWellFoundedOn(R, Nat)
  BY NatLessThanWellFounded
<1>2. \A k, m \in M : k < m => <<k, m>> \in R
  BY DEF OpToRel
<1>3. M \subseteq Nat /\ n \in M
  OBVIOUS
<1> HIDE DEF R
<1>4. PICK m \in M : \A k \in M : ~ (<<k, m>> \in R)
  BY <1>1, <1>3, WFMin
<1>5. m \in Nat /\ \A j \in S : j <= m /\ j \in Nat
  OBVIOUS
<1>6. m \in S
  <2>1. SUFFICES ASSUME m \notin S PROVE FALSE
    OBVIOUS
  <2>2. \A j \in S : j < m
    BY <1>5, <2>1
  <2>3. PICK j \in S : j < m
    BY <2>2
  <2>4. m - 1 \in Nat /\ m - 1 < m /\ \A i \in S : i <= m - 1
    BY <1>5, <2>2, <2>3
  <2>5. m - 1 \in M
    BY <2>4
  <2> HIDE DEF M
  <2>6. << m - 1, m >> \in R
    BY <1>2, <2>4, <2>5
  <2> QED
    BY <1>4, <2>5, <2>6
<1> QED
  BY <1>5, <1>6

LEMMA StopFacts ==
  ASSUME TypeOK, LinksOK, BasesOK, raised # None
  PROVE  /\ Base \in Nat /\ Len(frames) \in Nat /\ Base < Len(frames)
         /\ Stop \in Base .. Len(frames)
         /\ Stop > Base => Stops(Stop)
         /\ \A i \in Stop + 1 .. Len(frames) : ~Stops(i)
<1>1. Base \in Nat /\ Len(frames) \in Nat /\ Base < Len(frames)
  BY BasesFacts, LenOf DEF BasesOK, TypeOK
<1>2. PICK b \in Nat, n \in Nat : b = Base /\ n = Len(frames) /\ b < n
  BY <1>1
<1>3. PICK S : S = {i \in b + 1 .. n : Stops(i)}
  OBVIOUS
<1>4. Stop = IF S = {} THEN b ELSE CHOOSE i \in S : \A j \in S : j <= i
  BY <1>2, <1>3 DEF Stop
<1>5. CASE S = {}
  BY <1>2, <1>3, <1>4, <1>5
<1>6. CASE S # {}
  <2>1. \E i \in S : \A j \in S : j <= i
    <3>1. S \subseteq Nat /\ \A j \in S : j <= n
      BY <1>3
    <3> QED
      BY <1>2, <1>6, <3>1, GreatestMember
  <2>2. Stop \in S /\ \A j \in S : j <= Stop
    BY <1>4, <1>6, <2>1
  <2> QED
    BY <1>2, <1>3, <2>2
<1> QED
  BY <1>5, <1>6

\* What a call of dispatch_exception other than a conversion leaves: the first k
\* frames, and the frame of a guest function that it calls.
Lands(k) ==
  /\ k \in Base .. Len(frames) /\ Keeps(frames, frames', k)
  /\ k = 0 \/ frames'[k].at \in {frames[k].at, "plain"} \/ InRegion(k)
  /\ \/ Len(frames') = k
     \/ /\ Len(frames') = k + 1 /\ raised' = None
        /\ frames'[k + 1].action = ReturnAction("Value") /\ frames'[k + 1].gen = None
        /\ ~frames'[k + 1].strayed /\ frames'[k + 1].at = "plain"
        /\ frames'[k + 1].code \in Functions
        /\ \A i \in 1 .. k : frames[i].code # frames'[k + 1].code

\* The exception that is raised is one of the frame that is left.
Reraises ==
  raised' # None =>
    /\ Base' < Len(frames')
    /\ raised'.code = Top'.code /\ raised'.at = Top'.at
    /\ raised'.direct => CutOff

\* The imports of the frames that are left.
Resets(k) ==
  \/ modules' = reset_import_frames(k + 1) /\ abandoned' = abandoned
  \/ modules' = modules /\ abandoned' = abandoned \cup ImportsFrom(k + 1)
  \/ raised.direct /\ modules' = modules /\ abandoned' = abandoned

Cuts(k) ==
  /\ raised # None /\ uses' = uses
  /\ Lands(k) /\ Reraises /\ Resets(k)
  /\ \/ bases' = bases
     \/ k = Base /\ Len(bases) > 1 /\ bases' = Below(bases)
  /\ k = Base \/ (k < Len(frames) /\ raised.exc # "Other") \/ InRegion(k)
  /\ \/ raised.direct
     \/ /\ gens' = complete_generators(GensFrom(k + 1))
        /\ awaits' = set_await_completed(AwaitsFrom(k + 1)) 
        /\ \A i \in k + 1 .. Len(frames) : ~InRegion(i)

LEMMA Landings ==
  ASSUME TypeOK, LinksOK, NEW k \in 0 .. Len(frames),
         NEW fs, fs = SubSeq(frames, 1, k)
  PROVE  /\ fs \in Seq(Frames) /\ Len(fs) = k /\ Keeps(frames, fs, k)
         /\ \A i \in 1 .. k : fs[i] = frames[i]
         /\ Done(fs) \in Seq(Frames) /\ Len(Done(fs)) = k /\ Keeps(frames, Done(fs), k)
         /\ k = 0 \/ Done(fs)[k].at = "plain"
         /\ Done([fs EXCEPT ![k].delegate = None]) \in Seq(Frames)
         /\ Len(Done([fs EXCEPT ![k].delegate = None])) = k
         /\ Keeps(frames, Done([fs EXCEPT ![k].delegate = None]), k)
         /\ k = 0 \/ Done([fs EXCEPT ![k].delegate = None])[k].at = "plain"
<1>1. frames \in Seq(Frames) /\ k \in Nat
  BY LenOf DEF TypeOK
<1>2. /\ fs \in Seq(Frames) /\ Len(fs) = k /\ Keeps(frames, fs, k)
      /\ \A i \in 1 .. k : fs[i] = frames[i]
  BY <1>1, CutKeeps
<1>3. ASSUME NEW hs \in Seq(Frames), Len(hs) = k, Keeps(frames, hs, k)
      PROVE  /\ Done(hs) \in Seq(Frames) /\ Len(Done(hs)) = k /\ Keeps(frames, Done(hs), k)
             /\ k = 0 \/ Done(hs)[k].at = "plain"
  <2>1. /\ Done(hs) \in Seq(Frames) /\ Len(Done(hs)) = k /\ Keeps(hs, Done(hs), k)
        /\ hs # << >> => Last(Done(hs)).at = "plain"
        /\ hs = << >> <=> k = 0
    BY <1>3, DoneKeeps, LenOf
  <2>2. Keeps(frames, Done(hs), k)
    BY <1>1, <1>3, <2>1, KeepsTrans
  <2> QED
    BY <2>1, <2>2 DEF Last
<1>4. PICK gs : gs = [fs EXCEPT ![k].delegate = None]
  OBVIOUS
<1>5. gs \in Seq(Frames) /\ Len(gs) = k /\ Keeps(fs, gs, k)
  <2>1. k = Len(fs) /\ fs \in Seq(Frames)
    BY <1>2
  <2>2. /\ [fs EXCEPT ![k].delegate = None] \in Seq(Frames)
        /\ Len([fs EXCEPT ![k].delegate = None]) = Len(fs)
        /\ Keeps(fs, [fs EXCEPT ![k].delegate = None], Len(fs))
    BY <2>1, FreedKeeps, Zenon
  <2> QED
    BY <1>4, <2>1, <2>2
<1>6. Keeps(frames, gs, k)
  BY <1>1, <1>2, <1>5, KeepsTrans
<1>7. /\ Done(gs) \in Seq(Frames) /\ Len(Done(gs)) = k /\ Keeps(frames, Done(gs), k)
      /\ k = 0 \/ Done(gs)[k].at = "plain"
  BY <1>3, <1>5, <1>6
<1>8. /\ Done(fs) \in Seq(Frames) /\ Len(Done(fs)) = k /\ Keeps(frames, Done(fs), k)
      /\ k = 0 \/ Done(fs)[k].at = "plain"
  BY <1>2, <1>3
<1> QED
  BY <1>2, <1>4, <1>7, <1>8

\* An exception that is raised again in the caller of the frame behind position k.
LEMMA CallerError ==
  ASSUME TypeOK, LinksOK, NEW k \in 1 .. Len(frames), NEW exc \in Exceptions
  PROVE  /\ AtCaller(k + 1, exc) \in Errors /\ AtCaller(k + 1, exc) # None
         /\ AtCaller(k + 1, exc).code = frames[k].code /\ AtCaller(k + 1, exc).at = frames[k].at
         /\ ~AtCaller(k + 1, exc).direct
         /\ [AtCaller(k + 1, exc) EXCEPT !.direct = TRUE] \in Errors
         /\ [AtCaller(k + 1, exc) EXCEPT !.direct = TRUE] # None
         /\ [AtCaller(k + 1, exc) EXCEPT !.direct = TRUE].code = frames[k].code
         /\ [AtCaller(k + 1, exc) EXCEPT !.direct = TRUE].at = frames[k].at
<1>1. k \in Nat /\ k + 1 # 1 /\ k + 1 - 1 = k
  BY LenOf DEF TypeOK
<1>2. AtCaller(k + 1, exc) = Error(exc, frames[k].code, frames[k].at)
  BY <1>1 DEF AtCaller
<1>3. frames[k].code \in Codes /\ frames[k].at \in Places
  BY LenOf, FrameFields DEF TypeOK
<1>4. PICK e : e = Error(exc, frames[k].code, frames[k].at)
  OBVIOUS
<1>5. e \in Errors /\ e # None /\ e.code = frames[k].code /\ e.at = frames[k].at /\ ~e.direct
  BY <1>3, <1>4, ErrorFields
<1> HIDE <1>4
<1>6. [e EXCEPT !.direct = TRUE] \in Errors /\ None \notin Errors
  BY <1>5, UnwindingAssumption DEF Errors
<1>7. [e EXCEPT !.direct = TRUE].code = e.code /\ [e EXCEPT !.direct = TRUE].at = e.at
  BY <1>5 DEF Errors
<1> QED
  BY <1>2, <1>4, <1>5, <1>6, <1>7

\* The generators, awaitables and modules of the frames that are left.
LEMMA CutFields ==
  ASSUME TypeOK, LinksOK, NEW k
  PROVE  /\ complete_generators(GensFrom(k)) \in [Generators -> GeneratorObjects]
         /\ set_await_completed(AwaitsFrom(k)) \in [Awaitables -> AwaitableObjects]
         /\ reset_import_frames(k) \in [Modules -> ModuleObjects]
         /\ k \in Nat \ {0} => ImportsFrom(k) \subseteq Modules
<1>1. \A g \in Generators : gens[g] \in GeneratorObjects
  BY DEF TypeOK
<1>2. \A g \in Generators :
        [gens[g] EXCEPT !.state = "Completed", !.delegate = None, !.driver = None] \in GeneratorObjects
  BY <1>1 DEF GeneratorObjects, Delegates
<1>3. complete_generators(GensFrom(k)) \in [Generators -> GeneratorObjects]
  BY <1>1, <1>2 DEF complete_generators
<1>4. set_await_completed(AwaitsFrom(k)) \in [Awaitables -> AwaitableObjects]
  BY AwaitsCompleted
<1>5. [state |-> "Uninitialized", dirty |-> FALSE] \in ModuleObjects /\ \A m \in Modules : modules[m] \in ModuleObjects
  BY DEF TypeOK, ModuleObjects
<1>6. reset_import_frames(k) \in [Modules -> ModuleObjects]
  BY <1>5 DEF reset_import_frames
<1>7. ASSUME k \in Nat \ {0} PROVE ImportsFrom(k) \subseteq Modules
  <2>1. \A i \in k .. Len(frames) : i \in 1 .. Len(frames)
    BY <1>7, LenOf DEF TypeOK
  <2> QED
    BY <2>1 DEF ImportsFrom, LinksOK, Linked
<1> QED
  BY <1>3, <1>4, <1>6, <1>7

LEMMA EnterCuts ==
  ASSUME TypeOK, LinksOK, BasesOK, EnterHandler
  PROVE  TypeOK' /\ Cuts(Stop)
<1>1. /\ Raised /\ raised' = None /\ bases' = bases /\ uses' = uses /\ abandoned' = abandoned
      /\ InRegion(Stop) /\ Stop > Base
      /\ gens' = complete_generators(GensFrom(Stop + 1))
      /\ awaits' = set_await_completed(AwaitsFrom(Stop + 1))
      /\ modules' = reset_import_frames(Stop + 1)
  BY DEF EnterHandler
<1>2. PICK k \in Base .. Len(frames) : k = Stop /\ Base \in Nat /\ Base < k /\ Len(frames) \in Nat
  BY <1>1, StopFacts DEF Raised
<1>3. \A i \in k + 1 .. Len(frames) : ~InRegion(i)
  BY <1>1, <1>2, StopFacts DEF Stops, Raised
<1>4. PICK fs : fs = SubSeq(frames, 1, k)
  OBVIOUS
<1>5. frames' = [fs EXCEPT ![k].at = "handler", ![k].op = "none"]
  BY <1>2, <1>4 DEF EnterHandler
<1>6. k \in 0 .. Len(frames) /\ k # 0 /\ k \in 1 .. Len(frames)
  BY <1>2
<1>7. /\ fs \in Seq(Frames) /\ Len(fs) = k /\ Keeps(frames, fs, k) /\ fs # << >>
      /\ fs[k] \in Frames /\ k \in DOMAIN fs
  <2>1. fs \in Seq(Frames) /\ Len(fs) = k /\ Keeps(frames, fs, k)
    BY <1>4, <1>6, Landings
  <2> QED
    BY <1>2, <1>6, <2>1, LenOf
<1>8. PICK x : x = [fs[k] EXCEPT !.at = "handler", !.op = "none"]
  OBVIOUS
<1>9. x \in Frames /\ Alike(fs[k], x)
  BY <1>7, <1>8 DEF Frames, Alike, Places, Ops
<1>10. frames' = [fs EXCEPT ![k] = x]
  BY <1>5, <1>7, <1>8
<1> HIDE <1>4, <1>8
<1>11. frames' \in Seq(Frames) /\ Len(frames') = k /\ Keeps(fs, frames', k)
  BY <1>7, <1>9, <1>10, LastReplaced DEF Last
<1>12. Keeps(frames, frames', k)
  <2>1. k \in Nat
    BY <1>2
  <2> QED
    BY <1>7, <1>11, <2>1, KeepsTrans
<1>13. Lands(k)
  BY <1>1, <1>2, <1>11, <1>12 DEF Lands
<1>14. Cuts(k)
  BY <1>1, <1>2, <1>3, <1>13 DEF Cuts, Reraises, Resets, Raised
<1>15. TypeOK'
  BY <1>1, <1>11, CutFields DEF TypeOK
<1> QED
  BY <1>2, <1>14, <1>15

\* What the arms that leave the frames from position k + 1 on have in common.
Leaving(k) ==
  /\ raised # None /\ ~raised.direct /\ raised.exc # "Other"
  /\ k \in Nat /\ Base <= k /\ k < Len(frames)
  /\ gens' = complete_generators(GensFrom(k + 1))
  /\ awaits' = set_await_completed(AwaitsFrom(k + 1))
  /\ abandoned' = abandoned \cup ImportsFrom(k + 1)
  /\ bases' = bases /\ modules' = modules /\ uses' = uses
  /\ \A i \in k + 1 .. Len(frames) : ~InRegion(i)

\* The caller goes on, an exception is raised in it, or it calls a function.
CallerLeft(k, fs) ==
  \/ frames' = Done(fs) /\ raised' = None
  \/ frames' = Done([fs EXCEPT ![k].delegate = None]) /\ raised' = None
  \/ frames' = fs /\ raised' = None
  \/ /\ Base < k /\ frames' = fs
     /\ \/ \E exc \in Exceptions : raised' = AtCaller(k + 1, exc)
        \/ CutOff /\ \E exc \in Exceptions : raised' = [AtCaller(k + 1, exc) EXCEPT !.direct = TRUE]
  \/ /\ raised' = None
     /\ \E f \in Functions :
          /\ frames' = Append(fs, NewFrame(f, ReturnAction("Value")))
          /\ f \notin {fs[i].code : i \in DOMAIN fs}

LEMMA CalleePushed ==
  ASSUME NEW fs, NEW k, k \in Nat, Keeps(frames, fs, k), Len(fs) = k, NEW x, x \in Frames,
         frames' = Append(fs, x)
  PROVE  /\ frames' \in Seq(Frames) /\ Len(frames') = k + 1 /\ Keeps(frames, frames', k)
         /\ frames'[k + 1] = x /\ \A i \in 1 .. k : frames'[i] = fs[i]
BY PushKeeps

LEMMA LeavingCuts ==
  ASSUME TypeOK, LinksOK, BasesOK, NEW k, Leaving(k),
         NEW fs, fs = SubSeq(frames, 1, k),
         CallerLeft(k, fs)
  PROVE  TypeOK' /\ Cuts(k)
<1>1. /\ Base \in Nat /\ Len(frames) \in Nat /\ k \in 0 .. Len(frames) /\ k \in Base .. Len(frames)
      /\ k \in Nat /\ k + 1 \in Nat \ {0}
  BY BasesFacts, LenOf DEF TypeOK, Leaving
<1>2. /\ fs \in Seq(Frames) /\ Len(fs) = k /\ Keeps(frames, fs, k)
      /\ \A i \in 1 .. k : fs[i] = frames[i]
      /\ Done(fs) \in Seq(Frames) /\ Len(Done(fs)) = k /\ Keeps(frames, Done(fs), k)
      /\ k = 0 \/ Done(fs)[k].at = "plain"
      /\ Done([fs EXCEPT ![k].delegate = None]) \in Seq(Frames)
      /\ Len(Done([fs EXCEPT ![k].delegate = None])) = k
      /\ Keeps(frames, Done([fs EXCEPT ![k].delegate = None]), k)
      /\ k = 0 \/ Done([fs EXCEPT ![k].delegate = None])[k].at = "plain"
  <2>1. k \in 0 .. Len(frames)
    BY <1>1
  <2> QED
    BY <2>1, Landings
<1>3. k # 0 => fs[k] = frames[k] /\ k \in 1 .. k /\ k \in 1 .. Len(frames)
  BY <1>1, <1>2
<1>4. CASE frames' = Done(fs) /\ raised' = None
  BY <1>1, <1>2, <1>4, CutFields DEF TypeOK, Cuts, Lands, Reraises, Resets, Leaving
<1>5. CASE frames' = Done([fs EXCEPT ![k].delegate = None]) /\ raised' = None
  <2>1. PICK hs : hs = Done([fs EXCEPT ![k].delegate = None])
    OBVIOUS
  <2>2. hs \in Seq(Frames) /\ Len(hs) = k /\ Keeps(frames, hs, k) /\ (k = 0 \/ hs[k].at = "plain")
    BY <1>2, <2>1
  <2>3. frames' = hs
    BY <1>5, <2>1
  <2> HIDE <2>1
  <2> QED
    BY <1>1, <1>5, <2>2, <2>3, CutFields DEF TypeOK, Cuts, Lands, Reraises, Resets, Leaving
<1>6. CASE frames' = fs /\ raised' = None
  BY <1>1, <1>2, <1>3, <1>6, CutFields DEF TypeOK, Cuts, Lands, Reraises, Resets, Leaving
<1>7. CASE /\ Base < k /\ frames' = fs
           /\ \/ \E exc \in Exceptions : raised' = AtCaller(k + 1, exc)
              \/ CutOff /\ \E exc \in Exceptions : raised' = [AtCaller(k + 1, exc) EXCEPT !.direct = TRUE]
  <2>1. k \in 1 .. Len(frames) /\ k # 0
    BY <1>1, <1>7
  <2>2. /\ raised' \in Errors /\ raised' # None
        /\ raised'.code = frames[k].code /\ raised'.at = frames[k].at
        /\ raised'.direct => CutOff
    <3>1. CASE \E exc \in Exceptions : raised' = AtCaller(k + 1, exc)
      BY <2>1, <3>1, CallerError
    <3>2. CASE CutOff /\ \E exc \in Exceptions : raised' = [AtCaller(k + 1, exc) EXCEPT !.direct = TRUE]
      BY <2>1, <3>2, CallerError
    <3> QED
      BY <1>7, <3>1, <3>2
  <2>3. Top' = frames[k] /\ Len(frames') = k /\ Base' = Base
    BY <1>2, <1>3, <1>7, <2>1 DEF Top, Last, Base, Leaving
  <2>4. Reraises
    BY <1>7, <2>2, <2>3 DEF Reraises
  <2>5. Lands(k)
    BY <1>1, <1>2, <1>3, <1>7 DEF Lands
  <2>6. Cuts(k)
    BY <1>1, <2>4, <2>5 DEF Cuts, Resets, Leaving
  <2>7. TypeOK'
    BY <1>1, <1>2, <1>7, <2>2, CutFields DEF TypeOK, Leaving
  <2> QED
    BY <2>6, <2>7
<1>8. CASE /\ raised' = None
           /\ \E f \in Functions :
                /\ frames' = Append(fs, NewFrame(f, ReturnAction("Value")))
                /\ f \notin {fs[i].code : i \in DOMAIN fs}
  <2>1. PICK f \in Functions :
          /\ frames' = Append(fs, NewFrame(f, ReturnAction("Value")))
          /\ f \notin {fs[i].code : i \in DOMAIN fs}
    BY <1>8
  <2>2. f \in Codes /\ ReturnAction("Value") \in Actions
    BY ReturnActionFields DEF Codes, Kinds, Plain
  <2>3. PICK x : x = NewFrame(f, ReturnAction("Value"))
    OBVIOUS
  <2>4. /\ x \in Frames /\ x.code = f /\ x.action = ReturnAction("Value") /\ x.gen = None
        /\ x.at = "plain" /\ ~x.strayed
    BY <2>2, <2>3, NewFrameFields DEF NewFrame
  <2>5. frames' = Append(fs, x)
    BY <2>1, <2>3
  <2> HIDE <2>3
  <2>6. /\ frames' \in Seq(Frames) /\ Len(frames') = k + 1 /\ Keeps(frames, frames', k)
        /\ frames'[k + 1] = x /\ \A i \in 1 .. k : frames'[i] = fs[i]
    <3>1. k \in Nat /\ Keeps(frames, fs, k) /\ Len(fs) = k /\ x \in Frames
      BY <1>1, <1>2, <2>4
    <3> QED
      BY <2>5, <3>1, CalleePushed
  <2>7. \A i \in 1 .. k : frames[i].code # f
    <3>1. DOMAIN fs = 1 .. k
      BY <1>2, LenOf
    <3> QED
      BY <1>2, <2>1, <3>1
  <2>8. Lands(k)
    BY <1>1, <1>2, <1>3, <1>8, <2>4, <2>6, <2>7 DEF Lands
  <2>9. Cuts(k)
    BY <1>1, <1>8, <2>8 DEF Cuts, Reraises, Resets, Leaving
  <2>10. TypeOK'
    BY <1>1, <1>8, <2>6, CutFields DEF TypeOK, Leaving
  <2> QED
    BY <2>9, <2>10
<1> QED
  BY <1>4, <1>5, <1>6, <1>7, <1>8 DEF CallerLeft

LEMMA BottomEntry ==
  ASSUME TypeOK, LinksOK, BasesOK, NEW i, i \in Base + 1 .. Len(frames),
         frames[i].action.kind \notin Entries
  PROVE  Base < i - 1
<1>1. /\ Len(bases) \in Nat \ {0} /\ Base = bases[Len(bases)] /\ Base \in Nat /\ Len(frames) \in Nat
  BY BasesFacts, LenOf DEF TypeOK
<1>2. Len(bases) \in 1 .. Len(bases) /\ Base < Len(frames)
  BY <1>1
<1>3. frames[Base + 1].action.kind \in Entries
  BY <1>1, <1>2 DEF BasesOK
<1>4. i # Base + 1
  BY <1>3
<1> QED
  BY <1>1, <1>4

LEMMA StopLeaves ==
  ASSUME TypeOK, LinksOK, BasesOK, Raised, Stop > Base, ~InRegion(Stop), raised.exc # "Other",
         gens' = complete_generators(GensFrom(Stop)), awaits' = set_await_completed(AwaitsFrom(Stop)),
         Dropped(Stop), bases' = bases, modules' = modules, uses' = uses
  PROVE  /\ Leaving(Stop - 1) /\ Stop - 1 + 1 = Stop /\ Stop \in Base + 1 .. Len(frames)
         /\ Stop \in 1 .. Len(frames)
<1>1. PICK s : s = Stop
  OBVIOUS
<1>2. /\ Base \in Nat /\ Len(frames) \in Nat /\ s \in Base .. Len(frames) /\ s > Base
      /\ \A i \in s + 1 .. Len(frames) : ~InRegion(i)
  BY <1>1, StopFacts DEF Stops, Raised
<1>3. /\ s - 1 + 1 = s /\ s \in Base + 1 .. Len(frames) /\ s - 1 \in Nat /\ Base <= s - 1
      /\ s - 1 < Len(frames) /\ s \in 1 .. Len(frames)
      /\ \A i \in s .. Len(frames) : i = s \/ i \in s + 1 .. Len(frames)
  BY <1>2
<1>4. \A i \in s .. Len(frames) : ~InRegion(i)
  BY <1>1, <1>2, <1>3
<1>5. Leaving(s - 1)
  BY <1>1, <1>3, <1>4 DEF Leaving, Raised, Dropped
<1> QED
  BY <1>1, <1>3, <1>5

LEMMA CloseDrivenCuts ==
  ASSUME TypeOK, LinksOK, BasesOK, CloseDriven
  PROVE  TypeOK' /\ \E k : Cuts(k)
<1>1. Leaving(Stop - 1) /\ Stop - 1 + 1 = Stop /\ Stop \in Base + 1 .. Len(frames) /\ Stop \in 1 .. Len(frames)
  BY StopLeaves DEF CloseDriven, ClosesDriven, Raised
<1>2. frames[Stop].action.kind = "AsyncGeneratorDrive"
  BY DEF CloseDriven, ClosesDriven
<1>3. Base < Stop - 1
  BY <1>1, <1>2, BottomEntry DEF Entries
<1>4. frames[Stop].action.completion \in Completions
  BY <1>1, <1>2 DEF LinksOK, Linked
<1>5. PICK k, fs : k = Stop - 1 /\ fs = SubSeq(frames, 1, k)
  OBVIOUS
<1>6. Leaving(k) /\ k + 1 = Stop /\ Base < k
  BY <1>1, <1>3, <1>5
<1>7. \/ frames' = Done([fs EXCEPT ![k].delegate = None]) /\ raised' = None
      \/ frames' = Done(fs) /\ raised' = None
      \/ frames' = fs /\ raised' = AtCaller(Stop, "GeneratorExit")
      \/ frames' = fs /\ raised' = AtCaller(Stop, "StopIteration")
  BY <1>4, <1>5 DEF CloseDriven, Completions
<1>8. CallerLeft(k, fs)
  <2>1. "GeneratorExit" \in Exceptions /\ "StopIteration" \in Exceptions
    BY DEF Exceptions
  <2> QED
    BY <1>6, <1>7, <2>1, Zenon DEF CallerLeft
<1>9. fs = SubSeq(frames, 1, k)
  BY <1>5
<1> QED
  BY <1>6, <1>8, <1>9, LeavingCuts

LEMMA ConsumeCuts ==
  ASSUME TypeOK, LinksOK, BasesOK, Consume
  PROVE  TypeOK' /\ \E k : Cuts(k)
<1>1. Leaving(Stop - 1) /\ Stop - 1 + 1 = Stop /\ Stop \in Base + 1 .. Len(frames) /\ Stop \in 1 .. Len(frames)
  BY StopLeaves DEF Consume, Consumes, Raised
<1>2. frames[Stop].action.kind \in Consumers \cup {"NextDefault", "IteratorNext", "YieldFrom",
                                                   "YieldFromClose", "Close", "NamespaceLookup", "AttributeGet"}
  BY DEF Consume, Consumes
<1>3. frames[Stop].action.kind \notin {"YieldFrom", "Close"} => Base < Stop - 1
  BY <1>1, <1>2, BottomEntry DEF Entries, Consumers
<1>4. PICK k, fs : k = Stop - 1 /\ fs = SubSeq(frames, 1, k)
  OBVIOUS
<1>5. Leaving(k) /\ k + 1 = Stop
  BY <1>1, <1>4
<1>6. \/ Ends(fs)
      \/ Ends([fs EXCEPT ![k].delegate = None])
      \/ frames' = fs /\ raised' = None
      \/ CallsGuest(fs)
      \/ /\ frames[Stop].action.kind \notin {"YieldFrom", "Close"}
         /\ \/ \E exc \in Exceptions : FailsInCaller(fs, exc)
            \/ /\ CutOff /\ frames' = fs
               /\ \E exc \in Exceptions : raised' = [AtCaller(Stop, exc) EXCEPT !.direct = TRUE]
  <2>1. "GeneratorExit" \in Exceptions /\ "Other" \in Exceptions
    BY DEF Exceptions
  <2> DEFINE kind == frames[Stop].action.kind
  <2>2. CASE kind = "YieldFromClose"
    BY <1>4, <2>1, <2>2 DEF Consume, DelegateClosed
  <2>3. CASE kind = "YieldFrom"
    BY <1>4, <2>3 DEF Consume, DelegateEnded
  <2>4. CASE kind \in {"NextDefault", "IteratorNext", "Close", "MembershipNext",
                       "BoolReduceNext", "ExpandIterableNext"}
    BY <1>4, <2>4 DEF Consume
  <2>5. CASE kind = "NamespaceLookup"
    BY <1>4, <2>1, <2>5 DEF Consume, NamespaceMissing
  <2>6. CASE kind = "AttributeGet"
    BY <1>4, <2>1, <2>6 DEF Consume, MissingAttribute
  <2>7. CASE kind \in {"DictIterableNext", "DictPairNext", "CollectIterableNext"}
    BY <1>4, <2>1, <2>7 DEF Consume, CollectionEnds
  <2>8. CASE kind \in {"SumNext", "ExtremumNext"}
    BY <1>4, <2>1, <2>8 DEF Consume, ReductionEnds, CutOff
  <2> QED
    BY <1>2, <2>2, <2>3, <2>4, <2>5, <2>6, <2>7, <2>8 DEF Consumers
<1>7. CallerLeft(k, fs)
  <2>1. CASE CallsGuest(fs)
    BY <2>1 DEF CallsGuest, CallerLeft
  <2>2. CASE /\ Base < k
             /\ \/ \E exc \in Exceptions : FailsInCaller(fs, exc)
                \/ /\ CutOff /\ frames' = fs
                   /\ \E exc \in Exceptions : raised' = [AtCaller(Stop, exc) EXCEPT !.direct = TRUE]
    BY <1>5, <2>2 DEF CallerLeft, FailsInCaller
  <2>3. CASE \/ Ends(fs)
             \/ Ends([fs EXCEPT ![k].delegate = None])
             \/ frames' = fs /\ raised' = None
    BY <2>3 DEF CallerLeft, Ends
  <2> QED
    BY <1>3, <1>4, <1>6, <2>1, <2>2, <2>3
<1>8. fs = SubSeq(frames, 1, k)
  BY <1>4
<1> QED
  BY <1>5, <1>7, <1>8, LeavingCuts

LEMMA EscapeCuts ==
  ASSUME TypeOK, LinksOK, BasesOK, DirectCuts, Escape
  PROVE  TypeOK' /\ Cuts(Base)
<1>1. /\ raised # None /\ Base \in Nat /\ Len(frames) \in Nat /\ Base \in 0 .. Len(frames)
      /\ Base \in Base .. Len(frames)
      /\ uses' = uses /\ abandoned' = abandoned /\ frames' = SubSeq(frames, 1, Base)
      /\ Base + 1 \in Nat \ {0}
  BY BasesFacts, LenOf DEF TypeOK, Escape, BasesOK
<1>2. /\ frames' \in Seq(Frames) /\ Len(frames') = Base /\ Keeps(frames, frames', Base)
      /\ \A i \in 1 .. Base : frames'[i] = frames[i]
  <2>1. Base \in 0 .. Len(frames) /\ frames' = SubSeq(frames, 1, Base)
    BY <1>1
  <2> QED
    BY <2>1, Landings
<1>3. Lands(Base)
  <2>1. Base = 0 \/ frames'[Base] = frames[Base]
    BY <1>1, <1>2
  <2> QED
    BY <1>1, <1>2, <2>1 DEF Lands
<1>4. Resets(Base)
  BY <1>1 DEF Escape, Resets
<1>5. /\ \/ raised' = None /\ bases' = bases
         \/ /\ Len(bases) > 1 /\ bases' = Below(bases)
            /\ \/ raised' = None
               \/ raised' = Error(raised.exc, Last(frames').code, Last(frames').at)
  <2>1. PICK n \in Nat : n = Len(bases) /\ n # 0
    BY BasesFacts
  <2>2. /\ Len(bases) = 1 => raised' = None /\ bases' = bases
        /\ Len(bases) # 1 =>
             /\ bases' = Below(bases)
             /\ raised' \in {None, Error(raised.exc, Last(frames').code, Last(frames').at)}
    BY DEF Escape
  <2>3. n = 1 \/ n > 1
    BY <2>1
  <2> QED
    BY <2>1, <2>2, <2>3
<1>6. raised'# None => /\ raised' \in Errors /\ Base' < Len(frames')
                       /\ raised'.code = Top'.code /\ raised'.at = Top'.at /\ ~raised'.direct
  <2>1. SUFFICES ASSUME raised' # None
                 PROVE  /\ raised' \in Errors /\ Base' < Len(frames')
                        /\ raised'.code = Top'.code /\ raised'.at = Top'.at /\ ~raised'.direct
    OBVIOUS
  <2>2. /\ Len(bases) > 1 /\ bases' = Below(bases)
        /\ raised' = Error(raised.exc, Last(frames').code, Last(frames').at)
    BY <1>5, <2>1
  <2>3. Base' < Base /\ Base' \in Nat
    BY <2>2, CallerDepth
  <2>4. Top' = Last(frames') /\ Top' \in Frames
    <3>1. Len(frames') \in 1 .. Len(frames')
      BY <1>1, <1>2, <2>3
    <3> QED
      BY <1>2, <3>1, LenOf DEF Top, Last
  <2>5. raised.exc \in Exceptions /\ Top'.code \in Codes /\ Top'.at \in Places
    BY <1>1, <2>4, FrameFields DEF TypeOK, Errors
  <2> QED
    BY <1>1, <1>2, <2>2, <2>3, <2>4, <2>5, ErrorFields
<1>7. Reraises
  BY <1>6 DEF Reraises
<1>8. \/ raised.direct /\ gens' = gens /\ awaits' = awaits /\ modules' = modules
      \/ /\ ~raised.direct
         /\ gens' = complete_generators(GensFrom(Base + 1))
         /\ awaits' = set_await_completed(AwaitsFrom(Base + 1))
         /\ modules' = reset_import_frames(Base + 1)
         /\ \A i \in Base + 1 .. Len(frames) : ~InRegion(i)
  <2>1. CASE raised.direct
    BY <2>1 DEF Escape
  <2>2. CASE ~raised.direct
    <3>1. Stop = Base
      BY <2>2 DEF Escape
    <3>2. \A i \in Base + 1 .. Len(frames) : ~InRegion(i)
      BY <1>1, <3>1, StopFacts DEF Stops
    <3> QED
      BY <2>2, <3>2 DEF Escape
  <2> QED
    BY <2>1, <2>2
<1>9. Cuts(Base)
  BY <1>1, <1>3, <1>4, <1>5, <1>7, <1>8 DEF Cuts
<1>10. bases' \in Seq(Nat) /\ Len(bases') > 0
  BY <1>5, CallerDepth DEF TypeOK
<1>11. TypeOK'
  BY <1>1, <1>2, <1>5, <1>6, <1>8, <1>10, CutFields DEF TypeOK
<1> QED
  BY <1>9, <1>11

LEMMA CutFacts ==
  ASSUME TypeOK, LinksOK, BasesOK, NEW k, Cuts(k)
  PROVE  /\ k \in Nat /\ Base \in Nat /\ Base <= k /\ k <= Len(frames) /\ Len(frames) \in Nat
         /\ Keeps(frames, frames', k)
         /\ \A i \in 1 .. Len(frames') :
              \/ i \in 1 .. k
              \/ /\ i = k + 1 /\ Len(frames') = k + 1 /\ frames'[i].gen = None
                 /\ frames'[i].action.kind = "Value" /\ ~frames'[i].strayed
                 /\ frames'[i].code \in Functions
                 /\ \A j \in 1 .. k : frames[j].code # frames'[i].code
         /\ \A i \in 1 .. k : i \in 1 .. Len(frames')
<1>1. k \in Base .. Len(frames) /\ Base \in Nat /\ Len(frames) \in Nat /\ Keeps(frames, frames', k)
  BY BasesFacts, LenOf DEF TypeOK, Cuts, Lands
<1>2. ReturnAction("Value").kind = "Value"
  BY DEF ReturnAction
<1>3. \/ Len(frames') = k
      \/ /\ Len(frames') = k + 1
         /\ frames'[k + 1].action.kind = "Value" /\ frames'[k + 1].gen = None
         /\ ~frames'[k + 1].strayed /\ frames'[k + 1].code \in Functions
         /\ \A i \in 1 .. k : frames[i].code # frames'[k + 1].code
  BY <1>2 DEF Cuts, Lands
<1>4. CASE Len(frames') = k
  BY <1>1, <1>4
<1>5. CASE Len(frames') = k + 1
  <2>1. \A i \in 1 .. k + 1 : i \in 1 .. k \/ i = k + 1
    BY <1>1
  <2>2. k # k + 1 /\ \A i \in 1 .. k : i \in 1 .. k + 1
    BY <1>1
  <2> QED
    BY <1>1, <1>3, <1>5, <2>1, <2>2
<1> QED
  BY <1>3, <1>4, <1>5

LEMMA CutLinks ==
  ASSUME TypeOK, LinksOK, BasesOK, NEW k, Cuts(k)
  PROVE  LinksOK'
<1>1. ASSUME NEW i \in 1 .. Len(frames') PROVE Linked(frames'[i])
  <2>1. CASE i \in 1 .. k
    BY <2>1, CutFacts, KeptFrames, AlikeLinked DEF LinksOK
  <2>2. CASE i \notin 1 .. k
    BY <2>2, CutFacts DEF Linked
  <2> QED
    BY <2>1, <2>2
<1> QED
  BY <1>1 DEF LinksOK

LEMMA CutBases ==
  ASSUME TypeOK, TypeOK', LinksOK, BasesOK, NEW k, Cuts(k)
  PROVE  BasesOK'
<1>1. /\ k \in Nat /\ Base \in Nat /\ Base <= k /\ k <= Len(frames) /\ Len(frames) \in Nat
      /\ Keeps(frames, frames', k) /\ (Len(frames') = k \/ Len(frames') = k + 1)
  BY CutFacts DEF Cuts, Lands
<1>2. \A i \in 1 .. Len(bases') : bases'[i] = bases[i] /\ i \in 1 .. Len(bases)
  BY CallerDepth DEF Cuts
<1>3. \A i \in 1 .. Len(bases) : bases[i] \in Nat /\ bases[i] <= Base
  <2>1. /\ Len(bases) \in Nat \ {0} /\ \A j \in 1 .. Len(bases) : bases[j] \in Nat
        /\ Base = bases[Len(bases)] /\ Len(bases) \in 1 .. Len(bases)
    BY BasesFacts
  <2>2. \A i \in 1 .. Len(bases) : i = Len(bases) \/ i < Len(bases)
    BY <2>1
  <2> QED
    BY <2>1, <2>2 DEF BasesOK
<1>4. \A i \in 1 .. Len(bases') : bases'[i] <= Len(frames')
  BY <1>1, <1>2, <1>3
<1>5. \A i, j \in 1 .. Len(bases') : i < j => bases'[i] < bases'[j]
  BY <1>2 DEF BasesOK
<1>6. raised' # None => Base' < Len(frames')
  BY DEF Cuts, Reraises
<1>7. ASSUME NEW i \in 1 .. Len(bases'), bases'[i] < Len(frames')
      PROVE  frames'[bases'[i] + 1].action.kind \in Entries
  <2>1. PICK b \in Nat : b = bases[i] /\ bases'[i] = b /\ b <= k /\ i \in 1 .. Len(bases)
    BY <1>1, <1>2, <1>3, <1>7
  <2>2. b + 1 \in 1 .. Len(frames')
    BY <1>1, <1>7, <2>1
  <2>3. CASE b + 1 \in 1 .. k
    <3>1. b < Len(frames)
      BY <1>1, <2>1, <2>3
    <3>2. frames[b + 1].action.kind \in Entries
      BY <2>1, <3>1 DEF BasesOK
    <3>3. Alike(frames[b + 1], frames'[b + 1])
      BY <1>1, <2>3, KeptFrames
    <3> QED
      BY <2>1, <3>2, <3>3, AlikeEntries
  <2>4. CASE b + 1 \notin 1 .. k
    BY <2>1, <2>2, <2>4, CutFacts DEF Entries
  <2> QED
    BY <2>3, <2>4
<1> QED
  BY <1>4, <1>5, <1>6, <1>7 DEF BasesOK

LEMMA CutContinuations ==
  ASSUME TypeOK, LinksOK, BasesOK, ContinuationsOK, NEW k, Cuts(k)
  PROVE  ContinuationsOK'
<1>1. SUFFICES ASSUME NothingMistaken, NEW i \in 2 .. Len(frames')
               PROVE  Continues(frames'[i], frames'[i - 1].op)
  BY DEF ContinuationsOK, NothingMistaken, Cuts
<1>2. k \in Nat /\ Keeps(frames, frames', k) /\ i \in 1 .. Len(frames') /\ i # 1 /\ i \in Nat
  BY <1>1, CutFacts
<1>3. CASE i \in 1 .. k
  <2>1. i - 1 \in 1 .. k /\ i - 1 < k
    BY <1>2, <1>3
  <2>2. frames'[i - 1] = frames[i - 1]
    BY <1>2, <2>1 DEF Keeps
  <2>3. /\ frames'[i].strayed = frames[i].strayed
        /\ frames'[i].action = frames[i].action
        /\ i \in 1 .. Len(frames)
    <3>1. ~Replaced
      BY <1>1 DEF NothingMistaken, Replaced
    <3> QED
      BY <1>2, <1>3, <3>1, KeptFrames DEF Alike
  <2>4. i \in 2 .. Len(frames)
    BY <1>2, <2>3
  <2>5. Continues(frames[i], frames[i - 1].op)
    BY <1>1, <2>4 DEF ContinuationsOK
  <2> QED
    BY <2>2, <2>3, <2>5 DEF Continues
<1>4. CASE i \notin 1 .. k
  BY <1>2, <1>4, CutFacts DEF Continues
<1> QED
  BY <1>3, <1>4

LEMMA CutDirect ==
  ASSUME NEW k, Cuts(k)
  PROVE  DirectCuts'
BY DEF Cuts, Reraises, DirectCuts, CutOff

LEMMA CutImports ==
  ASSUME TypeOK, LinksOK, BasesOK, ImportsOK, DirectCuts, NEW k, Cuts(k)
  PROVE  ImportsOK'
<1>1. k \in Nat /\ k <= Len(frames) /\ Len(frames) \in Nat /\ Keeps(frames, frames', k) /\ uses' = uses
  BY CutFacts DEF Cuts
\* An import that stays is one of the frames that stay.
<1>2. ASSUME NEW i \in 1 .. Len(frames'), frames'[i].action.kind = "Import"
      PROVE  /\ i \in 1 .. k /\ i \in 1 .. Len(frames) /\ frames[i].action.kind = "Import"
             /\ frames[i].action.ref = frames'[i].action.ref /\ frames'[i].action.ref \in Modules
  <2>1. i \in 1 .. k
    BY <1>2, CutFacts
  <2>2. /\ i \in 1 .. Len(frames) /\ frames[i].action.kind = "Import"
        /\ frames[i].action.ref = frames'[i].action.ref
    BY <1>1, <1>2, <2>1, KeptFrames
  <2> QED
    BY <2>1, <2>2 DEF LinksOK, Linked
<1>3. \A j \in k + 1 .. Len(frames) : j \in 1 .. Len(frames) /\ j \notin 1 .. k
  BY <1>1
<1>4. ASSUME NEW m \in Modules
      PROVE  \/ modules'[m] = modules[m]
             \/ /\ modules'[m] = [state |-> "Uninitialized", dirty |-> FALSE]
                /\ \E j \in k + 1 .. Len(frames) :
                     frames[j].action.kind = "Import" /\ frames[j].action.ref = m
  <2>1. CASE modules' = modules
    BY <2>1
  <2>2. CASE modules' = reset_import_frames(k + 1)
    BY <2>2 DEF reset_import_frames
  <2> QED
    BY <2>1, <2>2 DEF Cuts, Resets
<1>5. ASSUME NEW i \in 1 .. Len(frames'), frames'[i].action.kind = "Import"
      PROVE  modules'[frames'[i].action.ref].state = "Initializing"
  <2>1. PICK m \in Modules : m = frames'[i].action.ref
    BY <1>2, <1>5
  <2>2. /\ i \in 1 .. k /\ i \in 1 .. Len(frames) /\ frames[i].action.kind = "Import"
        /\ frames[i].action.ref = m
    BY <1>2, <1>5, <2>1
  <2>3. modules[m].state = "Initializing"
    BY <2>2 DEF ImportsOK
  <2>4. ~ \E j \in k + 1 .. Len(frames) : frames[j].action.kind = "Import" /\ frames[j].action.ref = m
    BY <1>3, <2>2 DEF ImportsOK
  <2> QED
    BY <1>4, <2>1, <2>3, <2>4
<1>6. \A i, j \in 1 .. Len(frames') :
        (frames'[i].action.kind = "Import" /\ frames'[j].action.kind = "Import" /\
         frames'[i].action.ref = frames'[j].action.ref) => i = j
  BY <1>2 DEF ImportsOK
<1>7. \A m \in Modules : modules'[m].state = "Uninitialized" => ~modules'[m].dirty
  BY <1>4 DEF ImportsOK
<1>8. ASSUME ~CutOff, ~Replaced, NEW m \in Modules, modules'[m].state = "Initializing"
      PROVE  \/ m \in abandoned'
             \/ \E i \in 1 .. Len(frames') :
                  frames'[i].action.kind = "Import" /\ frames'[i].action.ref = m
  <2>1. modules[m].state = "Initializing" /\ modules'[m] = modules[m]
    BY <1>4, <1>8
  <2>2. abandoned \subseteq abandoned'
    BY DEF Cuts, Resets
  <2>3. CASE m \in abandoned
    BY <2>2, <2>3
  <2>4. CASE m \notin abandoned
    <3>1. PICK i \in 1 .. Len(frames) : frames[i].action.kind = "Import" /\ frames[i].action.ref = m
      BY <1>8, <2>1, <2>4 DEF ImportsOK
    <3>2. CASE i \in 1 .. k
      <4>1. i \in 1 .. Len(frames') /\ frames'[i].action = frames[i].action
        BY <1>1, <1>8, <3>2, KeptFrames, CutFacts
      <4> QED
        BY <3>1, <4>1
    <3>3. CASE i \notin 1 .. k
      <4>1. i \in k + 1 .. Len(frames)
        BY <1>1, <3>3
      <4>2. ~raised.direct
        BY <1>8 DEF DirectCuts, Cuts
      <4>3. CASE modules' = reset_import_frames(k + 1)
        <5>1. modules'[m] = [state |-> "Uninitialized", dirty |-> FALSE]
          BY <3>1, <4>1, <4>3 DEF reset_import_frames
        <5> QED
          BY <1>8, <5>1
      <4>4. CASE abandoned' = abandoned \cup ImportsFrom(k + 1)
        BY <3>1, <4>1, <4>4 DEF ImportsFrom
      <4> QED
        BY <4>2, <4>3, <4>4 DEF Cuts, Resets
    <3> QED
      BY <3>2, <3>3
  <2> QED
    BY <2>3, <2>4
<1>9. (CutOff' => CutOff) /\ (CutOff => CutOff') /\ (Replaced => Replaced') /\ (Replaced' => Replaced)
  BY <1>1 DEF CutOff, Replaced
<1> QED
  BY <1>5, <1>6, <1>7, <1>8, <1>9 DEF ImportsOK

LEMMA CutGenerators ==
  ASSUME TypeOK, LinksOK, BasesOK, DirectCuts, Accounted, GeneratorsOK, NEW k, Cuts(k)
  PROVE  GeneratorsOK'
<1>1. k \in Nat /\ Base \in Nat /\ Base <= k /\ k <= Len(frames) /\ Len(frames) \in Nat
      /\ Keeps(frames, frames', k) /\ uses' = uses /\ raised # None
  BY CutFacts DEF Cuts
<1>2. ~raised.direct
  BY DEF DirectCuts, Accounted, Cuts
<1>3. gens' = complete_generators(GensFrom(k + 1)) /\ \A i \in k + 1 .. Len(frames) : ~InRegion(i)
  BY <1>2 DEF Cuts
<1>4. OneFrame' /\ AsyncDriven'
  <2>1. Len(frames') = k \/ (Len(frames') = k + 1 /\ frames'[k + 1].gen = None)
    BY DEF Cuts, Lands
  <2> QED
    BY <1>1, <2>1, OwnersKept DEF GeneratorsOK
<1>5. ASSUME NEW i \in 1 .. k, frames[i].gen # None
      PROVE  /\ frames[i].gen \in Generators /\ i \in 1 .. Len(frames)
             /\ gens'[frames[i].gen] = gens[frames[i].gen]
  <2>1. i \in 1 .. Len(frames) /\ frames[i].gen \in Generators
    BY <1>1, <1>5, KeptFrames, FrameFields
  <2>2. \A j \in k + 1 .. Len(frames) : j \in 1 .. Len(frames) /\ i # j
    BY <1>1
  <2>3. frames[i].gen \notin GensFrom(k + 1)
    BY <1>5, <2>1, <2>2 DEF GensFrom, GeneratorsOK, OneFrame
  <2> QED
    BY <1>3, <2>1, <2>3 DEF complete_generators
<1>6. ASSUME NEW i \in 1 .. k, frames[i].gen # None
      PROVE  gens[frames[i].gen].state = "Running"
  <2>1. i \in 1 .. Len(frames) /\ i \in Nat /\ i <= k
    BY <1>1
  <2>2. SUFFICES ASSUME gens[frames[i].gen].state = "Completed", Unwound(i) PROVE FALSE
    BY <1>6, <2>1 DEF GeneratorsOK, FramesRun
  <2>3. Base < i
    BY <2>2 DEF Unwound
  <2>4. CASE InRegion(k)
    <3>1. CASE i = Len(frames)
      <4>1. i = k
        BY <1>1, <2>1, <3>1
      <4> QED
        BY <1>6, <2>2, <2>4, <4>1 DEF InRegion, Alive
    <3>2. CASE i # Len(frames)
      <4>1. k \in i .. Len(frames)
        BY <1>1, <2>1
      <4> QED
        BY <2>2, <2>4, <3>2, <4>1 DEF Unwound
    <3> QED
      BY <3>1, <3>2
  <2>5. CASE k < Len(frames) /\ raised.exc # "Other"
    <3>1. i # Len(frames)
      BY <1>1, <2>1, <2>5
    <3> QED
      BY <2>2, <2>5, <3>1 DEF Unwound
  <2>6. CASE k = Base
    BY <1>1, <2>1, <2>3, <2>6
  <2> QED
    BY <2>4, <2>5, <2>6 DEF Cuts
<1>7. ASSUME NEW i \in 1 .. Len(frames'), frames'[i].gen # None
      PROVE  i \in 1 .. k /\ frames'[i].gen = frames[i].gen
  <2>1. i \in 1 .. k
    BY <1>7, CutFacts
  <2> QED
    BY <1>1, <2>1, KeptFrames
<1>8. FramesRun'
  BY <1>5, <1>6, <1>7 DEF FramesRun
<1>9. ASSUME NEW g \in Generators, gens'[g].state = "Running"
      PROVE  \E i \in 1 .. Len(frames') : frames'[i].gen = g
  <2>1. g \notin GensFrom(k + 1) /\ gens[g].state = "Running"
    <3>1. gens'[g].state = IF g \in GensFrom(k + 1) THEN "Completed" ELSE gens[g].state
      BY <1>3, CompleteFields
    <3> QED
      BY <1>9, <3>1
  <2>2. PICK i \in 1 .. Len(frames) : frames[i].gen = g
    BY <2>1 DEF GeneratorsOK, RunningHasFrame
  <2>3. i \notin k + 1 .. Len(frames)
    <3>1. None \notin Generators
      BY UnwindingAssumption
    <3> QED
      BY <2>1, <2>2, <3>1 DEF GensFrom
  <2>4. i \in 1 .. k
    BY <1>1, <2>3
  <2> QED
    <3>1. frames'[i].gen = frames[i].gen
      BY <1>1, <2>4, KeptFrames
    <3>2. i \in 1 .. Len(frames')
      BY <2>4, CutFacts
    <3> QED
      BY <2>2, <3>1, <3>2
<1> QED
  BY <1>4, <1>8, <1>9 DEF GeneratorsOK, RunningHasFrame

LEMMA CutDrivers ==
  ASSUME TypeOK, TypeOK', DirectCuts, Accounted, DriversSet, OneDriver, NEW k, Cuts(k)
  PROVE  DriversSet' /\ OneDriver'
<1>1. ~raised.direct
  BY DEF DirectCuts, Accounted, Cuts
<1>2. gens' = complete_generators(GensFrom(k + 1)) /\ awaits' = set_await_completed(AwaitsFrom(k + 1))
  BY <1>1 DEF Cuts
<1>3. PICK A \in SUBSET (Awaitables \cup Modules \cup {None}) : awaits' = set_await_completed(A)
  <2>1. PICK A : A = AwaitsFrom(k + 1) \cap Awaitables
    OBVIOUS
  <2>2. set_await_completed(A) = set_await_completed(AwaitsFrom(k + 1))
    BY <2>1 DEF set_await_completed
  <2> QED
    BY <1>2, <2>1, <2>2
<1>4. Released
  BY <1>2, <1>3, CompletedReleased
<1>5. HandedOver(None, gens', awaits')
  BY <1>4, ReleasedHandsOver
<1> QED
  BY <1>5, DriversKept

LEMMA CutCodes ==
  ASSUME TypeOK, LinksOK, BasesOK, CodesDistinct, CodesApart, NEW k, Cuts(k)
  PROVE  CodesApart'
<1>1. k \in Nat /\ k <= Len(frames) /\ Len(frames) \in Nat /\ Keeps(frames, frames', k)
  BY CutFacts
<1>2. \A i \in 1 .. k : i \in 1 .. Len(frames) /\ i \notin k + 1 .. Len(frames)
  BY <1>1
\* The import of a frame that stays is not reset.
<1>3. ASSUME NEW i \in 1 .. k, NEW m \in Modules, m = frames[i].code, modules[m].state # "Uninitialized"
      PROVE  modules'[m].state # "Uninitialized"
  <2>1. CASE modules' = modules
    BY <1>3, <2>1
  <2>2. CASE modules' = reset_import_frames(k + 1)
    <3>1. ASSUME NEW j \in k + 1 .. Len(frames), frames[j].action.kind = "Import"
          PROVE  frames[j].action.ref # m
      <4>1. j \in 1 .. Len(frames) /\ i # j /\ i \in 1 .. Len(frames)
        BY <1>1, <1>2, <3>1
      <4>2. frames[j].action.ref = frames[j].code
        BY <3>1, <4>1 DEF CodesApart
      <4> QED
        BY <1>3, <4>1, <4>2 DEF CodesApart
    <3>2. modules'[m] = modules[m]
      BY <2>2, <3>1 DEF reset_import_frames
    <3> QED
      BY <1>3, <3>2
  <2> QED
    BY <2>1, <2>2 DEF Cuts, Resets
<1>4. \/ Len(frames') = k
      \/ /\ Len(frames') = k + 1
         /\ CodeFits(frames'[k + 1], modules')
         /\ \A i \in 1 .. k : frames[i].code # frames'[k + 1].code
  <2>1. CASE Len(frames') = k
    BY <2>1
  <2>2. CASE Len(frames') = k + 1
    <3>1. k + 1 \in 1 .. Len(frames') /\ k + 1 \notin 1 .. k
      BY <1>1, <2>2
    <3>2. /\ frames'[k + 1].gen = None /\ frames'[k + 1].action.kind = "Value"
          /\ frames'[k + 1].code \in Functions
          /\ \A j \in 1 .. k : frames[j].code # frames'[k + 1].code
      BY <3>1, CutFacts
    <3>3. CodeFits(frames'[k + 1], modules')
      BY <3>2 DEF CodeFits, CodesDistinct
    <3> QED
      BY <2>2, <3>2, <3>3
  <2> QED
    BY <2>1, <2>2 DEF Cuts, Lands
<1> QED
  BY <1>1, <1>3, <1>4, CodesKept

LEMMA CutFaults ==
  ASSUME NEW k, Cuts(k)
  PROVE  FaultPlaced'
BY DEF Cuts, Reraises, FaultPlaced

LEMMA CutPreserves ==
  ASSUME IInv, TypeOK', NEW k, Cuts(k)
  PROVE  IInv'
<1>1. /\ TypeOK /\ LinksOK /\ BasesOK /\ ContinuationsOK /\ ImportsOK /\ DirectCuts
      /\ Accounted => GeneratorsOK /\ DriversSet /\ OneDriver
      /\ (Accounted /\ CodesDistinct /\ "recursion" \notin uses) => CodesApart /\ FaultPlaced
  BY DEF IInv
<1>2. LinksOK' /\ BasesOK' /\ ContinuationsOK' /\ ImportsOK' /\ DirectCuts'
  BY <1>1, CutLinks, CutBases, CutContinuations, CutImports, CutDirect
<1>3. (Accounted' => Accounted) /\ (CodesDistinct' => CodesDistinct) /\ uses' = uses
  BY DEF Cuts, Accounted, CutOff, Replaced, CodesDistinct
<1>4. ASSUME Accounted PROVE GeneratorsOK'
  BY <1>1, <1>4, CutGenerators
<1>5. ASSUME Accounted PROVE DriversSet' /\ OneDriver'
  BY <1>1, <1>5, CutDrivers
<1>6. ASSUME Accounted, CodesDistinct, "recursion" \notin uses PROVE CodesApart' /\ FaultPlaced'
  BY <1>1, <1>6, CutCodes, CutFaults
<1> QED
  BY <1>2, <1>3, <1>4, <1>5, <1>6 DEF IInv

\* The conversion of an exception leaves the stack as it is.
LEMMA ConvertPreserves ==
  ASSUME IInv, ConvertStopIteration
  PROVE  IInv'
<1>1. /\ TypeOK /\ LinksOK /\ BasesOK /\ ContinuationsOK /\ ImportsOK /\ DirectCuts
      /\ Accounted => GeneratorsOK /\ DriversSet /\ OneDriver
      /\ (Accounted /\ CodesDistinct /\ "recursion" \notin uses) => CodesApart /\ FaultPlaced
  BY DEF IInv
<1>2. /\ raised # None /\ ~raised.direct
      /\ gens' = complete_generators(GensFrom(Stop)) /\ awaits' = set_await_completed(AwaitsFrom(Stop + 1))
      /\ raised' = [raised EXCEPT !.exc = "Other"]
      /\ frames' = frames /\ bases' = bases /\ modules' = modules /\ uses' = uses /\ abandoned' = abandoned
      /\ ~InRegion(Stop) /\ Converts(Stop) /\ Stop > Base
  BY DEF ConvertStopIteration, Raised
<1>3. /\ raised' \in Errors /\ raised' # None /\ raised'.exc = "Other"
      /\ raised'.code = raised.code /\ raised'.at = raised.at /\ raised'.direct = raised.direct
      /\ raised.exc # "Other"
  <2>1. raised \in Errors /\ None \notin Errors
    BY <1>1, <1>2, UnwindingAssumption DEF TypeOK
  <2>2. [raised EXCEPT !.exc = "Other"] \in Errors
    BY <2>1 DEF Errors, Exceptions
  <2>3. /\ [raised EXCEPT !.exc = "Other"].exc = "Other"
        /\ [raised EXCEPT !.exc = "Other"].code = raised.code
        /\ [raised EXCEPT !.exc = "Other"].at = raised.at
        /\ [raised EXCEPT !.exc = "Other"].direct = raised.direct
    BY <2>1 DEF Errors
  <2>4. raised.exc # "Other"
    BY <1>2 DEF Converts
  <2> QED
    BY <1>2, <2>1, <2>2, <2>3, <2>4
<1>4. TypeOK'
  BY <1>1, <1>2, <1>3, CutFields DEF TypeOK
<1>5. LinksOK' /\ ContinuationsOK' /\ ImportsOK' /\ DirectCuts'
  BY <1>1, <1>2, <1>3 DEF LinksOK, ContinuationsOK, ImportsOK, DirectCuts, NothingMistaken, CutOff, Replaced
<1>6. BasesOK'
  <2>1. Base' = Base
    BY <1>2 DEF Base
  <2> QED
    BY <1>1, <1>2, <2>1 DEF BasesOK
<1>7. PICK s \in Nat :
        /\ s = Stop /\ Base < s /\ s <= Len(frames) /\ Base \in Nat /\ Len(frames) \in Nat
        /\ \A i \in s .. Len(frames) : ~InRegion(i)
  <2>1. PICK s : s = Stop
    OBVIOUS
  <2>2. /\ Base \in Nat /\ Len(frames) \in Nat /\ s \in Base .. Len(frames) /\ s > Base
        /\ \A i \in s + 1 .. Len(frames) : ~InRegion(i)
    BY <1>1, <1>2, <2>1, StopFacts DEF Stops
  <2>3. \A i \in s .. Len(frames) : i = s \/ i \in s + 1 .. Len(frames)
    BY <2>2
  <2> QED
    BY <1>2, <2>1, <2>2, <2>3
<1>8. ASSUME Accounted PROVE GeneratorsOK'
  <2>1. OneFrame' /\ AsyncDriven'
    BY <1>1, <1>2, <1>8 DEF GeneratorsOK, OneFrame, AsyncDriven
  <2>2. \A g \in Generators : gens'[g].state = IF g \in GensFrom(s) THEN "Completed" ELSE gens[g].state
    BY <1>1, <1>2, <1>7, CompleteFields
  <2>3. RunningHasFrame'
    BY <1>1, <1>2, <1>8, <2>2 DEF GeneratorsOK, RunningHasFrame
  <2>4. ASSUME NEW j \in 1 .. Len(frames), InRegion(j)' PROVE InRegion(j)
    <3>1. frames[j].gen \in Generators \cup {None}
      BY <1>1, LenOf, FrameFields DEF TypeOK
    <3>2. Alive(frames[j])' => Alive(frames[j])
      BY <1>2, <2>2, <3>1 DEF Alive
    <3>3. fault_pc(j)' = fault_pc(j)
      BY <1>2, <1>3 DEF fault_pc
    <3> QED
      BY <1>2, <2>4, <3>2, <3>3 DEF InRegion
  <2>5. ASSUME NEW i \in 1 .. Len(frames), frames[i].gen # None
        PROVE  \/ gens'[frames[i].gen].state = "Running"
               \/ gens'[frames[i].gen].state = "Completed" /\ Unwound(i)'
    <3>1. frames[i].gen \in Generators
      BY <1>1, <2>5, LenOf, FrameFields DEF TypeOK
    <3>2. CASE i >= s
      <4>1. frames[i].gen \in GensFrom(s) /\ Base < i
        BY <1>7, <2>5, <3>2 DEF GensFrom
      <4>2. \A j \in i .. Len(frames) : ~InRegion(j)'
        <5>1. \A j \in i .. Len(frames) : j \in s .. Len(frames) /\ j \in 1 .. Len(frames)
          BY <1>7, <3>2
        <5> QED
          BY <1>7, <2>4, <5>1
      <4>3. Unwound(i)'
        BY <1>2, <1>3, <4>1, <4>2 DEF Unwound, Base
      <4> QED
        BY <2>2, <3>1, <4>1, <4>3
    <3>3. CASE ~(i >= s)
      <4>1. i # Len(frames) /\ \A j \in s .. Len(frames) : j \in 1 .. Len(frames) /\ j # i
        BY <1>7, <3>3
      <4>2. ~Unwound(i)
        BY <1>3, <4>1 DEF Unwound
      <4>3. gens[frames[i].gen].state = "Running"
        BY <1>1, <1>8, <2>5, <4>2 DEF GeneratorsOK, FramesRun
      <4>4. frames[i].gen \notin GensFrom(s)
        BY <1>1, <1>8, <2>5, <4>1 DEF GensFrom, GeneratorsOK, OneFrame
      <4> QED
        BY <2>2, <3>1, <4>3, <4>4
    <3> QED
      BY <3>2, <3>3
  <2>6. FramesRun'
    BY <1>2, <2>5 DEF FramesRun
  <2> QED
    BY <2>1, <2>3, <2>6 DEF GeneratorsOK
<1>9. ASSUME Accounted PROVE DriversSet' /\ OneDriver'
  <2>1. PICK A \in SUBSET (Awaitables \cup Modules \cup {None}) : awaits' = set_await_completed(A)
    <3>1. PICK A : A = AwaitsFrom(Stop + 1) \cap Awaitables
      OBVIOUS
    <3>2. set_await_completed(A) = set_await_completed(AwaitsFrom(Stop + 1))
      BY <3>1 DEF set_await_completed
    <3> QED
      BY <1>2, <3>1, <3>2
  <2>2. Released
    BY <1>1, <1>2, <2>1, CompletedReleased
  <2>3. HandedOver(None, gens', awaits')
    BY <1>1, <2>2, ReleasedHandsOver
  <2> QED
    BY <1>1, <1>4, <1>9, <2>3, DriversKept
<1>10. ASSUME Accounted, CodesDistinct, "recursion" \notin uses PROVE CodesApart' /\ FaultPlaced'
  <2>1. CodesApart'
    BY <1>1, <1>2, <1>10 DEF CodesApart
  <2>2. FaultPlaced'
    BY <1>1, <1>2, <1>3, <1>10 DEF FaultPlaced, Top
  <2> QED
    BY <2>1, <2>2
<1>11. (Accounted' => Accounted) /\ (CodesDistinct' => CodesDistinct) /\ uses' = uses
  BY <1>2 DEF Accounted, CutOff, Replaced, CodesDistinct
<1> QED
  BY <1>4, <1>5, <1>6, <1>8, <1>9, <1>10, <1>11 DEF IInv

-----------------------------------------------------------------------------
(* The invariant, and what follows from it.                                *)

LEMMA InitInv ==
  ASSUME Init
  PROVE  IInv
<1>1. PICK f : f = NewFrame("main", ReturnAction("Value"))
  OBVIOUS
<1>2. /\ f \in Frames /\ f.code = "main" /\ f.gen = None /\ f.action.kind = "Value"
      /\ f.action \in Actions
  <2>1. "main" \in Codes /\ "Value" \in Kinds
    BY DEF Codes, Kinds, Plain
  <2> QED
    BY <1>1, <2>1, NewFrameFields, ReturnActionFields
<1>3. frames = << f >> /\ bases = << 0 >> /\ raised = None
  BY <1>1 DEF Init
<1> HIDE <1>1
<1>4. /\ frames \in Seq(Frames) /\ Len(frames) = 1 /\ frames[1] = f
      /\ bases \in Seq(Nat) /\ Len(bases) = 1 /\ bases[1] = 0 /\ Base = 0
  BY <1>2, <1>3 DEF Base, Last
<1>5. \A i \in 1 .. Len(frames) : i = 1 /\ frames[i] = f
  BY <1>4
<1>6. \A i \in 1 .. Len(bases) : i = 1
  BY <1>4
<1>7. /\ gens \in [Generators -> GeneratorObjects] /\ awaits \in [Awaitables -> AwaitableObjects]
      /\ \A g \in Generators : gens[g].state = "free"
      /\ \A a \in Awaitables : awaits[a].state = "free"
  BY DEF Init, GeneratorObjects, AwaitableObjects, Sites, Delegates
<1>8. /\ modules \in [Modules -> ModuleObjects]
      /\ \A m \in Modules : modules[m].state = "Uninitialized" /\ ~modules[m].dirty
  BY DEF Init, ModuleObjects
<1>9. TypeOK
  BY <1>3, <1>4, <1>7, <1>8 DEF TypeOK, Init
<1>10. LinksOK /\ DirectCuts
  BY <1>2, <1>3, <1>5 DEF LinksOK, Linked, DirectCuts
<1>11. BasesOK
  <2>1. \A i \in 1 .. Len(bases) : bases[i] = 0
    BY <1>4, <1>6
  <2>2. \A i, j \in 1 .. Len(bases) : ~(i < j)
    BY <1>6
  <2>3. frames[0 + 1].action.kind \in Entries
    BY <1>2, <1>4 DEF Entries
  <2> QED
    BY <1>3, <1>4, <2>1, <2>2, <2>3 DEF BasesOK
<1>12. ContinuationsOK
  BY <1>4 DEF ContinuationsOK
<1>13. ImportsOK
  BY <1>2, <1>5, <1>8 DEF ImportsOK
<1>14. GeneratorsOK /\ DriversSet /\ OneDriver
  BY <1>2, <1>5, <1>7 DEF GeneratorsOK, OneFrame, RunningHasFrame, FramesRun, AsyncDriven, DriversSet, OneDriver
<1>15. CodesDistinct => CodesApart /\ FaultPlaced
  BY <1>2, <1>3, <1>5 DEF CodesApart, FaultPlaced, CodesDistinct
<1> QED
  BY <1>9, <1>10, <1>11, <1>12, <1>13, <1>14, <1>15 DEF IInv

\* A call of dispatch_exception preserves the invariant.
LEMMA DispatchPreserves ==
  ASSUME IInv, dispatch_exception
  PROVE  IInv'
<1>1. TypeOK /\ LinksOK /\ BasesOK /\ DirectCuts
  BY DEF IInv
<1>2. CASE ConvertStopIteration
  BY <1>2, ConvertPreserves
<1>3. CASE EnterHandler
  <2>1. TypeOK' /\ \E k : Cuts(k)
    BY <1>1, <1>3, EnterCuts
  <2> QED
    BY <2>1, CutPreserves
<1>4. CASE CloseDriven
  <2>1. TypeOK' /\ \E k : Cuts(k)
    BY <1>1, <1>4, CloseDrivenCuts
  <2> QED
    BY <2>1, CutPreserves
<1>5. CASE Consume
  <2>1. TypeOK' /\ \E k : Cuts(k)
    BY <1>1, <1>5, ConsumeCuts
  <2> QED
    BY <2>1, CutPreserves
<1>6. CASE Escape
  <2>1. TypeOK' /\ \E k : Cuts(k)
    BY <1>1, <1>6, EscapeCuts
  <2> QED
    BY <2>1, CutPreserves
<1> QED
  BY <1>2, <1>3, <1>4, <1>5, <1>6 DEF dispatch_exception

LEMMA StutterPreserves ==
  ASSUME IInv, UNCHANGED vars
  PROVE  IInv'
<1>1. /\ frames' = frames /\ bases' = bases /\ gens' = gens /\ awaits' = awaits /\ modules' = modules
      /\ raised' = raised /\ uses' = uses /\ abandoned' = abandoned
  BY DEF vars
<1>2. /\ TypeOK /\ LinksOK /\ BasesOK /\ ContinuationsOK /\ ImportsOK /\ DirectCuts
      /\ Accounted => GeneratorsOK /\ DriversSet /\ OneDriver
      /\ (Accounted /\ CodesDistinct /\ "recursion" \notin uses) => CodesApart /\ FaultPlaced
  BY DEF IInv
<1>3. TypeOK' /\ LinksOK'
  BY <1>1, <1>2 DEF TypeOK, LinksOK
<1>4. BasesOK' /\ DirectCuts'
  BY <1>1, <1>2 DEF BasesOK, DirectCuts, CutOff, Base
<1>5. ContinuationsOK' /\ ImportsOK'
  BY <1>1, <1>2 DEF ContinuationsOK, ImportsOK, NothingMistaken, CutOff, Replaced
<1>6. (Accounted' => Accounted) /\ (CodesDistinct' => CodesDistinct) /\ (Accounted => Accounted')
  BY <1>1 DEF Accounted, CutOff, Replaced, CodesDistinct
<1>7. (OneFrame => OneFrame') /\ (RunningHasFrame => RunningHasFrame') /\ (AsyncDriven => AsyncDriven')
  BY <1>1 DEF OneFrame, RunningHasFrame, AsyncDriven
<1>8. FramesRun => FramesRun'
  <2>1. \A i \in 1 .. Len(frames) : Unwound(i) => Unwound(i)'
    BY <1>1 DEF Unwound, Base, InRegion, Alive, fault_pc
  <2> QED
    BY <1>1, <2>1 DEF FramesRun
<1>9. (DriversSet => DriversSet') /\ (OneDriver => OneDriver')
  BY <1>1 DEF DriversSet, OneDriver
<1>10. (CodesApart => CodesApart') /\ (FaultPlaced => FaultPlaced')
  BY <1>1 DEF CodesApart, FaultPlaced, Top
<1> QED
  BY <1>1, <1>2, <1>3, <1>4, <1>5, <1>6, <1>7, <1>8, <1>9, <1>10 DEF IInv, GeneratorsOK

\* The invariant of calls, generators and exceptions: native boundaries lie below
\* the frames an exception unwinds, every running generator has the one frame of
\* the stack that is its own, and every continuation is its caller's
\* (execute_until_depth, dispatch_exception).
THEOREM UnwindingInductive == Spec => []IInv
<1>1. Init => IInv
  BY InitInv
<1>2. IInv /\ [Next]_vars => IInv'
  BY InstructionPreserves, NativeReturnPreserves, DispatchPreserves, StutterPreserves DEF Next
<1> QED
  BY <1>1, <1>2, PTL DEF Spec

\* A generator is Running exactly while one frame of the stack is its own, and no
\* two awaitables drive one async generator (resume_generator, complete_generator
\* and the unwinding of dispatch_exception).
THEOREM UnwindingRunningOnStack == Spec => []RunningOnStack
<1>1. IInv => RunningOnStack
  <2>1. SUFFICES ASSUME IInv, Accounted
                 PROVE  /\ \A g \in Generators :
                             gens[g].state = "Running" =>
                               Cardinality({i \in DOMAIN frames : frames[i].gen = g}) = 1
                        /\ \A i \in DOMAIN frames :
                             frames[i].gen # None =>
                               \/ gens[frames[i].gen].state = "Running"
                               \/ gens[frames[i].gen].state = "Completed" /\ raised # None
                        /\ \A a, b \in Awaitables :
                             (a # b /\ awaits[a].gen = awaits[b].gen) =>
                               ~ (awaits[a].state = "Running" /\ awaits[b].state = "Running")
    BY DEF RunningOnStack
  <2>2. TypeOK /\ GeneratorsOK /\ OneDriver
    BY <2>1 DEF IInv
  <2>3. DOMAIN frames = 1 .. Len(frames)
    BY <2>2, LenOf DEF TypeOK
  <2>4. ASSUME NEW g \in Generators, gens[g].state = "Running"
        PROVE  Cardinality({i \in DOMAIN frames : frames[i].gen = g}) = 1
    <3>1. PICK i \in 1 .. Len(frames) : frames[i].gen = g
      BY <2>2, <2>4 DEF GeneratorsOK, RunningHasFrame
    <3>2. g # None
      BY UnwindingAssumption
    <3>3. {j \in DOMAIN frames : frames[j].gen = g} = {i}
      BY <2>2, <2>3, <3>1, <3>2 DEF GeneratorsOK, OneFrame
    <3> QED
      BY <3>3, FS_Singleton
  <2>5. \A i \in DOMAIN frames :
          frames[i].gen # None =>
            \/ gens[frames[i].gen].state = "Running"
            \/ gens[frames[i].gen].state = "Completed" /\ raised # None
    BY <2>2, <2>3 DEF GeneratorsOK, FramesRun, Unwound
  <2>6. \A a, b \in Awaitables :
          (a # b /\ awaits[a].gen = awaits[b].gen) =>
            ~ (awaits[a].state = "Running" /\ awaits[b].state = "Running")
    BY <2>2 DEF OneDriver
  <2> QED
    BY <2>4, <2>5, <2>6
<1> QED
  BY <1>1, UnwindingInductive, PTL

\* A module that is being initialized has its import on the stack or its failure
\* was taken for the end of an iteration, and a module that can be imported again
\* has no bindings of the failed attempt (invoke_import, reset_import_frames).
THEOREM UnwindingImportsReset == Spec => []ImportsReset
<1>1. IInv => ImportsReset
  <2>1. SUFFICES ASSUME IInv, NEW m \in Modules
                 PROVE  /\ (modules[m].state = "Initializing" /\ ~CutOff /\ ~Replaced) =>
                             m \in ImportsFrom(1) \cup abandoned
                        /\ modules[m].state = "Uninitialized" => ~modules[m].dirty
    BY DEF ImportsReset
  <2> QED
    BY <2>1 DEF IInv, ImportsOK, ImportsFrom
<1> QED
  BY <1>1, UnwindingInductive, PTL

\* A continuation belongs to the instruction that its caller is at, and no frame
\* moves the instruction pointer of another (ReturnAction, set_yield_from_completion,
\* Op::Return and Op::Yield).
THEOREM UnwindingContinuationOfCaller == Spec => []ContinuationOfCaller
<1>1. IInv => ContinuationOfCaller
  BY DEF IInv, ContinuationsOK, ContinuationOfCaller, NothingMistaken, Continues
<1> QED
  BY <1>1, UnwindingInductive, PTL

\* Unwinding ends: a call of dispatch_exception that raises another exception has
\* dropped frames, or has completed a generator that was not (complete_generator
\* before the conversion of StopIteration).
THEOREM UnwindingEnds == Spec => UnwindingAdvances
<1>1. ASSUME IInv, [Next]_vars, raised # None, raised' # None, ~UNCHANGED vars
      PROVE  \/ Len(frames') < Len(frames)
             \/ /\ frames' = frames
                /\ \E g \in Generators : gens[g].state # "Completed" /\ gens'[g].state = "Completed"
  <2>1. TypeOK /\ LinksOK /\ BasesOK /\ DirectCuts
    BY <1>1 DEF IInv
  <2>2. dispatch_exception
    <3>1. ~NativeReturn
      BY <1>1 DEF NativeReturn
    <3>2. ~Instruction
      BY <1>1, <2>1, InstructionMoves DEF Move
    <3> QED
      BY <1>1, <3>1, <3>2 DEF Next
  <2>3. CASE ConvertStopIteration
    <3>1. PICK s : s = Stop
      OBVIOUS
    <3>2. /\ frames' = frames /\ gens' = complete_generators(GensFrom(s))
          /\ frames[s].gen # None /\ Alive(frames[s]) /\ s > Base
      BY <2>3, <3>1 DEF ConvertStopIteration, Converts
    <3>3. s \in 1 .. Len(frames) /\ s \in s .. Len(frames)
      <4>1. Base \in Nat /\ Len(frames) \in Nat /\ s \in Base .. Len(frames)
        BY <1>1, <2>1, <3>1, StopFacts
      <4> QED
        BY <3>2, <4>1
    <3>4. PICK g \in Generators : g = frames[s].gen
      BY <2>1, <3>2, <3>3, LenOf, FrameFields DEF TypeOK
    <3>5. g \in GensFrom(s)
      BY <3>2, <3>3, <3>4 DEF GensFrom
    <3>6. gens[g].state # "Completed"
      BY <3>2, <3>4 DEF Alive
    <3>7. gens'[g].state = "Completed"
      BY <2>1, <3>2, <3>5, CompleteFields
    <3> QED
      BY <3>2, <3>6, <3>7
  <2>4. CASE CloseDriven \/ Consume \/ Escape
    <3>1. PICK k \in Nat : Len(frames') = k /\ k < Len(frames)
      <4>1. CASE Escape
        <5>1. Cuts(Base)
          BY <2>1, <4>1, EscapeCuts
        <5>2. Base \in Nat /\ Len(frames') = Base /\ Base < Len(frames)
          BY <1>1, <2>1, <5>1, BasesFacts DEF Cuts, Lands, BasesOK
        <5> QED
          BY <5>2
      <4>2. CASE CloseDriven \/ Consume
        <5>1. Leaving(Stop - 1)
          BY <2>1, <4>2, StopLeaves DEF CloseDriven, ClosesDriven, Consume, Consumes, Raised
        <5>2. PICK k \in Nat : k = Stop - 1 /\ k < Len(frames) /\ k \in 0 .. Len(frames)
          <6>1. Stop - 1 \in Nat /\ Stop - 1 < Len(frames) /\ Len(frames) \in Nat
            BY <2>1, <5>1, LenOf DEF Leaving, TypeOK
          <6> QED
            BY <6>1
        <5>3. Len(SubSeq(frames, 1, k)) = k
          BY <2>1, <5>2, Landings
        <5>4. frames' = SubSeq(frames, 1, k)
          <6>1. CASE CloseDriven
            <7>1. frames[Stop].action.completion \in Completions
              <8>1. Stop \in 1 .. Len(frames)
                BY <2>1, <6>1, StopLeaves DEF CloseDriven, ClosesDriven, Raised
              <8> QED
                BY <2>1, <6>1, <8>1 DEF LinksOK, Linked, CloseDriven, ClosesDriven
            <7> QED
              BY <1>1, <5>2, <6>1, <7>1 DEF CloseDriven, Completions
          <6>2. CASE Consume
            BY <1>1, <5>2, <6>2 DEF Consume, Consumes, Consumers, DelegateClosed, DelegateEnded, Ends, NamespaceMissing,
               MissingAttribute, CollectionEnds, ReductionEnds, CallsGuest, FailsInCaller
          <6> QED
            BY <4>2, <6>1, <6>2
        <5> QED
          BY <5>2, <5>3, <5>4
      <4> QED
        BY <2>4, <4>1, <4>2
    <3> QED
      BY <3>1
  <2>5. ~EnterHandler
    BY <1>1 DEF EnterHandler
  <2> QED
    BY <2>2, <2>3, <2>4, <2>5 DEF dispatch_exception
<1>2. IInv /\ [Next]_vars =>
        [(raised # None /\ raised' # None) =>
           \/ Len(frames') < Len(frames)
           \/ /\ frames' = frames
              /\ \E g \in Generators :
                   gens[g].state # "Completed" /\ gens'[g].state = "Completed"]_vars
  BY <1>1
<1> QED
  BY <1>2, UnwindingInductive, PTL DEF Spec, UnwindingAdvances

\* Without recursion an exception never drops a frame with a handler for its
\* instruction, and only a frame whose instruction the region covers enters its
\* handler (the search of dispatch_exception, exception_fault_pc), provided that
\* the generators of the program are created by functions of their own.
THEOREM UnwindingSkipsNoHandler ==
  ASSUME CodesDistinct
  PROVE  Spec => NoHandlerSkipped
<1>1. ASSUME IInv, IInv', [Next]_vars, ~UNCHANGED vars,
             raised # None, Accounted, "recursion" \notin uses
      PROVE  /\ \A i \in Len(frames') + 1 .. Len(frames) :
                  ~(Alive(frames[i]) /\ frames[i].at = "try")
             /\ \A i \in DOMAIN frames \cap DOMAIN frames' :
                  frames'[i].at = "handler" => frames[i].at \in {"try", "handler"}
  <2>1. TypeOK /\ TypeOK' /\ LinksOK /\ BasesOK /\ DirectCuts /\ FaultPlaced
    BY <1>1 DEF IInv
  <2>2. dispatch_exception
    <3>1. ~NativeReturn
      BY <1>1 DEF NativeReturn
    <3>2. ~Instruction
      BY <1>1, <2>1, InstructionMoves DEF Move
    <3> QED
      BY <1>1, <3>1, <3>2 DEF Next
  <2>3. ~raised.direct
    BY <1>1, <2>1 DEF DirectCuts, Accounted
  <2>4. ASSUME NEW i \in 1 .. Len(frames)
        PROVE  InRegion(i) <=> (Alive(frames[i]) /\ frames[i].at = "try")
    <3>1. CASE i = Len(frames) /\ frames[i].code = raised.code
      <4>1. frames[i] = Top
        BY <3>1 DEF Top, Last
      <4>2. frames[i].at = raised.at
        BY <1>1, <2>1, <3>1, <4>1 DEF FaultPlaced
      <4> QED
        BY <3>1, <4>2 DEF InRegion, fault_pc
    <3>2. CASE ~(i = Len(frames) /\ frames[i].code = raised.code)
      BY <3>2 DEF InRegion, fault_pc
    <3> QED
      BY <3>1, <3>2
  <2>5. DOMAIN frames = 1 .. Len(frames) /\ DOMAIN frames' = 1 .. Len(frames')
    BY <2>1, LenOf DEF TypeOK
  <2>6. ASSUME NEW k, Cuts(k)
        PROVE  /\ \A i \in Len(frames') + 1 .. Len(frames) :
                    ~(Alive(frames[i]) /\ frames[i].at = "try")
               /\ \A i \in DOMAIN frames \cap DOMAIN frames' :
                    frames'[i].at = "handler" => frames[i].at \in {"try", "handler"}
    <3>1. /\ k \in Nat /\ k <= Len(frames) /\ Len(frames) \in Nat /\ Keeps(frames, frames', k)
          /\ \A i \in k + 1 .. Len(frames) : ~InRegion(i)
          /\ k = 0 \/ frames'[k].at \in {frames[k].at, "plain"} \/ InRegion(k)
      BY <2>1, <2>3, <2>6, CutFacts DEF Cuts, Lands
    <3>2. /\ Len(frames') = k \/ Len(frames') = k + 1
          /\ Len(frames') = k + 1 => frames'[k + 1].at = "plain"
      <4>1. k # k + 1
        BY <3>1
      <4> QED
        BY <2>6, <4>1 DEF Cuts, Lands
    <3>3. ASSUME NEW i \in Len(frames') + 1 .. Len(frames)
          PROVE  ~(Alive(frames[i]) /\ frames[i].at = "try")
      <4>1. i \in k + 1 .. Len(frames) /\ i \in 1 .. Len(frames)
        BY <3>1, <3>2
      <4> QED
        BY <2>4, <3>1, <4>1
    <3>4. ASSUME NEW i \in 1 .. Len(frames), i \in 1 .. Len(frames'), frames'[i].at = "handler"
          PROVE  frames[i].at \in {"try", "handler"}
      <4>1. CASE i = k + 1
        BY <3>1, <3>2, <3>4, <4>1
      <4>2. CASE i = k
        <5>1. k # 0
          BY <3>4, <4>2
        <5>2. InRegion(k) => frames[k].at = "try"
          BY <2>4, <3>4, <4>2
        <5> QED
          BY <3>1, <3>4, <4>2, <5>1, <5>2
      <4>3. CASE i # k + 1 /\ i # k
        <5>1. i \in 1 .. k /\ i < k
          BY <3>1, <3>2, <3>4, <4>3
        <5>2. frames'[i] = frames[i]
          BY <3>1, <5>1 DEF Keeps
        <5> QED
          BY <3>4, <5>2
      <4> QED
        BY <4>1, <4>2, <4>3
    <3> QED
      BY <2>5, <3>3, <3>4
  <2>7. CASE ConvertStopIteration
    <3>1. frames' = frames /\ Len(frames) \in Nat
      BY <2>1, <2>7, LenOf DEF ConvertStopIteration, TypeOK
    <3>2. \A i \in Len(frames') + 1 .. Len(frames) : FALSE
      BY <3>1
    <3> QED
      BY <3>1, <3>2
  <2> QED
    BY <2>1, <2>2, <2>6, <2>7, EnterCuts, CloseDrivenCuts, ConsumeCuts, EscapeCuts DEF dispatch_exception
<1>2. IInv /\ IInv' /\ [Next]_vars =>
        [(raised # None /\ Accounted /\ "recursion" \notin uses) =>
           /\ \A i \in Len(frames') + 1 .. Len(frames) :
                ~(Alive(frames[i]) /\ frames[i].at = "try")
           /\ \A i \in DOMAIN frames \cap DOMAIN frames' :
                frames'[i].at = "handler" => frames[i].at \in {"try", "handler"}]_vars
  BY <1>1
<1> QED
  BY <1>2, UnwindingInductive, PTL DEF Spec, NoHandlerSkipped
=============================================================================
