--------------------------- MODULE TonicEventLoop ---------------------------
(***************************************************************************)
(* The native asyncio event loop of the Tonic runtime: futures and tasks,  *)
(* the ready queue, the virtual timers, waiters and done callbacks, and    *)
(* cancellation.  The loop is single threaded: between two suspensions a   *)
(* coroutine or a callback runs alone, but it may call any asyncio         *)
(* operation on any future or task, and so may module code before, between *)
(* and after runs of the loop.                                             *)
(*                                                                         *)
(* Source: crates/tonic-runtime/src/{calls.rs, heap.rs, vm.rs}.  What a    *)
(* coroutine computes is left out; what it may do next is open.  A timer   *)
(* keeps the ticks left until it is due, which is due_tick - tick.         *)
(***************************************************************************)
EXTENDS TonicSequences

CONSTANTS
  MaxObjects,   \* bound: futures and tasks that a program creates
  Programs      \* the programs of this instance, see Program

(* A done source is "none" or "value" (finished with None, with another    *)
(* value), "error" or "cancelled" (failed or cancelled; the exception kept *)
(* is a CancelledError or is not).  Waking a task hands it the same.       *)

Terminal == {"none", "value", "error", "cancelled"}

AllUses == {"future", "sleep", "cancel", "self_cancel", "custom_await", "outside"}

\* What a program may do: bounds on its objects, on the ticks of a sleep and on
\* a ready queue that callbacks extend; its done callbacks, each registered
\* once; the operations it uses and the outcomes its futures and tasks have;
\* and whether it cancels a task at most once.
Program(p) ==
  /\ p.objects \in 1 .. MaxObjects
  /\ p.delay \in Nat \ {0}
  /\ p.ready \in Nat
  /\ p.uses \subseteq AllUses
  /\ p.outcomes \subseteq Terminal
  /\ p.once \in BOOLEAN

ASSUME EventLoopAssumption ==
  /\ MaxObjects \in Nat \ {0}
  /\ \A p \in Programs : Program(p)

VARIABLES
  program,     \* the program that runs
  objs,        \* futures and tasks, in order of creation
  ready,       \* the loop's ready queue
  timers,      \* the loop's timers: future and ticks left
  maturing,    \* timers that mature_async_timers has yet to look at
  tasks,       \* tasks created by the running loop
  main,        \* the main task, 0 when no loop runs
  current,     \* the task that is being stepped, 0 for none
  pc,          \* where control is
  cancelled,   \* history: tasks that were cancelled, if program.once
  ran          \* history: callbacks that were called, in order

vars == <<program, objs, ready, timers, maturing, tasks, main, current, pc, cancelled, ran>>

-----------------------------------------------------------------------------
(* Futures, tasks and the queues of the loop.                              *)

Ids == 1 .. MaxObjects

\* "waitingOn" is the source a task is suspended on, "awaiting" the source its
\* coroutine's innermost await iterates over (0 when it is not in the Future
\* iterator).
AsyncObject == [kind : {"future", "task"}, state : Terminal \cup {"pending"},
                waiters : Seq(Ids), callbacks : Seq(program.callbacks),
                waitingOn : Ids \cup {0}, cancelRequested : BOOLEAN,
                awaiting : Ids \cup {0}]

TaskEntry(t, wake) == [kind |-> "task", who |-> t, wake |-> wake]

CallbackEntry(c) == [kind |-> "callback", who |-> c, wake |-> "none"]

ReadyEntry == {TaskEntry(t, wake) : t \in Ids, wake \in Terminal}
                \cup {CallbackEntry(c) : c \in program.callbacks}

Timer == [future : Ids, left : Nat, result : {"none", "value"}]

NewObject(kind) == [kind |-> kind, state |-> "pending", waiters |-> <<>>,
                    callbacks |-> <<>>, waitingOn |-> 0,
                    cancelRequested |-> FALSE, awaiting |-> 0]

Pending(s) == objs[s].state = "pending"

IsTask(s) == objs[s].kind = "task"

LoopRunning == pc # "outside"

\* Guest code runs: a coroutine, a callback, or the module outside of the loop.
CodeRuns == pc \in {"task", "callback"} \/ (pc = "outside" /\ "outside" \in program.uses)

\* The entries of the ready queue that would step task t.
EntriesOf(t) == {i \in DOMAIN ready : ready[i].kind = "task" /\ ready[i].who = t}

-----------------------------------------------------------------------------
(* Completion.                                                             *)

\* complete_async empties the lists of the source.
Completed(s, outcome) ==
  [objs EXCEPT ![s] = [@ EXCEPT !.state = outcome, !.waiters = <<>>,
                                !.callbacks = <<>>, !.waitingOn = 0]]

\* Faulty variants: the waiters, or the callbacks, are not scheduled.
WaitersForgotten(s, outcome) ==
  ready \o [i \in DOMAIN objs[s].callbacks |-> CallbackEntry(objs[s].callbacks[i])]

CallbacksForgotten(s, outcome) ==
  ready \o [i \in DOMAIN objs[s].waiters |-> TaskEntry(objs[s].waiters[i], outcome)]

\* Callbacks are scheduled first, then the waiters, all behind what is ready.
Scheduled(s, outcome) ==
  ready \o [i \in DOMAIN objs[s].callbacks |-> CallbackEntry(objs[s].callbacks[i])]
        \o [i \in DOMAIN objs[s].waiters |-> TaskEntry(objs[s].waiters[i], outcome)]

\* complete_async_source.  With no running loop the first thing to schedule is
\* an error, but the source is done by then and its lists are gone.
CompleteAsyncSource(s, outcome) ==
  /\ objs' = Completed(s, outcome)
  /\ ready' = IF LoopRunning THEN Scheduled(s, outcome) ELSE ready

-----------------------------------------------------------------------------
(* Operations of guest code.                                               *)

FutureNew ==
  /\ "future" \in program.uses
  /\ pc \in {"task", "callback"}
  /\ Len(objs) < program.objects
  /\ objs' = Append(objs, NewObject("future"))
  /\ UNCHANGED <<program, ready, timers, maturing, tasks, main, current, pc, cancelled, ran>>

\* sleep: at least one tick.
Sleep(delay, result) ==
  /\ "sleep" \in program.uses
  /\ pc \in {"task", "callback"}
  /\ Len(objs) < program.objects
  /\ objs' = Append(objs, NewObject("future"))
  /\ timers' = Append(timers, [future |-> Len(objs) + 1, left |-> delay, result |-> result])
  /\ UNCHANGED <<program, ready, maturing, tasks, main, current, pc, cancelled, ran>>

CreateTask ==
  /\ pc \in {"task", "callback"}
  /\ Len(objs) < program.objects
  /\ objs' = Append(objs, NewObject("task"))
  /\ tasks' = tasks \cup {Len(objs) + 1}
  /\ ready' = Append(ready, TaskEntry(Len(objs) + 1, "none"))
  /\ UNCHANGED <<program, timers, maturing, main, current, pc, cancelled, ran>>

\* set_result and set_exception of a plain future; InvalidStateError if it is
\* done.
CompleteFuture(f, outcome) ==
  /\ CodeRuns
  /\ objs[f].kind = "future"
  /\ Pending(f)
  /\ CompleteAsyncSource(f, outcome)
  /\ UNCHANGED <<program, timers, maturing, tasks, main, current, pc, cancelled, ran>>

\* Future.cancel; False if it is done.
FutureCancel(f) ==
  /\ "cancel" \in program.uses
  /\ CodeRuns
  /\ objs[f].kind = "future"
  /\ Pending(f)
  /\ CompleteAsyncSource(f, "cancelled")
  /\ UNCHANGED <<program, timers, maturing, tasks, main, current, pc, cancelled, ran>>

\* Faulty variant: the wake-ups that are already queued stay.
Unqueued(t) == DOMAIN ready

\* What cancel leaves of the ready queue.
ReadyWithout(t) == DOMAIN ready \ EntriesOf(t)

\* Faulty variant: the source keeps the cancelled task as a waiter.
WaiterKept(t) == {[objs EXCEPT ![t].cancelRequested = TRUE, ![t].waitingOn = 0]}

\* request_task_cancel and remove_async_waiter.
CancelRequested(t) ==
  LET marked == [objs EXCEPT ![t].cancelRequested = TRUE, ![t].waitingOn = 0]
      source == objs[t].waitingOn
  IN IF source = 0 THEN {marked}
     ELSE {[marked EXCEPT ![source].waiters = w] :
             w \in Retained(objs[source].waiters,
                            {i \in DOMAIN objs[source].waiters :
                               objs[source].waiters[i] # t})}

CancelWake(t) == <<TaskEntry(t, "cancelled")>>

\* Task.cancel of a pending task that has no request yet (else False): queued
\* wake-ups are dropped and the CancelledError goes to the front.  With no
\* running loop that is an error, after the task has left its source.
TaskCancel(t) ==
  /\ "cancel" \in program.uses
  /\ CodeRuns
  /\ t = current => "self_cancel" \in program.uses
  /\ program.once => t \notin cancelled
  /\ IsTask(t)
  /\ Pending(t)
  /\ ~ objs[t].cancelRequested
  /\ objs' \in CancelRequested(t)
  /\ IF LoopRunning
     THEN \E kept \in Retained(ready, ReadyWithout(t)) :
            ready' = CancelWake(t) \o kept
     ELSE UNCHANGED ready
  /\ cancelled' = IF program.once THEN cancelled \cup {t} ELSE cancelled
  /\ UNCHANGED <<program, timers, maturing, tasks, main, current, pc, ran>>

\* add_done_callback: kept by a pending source, scheduled for a done one (an
\* error with no running loop).
AddDoneCallback(s, c) ==
  /\ CodeRuns
  /\ c \notin Elements(ran)
  /\ \A x \in DOMAIN objs : c \notin Elements(objs[x].callbacks)
  /\ CallbackEntry(c) \notin Elements(ready)
  /\ IF Pending(s)
     THEN /\ objs' = [objs EXCEPT ![s].callbacks = Append(@, c)]
          /\ UNCHANGED ready
     ELSE /\ LoopRunning
          /\ Len(ready) < program.ready
          /\ ready' = Append(ready, CallbackEntry(c))
          /\ UNCHANGED objs
  /\ UNCHANGED <<program, timers, maturing, tasks, main, current, pc, cancelled, ran>>

GuestOperation ==
  \/ FutureNew
  \/ \E delay \in 1 .. program.delay, result \in program.outcomes \cap {"none", "value"} : Sleep(delay, result)
  \/ CreateTask
  \/ \E f \in DOMAIN objs, outcome \in program.outcomes : CompleteFuture(f, outcome)
  \/ \E f \in DOMAIN objs : FutureCancel(f)
  \/ \E t \in DOMAIN objs : TaskCancel(t)
  \/ \E s \in DOMAIN objs, c \in program.callbacks : AddDoneCallback(s, c)

-----------------------------------------------------------------------------
(* How a step of a task or a callback ends.                                *)

Leave == pc' = "top" /\ current' = 0

\* Faulty variant: a task that yields goes first again.
YieldsToFront ==
  /\ pc = "task"
  /\ "custom_await" \in program.uses
  /\ ready' = <<TaskEntry(current, "none")>> \o ready
  /\ Leave
  /\ UNCHANGED <<program, objs, timers, maturing, tasks, main, cancelled, ran>>

\* The coroutine yields None: its task is ready again.
YieldNone ==
  /\ pc = "task"
  /\ "custom_await" \in program.uses
  /\ ready' = Append(ready, TaskEntry(current, "none"))
  /\ Leave
  /\ UNCHANGED <<program, objs, timers, maturing, tasks, main, cancelled, ran>>

\* add_async_waiter and set_task_waiting.
Waiting(t, s, awaiting) ==
  [objs EXCEPT ![s].waiters = IF t \in Elements(@) THEN @ ELSE Append(@, t),
               ![t].waitingOn = s, ![t].awaiting = awaiting]

\* The coroutine awaits a pending source through the Future iterator.
Await(s) ==
  /\ pc = "task"
  /\ Pending(s)
  /\ objs' = Waiting(current, s, s)
  /\ Leave
  /\ UNCHANGED <<program, ready, timers, maturing, tasks, main, cancelled, ran>>

\* A custom awaitable hands a source to the loop itself; it may be done.
YieldSource(s) ==
  /\ pc = "task"
  /\ "custom_await" \in program.uses
  /\ IF Pending(s)
     THEN objs' = Waiting(current, s, 0) /\ UNCHANGED ready
     ELSE ready' = Append(ready, TaskEntry(current, objs[s].state)) /\ UNCHANGED objs
  /\ Leave
  /\ UNCHANGED <<program, timers, maturing, tasks, main, cancelled, ran>>

\* The coroutine returns, raises, or yields what the loop does not support.
EndTask(outcome) ==
  /\ pc = "task"
  /\ CompleteAsyncSource(current, outcome)
  /\ Leave
  /\ UNCHANGED <<program, timers, maturing, tasks, main, cancelled, ran>>

\* Whatever a callback raises is dropped.
EndCallback ==
  /\ pc = "callback"
  /\ Leave
  /\ UNCHANGED <<program, objs, ready, timers, maturing, tasks, main, cancelled, ran>>

EndOfStep ==
  \/ YieldNone
  \/ \E s \in DOMAIN objs : Await(s) \/ YieldSource(s)
  \/ \E outcome \in program.outcomes : EndTask(outcome)
  \/ EndCallback

-----------------------------------------------------------------------------
(* The loop (run_async_event_loop).                                        *)

Detached ==
  /\ ready' = <<>>
  /\ timers' = <<>>
  /\ tasks' = {}
  /\ main' = 0
  /\ pc' = "outside"

\* asyncio.run from module code.  From a coroutine or a callback it is refused.
Run ==
  /\ pc = "outside"
  /\ Len(objs) < program.objects
  /\ objs' = Append(objs, NewObject("task"))
  /\ tasks' = {Len(objs) + 1}
  /\ main' = Len(objs) + 1
  /\ ready' = <<TaskEntry(Len(objs) + 1, "none")>>
  /\ pc' = "top"
  /\ UNCHANGED <<program, timers, maturing, current, cancelled, ran>>

\* The main task is done; whatever else is ready or asleep is abandoned.
FinishRun ==
  /\ pc = "top"
  /\ ~ Pending(main)
  /\ Detached
  /\ UNCHANGED <<program, objs, maturing, current, cancelled, ran>>

\* Timers after n ticks, all taken out of the list to be looked at.
Elapse(n) ==
  /\ maturing' = [i \in DOMAIN timers |->
                     [timers[i] EXCEPT !.left = @ - n]]
  /\ timers' = <<>>

\* Faulty variant: time passes only when nothing is ready.
TickWhenIdle ==
  /\ pc = "top"
  /\ Pending(main)
  /\ IF ready = <<>> THEN Elapse(1) ELSE UNCHANGED <<timers, maturing>>
  /\ pc' = "mature"
  /\ UNCHANGED <<program, objs, ready, tasks, main, current, cancelled, ran>>

\* An iteration: one tick passes, ready or not.
Tick ==
  /\ pc = "top"
  /\ Pending(main)
  /\ Elapse(1)
  /\ pc' = "mature"
  /\ UNCHANGED <<program, objs, ready, tasks, main, current, cancelled, ran>>

\* mature_async_timers, one timer: a due one finishes its future, a later one
\* goes back, and one whose future was completed otherwise is dropped.
MatureTimer ==
  /\ maturing # <<>>
  /\ maturing' = Tail(maturing)
  /\ LET timer == Head(maturing) IN
       \/ /\ ~ Pending(timer.future)
          /\ UNCHANGED <<objs, ready, timers>>
       \/ /\ Pending(timer.future)
          /\ timer.left = 0
          /\ CompleteAsyncSource(timer.future, timer.result)
          /\ UNCHANGED timers
       \/ /\ Pending(timer.future)
          /\ timer.left > 0
          /\ timers' = Append(timers, timer)
          /\ UNCHANGED <<objs, ready>>
  /\ UNCHANGED <<program, tasks, main, current, pc, cancelled, ran>>

\* The loop is about to take the next ready entry.
Taking == pc = "mature" /\ maturing = <<>>

\* Nothing is ready: time jumps to the next timer.
Jump ==
  /\ Taking
  /\ ready = <<>>
  /\ \E i \in DOMAIN timers :
       /\ \A j \in DOMAIN timers : timers[i].left <= timers[j].left
       /\ Elapse(timers[i].left)
  /\ pc' = "jumped"
  /\ UNCHANGED <<program, objs, ready, tasks, main, current, cancelled, ran>>

EndJump ==
  /\ pc = "jumped"
  /\ maturing = <<>>
  /\ pc' = "top"
  /\ UNCHANGED <<program, objs, ready, timers, maturing, tasks, main, current, cancelled, ran>>

\* Nothing is ready and nothing is asleep: RuntimeError, the run is over.
StopStarved ==
  /\ Taking
  /\ ready = <<>>
  /\ timers = <<>>
  /\ Detached
  /\ UNCHANGED <<program, objs, maturing, current, cancelled, ran>>

RunCallback ==
  /\ Taking
  /\ ready # <<>>
  /\ Head(ready).kind = "callback"
  /\ ran' = Append(ran, Head(ready).who)
  /\ ready' = Tail(ready)
  /\ pc' = "callback"
  /\ UNCHANGED <<program, objs, timers, maturing, tasks, main, current, cancelled>>

\* A wake-up of a task that is done by now.
SkipDoneTask ==
  /\ Taking
  /\ ready # <<>>
  /\ Head(ready).kind = "task"
  /\ ~ Pending(Head(ready).who)
  /\ ready' = Tail(ready)
  /\ pc' = "top"
  /\ UNCHANGED <<program, objs, timers, maturing, tasks, main, current, cancelled, ran>>

\* step_async_task before it resumes the coroutine.
Woken(t, wake) ==
  [objs EXCEPT ![t].waitingOn = 0,
               ![t].cancelRequested = IF wake = "cancelled" THEN FALSE ELSE @]

\* A pending source of the await that is resumed with None is yielded again.
YieldsAgain(t, wake) ==
  wake = "none" /\ objs[t].awaiting # 0 /\ Pending(objs[t].awaiting)

\* step_async_task: the coroutine goes on with the value or the exception.  A
\* value that reaches the iterator of a pending source is a TypeError there.
StepTask ==
  /\ Taking
  /\ ready # <<>>
  /\ Head(ready).kind = "task"
  /\ LET t == Head(ready).who
         wake == Head(ready).wake
     IN /\ Pending(t)
        /\ ~ YieldsAgain(t, wake)
        /\ objs' = [Woken(t, wake) EXCEPT ![t].awaiting = 0]
        /\ current' = t
  /\ ready' = Tail(ready)
  /\ pc' = "task"
  /\ UNCHANGED <<program, timers, maturing, tasks, main, cancelled, ran>>

ReawaitTask ==
  /\ Taking
  /\ ready # <<>>
  /\ Head(ready).kind = "task"
  /\ LET t == Head(ready).who IN
       /\ Pending(t)
       /\ YieldsAgain(t, Head(ready).wake)
       /\ objs' = Waiting(t, objs[t].awaiting, objs[t].awaiting)
  /\ ready' = Tail(ready)
  /\ pc' = "top"
  /\ UNCHANGED <<program, timers, maturing, tasks, main, current, cancelled, ran>>

LoopStep ==
  \/ FinishRun
  \/ Tick
  \/ MatureTimer
  \/ Jump
  \/ EndJump
  \/ StopStarved
  \/ RunCallback
  \/ SkipDoneTask
  \/ StepTask
  \/ ReawaitTask

-----------------------------------------------------------------------------
Init ==
  /\ program \in Programs
  /\ objs = <<>>
  /\ ready = <<>>
  /\ timers = <<>>
  /\ maturing = <<>>
  /\ tasks = {}
  /\ main = 0
  /\ current = 0
  /\ pc = "outside"
  /\ cancelled = {}
  /\ ran = <<>>

\* The module's code may end when no loop runs.
ModuleEnds == pc = "outside" /\ UNCHANGED vars

Next == ModuleEnds \/ Run \/ LoopStep \/ GuestOperation \/ EndOfStep

Spec == Init /\ [][Next]_vars

\* The loop does not rest while it runs, and the guest's code between two
\* suspensions ends.
FairSpec == Spec /\ WF_vars(LoopStep) /\ WF_vars(EndOfStep)

-----------------------------------------------------------------------------
(* Properties.                                                             *)

TypeOK ==
  /\ objs \in Seq(AsyncObject)
  /\ Len(objs) <= MaxObjects
  /\ ready \in Seq(ReadyEntry)
  /\ timers \in Seq(Timer)
  /\ maturing \in Seq(Timer)
  /\ tasks \subseteq Ids
  /\ main \in Ids \cup {0}
  /\ current \in Ids \cup {0}
  /\ pc \in {"outside", "top", "mature", "jumped", "task", "callback"}
  /\ cancelled \subseteq Ids
  /\ ran \in Seq(program.callbacks)

\* The sources that would wake t when they are done.
WakersOf(t) == {s \in DOMAIN objs : t \in Elements(objs[s].waiters)}

\* A pending task of the running loop is never forgotten: it is being stepped,
\* it is ready, or a pending source has it among its waiters (step_async_task,
\* complete_async_source).  A cancellation that was requested is in the ready
\* queue, before any other wake-up of the task (Task.cancel).
NoLostWakeup ==
  \A t \in tasks : Pending(t) =>
    /\ \/ t = current
       \/ EntriesOf(t) # {}
       \/ \E s \in WakersOf(t) : Pending(s)
    /\ objs[t].cancelRequested =>
         \E i \in EntriesOf(t) : /\ ready[i].wake = "cancelled"
                                 /\ \A j \in EntriesOf(t) : i <= j

\* A task that cancels itself and then awaits is queued and waits as well; it
\* stays among the waiters when the CancelledError has been delivered, and the
\* source may then wake it out of another await.  What is said below
\* of awaits and of waiting tasks is about programs in which no task does that.
CancelsItself == "self_cancel" \in program.uses

\* A pending task waits in one place only, and the source that has it among its
\* waiters is the one it is suspended on, so that a cancellation finds every
\* registration it must remove: no task is stepped twice for one suspension,
\* whatever completions and cancellations race for it.  A callback waits for a
\* pending source only, and is called at most once.
WaitsOnce ==
  /\ \A s \in DOMAIN objs : \A c \in Elements(objs[s].callbacks) :
       Pending(s) /\ c \notin Elements(ran)
  /\ \A i, j \in DOMAIN ran : ran[i] = ran[j] => i = j
  /\ CancelsItself \/
       /\ \A t \in tasks : Pending(t) =>
            Cardinality(EntriesOf(t)) + Cardinality(WakersOf(t)) = IF t = current THEN 0 ELSE 1
       /\ \A t \in DOMAIN objs : IsTask(t) =>
            \A s \in WakersOf(t) : objs[t].waitingOn = s

\* The iterator of a pending future is not handed a value: an await is resumed
\* by the outcome of its own source or by an exception (ADR 0075: "Pending
\* iterator kaynak future'i scheduler'a yield eder; terminal durumda
\* StopIteration.value ile sonucu dondurur").
AwaitResumedBySource ==
  [][(StepTask /\ ~ CancelsItself) => LET t == Head(ready).who IN
       ~ (Head(ready).wake = "value" /\ objs[t].awaiting # 0 /\ Pending(objs[t].awaiting))]_vars

\* Completion queues what the source kept (ADR 0075: "Tamamlama callback'leri ve
\* waiter'lari kuyruga alir"): a step that makes a source done leaves each of
\* its waiters and callbacks in the ready queue, as long as a loop runs (between
\* two runs they are dropped).
CompletionQueues ==
  [][\A s \in DOMAIN objs : (LoopRunning /\ Pending(s) /\ objs'[s].state # "pending") =>
       /\ \A t \in Elements(objs[s].waiters) :
            TaskEntry(t, objs'[s].state) \in Elements(ready')
       /\ \A c \in Elements(objs[s].callbacks) : CallbackEntry(c) \in Elements(ready')]_vars

\* Every timer of a running loop is taken off the list in the end, even when
\* something is always ready.
TimersMature ==
  \A f \in Ids :
    (\E timer \in Elements(timers) : timer.future = f)
      ~> ~ \E timer \in Elements(timers) \cup Elements(maturing) : timer.future = f

\* A ready task is stepped in the end (ADR 0075: "Ready kuyrugu FIFO'dur").
ReadyTasksRun ==
  \A t \in Ids : EntriesOf(t) # {} ~> (EntriesOf(t) = {} \/ current = t)
=============================================================================
