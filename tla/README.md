# quick-engine in TLA+

quick-engine embeds the QuickJS interpreter in Java programs.  `QuickJs.java`
is the API; `src/qjs2j/src/main/c` is the JNI layer under it, which adds what
QuickJS lacks: timers, an event loop, time limits, functions that call Java and
a console.  This directory models that layer and the locking above it, checks
it with TLC and proves its invariants and the two refinements with TLAPS.

File names below are those of `src/qjs2j/src/main/c` unless a path is given.

## The system

| component | state | operations | used by |
|---|---|---|---|
| timer table, `qjs_timer.c:5-123` | 256 entries (`id`, `callback`, `delay_ms`, `repeat`, `fire_time_ms`, `active`), `next_timer_id` | `setTimeout`, `setInterval`, `clearTimeout`, `clearInterval`, release at close | scripts; the three loops below |
| event loop and entry points, `qjs_timer.c:81-246`, `quickjs_jni.c` | `deadline_ms`; the locals of each native call in progress; QuickJS's queue of jobs | `eval`, `evalAsJson`, `call`, `load`, `drainJobs`, `runEventLoop`, `awaitPromise`, `evalAsync`, the interrupt handler | the Java API; the interpreter polls the handler |
| callback table, `qjs_callback.c`, `quickjs_jni.c:53-80, 336-374` | `g_callbacks`, 1024 slots shared by **all** engines of the process; JNI global references | `setCallback`, a JavaScript call of a bound function, release at close | the Java API; scripts |
| exceptions, `qjs_util.c:202-288` and every entry point | the exception QuickJS keeps in its runtime; the one JNI keeps in its environment | throw to Java, raise in the script, swallow, leave behind | entry points, callbacks, console |
| engine life, `QuickJs.java` | the `lock` of each object, its `handle`; the native memory | every method; `close` | Java threads; callbacks |
| console, `qjs_console.c`, `quickjs_jni.c:378-422` | two handlers, global references | `console.*`, `print`, setting the handlers | scripts; the Java API |
| string conversion, `qjs_util.c` | none | UTF-16 to UTF-8 and back | every entry point |
| globals and bytecode, `quickjs_jni.c` | none of their own | `getGlobal`, `setGlobal`, `compile`, `gc`, `version` | the Java API |
| loader, `NativeLoader.java` | a file | find, copy and load the library | class initialisation |
| QuickJS | everything a script sees | | external: a git submodule, not in this repository |

How they interact:

- A Java method takes the lock of its object, tests the handle and makes one
  native call, an *entry point*.  Entry points run JavaScript; JavaScript sets and
  clears timers, queues jobs, and calls Java through the callback table.
- Such a Java callback runs on the same thread, in the same monitor, which is
  reentrant.  It may call any method of the same engine, so entry points nest.
  The table of timers, the job queue and `deadline_ms` have one copy for all of
  them; the position in the table and the limits of the loops are locals.
- Three functions walk the timer table with a pointer to the current slot that
  they use again after the callback: `process_timers` (for `awaitPromise` and
  `evalAsync`), `drain_jobs` and `run_event_loop`.  The text of the walk is the
  same; what they do around it differs.
- Every text that crosses the boundary is converted in two passes, one for the
  length and one for the content; the console does the same with its arguments.
- Every failure crosses it too, in up to as many turns as callbacks nest: an entry
  point takes it from QuickJS and throws it in Java; `js_java_callback` clears it
  in JNI and raises it in the script.
- Engines share nothing but `g_callbacks` and, on one thread, the call stack.

What is hard to get right here, and hard to test: what callbacks do to the table
under the pass that calls them; nesting; which of several time limits is in
force, and whether it is looked at; what close and registration of one engine do
to another; locks taken through callbacks; text at the edges of its coding; an
exception that some path forgets.  `hazards` in `PROJECT.json` lists
these places line by line.

What makes each component correct:

- *Timer table.*  Ids of active timers are unique; every function reference
  taken is given back once; a function is held while it is called, unless its own timer
  is cleared; a timer that was set fires, is cleared, or is still there.
- *Event loop.*  A pass leaves nothing behind that was due; the loops return only
  with nothing left to do or at their limit, and do return; a deadline belongs to
  an `eval` in progress and that `eval` ends, if its exceptions can be described.
- *Callback table and console handlers.*  A function calls the callback it was
  set to, a message reaches the handler set for its level; global references are
  neither leaked nor used after deletion.
- *Engine life.*  Native code runs only on engines not freed, one thread at a
  time; calls do not block each other for ever.
- *Text.*  What is written is as long as the buffer made for it; scans stay inside
  the string; valid text survives the round trip, and nothing else passes for text.
- *Exceptions.*  A failure reaches a handler unless the code is known to give it up;
  one given up never comes back in a later call; none is pending in JNI while
  JavaScript or JNI functions run, unless a console handler has thrown.

## Modules

| module | what |
|---|---|
| `TimerTable` | the table and its operations as operators; the invariants of the table |
| `EventLoop` | extends `TimerTable`: the entry points of one engine, the clock, the scripts; all properties of the loops |
| `AbstractTimers` | what timers promise a script, without slots and passes |
| `TimerTableProofs` | lemmas: each operation preserves the table's invariant |
| `EventLoopProofs` | the inductive invariant of `EventLoop` and the theorems |
| `LoopRefinesProofs` | `EventLoop` implements `AbstractTimers` |
| `CallbackTable` | `g_callbacks`, the console handlers and their users, several engines |
| `CallbackRegistry` | what setting callbacks and handlers promises, one engine apart from the other |
| `CallbackTableProofs` | the invariants of `CallbackTable`; it implements `CallbackRegistry` |
| `EngineLife` | threads, monitors, handles, close, nested calls |
| `EngineLifeProofs` | native code on live engines; no deadlock |
| `Text` | UTF-16 to UTF-8 and back, the two passes of the console |
| `TextProofs` | scans stay inside their buffers, passes agree |
| `TextArrivesProofs` | text of any length arrives, and nothing else is read as text |
| `Failures` | exceptions on their way through nested entry points and callbacks |
| `FailuresProofs` | which failures reach handlers, that none comes back, and the one way in which one stays pending in JNI |
| `MCProcess` | `Text`, `Failures`, `CallbackTable` and `EngineLife` side by side for TLC |

An operator whose name ends in a suffix after `_`, and whose comment begins with
"Seeded fault", is a plausible bug: put in place of the operator that follows
it, it must break the property that `mutants` in `PROJECT.json` pairs it with.  It
is no part of the specification.

### TimerTable

`timers` is `engine->timers`; `refs` counts, for each JavaScript function, the
`JS_DupValue` calls minus the `JS_FreeValue` calls that the table has made.  A
cleared entry keeps its old `id`, `delay_ms`, `repeat` and `fire_time_ms`, as in C,
because the code after a callback (`after_callback`) reads them again.
`set_timer` is both `js_set_timeout` and `js_set_interval`, which differ in one
flag.  `js_clear_timer` takes `Undefined` as an argument too, which converts to 0.

### EventLoop

`frame[1..depth]` is the stack of entry points in progress, one record of locals
each, with a program counter `pc`:

| `pc` | in the code |
|---|---|
| `script` | in `JS_Eval`, `JS_Call` or `JS_EvalFunction` |
| `jobs` | before the next `JS_ExecutePendingJob` of `run_pending_jobs`, `drain_jobs`, `run_event_loop` |
| `job` | a job runs |
| `head` | the loop condition of `native_await_promise`, `native_eval_async` |
| `pass` | the `for` loop over the timers, at index `i` |
| `timer` | the callback of slot `i` runs |
| `one` | the single `JS_ExecutePendingJob` of the await loop |
| `result` | the result is converted (`toString`, `toJSON` may run) |
| `report` | in `throw_current_js_exception`: the exception is described (a getter of `stack`, `toString` may run) |

| action | code |
|---|---|
| `Enter` (`EnterSome`) | an entry point starts, outermost or out of a callback; `eval_common:100` and `native_call:305` write the deadline |
| `ScriptReturns`, `ScriptThrows` | the script is over; `awaitPromise` goes on only with a promise |
| `StartJob`, `JobReturns`, `JobFails`, `JobsEmpty` | the job loops; `JobReturns` holds the deadline test of `run_pending_jobs` |
| `PassCalls`, `TimerReturns` | one callback of a pass and what follows it |
| `DrainPassEnds`, `LoopPassEnds`, `AwaitPassEnds` | what the three loops do after a pass |
| `AwaitHead`, `AwaitIdle` | the two tests of the await loop |
| `ResultReturns`, `ResultThrows` | back to Java; `toString` or `toJSON` of the result has thrown |
| `Report` (a part of other actions), `ReportReturns` | out with an exception: the deadline is cleared first, then the script's code describes the exception, then back to Java |
| `SetTimer`, `ClearTimer`, `QueueJob`, `Settle` | what JavaScript at the top of the stack does to the engine |
| `Close`, `CallWhenClosed` | `native_close`; any call after it |
| `Tick` | `now_ms()` advances, at any moment |

The actions are as fine as another actor can tell: JavaScript may run, and the
clock may advance, only between them.  A pass skips slots that are not due in one
step (`IsNextDue`), because nothing can happen between two skipped slots.
`native_call` with a name that is no function, and conversions that run out of memory,
return at once and change nothing; they are left out.  `evalAsync` is `awaitPromise`
with a file name and flags, `evalAsJson` is `eval` with another conversion.
JavaScript that runs as part of the arguments of a call, or in a getter
of the global object before `native_call:305`, is taken to be part of the script.

`getGlobal`, `setGlobal` and `setCallback` are one operation here, `global`: they run getters,
setters and `toJSON` of the script, write no deadline and touch neither jobs nor timers
of their own.

`MaxDepth`, `Replace`, `Chain` and `ReportEnds` restrict the environment, not the code: how
deep callbacks re-enter the engine, whether a timer may be set while a callback runs whose own timer
is gone (a callback may always clear its own), whether a job under no deadline may queue further jobs,
and whether the script's code that describes an exception returns of itself.
`Close` is modelled for an engine with no entry point in progress; a close from
inside is the subject of `EngineLife`.

### AbstractTimers

A set of live timers, the calls in progress, a clock.  A timer leaves the set when
it is cleared, when it is a timeout whose call has ended, or at close; it is called
when due and never on top of itself; an interval is due again one delay
later, or at once if that is past.  `EventLoop!ImplementsTimers` maps an active entry to a
live timer and a frame at `pc = "timer"` to a call.

### CallbackTable

One operation per engine in progress (its monitor), several engines.  Registration is four
steps (`SetCallback`, `Scan` slot by slot, `Claim`, `Bind`), the call of a bound
function three (`CheckSlot`, `Invoke`, `CallbackReturns`), close slot by slot with
the store of `used` and that of `callback` apart, because no lock keeps another thread
from running between them.  `handler` has the console handlers of an engine, which are global
references of the same kind, and `running` the object that a call or a message has
reached: a reference, `Stdout`, or `Invalid` for a deleted one.  While
a message is handled `pc` is its level.  The handlers may be
replaced by the Java code they call; what else a callback does to its own engine is as if
done after it, because the way back through `js_java_callback` does not look at the table.
The branch of `CheckSlot` that throws "callback has been released" is taken only where
closing releases too much, in `callbacks_released`.  With `Overlap = FALSE` engines interleave only where one
thread could switch between them: while arguments are converted or Java runs.

### CallbackRegistry

Per engine a set of bound callbacks and two handlers.  Nothing is shared, nothing is
taken from an open engine.  `CallbackTable!ImplementsRegistry` maps the functions
of an engine to its set and the call in progress to `called`; `Default`, where a message goes that
has no handler, is a constant per level, and the code has stdout for both (finding 9); the table, its slots and
the global references are gone.

### EngineLife

Per thread a stack of Java calls, each waiting for its monitor, about to look at the
handle, or in native code.  A method that finds the handle zero throws.  `close` zeroes
the handle before the native call that frees the engine.

### Text

One conversion at a time, one code point per step; `i` is how much of its input the current
pass has consumed, `byte_len` what the first pass counted.

| `route` | what | stages |
|---|---|---|
| `java` | a Java string to the engine and back | `measure` and `write` of `jstring_to_utf8`, `read` |
| `script` | a JavaScript string to Java | `read` of `utf8_to_jstring` |
| `console` | the arguments of `console.log` to the handler | `count` and `format`, `read` |
| `memory` | bytes of unknown origin | `read` |

`memory` stands for what the buffer of a message holds where the second pass wrote less than
the first counted; it makes the properties of the reader hold for any bytes.
`JS_ToCStringLen` is QuickJS's own conversion, known from how the code relies on it:
unpaired surrogates come out as three bytes each, which `read_utf8` rejects.
With `Steady = FALSE` an argument whose `toString` has state converts to another text the
second time, and `WritesFit` fails, as it does in the code; the checked instance has
`Steady = TRUE`.

### Failures

`stack` holds the calls in progress, innermost first, native and out of scripts, on one thread and one engine.
Each native function, those that scripts call included, is a constant of the module, a record of its *phases* in order: the
calls of the interpreter in it that can fail, what it does when they do (`throw`, `null`,
`ignore`, `free`, `refuse`, `raise`) and what may follow when they do not.

| action | code |
|---|---|
| `JavaCalls`, `JavaCatches`, `JavaReturns`, `CallbackThrows` | Java below an entry point or in a callback |
| `HandlerThrows` | a console handler throws, and nothing looks for its exception |
| `ScriptCalls`, `ScriptCatches`, `Fails` | the script; `Fails` is any call of the interpreter that returns `JS_EXCEPTION` |
| `Proceeds`, `LeavesBehind`, `Frees`, `Raises`, `Throws` | the next phase, or what the phase does with its failure |
| `Rejected`, `ThrowsReason`, `Refuses` | exceptions that an entry point makes itself: a rejected promise, a timeout, a name that is no function |

`exc` keeps an exception that was left behind: QuickJS frees it only at the next throw.
That no phase ever looks at `exc` unless the phase itself has failed is what `NoneComesBack`
is about.  `KnownLosses` lists the phases that give a failure up; the conversion of the
delay of `setTimeout` and `setInterval` and of the id of `clearTimeout` are among them.

A console handler that throws (`qjs_console.c:27`) leaves its exception pending in the JNI
environment while the script and JNI functions go on.  JNI does not define what its functions do then.  The model
takes them to work, and where another exception is thrown to Java on top of the pending one it
keeps either (`ThrowToJava`).  Reading the stack of an exception in `throw_current_js_exception` may fail in a
getter; that such a getter calls Java in turn is left out.  So are failing allocations.
Whether `setCallback` finds a slot is in `CallbackTable`.

### MCProcess

The parts around the event loop in one system: `Text`, `Failures`, `CallbackTable`, `EngineLife`.
They share no state, and one moves only while the others are as they started, so
TLC visits the sum of their states and not the product; what one run says of the four is what
four runs would say.  In the code they do meet, in ways that the models do not depend on: a call of
`EngineLife` runs the native functions of `Failures`, whose texts are those of `Text`.

## Runs

| run | instance | shows |
|---|---|---|
| `loop_safety` | 2 slots, 1 function, delays 0 and 1, depth 2, clock to 1, 2 timers set, 1 job pending, all seven kinds of entry points, everything allowed; 2.95 million states | `TypeOK`, `UniqueIds`, `RefBalance`, `DeadlineOwned`, `PassServesAll`, `QuietReturn`, `FreedByOwnTimer` |
| `loop` | 2 slots, 1 function, 3 timers set, clock to 2, depth 1, `Replace` and `Chain` off, `ReportEnds` on, `LiveSpec`; 555 thousand states | `ImplementsTimers`, `EvalReturns`, `LoopReturns`, `DrainReturns`, `AwaitReturns` |
| `process` | strings of 3 out of 11 code units, 4 out of 13 bytes, 2 arguments of 2 out of 3 units; 3 failures, 3 calls deep; 3 interchangeable engines, 3 slots, 4 references (callbacks and handlers), one thread, an engine closed only when no other has callbacks; 3 threads with 3 engines and 3 calls each, callbacks in the order of the engines; 1.18 million states | `TextTypeOK`, `WritesFit`, `ReadsInside`, `TextArrives`, `OnlyTextIsRead`; `FlowTypeOK`, `JNIQuiet`, `NothingElseLost`, `NoneComesBack`; `CallbackTypeOK`, `FunctionsServed`, `RefsAccounted`, `ImplementsRegistry`; `LifeTypeOK`, `NativeOnLiveEngines`, `SomeCallMoves` |
| `lost_timer`, `drain_blocks`, `await_starved`, `timeout_disarmed`, `callee_freed`, `report_endless`, `callbacks_released`, `callbacks_raced`, `errors_to_stdout` | the smallest instance that shows it | the findings below |

Why the bounds are enough.  Everything the code does to the table depends on
whether a slot is free, due, first of its kind, or the one a pass is at: two slots have a slot before and a
slot after the one in question.  Two timers in two slots allow reuse of
a slot by a later timer (after a clear); three, in `loop`, allow it with another still
active, and allow `setTimeout` with the table full.
Depth 2 has a pass nested in a pass,
an `eval` in an `eval`, and any pair of entry points; a third level adds no
state that is shared.  A clock to 1 separates due from not due, limits passed from limits
not passed; to 2 it has intervals that fall behind.  One pending job tells an empty queue
from one that is not.  The theorems lift all these bounds for the invariants.
In `process`, three slots and three engines have the table full with each engine holding one,
and a fourth reference finds it full; handlers and callbacks draw on the same
references, so that one given up for another would be noticed.
The code units lie on both sides of every boundary of the coding: 127 and 128, 2047 and
2048, the first and the last high and low surrogate, whose pairs are U+10000 and U+10FFFF among others, 65535, and
U+FFFD itself.  The bytes have lead bytes of every length, those that begin only overlong forms,
surrogates or values past U+10FFFF, the trail bytes 128, 143, 144, 160 and 191 that tell these
from valid ones, and a byte that is none.
A code point takes at most two units or four bytes, so three units have
a pair with a neighbour and four bytes any sequence that is cut short
or followed by another; the theorems cover all units, bytes and lengths.  Three failures are one in flight,
one left behind and one thrown on the way; three calls are an entry point, a callback or handler, and an entry point in it.

### Fairness

`LiveSpec` assumes, and nothing else:

- `WF(Tick)`: time passes, up to `MaxClock`.
- `WF(EngineStep)`: the C code between two calls of the interpreter goes on.
- `WF(interrupt_handler)`: QuickJS polls the handler, so JavaScript that runs
  when the deadline has passed is stopped.
- `WF(deadline = 0 /\ (At("report") => ReportEnds) /\ JSReturns)`: JavaScript that no deadline covers
  returns, and with `ReportEnds` so does the code that describes an exception.  It is an
  assumption on programs: nothing in the engine could stop it.  JavaScript under a
  deadline is *not* assumed to return, which is what makes `EvalReturns` say something.

Liveness has these provisos.  Timers are set finitely often (`MaxIds`), so
`DrainReturns` and `AwaitReturns` do not cover scripts whose timeouts set each other for ever; the
two also ask that no interval be active, and the runs `drain_blocks` and
`await_starved` show why.  `Chain = FALSE`: a job outside a deadline that queues a job, and so on, keeps
every loop from its tests.  `ReportEnds = TRUE`: without it `EvalReturns` fails, as `report_endless` shows,
because an exception is described after the deadline is cleared.  `EngineLife` assumes no fairness (a Java monitor
promises none), so its progress property is the safety property `SomeCallMoves`: some
call can always move.

## Findings

1. *A timer is lost* (`lost_timer`, `qjs_timer.c:99`).  A callback clears its own timer,
   as the README of the Java API shows, and sets another: the new one takes the freed
   slot, and the code after the callback releases it, or puts it off by a period.
2. *drainJobs blocks* (`drain_blocks`, `qjs_timer.c:166`).  It is documented as not
   blocking, but an interval of delay 0 is due in each round and each round counts as
   progress.
3. *awaitPromise does not time out* (`await_starved`, `quickjs_jni.c:570`).  The limit is
   looked at only when no job was pending; an interval of delay 0 that queues a job sees to it that
   one always is.
4. *eval loses its timeout* (`timeout_disarmed`, `quickjs_jni.c:305`).  A nested `call` or
   `eval` sets the one `deadline_ms` to 0, and nobody sets it back.
5. *Closing one engine releases the callbacks of all* (`callbacks_released`,
   `quickjs_jni.c:60`).  The test compares the Java VM, of which a process has one.
6. *Two engines get one slot* (`callbacks_raced`, `qjs_callback.c:78`).  The table is shared and
   has no lock.
7. *A running function is freed* (`callee_freed`, `qjs_timer.c:88`).  A callback that clears its
   own timer, as the README of the Java API shows, gives up the only reference to the
   function that runs: the pass calls it without one of its own.
8. *eval's timeout does not cover the description of its exception* (`report_endless`,
   `quickjs_jni.c:108`).  The deadline is cleared first, then `stack` and `toString` of the script run.
9. *Errors go to stdout* (`errors_to_stdout`, `qjs_console.c:35`).  A test calls the default of
   `console.error` stderr, and so does the code itself where it has no engine.

The passing runs exclude what these show by restrictions that are named: `Replace` (1),
the proviso on intervals in `DrainReturns` and `AwaitReturns` (2, 3), `MaxDepth = 1` (4),
`Closing` and `Overlap` (5, 6), `ReportEnds` (8).  Finding 7 is not excluded: `FreedByOwnTimer`
says that a function that runs is freed in no way but by a clear of its own timer, or by a nested call of that
timer, and `ImplementsTimers` covers self-clears too.  `Steady`, `CloseInside` and
`Ordered` exclude hazards no document promises anything about; the exception of a console handler is
excluded nowhere, and `JNIQuiet` names it as the one exception.  `loop_safety` and
the proofs of its properties exclude none of it: the table, the
stack and the deadline stay consistent in spite of 1, 4, 7 and 8.

## Proofs

Each theorem holds for all values of the constants of its module: table lengths, functions,
delays, depths, clocks, engines, threads, strings.  The assumptions are those the modules state about
their constants (`MaxTimersAssumption`, `UndefinedAssumption`, `EnvironmentAssumption`,
`CallbackAssumption`, `LifeAssumption`, `TextAssumption`, `FlowAssumption`: little more than
types) and the condition in the last column, which is an `ASSUME` of the theorem itself.

| module | theorem | says | condition |
|---|---|---|---|
| `EventLoopProofs` | `TypeCorrect` | `Spec => []TypeOK` | |
| | `IdsAreUnique` | `Spec => []UniqueIds` | |
| | `ReferencesBalance` | `Spec => []RefBalance` | |
| | `DeadlinesAreOwned` | `Spec => []DeadlineOwned` | |
| | `PassesServeAll` | `Spec => []PassServesAll` | |
| | `ReturnsAreQuiet` | `Spec => QuietReturn` | |
| | `CalleesFreedByOwnTimer` | `Spec => FreedByOwnTimer` | |
| `TimerTableProofs` | `FreeAllInv` | close gives back every reference | |
| `LoopRefinesProofs` | `LoopImplementsTimers` | `Spec => ImplementsTimers` | `MaxDepth = 1`, `~Replace` |
| `CallbackTableProofs` | `CallbackTypeCorrect` | `CallbackSpec => []CallbackTypeOK` | |
| | `ReferencesAccounted` | `CallbackSpec => []RefsAccounted` | `~Overlap`, `IsFiniteSet(Engines)` |
| | `FunctionsAreServed` | `CallbackSpec => []FunctionsServed` | `~Overlap`, `Closing # "any"` |
| | `TableImplementsRegistry` | `CallbackSpec => ImplementsRegistry` | `~Overlap`, `Closing # "any"` |
| `EngineLifeProofs` | `LifeTypeCorrect` | `LifeSpec => []LifeTypeOK` | |
| | `NativeRunsOnLiveEngines` | `LifeSpec => []NativeOnLiveEngines` | `~CloseInside` |
| | `CallsMove` | `LifeSpec => []SomeCallMoves` | `Ordered` |
| `TextProofs` | `TextTypeCorrect` | `TextSpec => []TextTypeOK` | |
| | `ReaderStaysInside` | `TextSpec => []ReadsInside` | |
| | `PassesAgree` | `TextSpec => []WritesFit` | `Steady` |
| `TextArrivesProofs` | `EveryTextArrives` | `TextSpec => []TextArrives` | `Steady` |
| | `OnlyTextArrives` | `TextSpec => []OnlyTextIsRead` | `Steady` |
| `FailuresProofs` | `FlowTypeCorrect` | `FlowSpec => []FlowTypeOK` | |
| | `JNIStaysQuiet` | `FlowSpec => JNIQuiet` | |
| | `FailuresReachHandlers` | `FlowSpec => NothingElseLost` | |
| | `LeftBehindStaysBehind` | `FlowSpec => NoneComesBack` | |

Except for the finite number of engines, which is there so that references can be counted, these
conditions are those of the findings and hazards: where one is dropped, the code itself breaks the
property.  `CalleesFreedByOwnTimer`, `JNIStaysQuiet` and `FailuresReachHandlers` need none, because the ways in which the code
loses a reference or an exception are part of what they state.

### Event loop

`TableInv` (types, ids, references) is preserved by each operation of
the table alone; `TimerTableProofs` has a lemma per operation.  The stack needs more:
`IInv` adds

- `StackOK`, which ties the frames together.  Without "every frame but the innermost
  has called JavaScript" a step of the top frame could be a step in the middle of
  another's pass; without "a callback is progress" and "a pass without progress has
  called nothing and began with no job" `QuietReturn` does not follow from the
  state at the return; without "no pass is ahead of the clock" a timer set now could
  be due before the pass of an outer frame.
- `PassServesAll`.  It is its own induction hypothesis for every frame at once: a step of an
  inner pass changes entries that an outer pass has passed.  The lemmas on
  `TableForward` say why that does no harm: whatever the step, an entry that is active
  afterwards was active before and due no later than it is now, or is due no earlier than
  the clock of the step, which no pass is ahead of.
- `DeadlineOwned`, inductive on its own once types are known.

`StackOK` also says of a `global` operation that it is in the script or reports, which is
why it returns without a look at jobs or timers.

`NextInv` then has one step per action of `Next`, and the theorems follow by PTL.

`CalleesFreedByOwnTimer` needs `HeldInv` besides.  `RunOK`: the timer a frame calls is an old one, and if it is still
active, it is in the slot the frame is at and has the function that runs.  `SameSlot`: a frame that calls out of the slot of
an outer call whose timer is still there calls the same timer.  Then whatever releases the slot under a call
that still has its timer is a clear with its id, or the end of a nested call of it (`LosesOwn`).  That no step gives an id a
second time, and that only `PassCalls` begins a call, are `NextKeepsIds` and `NextNoCall`.

### The loop implements AbstractTimers

`CalledOK`, on top of `IInv`: a slot out of which a callback was called still holds the timer it
held then (`InPlace`), or that timer was cleared and the slot is free (`Gone`), in which case what follows the callback
touches nothing that is active (`EndGone`).  This takes both conditions: a timer set in between may be in the slot, and a
nested pass may reach it again, run it and release it.  `IInv` says that the ids of active entries
differ, so an id has one entry, and the refinement mapping, which looks an id up, gives
that entry's data (`LiveData`).  Then there is one lemma per kind of step, saying what it does to
the abstract timers: `SetStep`, `ClearStep`, `BeginStep`, `EndStep`, `RearmStep`, `CloseStep`,
`TickStep`; the rest stutter (`AsideStep`, `OtherJSStep`).

### Callback table

Three invariants, one on top of the other.  `TypeInv` ties the place an engine is at to the locals that
are in use there.  `OwnInv` says who owns each global reference: a used slot, a handler, or the
engine that has just made it or just taken it out of a slot, and never two of them (`RefsOK`).  It is
preserved because an engine in the middle of registering, looking a callback up or closing is the only one that is
(`OthersRest`, where `~Overlap` comes in).  `RefsAccounted` counts references, so its proof
ends in lemmas on cardinalities.  `ServeInv` adds that every function of an open engine has its
callback in its slot (`FnsServed`), and that while an engine gives slots up no open
engine has any function (`ClosedLast`, where `Closing # "any"` comes in).  The refinement follows from it
with one step per action.

### Engine life

`TypeInv` says what a stack of calls looks like: every call but the innermost is in native code
(`LowerRun`), `close` frees engines whose handle is zero (`FreesZeroed`), one thread at a time is inside
an engine (`OneInside`).  `NativeRunsOnLiveEngines` adds that a `close` is the only call
of its thread on its engine (`CloseAlone`, where `~CloseInside` comes in).
`CallsMove` is the argument against deadlock.  `InOrder`: a call that waits is for an engine its
thread is in, or for one above all of those.  So if all calls were stuck, whoever a call waits
for would wait for a higher engine (`WaitsUpward`), and there is a highest one.

### Text

`TextInv` has the types and `ReadsInside`; the step that matters is `ReadMoves`: whatever the bytes, `read_utf8` moves
on, stops at the end at the latest, and takes two bytes or more for what becomes two code units.
`CountInv`, for `PassesAgree`, needs the bytes that are left to write from each position of the
input, which is a sum over data (`StringCost`, `ArgsCost`).  That such a sum exists
is proved by the least counterexample (`Least`, `Remaining`); each pass then keeps the sum of what is done and what is left.
`FlattenType` does the same for the interpreter's own conversion.

`TextArrivesProofs` is about what the conversions compute.

- *One code point.*  `ReadBack`: at the bytes that `JS_ToCStringLen` makes of any code point the reader
  takes them all, and writes the code point, or U+FFFD for a surrogate.  `ReadExact` is the
  converse: what the reader does not answer with U+FFFD are those bytes.
  Both are by cases on the four lengths of `read_utf8`.
- *A text.*  `Climb` is induction over an initial part of the naturals, by a set closed under
  successor; `FlatTo` names what the first parts of a sequence flatten to, and `Parts` and `Upto`
  say what of a text the parts up to a position spell.  `CleanConcat` and `CStringConcat`
  say that replacing and spelling pass through concatenation unless it joins two halves of a pair.
- *The invariants.*  `ArriveInv`: while `jstring_to_utf8` writes, the bytes are those of the text up to `i`;
  while the console formats, those of the arguments up to `i`; while `utf8_to_jstring` reads,
  `i` is at the end of some part of what was sent, and `out` is the text up to there with its unpaired surrogates
  replaced.  `ExactInv`: what has been read is clean, and without a U+FFFD it spells the bytes up to `i`.
  `TextArrives` and `OnlyTextIsRead` are what these say at the end.

`Steady` is there because the length passed to the reader is the one the first pass counted.  Where an argument converts to
another text the second time, it is not the number of bytes written.

### Failures

`PhaseFacts` says of each phase of each native function what the argument needs: what follows it, what it
does with a failure, whether it runs JavaScript.  `FlowInv` is `StackOK` (each call is in a phase of its
own function, and one with another call on top of it is in a phase that makes calls), `CountsOK` (what is
handled, left behind or pending is a failure that has happened) and `RaisedOK` (who is told `JS_EXCEPTION` finds an exception,
and is not Java).  `PushInv`, `PopInv` and `MoveInv`
preserve it for the three things a step does to the stack, and `StepOK` carries the three action properties along: `QuietStep`
(`JNIQuiet`), `LossKnown` (`NothingElseLost`), `StaysGone` (`NoneComesBack`).

### Model-checked only

The four liveness properties (`EvalReturns`, `LoopReturns`, `DrainReturns`, `AwaitReturns`): out of the
prover's reach, like everything about `ENABLED`.  That the findings are violations is
model-checked too: a counterexample needs one instance only.

## Not modelled

- Failing allocations (`malloc`, `NewGlobalRef`, `JS_NewRuntime`): the code returns null at once
  in most places and does not look in others.
- What JNI functions do while the exception of a console handler is pending.  Arguments of the console whose text changes between the two passes
  are in the model (`Steady = FALSE`), but no run and no theorem but those about types and the reader covers them.
- The cut of a source or a name at U+0000 (`quickjs_jni.c:617`), because what the interpreter makes of the rest
  is not in this repository.
- A wall clock that is set back; overflow of `now_ms() + delay` and of `next_timer_id`.
- `gc` and `version`: one call of the interpreter each, on no state of this layer.
- `NativeLoader`: pure input and output, once, in a class initialiser.  QuickJS itself: external.

## Plan

Done: timer table, event loop, abstract timers, callback table with console handlers, abstract
registry, engine life, text, failures, and the proofs of every safety property of theirs.

Left: a clock that wraps or goes back, with what `PassServesAll` and `QuietReturn` still promise then.
