------------------------------ MODULE EventLoop ------------------------------
(***************************************************************************)
(* One engine (QuickJsNative) under the native entry points that run       *)
(* JavaScript: eval, call, load, getGlobal and setGlobal, awaitPromise and *)
(* evalAsync, drainJobs, runEventLoop, close.  frame is the stack of entry *)
(* points in progress.  It grows past one when JavaScript calls a Java     *)
(* callback and the callback calls the same engine again: the Java monitor *)
(* is reentrant, so nothing prevents it.                                   *)
(*                                                                         *)
(* While the code at the top of the stack is JavaScript it may set and     *)
(* clear timers, queue jobs, settle a promise that is awaited, or call a   *)
(* nested entry point; the interpreter itself is external.                 *)
(***************************************************************************)
EXTENDS TimerTable

CONSTANTS
  Ops,         (* entry points the Java program uses, a subset of AllOps   *)
  MaxDepth,    (* how deep entry points nest; 1: no callback re-enters     *)
  Delays,      (* delays given to setTimeout and setInterval               *)
  Repeats,     (* {FALSE}: setTimeout only; BOOLEAN: setInterval too       *)
  Waits,       (* time limits given to eval, awaitPromise and runEventLoop *)
  MaxClock,    (* bound of the clock                                       *)
  MaxIds,      (* bound of the number of timers set                        *)
  MaxJobs,     (* bound of the queue of pending jobs                       *)
  Replace,     (* may a timer be set while a callback runs whose own timer *)
               (* is gone, cleared by the callback for one                 *)
  Chain,       (* may a job that no deadline limits queue further jobs     *)
  ReportEnds   (* does the script's code that turns an exception into text *)
               (* return of itself                                         *)

(* "global" is getGlobal, setGlobal and setCallback, which run no more than  *)
(* a getter, setter or toJSON of the script.                                *)
AllOps == {"eval", "call", "load", "global", "await", "drain", "loop"}

Pcs == {"none",    (* no entry point                                       *)
        "script",  (* JS_Eval, JS_Call or JS_EvalFunction runs             *)
        "jobs",    (* while (JS_ExecutePendingJob ...), before the next    *)
        "job",     (* a pending job runs                                   *)
        "head",    (* while (JS_PromiseState == PENDING)                   *)
        "pass",    (* the for loop over the timers, at index i             *)
        "timer",   (* the callback of slot i runs                          *)
        "one",     (* the single JS_ExecutePendingJob of the await loop    *)
        "result",  (* the result is converted, which may run toString      *)
        "report"}  (* throw_current_js_exception: the exception is, which  *)
                   (* may run a getter of stack and toString               *)

ASSUME EnvironmentAssumption ==
  /\ Ops \subseteq AllOps
  /\ MaxDepth \in Nat \ {0}
  /\ Delays \subseteq Nat /\ Waits \subseteq Nat
  /\ Repeats \subseteq BOOLEAN
  /\ Replace \in BOOLEAN /\ Chain \in BOOLEAN /\ ReportEnds \in BOOLEAN
  /\ MaxClock \in Nat /\ MaxIds \in Nat /\ MaxJobs \in Nat

VARIABLES
  clock,      (* what now_ms() returns                                     *)
  jobs,       (* number of jobs pending in the runtime                     *)
  deadline,   (* engine->deadline_ms, 0 for none                           *)
  depth,      (* entry points in progress                                  *)
  frame,      (* their local state, innermost at depth                     *)
  open        (* the Java handle is not 0                                  *)

stackVars == <<depth, frame>>
vars == <<timers, next_timer_id, refs, clock, jobs, deadline, depth, frame, open>>

NoTimer == -1

(* Locals of an entry point: wait is its timeout argument, limit the time   *)
(* that ends it (deadline, start + max_wait_ms); now, i and progress belong *)
(* to a pass over the timers.  called and callee record whose callback      *)
(* runs; settled is the state of the promise that await waits for.          *)
Frame == [op : AllOps \cup {"none"}, pc : Pcs, wait : Nat, limit : Nat,
          now : Nat, i : Nat, progress : BOOLEAN, settled : BOOLEAN,
          called : Nat \cup {NoTimer}, callee : Fns \cup {Undefined}]

NoFrame == [op |-> "none", pc |-> "none", wait |-> 0, limit |-> 0, now |-> 0,
            i |-> 0, progress |-> FALSE, settled |-> FALSE,
            called |-> NoTimer, callee |-> Undefined]

Frames == 1..MaxDepth
Top == frame[depth]
At(pc) == depth > 0 /\ Top.pc = pc

(* The top of the stack is JavaScript. *)
JSPcs == {"script", "job", "timer", "result", "report"}
RunsJS == depth > 0 /\ Top.pc \in JSPcs

(* Ids of the timers whose callbacks are on the stack. *)
Running == {frame[d].called : d \in {e \in 1..depth : frame[e].pc = "timer"}}

Limit(wait) == IF wait > 0 THEN clock + wait ELSE 0
Passed(limit) == limit > 0 /\ clock >= limit

Init ==
  /\ TableInit
  /\ clock = 0 /\ jobs = 0 /\ deadline = 0
  /\ depth = 0 /\ frame = [d \in Frames |-> NoFrame]
  /\ open = TRUE

(* The clock runs whatever the engine does, engine_sleep_ms included. *)
Tick ==
  /\ clock < MaxClock
  /\ clock' = clock + 1
  /\ UNCHANGED <<tableVars, jobs, deadline, stackVars, open>>

-----------------------------------------------------------------------------
(* Entering and leaving *)

Opening(op, wait) ==
  [NoFrame EXCEPT !.op = op, !.wait = wait,
                  !.pc = IF op \in {"drain", "loop"} THEN "jobs" ELSE "script",
                  !.limit = IF op \in {"eval", "loop"} THEN Limit(wait) ELSE 0]

(* eval_common arms the deadline or disarms it, native_call disarms it, the *)
(* others leave it as it is.                                                *)
Enter(op, wait) ==
  /\ open
  /\ depth < MaxDepth
  /\ depth = 0 \/ RunsJS
  /\ clock + wait <= MaxClock
  /\ depth' = depth + 1
  /\ frame' = [frame EXCEPT ![depth + 1] = Opening(op, wait)]
  /\ deadline' = CASE op = "eval" -> Limit(wait)
                   [] op = "call" -> 0
                   [] OTHER -> deadline
  /\ UNCHANGED <<tableVars, clock, jobs, open>>

EnterSome ==
  \E op \in Ops, wait \in Waits \cup {0} :
    /\ op \in {"call", "load", "global", "drain"} => wait = 0
    /\ Enter(op, wait)

Goto(f) == frame' = [frame EXCEPT ![depth] = f] /\ UNCHANGED <<depth, deadline>>

Pop == depth' = depth - 1 /\ frame' = [frame EXCEPT ![depth] = NoFrame]

(* Seeded fault: an exit of eval_common that leaves the deadline armed. *)
Return_armed == Pop /\ UNCHANGED deadline

(* Every exit of eval_common clears the deadline, by result or exception. *)
Return == Pop /\ deadline' = IF Top.op = "eval" THEN 0 ELSE deadline

(* The way out with an exception of the script: eval_common clears the      *)
(* deadline first, and throw_current_js_exception then runs the script's    *)
(* code that describes the exception.                                       *)
Report ==
  /\ frame' = [frame EXCEPT ![depth] =
                 [NoFrame EXCEPT !.op = Top.op, !.wait = Top.wait, !.pc = "report"]]
  /\ deadline' = IF Top.op = "eval" THEN 0 ELSE deadline
  /\ UNCHANGED depth

ReportReturns ==
  /\ At("report")
  /\ Pop
  /\ UNCHANGED <<tableVars, clock, jobs, deadline, open>>

Close ==
  /\ open /\ depth = 0
  /\ open' = FALSE
  /\ free_all_timers
  /\ jobs' = 0
  /\ UNCHANGED <<clock, deadline, stackVars>>

(* requireHandle throws "QuickJs is closed". *)
CallWhenClosed == ~open /\ UNCHANGED vars

-----------------------------------------------------------------------------
(* What the JavaScript at the top of the stack does to the engine *)

SetTimer ==
  /\ RunsJS
  /\ next_timer_id < MaxIds
  /\ Replace \/ Running \subseteq {timers[s].id : s \in Active}
  /\ \E f \in Fns, delay \in Delays, rep \in Repeats :
       /\ clock + delay <= MaxClock
       /\ set_timer(f, delay, rep, clock)
  /\ UNCHANGED <<clock, jobs, deadline, stackVars, open>>

ClearTimer ==
  /\ RunsJS
  /\ \E arg \in (0..MaxIds) \cup {Undefined} : js_clear_timer(arg)
  /\ UNCHANGED <<clock, jobs, deadline, stackVars, open>>

QueueJob ==
  /\ RunsJS
  /\ jobs < MaxJobs
  /\ Chain \/ deadline > 0 \/ Top.pc # "job"
  /\ jobs' = jobs + 1
  /\ UNCHANGED <<tableVars, clock, deadline, stackVars, open>>

Settle ==
  /\ RunsJS
  /\ \E d \in 1..depth :
       /\ frame[d].op = "await" /\ ~frame[d].settled
       /\ frame' = [frame EXCEPT ![d].settled = TRUE]
  /\ UNCHANGED <<tableVars, clock, jobs, deadline, depth, open>>

-----------------------------------------------------------------------------
(* The script, the jobs and the result *)

(* JS_Eval is back without an exception.  await goes on only if the value  *)
(* is a promise, and computes its own deadline then.                       *)
ScriptReturns ==
  /\ At("script")
  /\ CASE Top.op = "await" ->
            \/ Goto([Top EXCEPT !.pc = "head", !.limit = Limit(Top.wait)])
            \/ Goto([Top EXCEPT !.pc = "result"])
       [] Top.op = "global" -> Return
       [] OTHER -> Goto([Top EXCEPT !.pc = "jobs"])
  /\ UNCHANGED <<tableVars, clock, jobs, open>>

(* getGlobal answers null to a getter that throws, setGlobal and            *)
(* setCallback do not look at what a setter threw; text that is not JSON is *)
(* reported.                                                                *)
ScriptThrows ==
  /\ At("script")
  /\ Report \/ (Top.op = "global" /\ Return)
  /\ UNCHANGED <<tableVars, clock, jobs, open>>

(* Seeded fault: a job is taken from an empty queue. *)
StartJob_unguarded ==
  /\ At("jobs") \/ At("one")
  /\ jobs' = jobs - 1
  /\ Goto([Top EXCEPT !.pc = "job"])
  /\ UNCHANGED <<tableVars, clock, open>>

(* JS_ExecutePendingJob takes the job off the queue before it runs it. *)
StartJob ==
  /\ At("jobs") \/ At("one")
  /\ jobs > 0
  /\ jobs' = jobs - 1
  /\ Goto([Top EXCEPT !.pc = "job"])
  /\ UNCHANGED <<tableVars, clock, open>>

StartPass(f) == [f EXCEPT !.pc = "pass", !.now = clock, !.i = 1]
(* Seeded fault: progress is not reset for the next round. *)
EndPass_stale(f, pc) == [f EXCEPT !.pc = pc, !.now = 0, !.i = 0]

EndPass(f, pc) == [f EXCEPT !.pc = pc, !.now = 0, !.i = 0, !.progress = FALSE]

JobsEmpty ==
  /\ At("jobs") /\ jobs = 0
  /\ CASE Top.op \in {"eval", "call"} -> Goto([Top EXCEPT !.pc = "result"])
       [] Top.op = "load" -> Return
       [] OTHER -> Goto(StartPass(Top))
  /\ UNCHANGED <<tableVars, clock, jobs, open>>

(* A job failed, or run_pending_jobs threw "interrupted".  native_call and  *)
(* native_load ignore it; the others report it.                             *)
JobsStop ==
  CASE Top.op = "call" -> Goto([Top EXCEPT !.pc = "result"])
    [] Top.op = "load" -> Return
    [] OTHER -> Report

(* Seeded fault: run_pending_jobs does not look at the deadline. *)
JobReturns_unchecked ==
  /\ At("job")
  /\ CASE Top.op \in {"eval", "call", "load"} -> Goto([Top EXCEPT !.pc = "jobs"])
       [] Top.op \in {"drain", "loop"} ->
            Goto([Top EXCEPT !.pc = "jobs", !.progress = TRUE])
       [] OTHER -> Goto([Top EXCEPT !.pc = "head"])
  /\ UNCHANGED <<tableVars, clock, jobs, open>>

JobReturns ==
  /\ At("job")
  /\ CASE Top.op \in {"eval", "call", "load"} ->
            IF Passed(deadline) THEN JobsStop ELSE Goto([Top EXCEPT !.pc = "jobs"])
       [] Top.op \in {"drain", "loop"} ->
            Goto([Top EXCEPT !.pc = "jobs", !.progress = TRUE])
       [] OTHER -> Goto([Top EXCEPT !.pc = "head"])
  /\ UNCHANGED <<tableVars, clock, jobs, open>>

JobFails ==
  /\ At("job")
  /\ JobsStop
  /\ UNCHANGED <<tableVars, clock, jobs, open>>

(* The result goes back to Java; awaitPromise returns null for one that     *)
(* cannot be converted.                                                     *)
ResultReturns ==
  /\ At("result")
  /\ Return
  /\ UNCHANGED <<tableVars, clock, jobs, open>>

(* toJSON or toString of the result threw: eval, call and evalAsync report. *)
ResultThrows ==
  /\ At("result")
  /\ Report
  /\ UNCHANGED <<tableVars, clock, jobs, open>>

-----------------------------------------------------------------------------
(* A pass over the timers: process_timers, drain_jobs, run_event_loop *)

(* Seeded fault: a pass that called a timer does not count as progress. *)
PassCalls_idle ==
  /\ At("pass")
  /\ \E s \in Slots :
       /\ IsNextDue(s, Top.i, Top.now)
       /\ Goto([Top EXCEPT !.pc = "timer", !.i = s,
                           !.called = timers[s].id, !.callee = timers[s].callback])
  /\ UNCHANGED <<tableVars, clock, jobs, open>>

(* Seeded fault: a timeout is released before its callback is called. *)
PassCalls_released ==
  /\ At("pass")
  /\ \E s \in Slots :
       /\ IsNextDue(s, Top.i, Top.now)
       /\ Goto([Top EXCEPT !.pc = "timer", !.i = s, !.progress = Top.op # "await",
                           !.called = timers[s].id, !.callee = timers[s].callback])
       /\ IF timers[s].repeat THEN UNCHANGED tableVars ELSE Release(s)
  /\ UNCHANGED <<clock, jobs, open>>

PassCalls ==
  /\ At("pass")
  /\ \E s \in Slots :
       /\ IsNextDue(s, Top.i, Top.now)
       /\ Goto([Top EXCEPT !.pc = "timer", !.i = s, !.progress = Top.op # "await",
                           !.called = timers[s].id, !.callee = timers[s].callback])
  /\ UNCHANGED <<tableVars, clock, jobs, open>>

(* The callback is back; an exception it threw is dropped. *)
TimerReturns ==
  /\ At("timer")
  /\ after_callback(Top.i, Top.now)
  /\ Goto([Top EXCEPT !.pc = "pass", !.i = @ + 1,
                      !.called = NoTimer, !.callee = Undefined])
  /\ UNCHANGED <<clock, jobs, open>>

PassDone == At("pass") /\ \A s \in Slots : Top.i <= s => ~Due(s, Top.now)

DrainPassEnds ==
  /\ PassDone /\ Top.op = "drain"
  /\ IF Top.progress THEN Goto(EndPass(Top, "jobs")) ELSE Return
  /\ UNCHANGED <<tableVars, clock, jobs, open>>

(* Seeded fault: the limit is tested only when there was nothing to do. *)
LoopPassEnds_idle ==
  /\ PassDone /\ Top.op = "loop"
  /\ IF ~Top.progress /\ (Passed(Top.limit) \/ ~has_active_timers)
     THEN Return
     ELSE Goto(EndPass(Top, "jobs"))
  /\ UNCHANGED <<tableVars, clock, jobs, open>>

LoopPassEnds ==
  /\ PassDone /\ Top.op = "loop"
  /\ IF Passed(Top.limit) \/ (~Top.progress /\ ~has_active_timers)
     THEN Return
     ELSE Goto(EndPass(Top, "jobs"))
  /\ UNCHANGED <<tableVars, clock, jobs, open>>

AwaitPassEnds ==
  /\ PassDone /\ Top.op = "await"
  /\ Goto(EndPass(Top, "one"))
  /\ UNCHANGED <<tableVars, clock, jobs, open>>

(* The loop shared by native_await_promise and native_eval_async. *)
AwaitHead ==
  /\ At("head")
  /\ Goto(IF Top.settled THEN [Top EXCEPT !.pc = "result"] ELSE StartPass(Top))
  /\ UNCHANGED <<tableVars, clock, jobs, open>>

(* Seeded fault: the limit of awaitPromise is not tested. *)
AwaitIdle_patient ==
  /\ At("one") /\ jobs = 0
  /\ Goto([Top EXCEPT !.pc = "head"])
  /\ UNCHANGED <<tableVars, clock, jobs, open>>

(* No job was pending (r == 0): the only place where the limit is tested. *)
AwaitIdle ==
  /\ At("one") /\ jobs = 0
  /\ IF Passed(Top.limit) THEN Return ELSE Goto([Top EXCEPT !.pc = "head"])
  /\ UNCHANGED <<tableVars, clock, jobs, open>>

-----------------------------------------------------------------------------

EngineStep ==
  StartJob \/ JobsEmpty \/ PassCalls \/ DrainPassEnds \/ LoopPassEnds
    \/ AwaitPassEnds \/ AwaitHead \/ AwaitIdle

JSReturns ==
  ScriptReturns \/ ScriptThrows \/ JobReturns \/ JobFails \/ TimerReturns
    \/ ResultReturns \/ ResultThrows \/ ReportReturns

JSActs == SetTimer \/ ClearTimer \/ QueueJob \/ Settle

Next ==
  \/ Tick \/ EnterSome \/ Close \/ CallWhenClosed
  \/ JSActs \/ JSReturns \/ EngineStep

Spec == Init /\ [][Next]_vars

(* interrupt_handler ends the JavaScript that runs past the deadline with   *)
(* an exception it cannot catch.  Each outcome is one JSReturns has anyway; *)
(* what the handler adds is that it is taken.                               *)
interrupt_handler ==
  /\ Passed(deadline)
  /\ \/ ScriptThrows \/ JobFails \/ TimerReturns \/ ReportReturns
     \/ ResultThrows \/ (Top.op = "await" /\ ResultReturns)

(* The C code and the clock go on; JavaScript that a deadline covers may    *)
(* run for ever, until interrupt_handler stops it; other JavaScript is      *)
(* assumed to return, for nothing in the engine could stop it.  ReportEnds  *)
(* says whether that goes for the code that describes an exception.         *)
Fairness ==
  /\ WF_vars(Tick)
  /\ WF_vars(EngineStep)
  /\ WF_vars(interrupt_handler)
  /\ WF_vars(deadline = 0 /\ (At("report") => ReportEnds) /\ JSReturns)

LiveSpec == Spec /\ Fairness

-----------------------------------------------------------------------------
(* Properties *)

(* Types of every variable. *)
TypeOK ==
  /\ TableTypeOK
  /\ clock \in Nat /\ jobs \in Nat /\ deadline \in Nat
  /\ depth \in 0..MaxDepth
  /\ frame \in [Frames -> Frame]
  /\ open \in BOOLEAN

(* A deadline that is armed belongs to an eval still on the stack.  A       *)
(* deadline left behind by an exit of eval_common would interrupt the next  *)
(* load, awaitPromise or timer callback, none of which sets one             *)
(* (quickjs_jni.c:108, 116, 126, 132, 140, 150).                            *)
DeadlineOwned ==
  deadline > 0 => \E d \in 1..depth : frame[d].op = "eval" /\ frame[d].limit = deadline

(* While a pass is at index i, whatever the callbacks it called did to the  *)
(* table, and whatever passes nested in them did, no active timer in a slot *)
(* the pass has left behind was due before the pass began                   *)
(* (qjs_timer.c:84-104, 163-182, 199-218).                                  *)
InPass(d) == frame[d].pc \in {"pass", "timer"}

PassServes(d) ==
  InPass(d) =>
    \A s \in Active : s < frame[d].i => timers[s].fire_time_ms >= frame[d].now

PassServesAll == \A d \in 1..depth : PassServes(d)

(* How the frames of the stack hang together, which the properties here     *)
(* rest on: only await has a loop head of its own, getGlobal and its like   *)
(* run no jobs, every entry point but the innermost has called JavaScript,  *)
(* an exception is reported without a limit, no pass is ahead of the clock, *)
(* a callback is called from a slot and is progress, and a pass of          *)
(* drainJobs or runEventLoop without progress has called none and began     *)
(* with no job pending.                                                     *)
FrameOK(d) ==
  /\ frame[d].op \in AllOps
  /\ frame[d].pc \in {"head", "one"} => frame[d].op = "await"
  /\ frame[d].op = "global" => frame[d].pc \in {"script", "report"}
  /\ frame[d].pc = "report" => frame[d].limit = 0
  /\ d < depth => frame[d].pc \in JSPcs
  /\ frame[d].now <= clock
  /\ frame[d].pc = "timer" =>
       frame[d].i \in Slots /\ (frame[d].op # "await" => frame[d].progress)
  /\ frame[d].pc = "pass" /\ frame[d].op # "await" /\ ~frame[d].progress =>
       frame[d].i = 1 /\ jobs = 0

StackOK == \A d \in 1..depth : FrameOK(d)

(* The table's reference to a function it calls is the only one the pass    *)
(* relies on: JS_Call takes none of its own (qjs_timer.c:88, 167, 203).  It *)
(* is there when the call begins, and is lost in two ways only, whatever    *)
(* the callbacks on the stack do to each other's timers: clearTimeout or    *)
(* clearInterval with the id of the very timer that is called, or the end   *)
(* of a nested call of that timer (qjs_timer.c:70, 100).                    *)
Calling(d) == d \in 1..depth /\ frame[d].pc = "timer"

Held(d) ==
  \E s \in Active : timers[s].id = frame[d].called /\ timers[s].callback = frame[d].callee

FreedByOwnTimer ==
  [][ \A d \in 1..depth' :
        Calling(d)' /\ ~Held(d)' =>
          /\ Calling(d)
          /\ \/ ~Held(d)
             \/ js_clear_timer(frame[d].called) /\ UNCHANGED stackVars
             \/ TimerReturns /\ d < depth /\ Top.called = frame[d].called ]_vars

(* drainJobs and runEventLoop without a limit return to Java normally only  *)
(* when no job is pending, with no timer left that was due (drainJobs) or   *)
(* with no timer left at all (runEventLoop), at whatever depth they run     *)
(* (qjs_timer.c:154, 220-221).                                              *)
QuietReturn ==
  [][ (At("pass") /\ depth' < depth) =>
        IF Top.op = "loop"
        THEN Passed(Top.limit) \/ (jobs = 0 /\ Active = {})
        ELSE jobs = 0 /\ \A s \in Slots : ~Due(s, Top.now) ]_vars

(* The timers of the engine are the abstract ones: an active entry is a     *)
(* live timer, a frame at pc "timer" a call of it.  In particular a pass    *)
(* changes, after a callback, the entry it called and no other, calls no    *)
(* timer that was cleared, and calls none while it is being called          *)
(* (qjs_timer.c:81-105, 163-182, 199-218).                                  *)
SlotOf(id) == CHOOSE s \in Active : timers[s].id = id

Live ==
  [id \in {timers[s].id : s \in Active} |->
     [callback |-> timers[SlotOf(id)].callback, due |-> timers[SlotOf(id)].fire_time_ms,
      delay |-> timers[SlotOf(id)].delay_ms, repeat |-> timers[SlotOf(id)].repeat]]

Calls == {<<d, frame[d].called>> : d \in {e \in 1..depth : frame[e].pc = "timer"}}

Timers == INSTANCE AbstractTimers
            WITH live <- Live, next <- next_timer_id, calls <- Calls, now <- clock

ImplementsTimers == Timers!Spec

(* eval with a timeout ends, even if its script, or a job it leaves         *)
(* behind, runs for ever or jobs queue each other without end               *)
(* (quickjs_jni.c:7, 100, qjs_timer.c:235; README.md:111), provided that    *)
(* its exceptions can be described (ReportEnds), which is done after the    *)
(* deadline is cleared (quickjs_jni.c:108, 116, 126, 140), and that nothing *)
(* it calls re-enters the engine.                                           *)
Outermost(op) == depth > 0 /\ frame[1].op = op

EvalReturns == (Outermost("eval") /\ frame[1].wait > 0) ~> depth = 0

(* runEventLoop with a limit ends, intervals of delay 0 and jobs queued by  *)
(* timers included, provided jobs do not queue each other without end       *)
(* (qjs_timer.c:222, 225).                                                  *)
LoopReturns == (Outermost("loop") /\ frame[1].wait > 0) ~> depth = 0

(* drainJobs, and awaitPromise with a timeout, do not go on for ever while  *)
(* no interval is active (qjs_timer.c:154, quickjs_jni.c:561).  A limit the *)
(* bounded clock cannot reach is left out.                                  *)
Intervals == {s \in Active : timers[s].repeat}

DrainReturns == ~ <>[](Outermost("drain") /\ Intervals = {})

AwaitReturns ==
  ~ <>[](/\ Outermost("await") /\ frame[1].wait > 0 /\ frame[1].limit <= MaxClock
         /\ Intervals = {})

-----------------------------------------------------------------------------
(* What the documentation and the tests say, and the code does not keep *)

(* A function lives as long as it runs, that of an interval that stops      *)
(* itself included (README.md:650).  clearInterval frees the function of    *)
(* the timer at once, and the pass that calls it holds no reference of its  *)
(* own (qjs_timer.c:70, 88).                                                *)
CalleeHeld == \A d \in 1..depth : Calling(d) => refs[frame[d].callee] > 0

(* The end of a callback disposes of the timer that was called and of no    *)
(* other: a timeout that was set fires (QuickJsTest.java:391).  A callback  *)
(* that clears its own timer, as README.md:650 does, and then sets another  *)
(* gets the slot it runs from, and the pass takes the newcomer for the      *)
(* timer it called (qjs_timer.c:96-103).                                    *)
OnlyCalledTimerChanges ==
  [][ TimerReturns =>
        \A s \in Active : timers[s].id # Top.called => timers'[s] = timers[s] ]_vars

(* The script of an eval with a timeout does not run for ever               *)
(* (README.md:111).  A callback that calls or evaluates something on the    *)
(* same engine clears the deadline, and nobody arms it again                *)
(* (quickjs_jni.c:150, 305).                                                *)
TimeoutHolds ==
  (Outermost("eval") /\ frame[1].wait > 0) ~> (depth = 0 \/ frame[1].pc = "report")

(* drainJobs does not block (README.md:679).  An interval of delay 0 is due *)
(* in each round, and keeps it going (qjs_timer.c:154, 166).                *)
DrainDoesNotBlock == ~ <>[] Outermost("drain")

(* awaitPromise with a timeout throws when it has passed                    *)
(* (QuickJsTest.java:461).  Its loop tests the limit only when no job was   *)
(* pending; an interval whose callback queues a job sees to it that there   *)
(* is always one (quickjs_jni.c:570).                                       *)
AwaitTimesOut ==
  ~ <>[](Outermost("await") /\ frame[1].wait > 0 /\ frame[1].limit <= MaxClock)

=============================================================================
