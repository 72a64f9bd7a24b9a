--------------------------- MODULE EventLoopProofs ---------------------------
(***************************************************************************)
(* The safety invariants of EventLoop, for tables, stacks, clocks, delays  *)
(* and queues of any size and scripts of any habit, and two of its action  *)
(* properties, QuietReturn and FreedByOwnTimer.                            *)
(***************************************************************************)
EXTENDS EventLoop, TimerTableProofs

StackTypeOK ==
  /\ clock \in Nat /\ jobs \in Nat /\ deadline \in Nat
  /\ depth \in 0..MaxDepth
  /\ frame \in [Frames -> Frame]
  /\ open \in BOOLEAN

(* The inductive invariant.  StackOK is the strengthening: without it a     *)
(* pass could be ahead of the clock, or its slot outside the table.         *)
IInv == TableInv /\ StackTypeOK /\ StackOK /\ DeadlineOwned /\ PassServesAll

(* A step of the table that leaves no timer due earlier than it was, nor    *)
(* before the present if it is new: what each of its operations does.       *)
TableForward ==
  \A s \in Active' : \/ s \in Active /\ timers'[s].fire_time_ms >= timers[s].fire_time_ms
                     \/ timers'[s].fire_time_ms >= clock

LEMMA UnchangedForward ==
  ASSUME TableInv, UNCHANGED tableVars
  PROVE  TableInv' /\ TableForward /\ Active' = Active
<1>1. TableInv'
  BY TableStutterInv
<1>2. timers \in [Slots -> Entry] /\ timers' = timers
  BY DEF TableInv, TableTypeOK, tableVars
<1> QED
  BY <1>1, <1>2 DEF TableForward, Active, Entry

LEMMA SetTimerForward ==
  ASSUME TableInv, clock \in Nat, NEW f \in Fns, NEW delay \in Nat, NEW rep \in BOOLEAN,
         set_timer(f, delay, rep, clock)
  PROVE  TableForward
<1>1. timers \in [Slots -> Entry]
  BY DEF TableInv, TableTypeOK
<1>2. CASE UNCHANGED tableVars
  BY <1>2, UnchangedForward
<1>3. CASE ~UNCHANGED tableVars
  <2>1. PICK s \in Slots : timers' = [timers EXCEPT ![s] =
                            [id |-> next_timer_id, callback |-> f, delay_ms |-> delay,
                             repeat |-> rep, fire_time_ms |-> clock + delay,
                             active |-> TRUE]]
    BY <1>3 DEF set_timer
  <2> QED
    BY <1>1, <2>1 DEF TableForward, Active, Entry
<1> QED
  BY <1>2, <1>3

LEMMA ReleaseForward ==
  ASSUME TableInv, NEW s \in Slots, Release(s)
  PROVE  TableForward
<1>1. timers \in [Slots -> Entry]
  BY DEF TableInv, TableTypeOK
<1>2. \A r \in Active' : r \in Active /\ timers'[r].fire_time_ms = timers[r].fire_time_ms
  BY <1>1 DEF Release, Active, Entry
<1> QED
  BY <1>1, <1>2 DEF TableForward, Active, Entry

LEMMA ClearTimerForward ==
  ASSUME TableInv, NEW arg, js_clear_timer(arg)
  PROVE  TableForward
  BY ReleaseForward, UnchangedForward, Zenon DEF js_clear_timer

(* After a callback its own slot, too, is not due before the pass began. *)
LEMMA AfterCallbackForward ==
  ASSUME TableInv, NEW s \in Slots, NEW now \in Nat, after_callback(s, now)
  PROVE  /\ TableForward
         /\ s \in Active' => timers'[s].fire_time_ms >= now
         /\ \A r \in Active' \ {s} : r \in Active /\ timers'[r] = timers[r]
<1>1. timers \in [Slots -> Entry]
  BY DEF TableInv, TableTypeOK
<1>2. CASE ~timers[s].repeat
  <2>1. Release(s)
    BY <1>2 DEF after_callback
  <2> QED
    BY <1>1, <2>1, ReleaseForward DEF Release, Active, Entry
<1>3. CASE timers[s].repeat
  BY <1>1, <1>3 DEF after_callback, Later, TableForward, Active, Entry
<1> QED
  BY <1>2, <1>3

-----------------------------------------------------------------------------

LEMMA InitInv == Init => IInv
<1> SUFFICES ASSUME Init PROVE IInv
  OBVIOUS
<1>1. TableInv
  BY TableInitInv DEF Init
<1>2. StackTypeOK
  BY EnvironmentAssumption
     DEF Init, StackTypeOK, Frames, Frame, NoFrame, AllOps, Pcs, NoTimer
<1>3. StackOK /\ DeadlineOwned /\ PassServesAll
  BY DEF Init, StackOK, DeadlineOwned, PassServesAll
<1> QED
  BY <1>1, <1>2, <1>3 DEF IInv

(* A frame that is not touched goes on being served by its pass. *)
LEMMA PassKept ==
  ASSUME IInv, TableInv', TableForward, NEW d \in 1..depth, NEW g \in Frame,
         g = frame[d]
  PROVE  g.pc \in {"pass", "timer"} =>
           \A s \in Active' : s < g.i => timers'[s].fire_time_ms >= g.now
<1>1. frame[d].now <= clock /\ frame[d].now \in Nat /\ clock \in Nat
  BY DEF IInv, StackOK, FrameOK, StackTypeOK, Frame
<1>2. \A s \in Active : timers[s].fire_time_ms \in Nat
  BY DEF IInv, TableInv, TableTypeOK, Active, Entry
<1>3. \A s \in Active' : timers'[s].fire_time_ms \in Nat
  BY DEF TableInv, TableTypeOK, Active, Entry
<1>4. PassServes(d)
  BY DEF IInv, PassServesAll
<1> QED
  BY <1>1, <1>2, <1>3, <1>4 DEF PassServes, InPass, TableForward

(* Steps that leave the stack alone. *)
LEMMA StillInv ==
  ASSUME IInv, TableInv', TableForward,
         UNCHANGED <<depth, frame, deadline>>,
         clock' \in Nat, clock <= clock', jobs' \in Nat, open' \in BOOLEAN,
         jobs' = jobs \/ depth = 0 \/ Top.pc \in JSPcs
  PROVE  IInv'
<1>1. StackTypeOK'
  BY DEF IInv, StackTypeOK
<1>2. StackOK'
  <2> SUFFICES ASSUME NEW d \in 1..depth PROVE FrameOK(d)'
    BY DEF StackOK
  <2>2. depth \in 0..MaxDepth /\ MaxDepth \in Nat
    BY EnvironmentAssumption DEF IInv, StackTypeOK
  <2>1. FrameOK(d) /\ frame[d] \in Frame /\ frame[d].now \in Nat /\ clock \in Nat
    BY <2>2 DEF IInv, StackOK, StackTypeOK, Frames, Frame
  <2>3. jobs' = jobs \/ frame[d].pc # "pass"
    <3>1. CASE d < depth
      BY <3>1, <2>1 DEF FrameOK, JSPcs
    <3>2. CASE d = depth
      BY <3>2 DEF Top, JSPcs
    <3> QED
      BY <2>2, <3>1, <3>2
  <2> QED
    BY <2>1, <2>2, <2>3 DEF FrameOK
<1>3. DeadlineOwned'
  BY DEF IInv, DeadlineOwned
<1>4. PassServesAll'
  <2> SUFFICES ASSUME NEW d \in 1..depth PROVE PassServes(d)'
    BY DEF PassServesAll
  <2>1. frame[d] \in Frame
    BY EnvironmentAssumption DEF IInv, StackTypeOK, Frames
  <2> QED
    BY <2>1, PassKept DEF PassServes, InPass
<1> QED
  BY <1>1, <1>2, <1>3, <1>4 DEF IInv

(* Steps that give the frame of the innermost entry point the value f, and  *)
(* may clear the deadline.                                                  *)
LEMMA ChangeInv ==
  ASSUME IInv, TableInv', TableForward, depth > 0, NEW f \in Frame,
         frame' = [frame EXCEPT ![depth] = f], depth' = depth,
         UNCHANGED <<clock, open>>, jobs' \in Nat,
         f.op = Top.op,
         deadline' = 0 \/ (deadline' = deadline /\ (f.op = "eval" => f.limit = Top.limit)),
         f.now <= clock,
         f.op = "global" => f.pc = "report",
         f.pc = "report" => f.limit = 0,
         f.pc \in {"head", "one"} => f.op = "await",
         f.pc = "timer" => f.i \in Slots /\ (f.op # "await" => f.progress),
         f.pc = "pass" /\ f.op # "await" /\ ~f.progress => f.i = 1 /\ jobs' = 0,
         f.pc \in {"pass", "timer"} =>
           \A s \in Active' : s < f.i => timers'[s].fire_time_ms >= f.now
  PROVE  IInv'
<1>1. /\ depth \in 1..MaxDepth /\ MaxDepth \in Nat /\ deadline \in Nat
      /\ frame \in [Frames -> Frame]
      /\ frame' = [frame EXCEPT ![depth] = f]
      /\ UNCHANGED depth
  BY EnvironmentAssumption DEF IInv, StackTypeOK
<1>2. /\ frame'[depth] = f
      /\ \A d \in 1..depth : d # depth => frame'[d] = frame[d]
      /\ \A d \in 1..depth : frame[d] \in Frame
  BY <1>1 DEF Frames
<1>3. StackTypeOK'
  <2>1. deadline' \in Nat
    BY <1>1
  <2>2. frame' \in [Frames -> Frame]
    BY <1>1
  <2> QED
    BY <1>1, <2>1, <2>2 DEF IInv, StackTypeOK
<1>4. StackOK'
  <2> SUFFICES ASSUME NEW d \in 1..depth PROVE FrameOK(d)'
    BY <1>1 DEF StackOK
  <2>1. CASE d = depth
    <3>1. f.op \in AllOps
      BY <1>1 DEF IInv, StackOK, FrameOK, Top
    <3> QED
      BY <2>1, <1>1, <1>2, <3>1 DEF FrameOK
  <2>2. CASE d # depth
    <3>1. FrameOK(d) /\ d < depth
      BY <2>2, <1>1 DEF IInv, StackOK
    <3> QED
      BY <3>1, <2>2, <1>1, <1>2 DEF FrameOK, JSPcs
  <2> QED
    BY <2>1, <2>2
<1>5. DeadlineOwned'
  BY <1>1, <1>2 DEF IInv, DeadlineOwned, Top
<1>6. PassServesAll'
  <2> SUFFICES ASSUME NEW d \in 1..depth PROVE PassServes(d)'
    BY <1>1 DEF PassServesAll
  <2>1. CASE d = depth
    BY <2>1, <1>1, <1>2 DEF PassServes, InPass
  <2>2. CASE d # depth
    BY <2>2, <1>2, PassKept DEF PassServes, InPass
  <2> QED
    BY <2>1, <2>2
<1> QED
  BY <1>3, <1>4, <1>5, <1>6 DEF IInv

LEMMA GotoInv ==
  ASSUME IInv, TableInv', TableForward, depth > 0, NEW f \in Frame, Goto(f),
         UNCHANGED <<clock, open>>, jobs' \in Nat,
         f.op = Top.op, f.op = "eval" => f.limit = Top.limit,
         f.now <= clock, Top.op # "global", f.pc # "report",
         f.pc \in {"head", "one"} => f.op = "await",
         f.pc = "timer" => f.i \in Slots /\ (f.op # "await" => f.progress),
         f.pc = "pass" /\ f.op # "await" /\ ~f.progress => f.i = 1 /\ jobs' = 0,
         f.pc \in {"pass", "timer"} =>
           \A s \in Active' : s < f.i => timers'[s].fire_time_ms >= f.now
  PROVE  IInv'
BY ChangeInv DEF Goto

(* The exception is to be reported. *)
LEMMA ReportInv ==
  ASSUME IInv, depth > 0, Report, UNCHANGED <<tableVars, clock, jobs, open>>
  PROVE  IInv'
<1> DEFINE f == [NoFrame EXCEPT !.op = Top.op, !.wait = Top.wait, !.pc = "report"]
<1>1. Top \in Frame /\ clock \in Nat /\ jobs \in Nat
  BY EnvironmentAssumption DEF IInv, StackTypeOK, Top, Frames
<1>2. TableInv' /\ TableForward
  BY UnchangedForward DEF IInv
<1>3. f \in Frame /\ f.op = Top.op /\ f.pc = "report" /\ f.limit = 0 /\ f.now = 0
  BY <1>1 DEF Frame, NoFrame, Pcs, NoTimer
<1>4. /\ frame' = [frame EXCEPT ![depth] = f] /\ depth' = depth
      /\ deadline' = 0 \/ (deadline' = deadline /\ f.op # "eval")
  BY <1>3 DEF Report
<1> HIDE DEF f
<1>5. f.now <= clock /\ jobs' \in Nat /\ clock' = clock /\ open' = open
  BY <1>1, <1>3
<1>6. deadline' = 0 \/ (deadline' = deadline /\ (f.op = "eval" => f.limit = Top.limit))
  BY <1>4
<1> QED
  BY <1>2, <1>3, <1>4, <1>5, <1>6, ChangeInv

(* Going back to the caller. *)
LEMMA PopInv ==
  ASSUME IInv, depth > 0, Pop, UNCHANGED <<tableVars, clock, jobs, open>>,
         \/ deadline' = 0
         \/ (deadline' = deadline /\ ~(Top.op = "eval" /\ Top.limit = deadline))
  PROVE  IInv'
<1>1. /\ depth \in 1..MaxDepth /\ MaxDepth \in Nat /\ deadline \in Nat
      /\ frame \in [Frames -> Frame]
      /\ frame' = [frame EXCEPT ![depth] = NoFrame]
      /\ depth' = depth - 1
  BY EnvironmentAssumption DEF IInv, StackTypeOK, Pop
<1>2. \A d \in 1..depth' : /\ d \in 1..depth /\ d # depth /\ d < depth
                           /\ frame'[d] = frame[d] /\ frame[d] \in Frame
  BY <1>1 DEF Frames
<1>3. TableInv' /\ TableForward
  BY UnchangedForward DEF IInv
<1>4. StackTypeOK'
  <2>1. NoFrame \in Frame
    BY DEF NoFrame, Frame, AllOps, Pcs, NoTimer
  <2>2. deadline' \in Nat
    BY <1>1
  <2>3. frame' \in [Frames -> Frame]
    BY <1>1, <2>1
  <2>4. depth' \in 0..MaxDepth
    BY <1>1
  <2> QED
    BY <2>2, <2>3, <2>4 DEF IInv, StackTypeOK
<1>5. StackOK'
  <2> SUFFICES ASSUME NEW d \in 1..depth' PROVE FrameOK(d)'
    BY DEF StackOK
  <2>1. FrameOK(d)
    BY <1>2 DEF IInv, StackOK
  <2> QED
    BY <2>1, <1>1, <1>2 DEF FrameOK, JSPcs
<1>6. DeadlineOwned'
  <2> SUFFICES ASSUME deadline > 0, deadline' = deadline,
                      ~(Top.op = "eval" /\ Top.limit = deadline)
               PROVE  \E d \in 1..depth' : frame'[d].op = "eval" /\ frame'[d].limit = deadline
    BY DEF DeadlineOwned
  <2>1. PICK d \in 1..depth : frame[d].op = "eval" /\ frame[d].limit = deadline
    BY DEF IInv, DeadlineOwned
  <2>2. d \in 1..depth'
    BY <2>1, <1>1 DEF Top
  <2> QED
    BY <2>1, <2>2, <1>2
<1>7. PassServesAll'
  <2> SUFFICES ASSUME NEW d \in 1..depth' PROVE PassServes(d)'
    BY DEF PassServesAll
  <2> QED
    BY <1>2, <1>3, PassKept DEF PassServes, InPass
<1> QED
  BY <1>3, <1>4, <1>5, <1>6, <1>7 DEF IInv

LEMMA ReturnInv ==
  ASSUME IInv, depth > 0, Return, UNCHANGED <<tableVars, clock, jobs, open>>
  PROVE  IInv'
BY PopInv DEF Return

LEMMA ReportReturnsInv ==
  ASSUME IInv, ReportReturns
  PROVE  IInv'
<1>1. /\ depth > 0 /\ Top.pc = "report" /\ Pop /\ deadline' = deadline
      /\ UNCHANGED <<tableVars, clock, jobs, open>>
  BY DEF ReportReturns, At
<1>2. Top.limit = 0
  BY <1>1, EnvironmentAssumption DEF IInv, StackTypeOK, StackOK, FrameOK, Top
<1> QED
  BY <1>1, <1>2, PopInv

(* Opening an entry point: the caller, if there is one, is JavaScript. *)
LEMMA EnterInv ==
  ASSUME IInv, NEW op \in AllOps, NEW wait \in Nat, Enter(op, wait)
  PROVE  IInv'
<1> DEFINE f == Opening(op, wait)
<1>1. /\ depth \in 0..MaxDepth /\ MaxDepth \in Nat /\ deadline \in Nat /\ clock \in Nat
      /\ frame \in [Frames -> Frame]
      /\ depth + 1 \in Frames /\ depth' = depth + 1
      /\ frame' = [frame EXCEPT ![depth + 1] = f]
      /\ UNCHANGED <<tableVars, clock, jobs, open>>
  BY EnvironmentAssumption DEF IInv, StackTypeOK, Enter, Frames
<1>2. Limit(wait) \in Nat
  BY <1>1 DEF Limit
<1>3. /\ f \in Frame /\ f.op = op /\ f.now = 0 /\ f.pc \in {"script", "jobs"}
      /\ op = "eval" => f.limit = Limit(wait)
      /\ op = "global" => f.pc = "script"
  BY <1>2 DEF Opening, NoFrame, Frame, AllOps, Pcs, NoTimer
<1> HIDE DEF f
<1>4. TableInv' /\ TableForward
  BY <1>1, UnchangedForward DEF IInv
<1>5. deadline' = IF op = "eval" THEN Limit(wait) ELSE IF op = "call" THEN 0 ELSE deadline
  BY DEF Enter
<1>6. \A d \in 1..depth' : \/ d = depth' /\ frame'[d] = f
                           \/ d \in 1..depth /\ d < depth' /\ frame'[d] = frame[d]
  BY <1>1 DEF Frames
<1>7. StackTypeOK'
  <2>1. frame' \in [Frames -> Frame]
    BY <1>1, <1>3
  <2>2. deadline' \in Nat
    BY <1>1, <1>2, <1>5
  <2>3. depth' \in 0..MaxDepth
    BY <1>1 DEF Frames
  <2> QED
    BY <1>1, <2>1, <2>2, <2>3 DEF IInv, StackTypeOK
<1>8. StackOK'
  <2> SUFFICES ASSUME NEW d \in 1..depth' PROVE FrameOK(d)'
    BY DEF StackOK
  <2>1. CASE d = depth' /\ frame'[d] = f
    BY <2>1, <1>1, <1>3 DEF FrameOK
  <2>2. CASE d \in 1..depth /\ d < depth' /\ frame'[d] = frame[d]
    <3>1. FrameOK(d)
      BY <2>2 DEF IInv, StackOK
    <3>2. frame[d].pc \in JSPcs
      <4>1. CASE d < depth
        BY <3>1, <4>1 DEF FrameOK
      <4>2. CASE d = depth
        BY <4>2, <2>2, <1>1 DEF Enter, RunsJS, Top
      <4> QED
        BY <2>2, <1>1, <4>1, <4>2
    <3> QED
      BY <2>2, <3>1, <3>2, <1>1 DEF FrameOK, JSPcs
  <2> QED
    BY <1>6, <2>1, <2>2
<1>9. DeadlineOwned'
  <2>1. depth' \in 1..depth'
    BY <1>1
  <2>2. CASE op = "eval"
    BY <2>1, <2>2, <1>3, <1>5, <1>6 DEF DeadlineOwned
  <2>3. CASE op = "call"
    BY <2>3, <1>5 DEF DeadlineOwned
  <2>4. CASE op # "eval" /\ op # "call"
    <3> SUFFICES ASSUME deadline > 0
                 PROVE  \E d \in 1..depth' : frame'[d].op = "eval" /\ frame'[d].limit = deadline
      BY <2>4, <1>5 DEF DeadlineOwned
    <3>1. PICK d \in 1..depth : frame[d].op = "eval" /\ frame[d].limit = deadline
      BY DEF IInv, DeadlineOwned
    <3>2. d \in 1..depth' /\ frame'[d] = frame[d]
      BY <1>1 DEF Frames
    <3> QED
      BY <3>1, <3>2
  <2> QED
    BY <2>2, <2>3, <2>4
<1>10. PassServesAll'
  <2> SUFFICES ASSUME NEW d \in 1..depth' PROVE PassServes(d)'
    BY DEF PassServesAll
  <2>1. CASE d = depth' /\ frame'[d] = f
    BY <2>1, <1>3 DEF PassServes, InPass
  <2>2. CASE d \in 1..depth /\ d < depth' /\ frame'[d] = frame[d]
    <3>1. frame[d] \in Frame
      BY <2>2, <1>1 DEF Frames
    <3> QED
      BY <3>1, <2>2, <1>4, PassKept DEF PassServes, InPass
  <2> QED
    BY <1>6, <2>1, <2>2
<1> QED
  BY <1>4, <1>7, <1>8, <1>9, <1>10 DEF IInv

-----------------------------------------------------------------------------

(* What is known of the frame of the innermost entry point. *)
LEMMA TopFacts ==
  ASSUME IInv, depth > 0
  PROVE  /\ depth \in 1..depth /\ Top \in Frame /\ FrameOK(depth) /\ PassServes(depth)
         /\ clock \in Nat /\ jobs \in Nat /\ deadline \in Nat
         /\ timers \in [Slots -> Entry]
  BY EnvironmentAssumption
     DEF IInv, StackTypeOK, Frames, StackOK, PassServesAll, Top, TableInv, TableTypeOK

(* Moving the innermost entry point out of any pass, the table untouched. *)
LEMMA MoveInv ==
  ASSUME IInv, depth > 0, NEW f \in Frame, Goto(f),
         UNCHANGED <<tableVars, clock, open>>, jobs' \in Nat,
         f.op = Top.op, f.op = "eval" => f.limit = Top.limit, f.now <= clock,
         Top.op # "global", f.pc \notin {"pass", "timer", "report"}, f.pc \in {"head", "one"} => f.op = "await"
  PROVE  IInv'
<1>1. TableInv' /\ TableForward
  BY UnchangedForward DEF IInv
<1> QED
  BY <1>1, GotoInv

LEMMA JobsStopInv ==
  ASSUME IInv, depth > 0, Top.op # "global", JobsStop, UNCHANGED <<tableVars, clock, jobs, open>>
  PROVE  IInv'
<1>1. CASE Top.op = "call"
  <2> DEFINE f == [Top EXCEPT !.pc = "result"]
  <2>1. Top \in Frame /\ Top.now <= clock /\ jobs \in Nat
    BY TopFacts DEF FrameOK, Top
  <2>2. f \in Frame /\ f.op = Top.op /\ f.limit = Top.limit /\ f.now = Top.now /\ f.pc = "result"
    BY <2>1 DEF Frame, Pcs
  <2>3. Goto(f)
    BY <1>1 DEF JobsStop
  <2> QED
    BY <2>1, <2>2, <2>3, MoveInv
<1>2. CASE Top.op # "call"
  BY <1>2, ReturnInv, ReportInv DEF JobsStop
<1> QED
  BY <1>1, <1>2

(* JavaScript is back: script, job, timer callback, result or report. *)
LEMMA JSReturnsInv == ASSUME IInv, JSReturns PROVE IInv'
<1>1. CASE ScriptReturns
  <2>1. depth > 0 /\ UNCHANGED <<tableVars, clock, jobs, open>>
    BY <1>1 DEF ScriptReturns, At
  <2>2. Top \in Frame /\ Top.now <= clock /\ jobs \in Nat /\ clock \in Nat
    BY <2>1, TopFacts DEF FrameOK, Top
  <2>3. Limit(Top.wait) \in Nat
    BY <2>2 DEF Limit, Frame
  <2>4. CASE Top.op = "global"
    BY <1>1, <2>1, <2>4, ReturnInv DEF ScriptReturns
  <2>5. CASE Top.op # "global"
    <3>1. PICK f \in {[Top EXCEPT !.pc = "head", !.limit = Limit(Top.wait)],
                      [Top EXCEPT !.pc = "result"], [Top EXCEPT !.pc = "jobs"]} :
               /\ Goto(f) /\ (f.op = "eval" => f.limit = Top.limit)
               /\ f.pc = "head" => f.op = "await"
      BY <1>1, <2>2, <2>5 DEF ScriptReturns, Frame
    <3>2. /\ f \in Frame /\ f.op = Top.op /\ f.now = Top.now
          /\ f.pc \notin {"pass", "timer", "one", "report"}
      BY <2>2, <2>3 DEF Frame, Pcs
    <3> QED
      BY <2>1, <2>2, <2>5, <3>1, <3>2, MoveInv
  <2> QED
    BY <2>4, <2>5
<1>2. CASE ScriptThrows \/ ResultReturns \/ ResultThrows
  BY <1>2, ReturnInv, ReportInv DEF ScriptThrows, ResultReturns, ResultThrows, At
<1>3. CASE JobFails
  <2>1. depth > 0 /\ Top.op # "global"
    BY <1>3, TopFacts DEF JobFails, At, FrameOK, Top
  <2> QED
    BY <1>3, <2>1, JobsStopInv DEF JobFails
<1>4. CASE JobReturns
  <2>1. depth > 0 /\ UNCHANGED <<tableVars, clock, jobs, open>>
    BY <1>4 DEF JobReturns, At
  <2>2. /\ Top \in Frame /\ Top.op \in AllOps \ {"global"}
        /\ Top.now <= clock /\ jobs \in Nat
    BY <1>4, <2>1, TopFacts DEF FrameOK, Top, JobReturns, At
  <2>3. CASE JobsStop
    BY <2>1, <2>2, <2>3, JobsStopInv
  <2>4. CASE ~JobsStop
    <3>1. PICK f \in {[Top EXCEPT !.pc = "jobs"], [Top EXCEPT !.pc = "head"],
                      [Top EXCEPT !.pc = "jobs", !.progress = TRUE]} :
               Goto(f) /\ (f.pc = "head" => f.op = "await")
      BY <1>4, <2>2, <2>4 DEF JobReturns, AllOps, Frame
    <3>2. /\ f \in Frame /\ f.op = Top.op /\ f.limit = Top.limit /\ f.now = Top.now
          /\ f.pc \notin {"pass", "timer", "one", "report"}
      <4>1. CASE f = [Top EXCEPT !.pc = "jobs"]
        BY <2>2, <4>1 DEF Frame, Pcs
      <4>2. CASE f = [Top EXCEPT !.pc = "head"]
        BY <2>2, <4>2 DEF Frame, Pcs
      <4>3. CASE f = [Top EXCEPT !.pc = "jobs", !.progress = TRUE]
        BY <2>2, <4>3 DEF Frame, Pcs
      <4> QED
        BY <3>1, <4>1, <4>2, <4>3
    <3> QED
      BY <2>1, <2>2, <3>1, <3>2, MoveInv
  <2> QED
    BY <2>3, <2>4
<1>5. CASE TimerReturns
  <2> DEFINE f == [Top EXCEPT !.pc = "pass", !.i = Top.i + 1,
                              !.called = NoTimer, !.callee = Undefined]
  <2>1. /\ depth > 0 /\ UNCHANGED <<clock, jobs, open>> /\ Top.pc = "timer"
        /\ after_callback(Top.i, Top.now) /\ Goto(f)
    BY <1>5 DEF TimerReturns, At
  <2>2. /\ Top \in Frame /\ Top.now <= clock /\ jobs \in Nat /\ Top.i \in Slots
        /\ Top.op # "await" => Top.progress
        /\ Top.op # "global"
    BY <2>1, TopFacts DEF FrameOK, Top
  <2>3. Top.now \in Nat /\ Top.i \in Nat
    BY <2>2 DEF Frame
  <2>4. /\ f \in Frame /\ f.op = Top.op /\ f.limit = Top.limit /\ f.now = Top.now
        /\ f.pc = "pass" /\ f.i = Top.i + 1 /\ f.progress = Top.progress
    <3>1. Top.i + 1 \in Nat /\ NoTimer \in Nat \cup {NoTimer}
      BY <2>3
    <3>2. f \in Frame
      BY <2>2, <3>1 DEF Frame, Pcs
    <3> QED
      BY <2>2, <3>2 DEF Frame
  <2> HIDE DEF f
  <2>5. TableInv'
    BY <2>1, <2>2, <2>3, AfterCallbackInv DEF IInv
  <2>6. /\ TableForward
        /\ Top.i \in Active' => timers'[Top.i].fire_time_ms >= Top.now
        /\ \A r \in Active' \ {Top.i} : r \in Active /\ timers'[r] = timers[r]
    BY <2>1, <2>2, <2>3, AfterCallbackForward DEF IInv
  <2>7. \A s \in Active' : s < Top.i + 1 => timers'[s].fire_time_ms >= Top.now
    <3> SUFFICES ASSUME NEW s \in Active', s < Top.i + 1
                 PROVE  timers'[s].fire_time_ms >= Top.now
      OBVIOUS
    <3>1. CASE s = Top.i
      BY <2>6, <3>1
    <3>2. CASE s # Top.i
      <4>1. s \in Active /\ timers'[s] = timers[s]
        BY <2>6, <3>2
      <4>2. s \in Int
        BY MaxTimersAssumption DEF Active, Slots
      <4>3. s < Top.i
        BY <2>3, <3>2, <4>2
      <4>4. PassServes(depth)
        BY <2>1, TopFacts
      <4> QED
        BY <2>1, <4>1, <4>3, <4>4 DEF PassServes, InPass, Top
    <3> QED
      BY <3>1, <3>2
  <2> QED
    BY <2>1, <2>2, <2>4, <2>5, <2>6, <2>7, GotoInv
<1> QED
  BY <1>1, <1>2, <1>3, <1>4, <1>5, ReportReturnsInv DEF JSReturns

(* The native code goes on: jobs, passes over the timers, the await loop. *)
LEMMA EngineStepInv == ASSUME IInv, EngineStep PROVE IInv'
<1>0. depth > 0 /\ UNCHANGED <<tableVars, clock, open>>
  BY DEF EngineStep, StartJob, JobsEmpty, PassCalls, DrainPassEnds, LoopPassEnds,
         AwaitPassEnds, AwaitHead, AwaitIdle, PassDone, At
<1>1. /\ Top \in Frame /\ Top.now <= clock /\ jobs \in Nat /\ clock \in Nat
      /\ Top.now \in Nat /\ Top.i \in Nat /\ timers \in [Slots -> Entry]
  BY <1>0, TopFacts DEF FrameOK, Top, Frame
<1>2. TableInv' /\ TableForward /\ Active' = Active /\ timers' = timers
  BY <1>0, UnchangedForward DEF IInv, tableVars
<1>13. Top.op # "global"
  <2>1. Top.pc \notin {"script", "report"}
    BY DEF EngineStep, StartJob, JobsEmpty, PassCalls, DrainPassEnds, LoopPassEnds,
           AwaitPassEnds, AwaitHead, AwaitIdle, PassDone, At
  <2> QED
    BY <1>0, <2>1, TopFacts DEF FrameOK, Top
<1>3. ASSUME NEW pc \in Pcs \ {"pass", "timer", "report"}, Goto([Top EXCEPT !.pc = pc]), jobs' \in Nat,
             pc \in {"head", "one"} => Top.op = "await"
      PROVE  IInv'
  <2> DEFINE f == [Top EXCEPT !.pc = pc]
  <2>1. f \in Frame /\ f.op = Top.op /\ f.limit = Top.limit /\ f.now = Top.now /\ f.pc = pc
    BY <1>1 DEF Frame
  <2> QED
    BY <1>0, <1>1, <1>3, <1>13, <2>1, MoveInv
<1>4. ASSUME NEW pc \in Pcs \ {"pass", "timer", "report"}, Goto(EndPass(Top, pc)), jobs' = jobs,
             pc \in {"head", "one"} => Top.op = "await"
      PROVE  IInv'
  <2> DEFINE f == EndPass(Top, pc)
  <2>1. f \in Frame /\ f.op = Top.op /\ f.limit = Top.limit /\ f.now = 0 /\ f.pc = pc
    BY <1>1 DEF Frame, EndPass
  <2>2. Goto(f)
    BY <1>4
  <2> HIDE DEF f
  <2> QED
    BY <1>0, <1>1, <1>4, <1>13, <2>1, <2>2, MoveInv
<1>5. ASSUME Goto(StartPass(Top)), jobs' = jobs, Top.op = "await" \/ jobs = 0
      PROVE  IInv'
  <2> DEFINE f == StartPass(Top)
  <2>1. /\ f \in Frame /\ f.op = Top.op /\ f.limit = Top.limit /\ f.now = clock
        /\ f.pc = "pass" /\ f.i = 1
    BY <1>1 DEF Frame, Pcs, StartPass
  <2>2. \A s \in Active' : ~(s < f.i)
    BY <2>1, MaxTimersAssumption DEF Active, Slots
  <2>3. Goto(f)
    BY <1>5
  <2> HIDE DEF f
  <2> QED
    BY <1>0, <1>1, <1>2, <1>5, <1>13, <2>1, <2>2, <2>3, GotoInv
<1>6. CASE StartJob
  <2>1. jobs' \in Nat
    BY <1>1, <1>6 DEF StartJob
  <2> QED
    BY <1>3, <1>6, <2>1 DEF StartJob, Pcs
<1>7. CASE JobsEmpty
  <2>1. CASE Return
    BY <1>0, <1>7, <2>1, ReturnInv DEF JobsEmpty
  <2>2. CASE Goto([Top EXCEPT !.pc = "result"])
    BY <1>1, <1>3, <1>7, <2>2 DEF JobsEmpty, Pcs
  <2>3. CASE Goto(StartPass(Top))
    BY <1>5, <1>7, <2>3 DEF JobsEmpty
  <2> QED
    BY <1>7, <2>1, <2>2, <2>3 DEF JobsEmpty
<1>8. CASE PassCalls
  <2>1. PICK s \in Slots :
          /\ IsNextDue(s, Top.i, Top.now)
          /\ Goto([Top EXCEPT !.pc = "timer", !.i = s, !.progress = Top.op # "await",
                              !.called = timers[s].id, !.callee = timers[s].callback])
    BY <1>8 DEF PassCalls
  <2> DEFINE f == [Top EXCEPT !.pc = "timer", !.i = s, !.progress = Top.op # "await",
                              !.called = timers[s].id, !.callee = timers[s].callback]
  <2>2. s \in Nat /\ timers[s] \in Entry
    BY <1>1, MaxTimersAssumption DEF Slots
  <2>3. /\ f \in Frame /\ f.op = Top.op /\ f.limit = Top.limit /\ f.now = Top.now
        /\ f.pc = "timer" /\ f.i = s /\ f.progress = (Top.op # "await")
    BY <1>1, <2>2 DEF Frame, Entry, Pcs
  <2>4. Goto(f) /\ jobs' = jobs
    BY <1>8, <2>1 DEF PassCalls
  <2> HIDE DEF f
  <2>5. \A r \in Active : r < s => timers[r].fire_time_ms >= Top.now
    <3> SUFFICES ASSUME NEW r \in Active, r < s
                 PROVE  timers[r].fire_time_ms >= Top.now
      OBVIOUS
    <3>1. r \in Slots /\ r \in Int /\ timers[r].fire_time_ms \in Nat
      BY <1>1, MaxTimersAssumption DEF Active, Slots, Entry
    <3>2. CASE r < Top.i
      BY <1>0, <1>8, <3>2, TopFacts DEF PassServes, InPass, Top, PassCalls, At
    <3>3. CASE Top.i <= r
      BY <1>1, <2>1, <3>1, <3>3 DEF IsNextDue, Due
    <3> QED
      BY <1>1, <3>1, <3>2, <3>3
  <2> QED
    BY <1>0, <1>1, <1>2, <1>13, <2>3, <2>4, <2>5, GotoInv
<1>9. CASE DrainPassEnds \/ LoopPassEnds
  <2>1. CASE Return
    BY <1>0, <1>9, <2>1, ReturnInv DEF DrainPassEnds, LoopPassEnds
  <2>2. CASE ~Return
    BY <1>4, <1>9, <2>2 DEF DrainPassEnds, LoopPassEnds, Pcs
  <2> QED
    BY <2>1, <2>2
<1>10. CASE AwaitPassEnds
  BY <1>4, <1>10 DEF AwaitPassEnds, Pcs
<1>11. CASE AwaitHead
  <2>3. Top.op = "await"
    BY <1>0, <1>11, TopFacts DEF AwaitHead, At, FrameOK, Top
  <2>1. CASE Top.settled
    BY <1>1, <1>3, <1>11, <2>1 DEF AwaitHead, Pcs
  <2>2. CASE ~Top.settled
    BY <1>5, <1>11, <2>2, <2>3 DEF AwaitHead
  <2> QED
    BY <2>1, <2>2, <2>3
<1>12. CASE AwaitIdle
  <2>0. Top.op = "await"
    BY <1>0, <1>12, TopFacts DEF AwaitIdle, At, FrameOK, Top
  <2>1. CASE Return
    BY <1>0, <1>12, <2>1, ReturnInv DEF AwaitIdle
  <2>2. CASE ~Return
    BY <1>1, <1>3, <1>12, <2>0, <2>2 DEF AwaitIdle, Pcs
  <2> QED
    BY <2>1, <2>2
<1> QED
  BY <1>6, <1>7, <1>8, <1>9, <1>10, <1>11, <1>12 DEF EngineStep

(* What running JavaScript does to the engine. *)
LEMMA JSActsInv == ASSUME IInv, JSActs PROVE IInv'
<1>0. /\ depth > 0 /\ Top.pc \in JSPcs
      /\ UNCHANGED <<clock, deadline, depth, open>>
  BY DEF JSActs, SetTimer, ClearTimer, QueueJob, Settle, RunsJS, stackVars
<1>1. /\ TableInv /\ StackTypeOK /\ clock \in Nat /\ jobs \in Nat
      /\ open \in BOOLEAN /\ depth \in 1..MaxDepth /\ MaxDepth \in Nat
  BY <1>0, EnvironmentAssumption DEF IInv, StackTypeOK
<1>2. CASE SetTimer
  <2>1. PICK f \in Fns, delay \in Delays, rep \in Repeats : set_timer(f, delay, rep, clock)
    BY <1>2 DEF SetTimer
  <2>2. delay \in Nat /\ rep \in BOOLEAN
    BY EnvironmentAssumption
  <2>3. TableInv' /\ TableForward
    BY <1>1, <2>1, <2>2, SetTimerInv, SetTimerForward
  <2> QED
    BY <1>0, <1>1, <1>2, <2>3, StillInv DEF SetTimer, stackVars
<1>3. CASE ClearTimer
  <2>1. TableInv' /\ TableForward
    BY <1>1, <1>3, ClearTimerInv, ClearTimerForward DEF ClearTimer
  <2> QED
    BY <1>0, <1>1, <1>3, <2>1, StillInv DEF ClearTimer, stackVars
<1>4. CASE QueueJob
  <2>1. TableInv' /\ TableForward
    BY <1>1, <1>4, UnchangedForward DEF QueueJob
  <2>2. jobs' \in Nat
    BY <1>1, <1>4 DEF QueueJob
  <2> QED
    BY <1>0, <1>1, <1>4, <2>1, <2>2, StillInv DEF QueueJob, stackVars
<1>5. CASE Settle
  <2>1. PICK e \in 1..depth : frame' = [frame EXCEPT ![e].settled = TRUE]
    BY <1>5 DEF Settle
  <2>2. TableInv' /\ UNCHANGED <<tableVars, jobs>> /\ Active' = Active /\ timers' = timers
    BY <1>1, <1>5, UnchangedForward DEF Settle, tableVars
  <2>3. frame \in [Frames -> Frame] /\ e \in Frames
    BY <1>1 DEF StackTypeOK, Frames
  <2>4. frame' \in [Frames -> Frame]
    <3>1. [frame[e] EXCEPT !.settled = TRUE] \in Frame
      BY <2>3 DEF Frame
    <3> QED
      BY <2>1, <2>3, <3>1
  <2>5. \A d \in 1..depth : /\ frame'[d].op = frame[d].op /\ frame'[d].pc = frame[d].pc
                            /\ frame'[d].now = frame[d].now /\ frame'[d].i = frame[d].i
                            /\ frame'[d].progress = frame[d].progress
                            /\ frame'[d].limit = frame[d].limit
    BY <1>1, <2>1, <2>3, SMTT(30) DEF Frames, Frame
  <2>6. StackTypeOK'
    BY <1>0, <1>1, <2>2, <2>4 DEF StackTypeOK
  <2>7. StackOK'
    BY <1>0, <2>2, <2>5 DEF IInv, StackOK, FrameOK
  <2>8. DeadlineOwned'
    BY <1>0, <2>5 DEF IInv, DeadlineOwned
  <2>9. PassServesAll'
    BY <1>0, <2>2, <2>5 DEF IInv, PassServesAll, PassServes, InPass
  <2> QED
    BY <2>2, <2>6, <2>7, <2>8, <2>9 DEF IInv
<1> QED
  BY <1>2, <1>3, <1>4, <1>5 DEF JSActs

(* The inductive step. *)
LEMMA NextInv == IInv /\ [Next]_vars => IInv'
<1> SUFFICES ASSUME IInv, [Next]_vars PROVE IInv'
  OBVIOUS
<1>1. /\ TableInv /\ StackTypeOK /\ clock \in Nat /\ jobs \in Nat
      /\ open \in BOOLEAN
  BY DEF IInv, StackTypeOK
<1>2. CASE Tick
  <2>1. clock' \in Nat /\ clock <= clock'
    BY <1>1, <1>2 DEF Tick
  <2> QED
    BY <1>1, <1>2, <2>1, UnchangedForward, StillInv DEF Tick, stackVars
<1>3. CASE EnterSome
  <2>1. PICK op \in Ops, wait \in Waits \cup {0} : Enter(op, wait)
    BY <1>3 DEF EnterSome
  <2>2. op \in AllOps /\ wait \in Nat
    BY EnvironmentAssumption
  <2> QED
    BY <2>1, <2>2, EnterInv
<1>4. CASE Close
  <2>1. TableInv' /\ Active' = {}
    BY <1>1, <1>4, FreeAllInv DEF Close, free_all_timers, Active, TableInv, TableTypeOK, Entry
  <2>2. TableForward
    BY <2>1 DEF TableForward
  <2>3. UNCHANGED <<clock, depth, frame, deadline>> /\ depth = 0 /\ jobs' = 0 /\ open' = FALSE
    BY <1>4 DEF Close, stackVars
  <2>4. clock' = clock
    BY <2>3
  <2>5. clock <= clock
    BY <1>1
  <2>6. clock' \in Nat /\ clock <= clock' /\ jobs' \in Nat /\ open' \in BOOLEAN
    BY <1>1, <2>3, <2>4, <2>5
  <2> QED
    BY <2>1, <2>2, <2>3, <2>6, StillInv
<1>5. CASE CallWhenClosed \/ UNCHANGED vars
  BY <1>1, <1>5, UnchangedForward, StillInv DEF CallWhenClosed, vars, tableVars
<1> QED
  BY <1>2, <1>3, <1>4, <1>5, JSActsInv, JSReturnsInv, EngineStepInv DEF Next

(* The inductive invariant holds however entry points nest and callbacks   *)
(* treat the timers (qjs_timer.c:81-246).                                   *)
THEOREM Invariance == Spec => []IInv
  BY InitInv, NextInv, PTL DEF Spec

(* Types of every variable, for every value of the constants. *)
THEOREM TypeCorrect == Spec => []TypeOK
<1>1. IInv => TypeOK
  BY DEF IInv, TableInv, StackTypeOK, TypeOK
<1> QED
  BY <1>1, Invariance, PTL

(* clearTimeout(id) never finds another timer than the one with that id. *)
THEOREM IdsAreUnique == Spec => []UniqueIds
<1>1. IInv => UniqueIds
  BY DEF IInv, TableInv
<1> QED
  BY <1>1, Invariance, PTL

(* No function reference of the timer table is leaked or freed twice, with  *)
(* callbacks that clear or replace their own timers and entry points nested *)
(* to any depth.                                                            *)
THEOREM ReferencesBalance == Spec => []RefBalance
<1>1. IInv => RefBalance
  BY DEF IInv, TableInv
<1> QED
  BY <1>1, Invariance, PTL

(* No deadline outlives the eval that armed it. *)
THEOREM DeadlinesAreOwned == Spec => []DeadlineOwned
<1>1. IInv => DeadlineOwned
  BY DEF IInv
<1> QED
  BY <1>1, Invariance, PTL

(* No pass leaves a due timer behind, however passes nest. *)
THEOREM PassesServeAll == Spec => []PassServesAll
<1>1. IInv => PassServesAll
  BY DEF IInv
<1> QED
  BY <1>1, Invariance, PTL

(* drainJobs and runEventLoop return normally only when nothing is left.  A *)
(* pass that made no progress has called no callback since the queue of     *)
(* jobs was found empty, so what the pass saw still holds (StackOK).        *)
THEOREM ReturnsAreQuiet == Spec => QuietReturn
<1> DEFINE A == (At("pass") /\ depth' < depth) =>
                  IF Top.op = "loop"
                  THEN Passed(Top.limit) \/ (jobs = 0 /\ Active = {})
                  ELSE jobs = 0 /\ \A s \in Slots : ~Due(s, Top.now)
<1>1. IInv /\ [Next]_vars => A
  <2> SUFFICES ASSUME IInv, [Next]_vars, At("pass"), depth' < depth
               PROVE  IF Top.op = "loop"
                      THEN Passed(Top.limit) \/ (jobs = 0 /\ Active = {})
                      ELSE jobs = 0 /\ \A s \in Slots : ~Due(s, Top.now)
    OBVIOUS
  <2>1. depth \in Nat /\ depth > 0 /\ Top.pc = "pass"
    BY EnvironmentAssumption DEF IInv, StackTypeOK, At
  <2>2. Top.op # "await" /\ ~Top.progress => Top.i = 1 /\ jobs = 0
    BY <2>1, TopFacts DEF FrameOK, Top
  <2>3. DrainPassEnds \/ LoopPassEnds
    <3>0. depth' # depth /\ depth' # depth + 1
      BY <2>1
    <3>1. ~(Tick \/ EnterSome \/ Close \/ CallWhenClosed \/ UNCHANGED vars)
      BY <3>0 DEF Tick, EnterSome, Enter, Close, CallWhenClosed, vars, stackVars
    <3>2. ~JSActs
      BY <2>1 DEF JSActs, SetTimer, ClearTimer, QueueJob, Settle, stackVars
    <3>3. ~JSReturns
      BY <2>1 DEF JSReturns, ScriptReturns, ScriptThrows, JobReturns, JobFails,
                  TimerReturns, ResultReturns, ResultThrows, ReportReturns, At
    <3>4. ~(StartJob \/ JobsEmpty \/ PassCalls \/ AwaitPassEnds \/ AwaitHead \/ AwaitIdle)
      BY <2>1, <3>0 DEF StartJob, JobsEmpty, PassCalls, AwaitPassEnds, AwaitHead, AwaitIdle, At, Goto
    <3> QED
      BY <3>1, <3>2, <3>3, <3>4 DEF Next, EngineStep
  <2>4. CASE DrainPassEnds
    <3>1. ~Top.progress /\ Top.op = "drain" /\ PassDone
      BY <2>1, <2>4 DEF DrainPassEnds, Goto
    <3>2. \A s \in Slots : ~Due(s, Top.now)
      BY <2>2, <3>1, MaxTimersAssumption DEF PassDone, Slots
    <3> QED
      BY <2>2, <3>1, <3>2
  <2>5. CASE LoopPassEnds
    BY <2>1, <2>2, <2>5 DEF LoopPassEnds, Goto, has_active_timers
  <2> QED
    BY <2>3, <2>4, <2>5
<1>2. Spec => [][A]_vars
  BY <1>1, Invariance, PTL DEF Spec
<1> QED
  BY <1>2 DEF QuietReturn

-----------------------------------------------------------------------------
(* Who frees a function that is being called *)

(* The timer that a frame calls is found in the slot it was called from, if *)
(* anywhere, and with the function that runs; ids are not given out again.  *)
RunOK(d) ==
  frame[d].pc = "timer" =>
    /\ frame[d].called \in Nat /\ frame[d].called < next_timer_id
    /\ \A s \in Active : timers[s].id = frame[d].called =>
         s = frame[d].i /\ timers[s].callback = frame[d].callee

(* A frame that calls from the slot of an outer call whose timer is still   *)
(* there calls that timer.                                                  *)
SameSlot(d, e) ==
  d < e /\ frame[d].pc = "timer" /\ frame[e].pc = "timer" /\ frame[d].i = frame[e].i /\ Held(d)
    => frame[d].called = frame[e].called

HeldInv ==
  /\ \A d \in 1..depth : RunOK(d)
  /\ \A d, e \in 1..depth : SameSlot(d, e)

(* Entries keep their ids and functions while they are active, and new ones *)
(* have new ids.                                                            *)
TableKeepsIds ==
  /\ next_timer_id' \in Nat /\ next_timer_id' >= next_timer_id
  /\ \A s \in Active' :
       \/ s \in Active /\ timers'[s].id = timers[s].id /\ timers'[s].callback = timers[s].callback
       \/ timers'[s].id >= next_timer_id

(* No frame begins a call. *)
NoNewCall ==
  \A d \in 1..depth' : frame'[d].pc = "timer" =>
    /\ d \in 1..depth /\ frame[d].pc = "timer" /\ frame'[d].i = frame[d].i
    /\ frame'[d].called = frame[d].called /\ frame'[d].callee = frame[d].callee

LEMMA ReleaseKeepsIds ==
  ASSUME TableInv, NEW s \in Slots, Release(s)
  PROVE  /\ TableKeepsIds
         /\ \A r \in Active \ {s} : r \in Active' /\ timers'[r] = timers[r]
<1>1. timers \in [Slots -> Entry] /\ next_timer_id \in Nat
  BY DEF TableInv, TableTypeOK
<1>2. next_timer_id' = next_timer_id
  BY DEF Release
<1>3. \A r \in Slots : r # s => timers'[r] = timers[r]
  BY <1>1 DEF Release
<1>4. ~timers'[s].active
  BY <1>1 DEF Release, Entry
<1> QED
  BY <1>1, <1>2, <1>3, <1>4 DEF TableKeepsIds, Active

LEMMA SetKeepsIds ==
  ASSUME TableInv, clock \in Nat, NEW f \in Fns, NEW delay \in Nat, NEW rep \in BOOLEAN,
         set_timer(f, delay, rep, clock)
  PROVE  TableKeepsIds /\ \A r \in Active : r \in Active' /\ timers'[r] = timers[r]
<1>1. timers \in [Slots -> Entry] /\ next_timer_id \in Nat
  BY DEF TableInv, TableTypeOK
<1>2. CASE UNCHANGED tableVars
  BY <1>1, <1>2 DEF TableKeepsIds, Active, tableVars
<1>3. CASE ~UNCHANGED tableVars
  <2>1. PICK s \in Slots : /\ IsFirstFree(s) /\ next_timer_id' = next_timer_id + 1
                           /\ timers' = [timers EXCEPT ![s] =
                            [id |-> next_timer_id, callback |-> f, delay_ms |-> delay,
                             repeat |-> rep, fire_time_ms |-> clock + delay,
                             active |-> TRUE]]
    BY <1>3 DEF set_timer
  <2>2. s \notin Active /\ timers'[s].id = next_timer_id
    BY <1>1, <2>1 DEF IsFirstFree
  <2>3. \A r \in Slots : r # s => timers'[r] = timers[r]
    BY <1>1, <2>1
  <2> QED
    BY <1>1, <2>1, <2>2, <2>3 DEF TableKeepsIds, Active
<1> QED
  BY <1>2, <1>3

(* The end of a callback releases its slot or leaves ids and functions.     *)
LEMMA AfterCallbackKeepsIds ==
  ASSUME TableInv, NEW s \in Slots, NEW now \in Nat, after_callback(s, now)
  PROVE  /\ TableKeepsIds
         /\ \A r \in Active \ {s} : r \in Active' /\ timers'[r] = timers[r]
<1>1. timers \in [Slots -> Entry] /\ next_timer_id \in Nat
  BY DEF TableInv, TableTypeOK
<1>2. CASE timers[s].repeat
  <2> DEFINE due == Later(timers[s].fire_time_ms + timers[s].delay_ms, now)
  <2>1. timers' = [timers EXCEPT ![s].fire_time_ms = due] /\ next_timer_id' = next_timer_id
    BY <1>2 DEF after_callback
  <2> HIDE DEF due
  <2>2. \A r \in Slots : /\ timers'[r].id = timers[r].id /\ timers'[r].callback = timers[r].callback
                         /\ timers'[r].active = timers[r].active
                         /\ r # s => timers'[r] = timers[r]
    BY <1>1, <2>1 DEF Entry
  <2> QED
    BY <1>1, <2>1, <2>2 DEF TableKeepsIds, Active
<1>3. CASE ~timers[s].repeat
  BY <1>3, ReleaseKeepsIds DEF after_callback
<1> QED
  BY <1>2, <1>3

LEMMA StillKeepsIds ==
  ASSUME TableInv, UNCHANGED tableVars
  PROVE  TableKeepsIds /\ Active' = Active /\ timers' = timers
BY DEF TableInv, TableTypeOK, TableKeepsIds, Active, tableVars

(* What the innermost frame tells about a callback that returns. *)
LEMMA TimerReturnsFacts ==
  ASSUME IInv, TimerReturns
  PROVE  /\ depth \in 1..MaxDepth /\ Top.i \in Slots /\ Top.now \in Nat
         /\ after_callback(Top.i, Top.now) /\ depth' = depth
         /\ frame'[depth].pc = "pass"
         /\ \A d \in 1..depth : d # depth => frame'[d] = frame[d]
<1>1. /\ depth > 0 /\ Top.pc = "timer" /\ after_callback(Top.i, Top.now)
      /\ Goto([Top EXCEPT !.pc = "pass", !.i = @ + 1, !.called = NoTimer, !.callee = Undefined])
  BY DEF TimerReturns, At
<1>2. depth \in 1..MaxDepth /\ MaxDepth \in Nat /\ frame \in [Frames -> Frame]
  BY <1>1, EnvironmentAssumption DEF IInv, StackTypeOK
<1>3. Top \in Frame /\ FrameOK(depth)
  BY <1>1, TopFacts
<1>4. Top.i \in Slots /\ Top.now \in Nat
  BY <1>1, <1>3 DEF FrameOK, Top, Frame
<1>5. /\ depth' = depth /\ frame'[depth].pc = "pass"
      /\ \A d \in 1..depth : d # depth => frame'[d] = frame[d]
  BY <1>1, <1>2, <1>3 DEF Goto, Frames, Frame
<1> QED
  BY <1>1, <1>2, <1>4, <1>5

LEMMA NextKeepsIds == IInv /\ [Next]_vars => TableKeepsIds
<1> SUFFICES ASSUME IInv, [Next]_vars PROVE TableKeepsIds
  OBVIOUS
<1>0. TableInv /\ clock \in Nat /\ timers \in [Slots -> Entry] /\ next_timer_id \in Nat
  BY DEF IInv, StackTypeOK, TableInv, TableTypeOK
<1>1. CASE UNCHANGED tableVars
  BY <1>0, <1>1, StillKeepsIds
<1>2. CASE SetTimer
  <2>1. PICK f \in Fns, delay \in Delays, rep \in Repeats : set_timer(f, delay, rep, clock)
    BY <1>2 DEF SetTimer
  <2>2. delay \in Nat /\ rep \in BOOLEAN
    BY EnvironmentAssumption
  <2> QED
    BY <1>0, <2>1, <2>2, SetKeepsIds
<1>3. CASE ClearTimer
  <2>1. PICK arg \in (0..MaxIds) \cup {Undefined} : js_clear_timer(arg)
    BY <1>3 DEF ClearTimer
  <2>2. UNCHANGED tableVars \/ \E s \in Slots : Release(s)
    BY <2>1, Zenon DEF js_clear_timer
  <2> QED
    BY <1>0, <2>2, ReleaseKeepsIds, StillKeepsIds
<1>4. CASE TimerReturns
  BY <1>0, <1>4, TimerReturnsFacts, AfterCallbackKeepsIds
<1>5. CASE Close
  <2>1. Active' = {} /\ next_timer_id' = next_timer_id
    BY <1>0, <1>5 DEF Close, free_all_timers, Active, Entry
  <2> QED
    BY <1>0, <2>1 DEF TableKeepsIds
<1>6. CASE EnterSome
  <2>1. UNCHANGED tableVars
    BY <1>6 DEF EnterSome, Enter
  <2> QED
    BY <2>1, <1>1
<1>7. CASE \/ Tick \/ CallWhenClosed \/ QueueJob \/ Settle \/ UNCHANGED vars \/ EngineStep
           \/ ScriptReturns \/ ScriptThrows \/ JobReturns \/ JobFails
           \/ ResultReturns \/ ResultThrows \/ ReportReturns
  <2>1. UNCHANGED tableVars
    BY <1>7 DEF Tick, CallWhenClosed, vars, tableVars, QueueJob, Settle, EngineStep,
       StartJob, JobsEmpty, PassCalls, DrainPassEnds, LoopPassEnds, AwaitPassEnds, AwaitHead,
       AwaitIdle, ScriptReturns, ScriptThrows, JobReturns, JobFails, ResultReturns,
       ResultThrows, ReportReturns
  <2> QED
    BY <2>1, <1>1
<1> QED
  BY <1>2, <1>3, <1>4, <1>5, <1>6, <1>7 DEF Next, JSActs, JSReturns

(* A frame that changes to f without beginning a call. *)
LEMMA ChangeNoCall ==
  ASSUME IInv, depth > 0, NEW f, frame' = [frame EXCEPT ![depth] = f], f.pc # "timer",
         depth' = depth
  PROVE  NoNewCall
<1>1. depth \in 1..MaxDepth /\ MaxDepth \in Nat /\ frame \in [Frames -> Frame]
  BY EnvironmentAssumption DEF IInv, StackTypeOK
<1>2. frame'[depth] = f /\ \A d \in 1..depth : d # depth => frame'[d] = frame[d]
  BY <1>1 DEF Frames
<1> QED
  BY <1>1, <1>2 DEF NoNewCall

LEMMA PopNoCall ==
  ASSUME IInv, depth > 0, Pop
  PROVE  NoNewCall
<1>1. depth \in 1..MaxDepth /\ MaxDepth \in Nat /\ frame \in [Frames -> Frame]
  BY EnvironmentAssumption DEF IInv, StackTypeOK
<1>2. \A d \in 1..depth' : d \in 1..depth /\ frame'[d] = frame[d]
  BY <1>1 DEF Pop, Frames
<1> QED
  BY <1>2 DEF NoNewCall

LEMMA StillNoCall ==
  ASSUME UNCHANGED stackVars
  PROVE  NoNewCall
BY DEF NoNewCall, stackVars

(* Only PassCalls begins a call. *)
LEMMA NextNoCall == IInv /\ [Next]_vars => NoNewCall \/ PassCalls
<1> SUFFICES ASSUME IInv, [Next]_vars, ~PassCalls PROVE NoNewCall
  OBVIOUS
<1>0. depth > 0 => Top \in Frame
  BY TopFacts
<1>1. CASE \/ Tick \/ Close \/ CallWhenClosed \/ SetTimer \/ ClearTimer \/ QueueJob
           \/ UNCHANGED vars
  <2>1. UNCHANGED stackVars
    BY <1>1 DEF Tick, Close, CallWhenClosed, SetTimer, ClearTimer, QueueJob, vars, stackVars
  <2> QED
    BY <2>1, StillNoCall
<1>2. CASE Settle
  <2>1. PICK e \in 1..depth : frame' = [frame EXCEPT ![e].settled = TRUE]
    BY <1>2 DEF Settle
  <2>2. frame \in [Frames -> Frame] /\ depth' = depth /\ 1..depth \subseteq Frames
    BY <1>2, EnvironmentAssumption DEF Settle, IInv, StackTypeOK, Frames
  <2>3. \A d \in 1..depth : /\ frame'[d].pc = frame[d].pc /\ frame'[d].i = frame[d].i
                            /\ frame'[d].called = frame[d].called
                            /\ frame'[d].callee = frame[d].callee
    BY <2>1, <2>2, SMTT(30) DEF Frame
  <2> QED
    BY <2>2, <2>3 DEF NoNewCall
<1>3. CASE EnterSome
  <2>1. PICK op \in Ops, wait \in Waits \cup {0} : Enter(op, wait)
    BY <1>3 DEF EnterSome
  <2>2. /\ depth \in 0..MaxDepth /\ MaxDepth \in Nat /\ frame \in [Frames -> Frame]
        /\ depth + 1 \in Frames /\ depth' = depth + 1
        /\ frame' = [frame EXCEPT ![depth + 1] = Opening(op, wait)]
    BY <2>1, EnvironmentAssumption DEF Enter, IInv, StackTypeOK, Frames
  <2>3. Opening(op, wait).pc # "timer"
    BY DEF Opening, NoFrame
  <2>4. /\ frame'[depth'] = Opening(op, wait)
        /\ \A d \in 1..depth' : d # depth' => d \in 1..depth /\ frame'[d] = frame[d]
    BY <2>2 DEF Frames
  <2> QED
    BY <2>3, <2>4 DEF NoNewCall
<1>4. ASSUME NEW f, Goto(f), f.pc # "timer", depth > 0 PROVE NoNewCall
  BY <1>4, ChangeNoCall DEF Goto
<1>5. ASSUME depth > 0, Return \/ Report PROVE NoNewCall
  <2>1. CASE Return
    BY <1>5, <2>1, PopNoCall DEF Return
  <2>2. CASE Report
    <3> DEFINE f == [NoFrame EXCEPT !.op = Top.op, !.wait = Top.wait, !.pc = "report"]
    <3>1. f.pc # "timer"
      BY DEF NoFrame
    <3> HIDE DEF f
    <3>2. frame' = [frame EXCEPT ![depth] = f] /\ depth' = depth
      BY <2>2 DEF Report, f
    <3> QED
      BY <1>5, <3>1, <3>2, ChangeNoCall
  <2> QED
    BY <1>5, <2>1, <2>2
<1>6. ASSUME depth > 0, NEW pc, NEW limit, NEW progress, pc # "timer",
             \/ Goto([Top EXCEPT !.pc = pc])
             \/ Goto([Top EXCEPT !.pc = pc, !.limit = limit])
             \/ Goto([Top EXCEPT !.pc = pc, !.progress = progress])
             \/ Goto(EndPass(Top, pc)) \/ Goto(StartPass(Top))
      PROVE  NoNewCall
  <2>1. /\ [Top EXCEPT !.pc = pc].pc = pc /\ [Top EXCEPT !.pc = pc, !.limit = limit].pc = pc
        /\ [Top EXCEPT !.pc = pc, !.progress = progress].pc = pc
        /\ EndPass(Top, pc).pc = pc /\ StartPass(Top).pc = "pass"
    BY <1>0, <1>6 DEF Frame, EndPass, StartPass
  <2> QED
    BY <1>4, <1>6, <2>1
<1>7. CASE ScriptReturns \/ ScriptThrows
  <2>1. depth > 0
    BY <1>7 DEF ScriptReturns, ScriptThrows, At
  <2> QED
    BY <1>5, <1>6, <1>7, <2>1 DEF ScriptReturns, ScriptThrows
<1>8. CASE JobReturns \/ JobFails
  <2>1. depth > 0
    BY <1>8 DEF JobReturns, JobFails, At
  <2> QED
    BY <1>5, <1>6, <1>8, <2>1 DEF JobReturns, JobFails, JobsStop
<1>9. CASE ResultReturns \/ ResultThrows \/ StartJob \/ JobsEmpty
  <2>1. depth > 0
    BY <1>9 DEF ResultReturns, ResultThrows, StartJob, JobsEmpty, At
  <2> QED
    BY <1>5, <1>6, <1>9, <2>1 DEF ResultReturns, ResultThrows, StartJob, JobsEmpty
<1>10. CASE DrainPassEnds \/ LoopPassEnds \/ AwaitPassEnds
  <2>1. depth > 0
    BY <1>10 DEF DrainPassEnds, LoopPassEnds, AwaitPassEnds, PassDone, At
  <2>2. Goto(EndPass(Top, "jobs")) \/ Goto(EndPass(Top, "one")) \/ Return
    BY <1>10 DEF DrainPassEnds, LoopPassEnds, AwaitPassEnds
  <2>3. EndPass(Top, "jobs").pc = "jobs" /\ EndPass(Top, "one").pc = "one"
    BY <1>0, <2>1 DEF Frame, EndPass
  <2> QED
    BY <1>4, <1>5, <2>1, <2>2, <2>3
<1>11. CASE AwaitHead \/ AwaitIdle
  <2>1. depth > 0
    BY <1>11 DEF AwaitHead, AwaitIdle, At
  <2>2. \/ Goto([Top EXCEPT !.pc = "result"]) \/ Goto([Top EXCEPT !.pc = "head"])
        \/ Goto(StartPass(Top)) \/ Return
    BY <1>11 DEF AwaitHead, AwaitIdle
  <2>3. /\ [Top EXCEPT !.pc = "result"].pc = "result" /\ [Top EXCEPT !.pc = "head"].pc = "head"
        /\ StartPass(Top).pc = "pass"
    BY <1>0, <2>1 DEF Frame, StartPass
  <2> QED
    BY <1>4, <1>5, <2>1, <2>2, <2>3
<1>12. CASE TimerReturns
  BY <1>12, TimerReturnsFacts DEF NoNewCall
<1>13. CASE ReportReturns
  BY <1>13, PopNoCall DEF ReportReturns, At
<1> QED
  BY <1>1, <1>2, <1>3, <1>7, <1>8, <1>9, <1>10, <1>11, <1>12, <1>13
     DEF Next, JSActs, JSReturns, EngineStep

(* A call that goes on stays accounted for, and does not get its timer back. *)
LEMMA RunKept ==
  ASSUME IInv, TableKeepsIds, NEW d, RunOK(d), frame[d].pc = "timer", frame'[d].pc = "timer",
         frame'[d].i = frame[d].i, frame'[d].called = frame[d].called,
         frame'[d].callee = frame[d].callee
  PROVE  RunOK(d)' /\ (Held(d)' => Held(d))
<1>1. /\ frame[d].called \in Nat /\ frame[d].called < next_timer_id
      /\ next_timer_id \in Nat /\ next_timer_id' \in Nat /\ next_timer_id' >= next_timer_id
  BY DEF RunOK, TableKeepsIds, IInv, TableInv, TableTypeOK
<1>2. ASSUME NEW s \in Active', timers'[s].id = frame[d].called
      PROVE  s \in Active /\ timers[s].id = frame[d].called /\ timers'[s].callback = timers[s].callback
  BY <1>1, <1>2 DEF TableKeepsIds
<1>3. RunOK(d)'
  BY <1>1, <1>2 DEF RunOK
<1>4. Held(d)' => Held(d)
  BY <1>2 DEF Held
<1> QED
  BY <1>3, <1>4

(* A pass begins a call. *)
LEMMA PassCallsFacts ==
  ASSUME IInv, PassCalls
  PROVE  \E s \in Active :
           /\ depth \in 1..MaxDepth /\ depth' = depth /\ UNCHANGED tableVars
           /\ frame[depth].pc = "pass"
           /\ frame'[depth].pc = "timer" /\ frame'[depth].i = s
           /\ frame'[depth].called = timers[s].id /\ frame'[depth].callee = timers[s].callback
           /\ \A d \in 1..depth : d # depth => frame'[d] = frame[d]
<1>1. depth > 0 /\ Top.pc = "pass" /\ UNCHANGED tableVars
  BY DEF PassCalls, At
<1>2. PICK s \in Slots :
          /\ IsNextDue(s, Top.i, Top.now)
          /\ Goto([Top EXCEPT !.pc = "timer", !.i = s, !.progress = Top.op # "await",
                              !.called = timers[s].id, !.callee = timers[s].callback])
  BY DEF PassCalls
<1>3. depth \in 1..MaxDepth /\ MaxDepth \in Nat /\ frame \in [Frames -> Frame]
  BY <1>1, EnvironmentAssumption DEF IInv, StackTypeOK
<1>4. Top \in Frame
  BY <1>1, TopFacts
<1>5. /\ frame'[depth].pc = "timer" /\ frame'[depth].i = s
      /\ frame'[depth].called = timers[s].id /\ frame'[depth].callee = timers[s].callback
      /\ \A d \in 1..depth : d # depth => frame'[d] = frame[d]
  BY <1>2, <1>3, <1>4 DEF Goto, Frames, Frame
<1>6. s \in Active
  BY <1>2 DEF IsNextDue, Due
<1> QED
  BY <1>1, <1>2, <1>3, <1>5, <1>6 DEF Goto, Top

LEMMA HeldStep == IInv /\ HeldInv /\ [Next]_vars => HeldInv'
<1> SUFFICES ASSUME IInv, HeldInv, [Next]_vars PROVE HeldInv'
  OBVIOUS
<1>0. TableKeepsIds /\ TableInv
  BY NextKeepsIds DEF IInv
<1>1. CASE NoNewCall
  <2>1. ASSUME NEW d \in 1..depth', frame'[d].pc = "timer"
        PROVE  /\ RunOK(d)' /\ (Held(d)' => Held(d)) /\ d \in 1..depth
               /\ frame[d].pc = "timer" /\ frame'[d].i = frame[d].i
               /\ frame'[d].called = frame[d].called
    <3>1. /\ d \in 1..depth /\ frame[d].pc = "timer" /\ frame'[d].i = frame[d].i
          /\ frame'[d].called = frame[d].called /\ frame'[d].callee = frame[d].callee
      BY <1>1, <2>1 DEF NoNewCall
    <3> QED
      BY <1>0, <2>1, <3>1, RunKept DEF HeldInv
  <2>2. \A d \in 1..depth' : RunOK(d)'
    BY <2>1 DEF RunOK
  <2>3. ASSUME NEW d \in 1..depth', NEW e \in 1..depth' PROVE SameSlot(d, e)'
    <3> SUFFICES ASSUME d < e, frame'[d].pc = "timer", frame'[e].pc = "timer",
                        frame'[d].i = frame'[e].i, Held(d)'
                 PROVE  frame'[d].called = frame'[e].called
      BY DEF SameSlot
    <3>1. SameSlot(d, e)
      BY <2>1 DEF HeldInv
    <3> QED
      BY <2>1, <3>1 DEF SameSlot
  <2> QED
    BY <2>2, <2>3 DEF HeldInv
<1>2. CASE PassCalls
  <2>1. PICK s \in Active :
           /\ depth \in 1..MaxDepth /\ depth' = depth /\ UNCHANGED tableVars
           /\ frame[depth].pc = "pass"
           /\ frame'[depth].pc = "timer" /\ frame'[depth].i = s
           /\ frame'[depth].called = timers[s].id /\ frame'[depth].callee = timers[s].callback
           /\ \A d \in 1..depth : d # depth => frame'[d] = frame[d]
    BY <1>2, PassCallsFacts
  <2>2. Active' = Active /\ timers' = timers /\ next_timer_id' = next_timer_id
    BY <1>0, <2>1, StillKeepsIds DEF tableVars
  <2>3. \A d \in 1..depth : d # depth => RunOK(d)' /\ (Held(d)' <=> Held(d))
    BY <2>1, <2>2 DEF HeldInv, RunOK, Held
  <2>4. RunOK(depth)'
    <3>1. timers[s].id \in Nat /\ timers[s].id < next_timer_id
      BY <1>0 DEF TableInv, UniqueIds, TableTypeOK, Entry, Active
    <3>2. \A r \in Active : timers[r].id = timers[s].id => r = s
      BY <1>0 DEF TableInv, UniqueIds
    <3> QED
      BY <2>1, <2>2, <3>1, <3>2 DEF RunOK
  <2>5. ASSUME NEW d \in 1..depth, NEW e \in 1..depth PROVE SameSlot(d, e)'
    <3> SUFFICES ASSUME d < e, frame'[d].pc = "timer", frame'[e].pc = "timer",
                        frame'[d].i = frame'[e].i, Held(d)'
                 PROVE  frame'[d].called = frame'[e].called
      BY DEF SameSlot
    <3>0. d # depth /\ frame'[d] = frame[d] /\ Held(d) /\ RunOK(d)
      BY <2>1, <2>3 DEF HeldInv
    <3>1. CASE e = depth
      <4>1. PICK r \in Active : timers[r].id = frame[d].called
        BY <3>0 DEF Held
      <4>2. r = frame[d].i
        BY <3>0, <4>1 DEF RunOK
      <4> QED
        BY <2>1, <3>0, <3>1, <4>1, <4>2
    <3>2. CASE e # depth
      <4>1. frame'[e] = frame[e] /\ SameSlot(d, e)
        BY <2>1, <3>2 DEF HeldInv
      <4> QED
        BY <3>0, <4>1 DEF SameSlot
    <3> QED
      BY <3>1, <3>2
  <2> QED
    BY <2>1, <2>3, <2>4, <2>5 DEF HeldInv
<1> QED
  BY <1>1, <1>2, NextNoCall

(* A call that has its timer loses it by clearTimeout with that very id, or *)
(* by the end of a nested call of it.                                       *)
LEMMA LosesOwn ==
  ASSUME IInv, HeldInv, [Next]_vars, NEW d \in 1..depth', Calling(d)', ~Held(d)',
         Calling(d), Held(d), d \in 1..depth, ~PassCalls
  PROVE  \/ js_clear_timer(frame[d].called) /\ UNCHANGED stackVars
         \/ TimerReturns /\ d < depth /\ Top.called = frame[d].called
<1>0. /\ TableInv /\ clock \in Nat /\ timers \in [Slots -> Entry] /\ RunOK(d)
      /\ frame[d].pc = "timer" /\ frame'[d].pc = "timer"
      /\ frame'[d].i = frame[d].i /\ frame'[d].called = frame[d].called
      /\ frame'[d].callee = frame[d].callee
  BY NextNoCall DEF IInv, StackTypeOK, TableInv, TableTypeOK, HeldInv, NoNewCall, Calling
<1>1. PICK r \in Active : timers[r].id = frame[d].called /\ timers[r].callback = frame[d].callee
  BY DEF Held
<1>2. r = frame[d].i /\ frame[d].called \in Nat
  BY <1>0, <1>1 DEF RunOK
<1>3. ~(r \in Active' /\ timers'[r] = timers[r])
  BY <1>0, <1>1 DEF Held
<1>4. CASE UNCHANGED tableVars
  BY <1>0, <1>3, <1>4, StillKeepsIds
<1>5. CASE SetTimer
  <2>1. PICK f \in Fns, delay \in Delays, rep \in Repeats : set_timer(f, delay, rep, clock)
    BY <1>5 DEF SetTimer
  <2>2. delay \in Nat /\ rep \in BOOLEAN
    BY EnvironmentAssumption
  <2> QED
    BY <1>0, <1>3, <2>1, <2>2, SetKeepsIds
<1>6. CASE ClearTimer
  <2>1. PICK arg \in (0..MaxIds) \cup {Undefined} : js_clear_timer(arg)
    BY <1>6 DEF ClearTimer
  <2>2. UNCHANGED stackVars
    BY <1>6 DEF ClearTimer
  <2>3. CASE UNCHANGED tableVars
    BY <1>4, <2>3
  <2>4. CASE ~UNCHANGED tableVars
    <3>1. PICK s \in Slots : /\ HasId(s, JS_ToInt32(arg)) /\ Release(s)
                             /\ \A q \in Slots : HasId(q, JS_ToInt32(arg)) => s <= q
      BY <2>1, <2>4, Zenon DEF js_clear_timer
    <3>2. s = r
      BY <1>0, <1>1, <1>3, <3>1, ReleaseKeepsIds
    <3>3. JS_ToInt32(arg) = frame[d].called
      BY <1>1, <3>1, <3>2 DEF HasId
    <3>4. JS_ToInt32(frame[d].called) = frame[d].called
      BY <1>2, UndefinedAssumption DEF JS_ToInt32
    <3>5. js_clear_timer(frame[d].called)
      BY <3>1, <3>3, <3>4, Zenon DEF js_clear_timer
    <3> QED
      BY <2>2, <3>5
  <2> QED
    BY <2>3, <2>4
<1>7. CASE Close
  <2>1. d \notin 1..depth
    BY <1>7 DEF Close
  <2> QED
    BY <2>1
<1>8. CASE TimerReturns
  <2>1. d # depth
    BY <1>0, <1>8, TimerReturnsFacts
  <2>2. Top.i = r
    BY <1>0, <1>3, <1>8, TimerReturnsFacts, AfterCallbackKeepsIds
  <2>3. depth \in 1..depth /\ d < depth /\ Top.pc = "timer" /\ Top = frame[depth]
    BY <1>8, <2>1, TimerReturnsFacts, EnvironmentAssumption DEF TimerReturns, At, Top
  <2>4. SameSlot(d, depth)
    BY <2>3 DEF HeldInv
  <2>5. frame[d].called = Top.called
    BY <1>0, <1>2, <2>2, <2>3, <2>4 DEF SameSlot
  <2> QED
    BY <1>8, <2>3, <2>5
<1>9. CASE EnterSome
  <2>1. UNCHANGED tableVars
    BY <1>9 DEF EnterSome, Enter
  <2> QED
    BY <2>1, <1>4
<1>10. CASE \/ Tick \/ CallWhenClosed \/ QueueJob \/ Settle \/ UNCHANGED vars \/ EngineStep
            \/ ScriptReturns \/ ScriptThrows \/ JobReturns \/ JobFails
            \/ ResultReturns \/ ResultThrows \/ ReportReturns
  <2>1. UNCHANGED tableVars
    BY <1>10 DEF Tick, CallWhenClosed, vars, tableVars, QueueJob, Settle, EngineStep,
       StartJob, JobsEmpty, PassCalls, DrainPassEnds, LoopPassEnds, AwaitPassEnds, AwaitHead,
       AwaitIdle, ScriptReturns, ScriptThrows, JobReturns, JobFails, ResultReturns,
       ResultThrows, ReportReturns
  <2> QED
    BY <2>1, <1>4
<1> QED
  BY <1>5, <1>6, <1>7, <1>8, <1>9, <1>10 DEF Next, JSActs, JSReturns

(* Whatever scripts do, at any depth: the table's reference to a function   *)
(* it calls is there when the call begins, and is freed under the call only *)
(* by the clearing, or a nested call, of the timer that is called           *)
(* (qjs_timer.c:70, 88, 100).                                               *)
THEOREM CalleesFreedByOwnTimer == Spec => FreedByOwnTimer
<1> DEFINE A == \A d \in 1..depth' :
                  Calling(d)' /\ ~Held(d)' =>
                    /\ Calling(d)
                    /\ \/ ~Held(d)
                       \/ js_clear_timer(frame[d].called) /\ UNCHANGED stackVars
                       \/ TimerReturns /\ d < depth /\ Top.called = frame[d].called
<1>1. Init => HeldInv
  BY DEF Init, HeldInv
<1>2. IInv /\ HeldInv /\ [Next]_vars => A
  <2> SUFFICES ASSUME IInv, HeldInv, [Next]_vars, NEW d \in 1..depth', Calling(d)', ~Held(d)'
               PROVE  /\ Calling(d)
                      /\ \/ ~Held(d)
                         \/ js_clear_timer(frame[d].called) /\ UNCHANGED stackVars
                         \/ TimerReturns /\ d < depth /\ Top.called = frame[d].called
    OBVIOUS
  <2>1. CASE PassCalls
    <3>1. PICK s \in Active :
           /\ depth \in 1..MaxDepth /\ depth' = depth /\ UNCHANGED tableVars
           /\ frame[depth].pc = "pass"
           /\ frame'[depth].pc = "timer" /\ frame'[depth].i = s
           /\ frame'[depth].called = timers[s].id /\ frame'[depth].callee = timers[s].callback
           /\ \A e \in 1..depth : e # depth => frame'[e] = frame[e]
      BY <2>1, PassCallsFacts
    <3>2. Active' = Active /\ timers' = timers
      BY <3>1, StillKeepsIds DEF IInv
    <3>3. d # depth
      BY <3>1, <3>2 DEF Held
    <3>4. frame'[d] = frame[d] /\ d \in 1..depth
      BY <3>1, <3>3
    <3> QED
      BY <3>2, <3>4 DEF Calling, Held
  <2>2. CASE ~PassCalls
    <3>1. Calling(d) /\ d \in 1..depth
      BY <2>2, NextNoCall DEF NoNewCall, Calling
    <3> QED
      BY <2>2, <3>1, LosesOwn
  <2> QED
    BY <2>1, <2>2
<1>3. Spec => [][A]_vars
  BY <1>1, <1>2, HeldStep, Invariance, PTL DEF Spec
<1> QED
  BY <1>3 DEF FreedByOwnTimer

=============================================================================
