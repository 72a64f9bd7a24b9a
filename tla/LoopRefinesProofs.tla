-------------------------- MODULE LoopRefinesProofs --------------------------
(***************************************************************************)
(* For an engine that no callback re-enters, and callbacks that set no     *)
(* timer once their own is cleared: the timer table with the passes over   *)
(* it implements AbstractTimers.  A callback may clear any timer, its own  *)
(* included.                                                               *)
(***************************************************************************)
EXTENDS EventLoopProofs

Data(s) ==
  [callback |-> timers[s].callback, due |-> timers[s].fire_time_ms,
   delay |-> timers[s].delay_ms, repeat |-> timers[s].repeat]

ActiveIds == {timers[s].id : s \in Active}

(* While a callback runs, the slot it was called from holds its timer, or   *)
(* the timer was cleared and the slot is free.                              *)
InPlace(d) ==
  /\ frame[d].i \in Active
  /\ timers[frame[d].i].id = frame[d].called
  /\ timers[frame[d].i].callback = frame[d].callee

Gone(d) == frame[d].i \in Slots \ Active /\ frame[d].called \notin ActiveIds

CalledOK == \A d \in 1..depth : frame[d].pc = "timer" => InPlace(d) \/ Gone(d)

(* Ids being unique, the timer of an id is the entry that has it. *)
LiveIs == DOMAIN Live = ActiveIds /\ \A s \in Active : Live[timers[s].id] = Data(s)

LEMMA LiveData == IInv => LiveIs
<1> SUFFICES ASSUME IInv PROVE LiveIs
  OBVIOUS
<1>0. TableInv
  BY DEF IInv
<1>1. DOMAIN Live = ActiveIds
  BY DEF Live, ActiveIds
<1>2. ASSUME NEW s \in Active PROVE Live[timers[s].id] = Data(s)
  <2>1. \A r \in Active : timers[r].id = timers[s].id => r = s
    BY <1>0 DEF TableInv, UniqueIds
  <2>2. SlotOf(timers[s].id) \in Active /\ timers[SlotOf(timers[s].id)].id = timers[s].id
    BY DEF SlotOf
  <2>3. SlotOf(timers[s].id) = s
    BY <2>1, <2>2
  <2>4. timers[s].id \in {timers[r].id : r \in Active}
    OBVIOUS
  <2> QED
    BY <2>3, <2>4 DEF Live, Data
<1> QED
  BY <1>1, <1>2 DEF LiveIs

LEMMA LiveDataNext == IInv' => LiveIs'
  BY LiveData, PTL

LEMMA LiveSame ==
  ASSUME UNCHANGED timers
  PROVE  Live' = Live
BY DEF Live, SlotOf, Active

(* The live timers are the active entries, whatever the free ones hold. *)
LEMMA LiveSameActive ==
  ASSUME IInv, IInv', Active' = Active, \A r \in Active : timers'[r] = timers[r]
  PROVE  Live' = Live
<1>1. \A r \in Active : timers'[r].id = timers[r].id /\ Data(r)' = Data(r)
  BY DEF Data
<1>2. ActiveIds' = ActiveIds
  BY <1>1 DEF ActiveIds
<1>3. DOMAIN Live' = DOMAIN Live
  BY <1>2, LiveData, LiveDataNext DEF LiveIs
<1>4. ASSUME NEW j \in DOMAIN Live PROVE Live'[j] = Live[j]
  <2>1. PICK r \in Active : j = timers[r].id
    BY LiveData DEF LiveIs, ActiveIds
  <2> QED
    BY <1>1, <2>1, LiveData, LiveDataNext DEF LiveIs
<1>5. Live = [j \in DOMAIN Live |-> Live[j]] /\ Live' = [j \in DOMAIN Live' |-> Live'[j]]
  BY DEF Live
<1> QED
  BY <1>3, <1>4, <1>5

LEMMA LiveEmpty ==
  ASSUME Active = {}
  PROVE  Live = << >>
BY DEF Live

LEMMA LiveEmptyNext ==
  ASSUME Active' = {}
  PROVE  Live' = << >>
BY DEF Live

(* The one frame there is. *)
OneFrameIs ==
  /\ depth \in {0, 1} /\ frame[1] \in Frame /\ Top = frame[depth]
  /\ clock \in Nat /\ timers \in [Slots -> Entry]
  /\ depth = 1 => FrameOK(1)
  /\ At("timer") => Calls = {<<1, frame[1].called>>} /\ Running = {frame[1].called}
  /\ ~At("timer") => Calls = {} /\ Running = {}

LEMMA OneFrame == MaxDepth = 1 /\ IInv => OneFrameIs
<1> SUFFICES ASSUME MaxDepth = 1, IInv PROVE OneFrameIs
  OBVIOUS
<1>1. depth \in {0, 1} /\ frame[1] \in Frame /\ clock \in Nat
  BY DEF IInv, StackTypeOK, Frames
<1>2. Top = frame[depth] /\ 1..0 = {} /\ 1..1 = {1}
  BY DEF Top
<1>3. At("timer") <=> depth = 1 /\ frame[1].pc = "timer"
  BY <1>1 DEF At, Top
<1>4. depth = 1 => FrameOK(1)
  BY DEF IInv, StackOK
<1>5. timers \in [Slots -> Entry]
  BY DEF IInv, TableInv, TableTypeOK
<1>6. At("timer") => {e \in 1..depth : frame[e].pc = "timer"} = {1}
  BY <1>2, <1>3
<1>7. ~At("timer") => {e \in 1..depth : frame[e].pc = "timer"} = {}
  BY <1>1, <1>2, <1>3
<1>8. At("timer") => Calls = {<<1, frame[1].called>>} /\ Running = {frame[1].called}
  BY <1>6 DEF Calls, Running
<1>9. ~At("timer") => Calls = {} /\ Running = {}
  BY <1>7 DEF Calls, Running
<1> QED
  BY <1>1, <1>2, <1>4, <1>5, <1>8, <1>9 DEF OneFrameIs

LEMMA OneFrameNext ==
  ASSUME MaxDepth = 1
  PROVE  IInv' => OneFrameIs'
<1>1. IInv => OneFrameIs
  BY OneFrame
<1> QED
  BY <1>1, PTL

(* What a step owes: the invariant, and a step of the abstract timers. *)
StepOK == CalledOK' /\ [Timers!Next]_(Timers!vars)

(* Steps in which no callback begins, runs or ends. *)
LEMMA AsideStep ==
  ASSUME MaxDepth = 1, IInv, IInv', UNCHANGED tableVars, clock' = clock,
         ~At("timer"), ~At("timer")'
  PROVE  StepOK
<1>1. Calls = {} /\ Calls' = {}
  BY OneFrame, OneFrameNext DEF OneFrameIs
<1>2. Live' = Live /\ UNCHANGED next_timer_id
  BY LiveSame DEF tableVars
<1>3. CalledOK'
  BY OneFrame, OneFrameNext DEF OneFrameIs, CalledOK, At, Top
<1> QED
  BY <1>1, <1>2, <1>3 DEF StepOK, Timers!vars

(* Steps that neither begin nor end a call. *)
SameCall ==
  /\ depth' = depth
  /\ frame'[1].pc = frame[1].pc /\ frame'[1].i = frame[1].i
  /\ frame'[1].called = frame[1].called /\ frame'[1].callee = frame[1].callee

LEMMA SameCallFacts ==
  ASSUME MaxDepth = 1, IInv, IInv', SameCall
  PROVE  /\ Calls' = Calls
         /\ CalledOK /\ UNCHANGED timers => CalledOK'
<1>1. At("timer")' <=> At("timer")
  BY OneFrame, OneFrameNext DEF OneFrameIs, At, Top, SameCall
<1>2. CASE At("timer")
  <2>1. Calls = {<<1, frame[1].called>>} /\ Calls' = {<<1, frame'[1].called>>}
    BY <1>1, <1>2, OneFrame, OneFrameNext DEF OneFrameIs
  <2> QED
    BY <2>1, OneFrame, OneFrameNext DEF OneFrameIs, CalledOK, InPlace, Gone, ActiveIds, SameCall, Active
<1>3. CASE ~At("timer")
  <2>1. Calls = {} /\ Calls' = {}
    BY <1>1, <1>3, OneFrame, OneFrameNext DEF OneFrameIs
  <2> QED
    BY <2>1, OneFrame, OneFrameNext DEF OneFrameIs, CalledOK, InPlace, Gone, ActiveIds, SameCall, Active
<1> QED
  BY <1>2, <1>3

-----------------------------------------------------------------------------
(* What JavaScript does to the table *)

(* setTimeout and setInterval, if there is room: one live timer more. *)
LEMMA SetStep ==
  ASSUME MaxDepth = 1, ~Replace, IInv, IInv', CalledOK, SetTimer
  PROVE  StepOK
<1>1. PICK f \in Fns, delay \in Delays, rep \in Repeats : set_timer(f, delay, rep, clock)
  BY DEF SetTimer
<1>2. UNCHANGED <<clock, depth, frame>>
  BY DEF SetTimer, stackVars
<1>3. SameCall /\ Calls' = Calls
  BY <1>2, SameCallFacts DEF SameCall
<1>4. CASE UNCHANGED tableVars
  BY <1>2, <1>3, <1>4, SameCallFacts, LiveSame DEF StepOK, Timers!vars, tableVars
<1>5. CASE ~UNCHANGED tableVars
  <2> DEFINE e == [id |-> next_timer_id, callback |-> f, delay_ms |-> delay, repeat |-> rep,
                   fire_time_ms |-> clock + delay, active |-> TRUE]
             t == [callback |-> f, due |-> clock + delay, delay |-> delay, repeat |-> rep]
  <2>1. PICK s \in Slots : /\ IsFirstFree(s) /\ timers' = [timers EXCEPT ![s] = e]
                           /\ next_timer_id' = next_timer_id + 1
    BY <1>1, <1>5 DEF set_timer
  <2>2. timers \in [Slots -> Entry] /\ TableInv /\ TableInv'
    BY OneFrame, OneFrameNext DEF OneFrameIs, IInv
  <2>3. /\ s \notin Active /\ Active' = Active \cup {s} /\ timers'[s] = e
        /\ \A r \in Active : timers'[r] = timers[r] /\ r # s
    BY <2>1, <2>2 DEF IsFirstFree, Active, Entry
  <2>4. \A r \in Active : Data(r)' = Data(r)
    BY <2>3 DEF Data
  <2>5. Data(s)' = t /\ timers'[s].id = next_timer_id
    BY <2>3 DEF Data
  <2>6. ActiveIds' = ActiveIds \cup {next_timer_id}
    BY <2>3, <2>5 DEF ActiveIds
  <2>7. next_timer_id \notin ActiveIds
    BY <2>2 DEF ActiveIds, TableInv, UniqueIds, TableTypeOK, Active, Entry
  <2>8. Live' = [j \in DOMAIN Live \cup {next_timer_id} |->
                   IF j = next_timer_id THEN t ELSE Live[j]]
    <3>1. DOMAIN Live' = DOMAIN Live \cup {next_timer_id}
      BY <2>2, <2>6, LiveData, LiveDataNext DEF LiveIs
    <3>2. Live'[next_timer_id] = t
      BY <2>2, <2>3, <2>5, LiveData, LiveDataNext DEF LiveIs
    <3>3. ASSUME NEW j \in DOMAIN Live PROVE Live'[j] = Live[j]
      <4>1. PICK r \in Active : j = timers[r].id
        BY <2>2, LiveData, LiveDataNext DEF LiveIs, ActiveIds
      <4> QED
        BY <4>1, <2>2, <2>3, <2>4, LiveData, LiveDataNext DEF LiveIs
    <3>4. Live' = [j \in DOMAIN Live' |-> Live'[j]]
      BY DEF Live
    <3> QED
      BY <3>1, <3>2, <3>3, <3>4
  <2>9. t \in {[callback |-> g, due |-> clock + d, delay |-> d, repeat |-> r] :
                 g \in Fns, d \in Delays, r \in BOOLEAN}
    BY EnvironmentAssumption
  <2> HIDE DEF t
  <2>10. Timers!Set
    <3>1. UNCHANGED <<Calls, clock>>
      BY <1>2, <1>3
    <3> DEFINE S == {[callback |-> g, due |-> clock + d, delay |-> d, repeat |-> r] :
                       g \in Fns, d \in Delays, r \in BOOLEAN}
               P(u) == Live' = [j \in DOMAIN Live \cup {next_timer_id} |->
                                  IF j = next_timer_id THEN u ELSE Live[j]]
    <3>2. t \in S /\ P(t)
      BY <2>8, <2>9
    <3>3. Timers!Set <=> (\E u \in S : P(u)) /\ next_timer_id' = next_timer_id + 1
                         /\ UNCHANGED <<Calls, clock>>
      BY SMT DEF Timers!Set
    <3> HIDE DEF S, P
    <3> QED
      BY <2>1, <3>1, <3>2, <3>3
  <2>11. CalledOK'
    <3> SUFFICES ASSUME At("timer"), depth = 1 PROVE InPlace(1)'
      BY <1>2, OneFrame, OneFrameNext DEF OneFrameIs, CalledOK, At, Top
    <3>1. frame[1].called \in ActiveIds
      BY OneFrame DEF OneFrameIs, SetTimer, ActiveIds
    <3>2. InPlace(1)
      BY <3>1, OneFrame DEF OneFrameIs, CalledOK, Gone, At, Top
    <3> QED
      BY <1>2, <2>3, <3>2 DEF InPlace
  <2> QED
    BY <2>10, <2>11 DEF StepOK, Timers!Next
<1> QED
  BY <1>4, <1>5

(* Releasing a slot takes its timer out of the live ones. *)
LEMMA ReleaseLive ==
  ASSUME IInv, IInv', NEW s \in Active, Release(s)
  PROVE  /\ Live' = [j \in DOMAIN Live \ {timers[s].id} |-> Live[j]]
         /\ Active' = Active \ {s} /\ UNCHANGED next_timer_id
         /\ \A r \in Active \ {s} : timers'[r] = timers[r]
<1>1. timers \in [Slots -> Entry] /\ TableInv /\ TableInv' /\ s \in Slots
  BY DEF IInv, TableInv, TableTypeOK, Active
<1>2. /\ Active' = Active \ {s} /\ UNCHANGED next_timer_id
      /\ \A r \in Active \ {s} : timers'[r] = timers[r]
  BY <1>1 DEF Release, Active, Entry
<1>3. \A r \in Active : timers[r].id = timers[s].id => r = s
  BY <1>1 DEF TableInv, UniqueIds
<1>4. ActiveIds' = ActiveIds \ {timers[s].id}
  BY <1>2, <1>3 DEF ActiveIds
<1>5. DOMAIN Live' = DOMAIN Live \ {timers[s].id}
  BY <1>1, <1>4, LiveData, LiveDataNext DEF LiveIs
<1>6. ASSUME NEW j \in DOMAIN Live' PROVE Live'[j] = Live[j]
  <2>1. PICK r \in Active' : j = timers'[r].id
    BY <1>1, LiveData, LiveDataNext DEF LiveIs, ActiveIds
  <2>2. r \in Active /\ timers'[r] = timers[r] /\ Data(r)' = Data(r)
    BY <1>2, <2>1 DEF Data
  <2> QED
    BY <1>1, <2>1, <2>2, LiveData, LiveDataNext DEF LiveIs
<1>7. Live' = [j \in DOMAIN Live' |-> Live'[j]]
  BY DEF Live
<1> QED
  BY <1>2, <1>5, <1>6, <1>7

(* clearTimeout and clearInterval, of the timer that is being called too. *)
LEMMA ClearStep ==
  ASSUME MaxDepth = 1, IInv, IInv', CalledOK, ClearTimer
  PROVE  StepOK
<1>1. PICK arg \in (0..MaxIds) \cup {Undefined} : js_clear_timer(arg)
  BY DEF ClearTimer
<1>2. UNCHANGED <<clock, depth, frame>>
  BY DEF ClearTimer, stackVars
<1>3. SameCall /\ Calls' = Calls
  BY <1>2, SameCallFacts DEF SameCall
<1>4. CASE UNCHANGED tableVars
  BY <1>2, <1>3, <1>4, SameCallFacts, LiveSame DEF StepOK, Timers!vars, tableVars
<1>5. CASE ~UNCHANGED tableVars
  <2>1. PICK s \in Active : timers[s].id = JS_ToInt32(arg) /\ Release(s)
    BY <1>1, <1>5, Zenon DEF js_clear_timer, HasId
  <2>2. timers[s].id \in DOMAIN Live
    BY LiveData, LiveDataNext DEF LiveIs, IInv, ActiveIds
  <2>3. Live' = [j \in DOMAIN Live \ {timers[s].id} |-> Live[j]] /\ UNCHANGED next_timer_id
    BY <2>1, ReleaseLive
  <2>4. Timers!Clear
    BY <1>2, <1>3, <2>2, <2>3 DEF Timers!Clear, Timers!Without
  <2>5. CalledOK'
    <3> SUFFICES ASSUME At("timer"), depth = 1 PROVE (InPlace(1) \/ Gone(1))'
      BY <1>2, OneFrame, OneFrameNext DEF OneFrameIs, CalledOK, At, Top
    <3>1. InPlace(1) \/ Gone(1)
      BY OneFrame DEF OneFrameIs, CalledOK, At, Top
    <3>2. Active' = Active \ {s} /\ \A r \in Active \ {s} : timers'[r] = timers[r]
      BY <2>1, ReleaseLive
    <3>3. ActiveIds' \subseteq ActiveIds
      BY <3>2 DEF ActiveIds
    <3>4. \A r \in Active : timers[r].id = timers[s].id => r = s
      BY DEF IInv, TableInv, UniqueIds
    <3>5. CASE Gone(1)
      BY <1>2, <3>2, <3>3, <3>5 DEF Gone
    <3>6. CASE InPlace(1) /\ frame[1].i # s
      BY <1>2, <3>2, <3>6 DEF InPlace
    <3>7. CASE InPlace(1) /\ frame[1].i = s
      <4>1. timers[s].id \notin ActiveIds'
        BY <3>2, <3>4 DEF ActiveIds
      <4>2. s \in Slots
        BY DEF Active
      <4> QED
        BY <1>2, <3>2, <3>7, <4>1, <4>2 DEF InPlace, Gone
    <3> QED
      BY <3>1, <3>5, <3>6, <3>7
  <2> QED
    BY <2>4, <2>5 DEF StepOK, Timers!Next
<1> QED
  BY <1>4, <1>5

(* Queued jobs and settled promises are no business of the timers. *)
LEMMA OtherJSStep ==
  ASSUME MaxDepth = 1, IInv, IInv', CalledOK, QueueJob \/ Settle
  PROVE  StepOK
<1>1. UNCHANGED <<tableVars, clock, depth>>
  BY DEF QueueJob, Settle, stackVars
<1>2. SameCall
  <2>1. CASE QueueJob
    BY <2>1 DEF QueueJob, stackVars, SameCall
  <2>2. CASE Settle
    <3>1. PICK d \in 1..depth : frame' = [frame EXCEPT ![d].settled = TRUE]
      BY <2>2 DEF Settle
    <3>2. d = 1 /\ frame \in [{1} -> Frame]
      BY OneFrame, OneFrameNext DEF OneFrameIs, IInv, StackTypeOK, Frames
    <3> QED
      BY <1>1, <3>1, <3>2 DEF SameCall, Frame
  <2> QED
    BY <2>1, <2>2
<1> QED
  BY <1>1, <1>2, SameCallFacts, LiveSame DEF StepOK, Timers!vars, tableVars

-----------------------------------------------------------------------------
(* The beginning and the end of a call *)

(* A pass calls a live timer that is due, while no other is being called. *)
LEMMA BeginStep ==
  ASSUME MaxDepth = 1, IInv, IInv', PassCalls
  PROVE  StepOK
<1>1. depth = 1 /\ Top = frame[1] /\ frame[1].pc = "pass" /\ ~At("timer")
  BY OneFrame DEF OneFrameIs, PassCalls, At
<1>2. PICK s \in Slots : /\ IsNextDue(s, Top.i, Top.now)
                         /\ Goto([Top EXCEPT !.pc = "timer", !.i = s,
                                             !.progress = Top.op # "await",
                                             !.called = timers[s].id,
                                             !.callee = timers[s].callback])
  BY DEF PassCalls
<1>3. UNCHANGED <<tableVars, clock, depth>>
  BY <1>2 DEF PassCalls, Goto
<1>4. /\ frame'[1].pc = "timer" /\ frame'[1].i = s
      /\ frame'[1].called = timers[s].id /\ frame'[1].callee = timers[s].callback
  BY <1>1, <1>2, OneFrame DEF OneFrameIs, Goto, IInv, StackTypeOK, Frames, Frame
<1>5. s \in Active /\ timers[s].fire_time_ms <= clock
  BY <1>1, <1>2, OneFrame DEF OneFrameIs, IsNextDue, Due, FrameOK, Active, Entry, Frame
<1>6. CalledOK'
  BY <1>1, <1>3, <1>4, <1>5 DEF CalledOK, InPlace, Active, tableVars
<1>7. At("timer")'
  BY <1>1, <1>3, <1>4 DEF At, Top
<1>8. Calls = {} /\ Calls' = {<<1, timers[s].id>>}
  BY <1>1, <1>4, <1>7, OneFrame, OneFrameNext DEF OneFrameIs
<1>9. Live' = Live /\ UNCHANGED <<next_timer_id, clock>>
  BY <1>3, LiveSame DEF tableVars
<1>10. timers[s].id \in DOMAIN Live /\ Live[timers[s].id].due <= clock
  <2>1. timers[s].id \in ActiveIds
    BY <1>5 DEF ActiveIds
  <2>2. Live[timers[s].id] = Data(s)
    BY <1>5, LiveData DEF LiveIs
  <2> QED
    BY <1>5, <2>1, <2>2, LiveData DEF LiveIs, Data
<1>11. Timers!Begin
  <2>1. Timers!Running = {}
    BY <1>8 DEF Timers!Running
  <2>2. \E c \in Calls' : Calls' = Calls \cup {c} /\ c[2] = timers[s].id
    BY <1>8
  <2> QED
    BY <1>9, <1>10, <2>1, <2>2 DEF Timers!Begin
<1> QED
  BY <1>6, <1>11 DEF StepOK, Timers!Next

LEMMA DueReplaced ==
  ASSUME NEW f, NEW due, NEW delay, NEW rep, NEW new, NEW t,
         t = [callback |-> f, due |-> due, delay |-> delay, repeat |-> rep]
  PROVE  [t EXCEPT !.due = new] = [callback |-> f, due |-> new, delay |-> delay, repeat |-> rep]
OBVIOUS

(* The interval that was called is due again later; the others stay. *)
LEMMA RearmStep ==
  ASSUME IInv, IInv', NEW s \in Active, NEW now \in Nat, now <= clock,
         timers[s].repeat, after_callback(s, now)
  PROVE  /\ DOMAIN Live' = DOMAIN Live
         /\ \A j \in DOMAIN Live \ {timers[s].id} : Live'[j] = Live[j]
         /\ Live'[timers[s].id] = [Live[timers[s].id] EXCEPT !.due = Live'[timers[s].id].due]
         /\ Timers!Rearmed(Live[timers[s].id], Live'[timers[s].id].due)
<1> DEFINE due == Later(timers[s].fire_time_ms + timers[s].delay_ms, now)
<1>1. timers \in [Slots -> Entry] /\ TableInv /\ clock \in Nat /\ s \in Slots
  BY DEF IInv, TableInv, TableTypeOK, StackTypeOK, Active
<1>2. timers' = [timers EXCEPT ![s].fire_time_ms = due]
  BY DEF after_callback
<1>3. /\ due \in Nat /\ due >= timers[s].fire_time_ms + timers[s].delay_ms
      /\ due = timers[s].fire_time_ms + timers[s].delay_ms \/ due <= clock
  BY <1>1 DEF Later, Entry
<1> HIDE DEF due
<1>4. /\ Active' = Active /\ \A r \in Active : timers'[r].id = timers[r].id
      /\ \A r \in Active \ {s} : timers'[r] = timers[r]
  BY <1>1, <1>2 DEF Active, Entry
<1>5. Data(s)' = [Data(s) EXCEPT !.due = due]
  <2>1. /\ timers'[s].fire_time_ms = due /\ timers'[s].callback = timers[s].callback
        /\ timers'[s].delay_ms = timers[s].delay_ms /\ timers'[s].repeat = timers[s].repeat
    BY <1>1, <1>2 DEF Entry
  <2> DEFINE t == [callback |-> timers[s].callback, due |-> due,
                   delay |-> timers[s].delay_ms, repeat |-> timers[s].repeat]
  <2>2. Data(s)' = t
    BY <2>1 DEF Data
  <2>3. [Data(s) EXCEPT !.due = due] = t
    <3>1. PICK f, old, delay, rep : /\ f = timers[s].callback /\ old = timers[s].fire_time_ms
                                    /\ delay = timers[s].delay_ms /\ rep = timers[s].repeat
      OBVIOUS
    <3>2. PICK x : x = [callback |-> f, due |-> old, delay |-> delay, repeat |-> rep]
      OBVIOUS
    <3>3. [x EXCEPT !.due = due] = [callback |-> f, due |-> due, delay |-> delay, repeat |-> rep]
      BY <3>2, DueReplaced
    <3>4. x = Data(s) /\ t = [callback |-> f, due |-> due, delay |-> delay, repeat |-> rep]
      BY <3>1, <3>2 DEF Data
    <3> HIDE DEF t
    <3> QED
      BY <3>3, <3>4
  <2> QED
    BY <2>2, <2>3
<1>6. DOMAIN Live' = DOMAIN Live
  <2>1. ActiveIds' = ActiveIds
    BY <1>4 DEF ActiveIds
  <2> QED
    BY <2>1, LiveData, LiveDataNext DEF LiveIs
<1>7. ASSUME NEW j \in DOMAIN Live \ {timers[s].id} PROVE Live'[j] = Live[j]
  <2>1. PICK r \in Active : j = timers[r].id
    BY LiveData DEF LiveIs, ActiveIds
  <2>2. r # s /\ Data(r)' = Data(r)
    BY <1>4, <2>1 DEF Data
  <2> QED
    BY <1>4, <2>1, <2>2, LiveData, LiveDataNext DEF LiveIs
<1>8. Live[timers[s].id] = Data(s) /\ Live'[timers[s].id] = Data(s)'
  BY <1>4, LiveData, LiveDataNext DEF LiveIs
<1>9. Data(s)'.due = due /\ Data(s)' = [Data(s) EXCEPT !.due = Data(s)'.due]
  BY <1>5 DEF Data
<1>10. Timers!Rearmed(Data(s), due)
  BY <1>3 DEF Timers!Rearmed, Data
<1> QED
  BY <1>6, <1>7, <1>8, <1>9, <1>10

(* The callback is back, and its timer is released or due again.            *)
LEMMA EndInPlace ==
  ASSUME IInv, IInv', NEW s \in Active, NEW now \in Nat, now <= clock, after_callback(s, now)
  PROVE  LET id == timers[s].id IN
         /\ id \in DOMAIN Live
         /\ IF ~Live[id].repeat THEN Live' = Timers!Without(id)
            ELSE /\ DOMAIN Live' = DOMAIN Live
                 /\ \A j \in DOMAIN Live \ {id} : Live'[j] = Live[j]
                 /\ Live'[id] = [Live[id] EXCEPT !.due = Live'[id].due]
                 /\ Timers!Rearmed(Live[id], Live'[id].due)
<1>1. timers[s].id \in DOMAIN Live /\ Live[timers[s].id].repeat = timers[s].repeat
  <2>1. timers[s].id \in ActiveIds
    BY DEF ActiveIds
  <2>2. Live[timers[s].id] = Data(s)
    BY LiveData DEF LiveIs
  <2> QED
    BY <2>1, <2>2, LiveData DEF LiveIs, Data
<1>2. CASE timers[s].repeat
  BY <1>1, <1>2, RearmStep
<1>3. CASE ~timers[s].repeat
  <2>1. Release(s)
    BY <1>3 DEF after_callback
  <2> QED
    BY <1>1, <1>3, <2>1, ReleaseLive DEF Timers!Without
<1> QED
  BY <1>1, <1>2, <1>3

(* The callback is back and its timer was cleared: nothing becomes of the   *)
(* free slot.                                                               *)
LEMMA EndGone ==
  ASSUME IInv, IInv', NEW s \in Slots \ Active, NEW now \in Nat, after_callback(s, now)
  PROVE  Live' = Live
<1>1. timers \in [Slots -> Entry]
  BY DEF IInv, TableInv, TableTypeOK
<1>2. Active' = Active /\ \A r \in Active : timers'[r] = timers[r]
  <2>1. CASE timers[s].repeat
    <3> DEFINE due == Later(timers[s].fire_time_ms + timers[s].delay_ms, now)
    <3>1. timers' = [timers EXCEPT ![s].fire_time_ms = due]
      BY <2>1 DEF after_callback
    <3> HIDE DEF due
    <3> QED
      BY <1>1, <3>1 DEF Active, Entry
  <2>2. CASE ~timers[s].repeat
    <3>1. Release(s)
      BY <2>2 DEF after_callback
    <3> QED
      BY <1>1, <3>1 DEF Release, Active, Entry
  <2> QED
    BY <2>1, <2>2
<1> QED
  BY <1>2, LiveSameActive

LEMMA EndStep ==
  ASSUME MaxDepth = 1, IInv, IInv', CalledOK, TimerReturns
  PROVE  StepOK
<1> DEFINE s == frame[1].i
           id == frame[1].called
<1>1. depth = 1 /\ Top = frame[1] /\ frame[1].pc = "timer" /\ At("timer")
  BY OneFrame DEF OneFrameIs, TimerReturns, At
<1>2. InPlace(1) \/ Gone(1)
  BY <1>1 DEF CalledOK
<1>3. /\ Goto([Top EXCEPT !.pc = "pass", !.i = @ + 1, !.called = NoTimer, !.callee = Undefined])
      /\ after_callback(s, Top.now) /\ UNCHANGED clock
  BY <1>1 DEF TimerReturns
<1>4. depth' = 1 /\ frame'[1].pc = "pass" /\ ~At("timer")'
  BY <1>1, <1>3, OneFrame DEF OneFrameIs, Goto, IInv, StackTypeOK, Frames, Frame, At, Top
<1>5. CalledOK'
  BY <1>4 DEF CalledOK
<1>6. Calls = {<<1, id>>} /\ Calls' = {}
  BY <1>1, <1>4, OneFrame, OneFrameNext DEF OneFrameIs
<1>7. Top.now \in Nat /\ Top.now <= clock
  BY <1>1, OneFrame DEF OneFrameIs, FrameOK, Frame
<1>8. UNCHANGED next_timer_id
  BY <1>3 DEF after_callback, Release
<1>9. <<1, id>> \in Calls /\ <<1, id>>[2] = id /\ Calls' = Calls \ {<<1, id>>}
  BY <1>6
<1>10. CASE InPlace(1)
  <2>1. s \in Active /\ timers[s].id = id
    BY <1>10 DEF InPlace
  <2> HIDE DEF s, id
  <2>2. /\ id \in DOMAIN Live
        /\ IF ~Live[id].repeat THEN Live' = Timers!Without(id)
           ELSE /\ DOMAIN Live' = DOMAIN Live
                /\ \A j \in DOMAIN Live \ {id} : Live'[j] = Live[j]
                /\ Live'[id] = [Live[id] EXCEPT !.due = Live'[id].due]
                /\ Timers!Rearmed(Live[id], Live'[id].due)
    BY <1>3, <1>7, <2>1, EndInPlace
  <2>3. Timers!End
    BY <1>3, <1>8, <1>9, <2>2 DEF Timers!End
  <2> QED
    BY <1>5, <2>3 DEF StepOK, Timers!Next
<1>11. CASE Gone(1)
  <2>1. s \in Slots \ Active /\ id \notin ActiveIds
    BY <1>11 DEF Gone
  <2> HIDE DEF s, id
  <2>2. Live' = Live /\ id \notin DOMAIN Live
    BY <1>3, <1>7, <2>1, EndGone, LiveData DEF LiveIs
  <2>3. Timers!End
    BY <1>3, <1>8, <1>9, <2>2 DEF Timers!End
  <2> QED
    BY <1>5, <2>3 DEF StepOK, Timers!Next
<1> QED
  BY <1>2, <1>10, <1>11

-----------------------------------------------------------------------------
(* All steps *)

LEMMA EnterStep ==
  ASSUME MaxDepth = 1, IInv, IInv', EnterSome
  PROVE  StepOK
<1>1. PICK op \in Ops, wait \in Waits \cup {0} : Enter(op, wait)
  BY DEF EnterSome
<1>2. UNCHANGED tableVars /\ clock' = clock
  BY <1>1 DEF Enter
<1>3. depth = 0 /\ depth' = 1 /\ frame'[1] = Opening(op, wait)
  BY <1>1, OneFrame DEF OneFrameIs, Enter, IInv, StackTypeOK, Frames
<1>4. ~At("timer") /\ ~At("timer")'
  BY <1>3 DEF At, Top, Opening, NoFrame
<1> QED
  BY <1>2, <1>4, AsideStep

LEMMA CloseStep ==
  ASSUME MaxDepth = 1, IInv, IInv', Close
  PROVE  StepOK
<1>1. depth = 0 /\ depth' = 0 /\ clock' = clock /\ ~At("timer") /\ ~At("timer")'
  BY DEF Close, stackVars, At
<1>2. Calls = {} /\ Calls' = {}
  BY <1>1, OneFrame, OneFrameNext DEF OneFrameIs
<1>3. Active' = {} /\ UNCHANGED next_timer_id
  BY OneFrame DEF OneFrameIs, Close, free_all_timers, Active, Entry
<1>4. Live' = << >>
  BY <1>3, LiveEmptyNext
<1>5. CalledOK'
  BY <1>1 DEF CalledOK
<1> QED
  BY <1>1, <1>2, <1>3, <1>4, <1>5 DEF StepOK, Timers!Next, Timers!Shutdown

LEMMA TickStep ==
  ASSUME MaxDepth = 1, IInv, IInv', CalledOK, Tick
  PROVE  StepOK
<1>1. UNCHANGED <<tableVars, depth, frame>> /\ clock' > clock
  BY OneFrame DEF OneFrameIs, Tick, stackVars
<1>2. SameCall
  BY <1>1 DEF SameCall
<1>3. Timers!TimePasses
  BY <1>1, <1>2, SameCallFacts, LiveSame DEF Timers!TimePasses, tableVars
<1> QED
  BY <1>1, <1>2, <1>3, SameCallFacts DEF StepOK, Timers!Next, tableVars

(* Steps of an entry point outside of any callback. *)
LEMMA FrameStep ==
  ASSUME MaxDepth = 1, IInv, IInv',
         \/ ScriptReturns \/ ScriptThrows \/ JobReturns \/ JobFails \/ ResultReturns
         \/ ResultThrows \/ ReportReturns
         \/ StartJob \/ JobsEmpty \/ DrainPassEnds \/ LoopPassEnds \/ AwaitPassEnds
         \/ AwaitHead \/ AwaitIdle
  PROVE  StepOK
<1>1. UNCHANGED tableVars /\ clock' = clock
  BY DEF ScriptReturns, ScriptThrows, JobReturns, JobFails, ResultReturns, ResultThrows,
         ReportReturns, StartJob, JobsEmpty, DrainPassEnds, LoopPassEnds, AwaitPassEnds, AwaitHead, AwaitIdle
<1>2. depth = 1 /\ ~At("timer")
  BY OneFrame
     DEF OneFrameIs, At, ScriptReturns, ScriptThrows, JobReturns, JobFails, ResultReturns,
         ResultThrows, ReportReturns, StartJob, JobsEmpty, PassDone, DrainPassEnds, LoopPassEnds, AwaitPassEnds,
         AwaitHead, AwaitIdle
<1>3. Top \in Frame /\ frame \in [{1} -> Frame] /\ Top = frame[1]
  BY <1>2, OneFrame DEF OneFrameIs, IInv, StackTypeOK, Frames
<1>4. ASSUME NEW f, Goto(f), f.pc # "timer" PROVE StepOK
  <2>1. depth' = 1 /\ frame'[1] = f
    BY <1>2, <1>3, <1>4 DEF Goto
  <2> QED
    BY <1>1, <1>2, <1>4, <2>1, AsideStep DEF At, Top
<1>5. ASSUME Return \/ Report \/ Pop PROVE StepOK
  <2>1. CASE Return \/ Pop
    <3>1. depth' = 0
      BY <1>2, <2>1 DEF Return, Pop
    <3> QED
      BY <1>1, <1>2, <3>1, AsideStep DEF At
  <2>2. CASE Report
    <3> DEFINE f == [NoFrame EXCEPT !.op = Top.op, !.wait = Top.wait, !.pc = "report"]
    <3>1. f.pc # "timer"
      BY DEF NoFrame
    <3> HIDE DEF f
    <3>2. depth' = 1 /\ frame'[1] = f
      BY <1>2, <1>3, <2>2 DEF Report, f
    <3> QED
      BY <1>1, <1>2, <3>1, <3>2, AsideStep DEF At, Top
  <2> QED
    BY <1>5, <2>1, <2>2
<1>6. ASSUME NEW pc, NEW limit, NEW progress,
             \/ Goto([Top EXCEPT !.pc = pc])
             \/ Goto([Top EXCEPT !.pc = pc, !.limit = limit])
             \/ Goto([Top EXCEPT !.pc = pc, !.progress = progress])
             \/ Goto(EndPass(Top, pc)) \/ (Goto(StartPass(Top)) /\ pc = "pass"),
             pc # "timer"
      PROVE  StepOK
  <2>1. /\ [Top EXCEPT !.pc = pc].pc = pc /\ [Top EXCEPT !.pc = pc, !.limit = limit].pc = pc
        /\ [Top EXCEPT !.pc = pc, !.progress = progress].pc = pc
        /\ EndPass(Top, pc).pc = pc /\ StartPass(Top).pc = "pass"
    BY <1>3 DEF Frame, EndPass, StartPass
  <2> QED
    BY <1>4, <1>6, <2>1
<1>7. CASE ScriptReturns \/ ScriptThrows
  BY <1>5, <1>6, <1>7 DEF ScriptReturns, ScriptThrows
<1>8. CASE JobReturns \/ JobFails
  BY <1>5, <1>6, <1>8 DEF JobReturns, JobFails, JobsStop
<1>9. CASE ResultReturns \/ ResultThrows \/ ReportReturns \/ StartJob \/ JobsEmpty
  BY <1>5, <1>6, <1>9 DEF ResultReturns, ResultThrows, ReportReturns, StartJob, JobsEmpty
<1>10. CASE DrainPassEnds \/ LoopPassEnds \/ AwaitPassEnds
  <2>1. Goto(EndPass(Top, "jobs")) \/ Goto(EndPass(Top, "one")) \/ Return
    BY <1>10 DEF DrainPassEnds, LoopPassEnds, AwaitPassEnds
  <2>2. EndPass(Top, "jobs").pc = "jobs" /\ EndPass(Top, "one").pc = "one"
    BY <1>3 DEF Frame, EndPass
  <2> QED
    BY <1>4, <1>5, <2>1, <2>2
<1>11. CASE AwaitHead \/ AwaitIdle
  BY <1>5, <1>6, <1>11 DEF AwaitHead, AwaitIdle
<1> QED
  BY <1>7, <1>8, <1>9, <1>10, <1>11

LEMMA NextStep ==
  ASSUME MaxDepth = 1, ~Replace
  PROVE  IInv /\ IInv' /\ CalledOK /\ [Next]_vars => StepOK
<1> SUFFICES ASSUME IInv, IInv', CalledOK, [Next]_vars PROVE StepOK
  OBVIOUS
<1>1. CASE CallWhenClosed \/ UNCHANGED vars
  <2>1. UNCHANGED <<tableVars, clock, depth, frame>>
    BY <1>1 DEF CallWhenClosed, vars, tableVars
  <2> QED
    BY <2>1, SameCallFacts, LiveSame DEF SameCall, StepOK, Timers!vars, tableVars
<1>2. CASE JSActs
  BY <1>2, SetStep, ClearStep, OtherJSStep DEF JSActs
<1>3. CASE JSReturns
  BY <1>3, FrameStep, EndStep DEF JSReturns
<1>4. CASE EngineStep
  BY <1>4, FrameStep, BeginStep DEF EngineStep
<1> QED
  BY <1>1, <1>2, <1>3, <1>4, TickStep, EnterStep, CloseStep DEF Next

LEMMA InitCalled == Init => CalledOK
  BY DEF Init, CalledOK

(* The timer table and the passes over it keep what AbstractTimers promises *)
(* a script: each step is one of the abstract timers, or none.              *)
THEOREM LoopImplementsTimers ==
  ASSUME MaxDepth = 1, ~Replace
  PROVE  Spec => ImplementsTimers
<1>1. Init => Timers!Init
  <2> SUFFICES ASSUME Init PROVE Timers!Init
    OBVIOUS
  <2>1. Active = {}
    BY DEF Init, TableInit, Active, FreshEntry
  <2>2. Live = << >>
    BY <2>1, LiveEmpty
  <2>3. Calls = {}
    BY DEF Init, Calls
  <2> QED
    BY <2>2, <2>3 DEF Init, TableInit, Timers!Init
<1>2. IInv /\ IInv' /\ CalledOK /\ [Next]_vars
        => CalledOK' /\ [Timers!Next]_(Timers!vars)
  BY NextStep DEF StepOK
<1> QED
  BY <1>1, <1>2, InitCalled, Invariance, PTL DEF Spec, ImplementsTimers, Timers!Spec

=============================================================================
