---------------------------- MODULE FailuresProofs ----------------------------
(***************************************************************************)
(* No failure is lost but where the code is known to give one up, and none *)
(* comes back, for calls nested to any depth and any number of failures.   *)
(***************************************************************************)
EXTENDS Failures, TLAPS

Ops == DOMAIN Calls

Names == {"script", "job", "result", "json", "lookup", "parse", "store", "timer",
          "reason", "args", "java", "write", "check", "delay", "slot", "id"}

Call == [op : Ops, phase : Names, cause : Nat]

(* What the table of phases says, of any call and phase of it. *)
PhaseFacts(op, p) ==
  /\ p \in Names
  /\ Calls[op][p].next \subseteq DOMAIN Calls[op] \cup {"leave"}
  /\ p = "reason" => Calls[op][p].failing = "null" /\ Calls[op][p].next = {}
  /\ Calls[op][p].failing \in {"null", "ignore", "refuse"} => <<op, p>> \in KnownLosses
  /\ Calls[op][p].failing = "free" => p = "timer"
  /\ p = "java" => op \in FromScripts
  /\ op \in FromScripts => p # "reason" /\ Calls[op][p].failing \in {"ignore", "raise", "none"}
  /\ Calls[op][p].failing = "raise" => op \in FromScripts

LEMMA OpsAre ==
  Ops = {"eval", "evalAsJson", "getGlobal", "setGlobal", "call", "setCallback", "compile",
         "load", "drainJobs", "runEventLoop", "awaitPromise", "evalAsync", "callback", "console",
         "setTimeout", "setInterval", "clearTimer"}
  BY DEF Ops, Calls

LEMMA CallIs ==
  /\ Calls["eval"] = native_eval /\ Calls["evalAsJson"] = native_eval_as_json
  /\ Calls["getGlobal"] = native_get_global /\ Calls["setGlobal"] = native_set_global
  /\ Calls["call"] = native_call /\ Calls["setCallback"] = native_set_callback
  /\ Calls["compile"] = native_compile /\ Calls["load"] = native_load
  /\ Calls["drainJobs"] = native_run_event_loop
  /\ Calls["runEventLoop"] = native_run_event_loop
  /\ Calls["awaitPromise"] = native_await_promise /\ Calls["evalAsync"] = native_eval_async
  /\ Calls["callback"] = js_java_callback /\ Calls["console"] = js_console_log
  /\ Calls["setTimeout"] = js_set_timeout /\ Calls["setInterval"] = js_set_interval
  /\ Calls["clearTimer"] = js_clear_timer
  BY DEF Calls

LEMMA Table == \A op \in Ops : \A p \in DOMAIN Calls[op] : PhaseFacts(op, p)
<1> SUFFICES ASSUME NEW op \in Ops, NEW p \in DOMAIN Calls[op] PROVE PhaseFacts(op, p)
  OBVIOUS
<1> USE CallIs DEF PhaseFacts, Names, KnownLosses, FromScripts, Phase
<1>1. CASE op = "eval"
  BY <1>1 DEF native_eval
<1>2. CASE op = "evalAsJson"
  BY <1>2 DEF native_eval_as_json
<1>3. CASE op = "getGlobal"
  BY <1>3 DEF native_get_global
<1>4. CASE op = "setGlobal"
  BY <1>4 DEF native_set_global
<1>5. CASE op = "call"
  BY <1>5 DEF native_call
<1>6. CASE op = "setCallback"
  BY <1>6 DEF native_set_callback
<1>7. CASE op = "compile"
  BY <1>7 DEF native_compile
<1>8. CASE op = "load"
  BY <1>8 DEF native_load
<1>9. CASE op \in {"drainJobs", "runEventLoop"}
  BY <1>9 DEF native_run_event_loop
<1>10. CASE op = "awaitPromise"
  BY <1>10 DEF native_await_promise
<1>11. CASE op = "evalAsync"
  BY <1>11 DEF native_await_promise, native_eval_async
<1>12. CASE op = "callback"
  BY <1>12 DEF js_java_callback
<1>13. CASE op = "console"
  BY <1>13 DEF js_console_log
<1>14. CASE op \in {"setTimeout", "setInterval"}
  BY <1>14 DEF js_set_timeout, js_set_interval
<1>15. CASE op = "clearTimer"
  BY <1>15 DEF js_clear_timer
<1> QED
  BY <1>1, <1>2, <1>3, <1>4, <1>5, <1>6, <1>7, <1>8, <1>9, <1>10, <1>11, <1>12, <1>13, <1>14,
     <1>15, OpsAre

LEMMA First ==
  ASSUME NEW op \in Ops
  PROVE  /\ FirstPhase(op) \in DOMAIN Calls[op]
         /\ FirstPhase(op) \in Names \ {"java", "reason"}
<1> USE CallIs DEF Names, FirstPhase
<1>1. CASE op \in {"eval", "evalAsJson", "load", "compile"}
  BY <1>1 DEF native_eval, native_eval_as_json, native_load, native_compile
<1>2. CASE op \in {"getGlobal", "setGlobal", "call", "setCallback"}
  BY <1>2 DEF native_get_global, native_set_global, native_call, native_set_callback
<1>3. CASE op \in {"drainJobs", "runEventLoop", "awaitPromise"}
  BY <1>3 DEF native_run_event_loop, native_await_promise
<1>4. CASE op \in {"evalAsync", "callback", "console"}
  BY <1>4 DEF native_await_promise, native_eval_async, js_java_callback, js_console_log
<1>5. CASE op \in {"setTimeout", "setInterval", "clearTimer"}
  BY <1>5 DEF js_set_timeout, js_set_interval, js_clear_timer
<1> QED
  BY <1>1, <1>2, <1>3, <1>4, <1>5, OpsAre

-----------------------------------------------------------------------------
(* The inductive invariant *)

(* A call is in a phase of its own, and has a cause if that is "reason".    *)
CallOK(k) ==
  /\ stack[k].phase \in DOMAIN Calls[stack[k].op]
  /\ stack[k].cause # 0 <=> stack[k].phase = "reason"
  /\ stack[k].cause <= failures

(* Below an entry point is Java, below a callback or the console a script.  *)
CallerOK(k) ==
  IF stack[k].op \in FromScripts
  THEN k < Len(stack) /\ stack[k + 1].phase # "java"
  ELSE k = Len(stack) \/ stack[k + 1].phase = "java"

StackOK ==
  /\ stack \in Seq(Call) /\ Len(stack) <= MaxDepth
  /\ \A k \in 1..Len(stack) : CallOK(k) /\ CallerOK(k)

CountsOK ==
  /\ failures \in 0..MaxFailures /\ handled \subseteq 1..failures
  /\ exc \in 0..failures /\ jni \in 0..failures /\ raised \in BOOLEAN

RaisedOK == raised => exc # 0 /\ ~InJava

FlowInv == StackOK /\ CountsOK /\ RaisedOK

LEMMA InitFlow == FlowInit => FlowInv
<1> SUFFICES ASSUME FlowInit PROVE FlowInv
  OBVIOUS
<1>1. StackOK
  BY FlowAssumption DEF FlowInit, StackOK
<1>2. CountsOK
  <2>1. failures \in 0..MaxFailures /\ exc \in 0..failures /\ jni \in 0..failures
    BY FlowAssumption DEF FlowInit
  <2>2. handled \subseteq 1..failures /\ raised \in BOOLEAN
    BY DEF FlowInit
  <2> QED
    BY <2>1, <2>2 DEF CountsOK
<1>3. RaisedOK
  BY DEF FlowInit, RaisedOK
<1> QED
  BY <1>1, <1>2, <1>3 DEF FlowInv

LEMMA TypeFlow == FlowInv => FlowTypeOK
<1> SUFFICES ASSUME FlowInv PROVE FlowTypeOK
  OBVIOUS
<1>1. ASSUME NEW k \in 1..Len(stack)
      PROVE  /\ stack[k].op \in EntryPoints \cup FromScripts
             /\ stack[k].phase \in DOMAIN Calls[stack[k].op]
             /\ (stack[k].cause # 0) = (stack[k].phase = "reason")
  <2>1. stack[k] \in Call /\ CallOK(k)
    BY DEF FlowInv, StackOK
  <2> QED
    BY <2>1 DEF CallOK, Call, Ops, EntryPoints
<1> QED
  BY <1>1 DEF FlowInv, StackOK, CountsOK, RaisedOK, FlowTypeOK

(* What is known of the innermost call when it is not in Java. *)
LEMMA TopFacts ==
  ASSUME FlowInv, stack # << >>
  PROVE  /\ Top = stack[1] /\ Top \in Call /\ 1 \in 1..Len(stack)
         /\ Top.phase \in DOMAIN Calls[Top.op] /\ PhaseFacts(Top.op, Top.phase)
         /\ Top.cause # 0 <=> Top.phase = "reason"
         /\ Top.cause \in Causes
<1>1. Top = stack[1] /\ 1 \in 1..Len(stack) /\ stack[1] \in Call /\ CallOK(1)
  BY DEF FlowInv, StackOK, Top
<1> QED
  BY <1>1, Table DEF CallOK, Call, Causes

LEMMA NotJava ==
  ASSUME FlowInv, ~InJava
  PROVE  stack # << >>
  BY DEF InJava, Top, Program

-----------------------------------------------------------------------------
(* What may happen to the stack *)

LEMMA PushInv ==
  ASSUME FlowInv, NEW op \in Ops, Push(op), Len(stack) < MaxDepth, UNCHANGED failures,
         op \in FromScripts <=> ~InJava
  PROVE  StackOK' /\ Causes' \ {0} = Causes \ {0}
<1> DEFINE c == [op |-> op, phase |-> FirstPhase(op), cause |-> 0]
<1>1. c \in Call /\ c.phase \in DOMAIN Calls[op] /\ c.phase # "reason"
  BY First DEF Call
<1>2. stack \in Seq(Call) /\ stack' = <<c>> \o stack /\ failures \in Nat
  BY DEF FlowInv, StackOK, CountsOK, Push
<1> HIDE DEF c
<1>3. /\ stack' \in Seq(Call) /\ Len(stack') = Len(stack) + 1 /\ stack'[1] = c
      /\ \A k \in 1..Len(stack) : stack'[k + 1] = stack[k]
  BY <1>1, <1>2
<1>4. ASSUME NEW k \in 1..Len(stack') PROVE CallOK(k)' /\ CallerOK(k)'
  <2>1. CASE k = 1
    <3>1. CallOK(k)'
      BY <1>1, <1>2, <1>3, <2>1 DEF CallOK, c
    <3>2. CallerOK(k)'
      <4>1. CASE stack = << >>
        BY <1>2, <1>3, <2>1, <4>1 DEF CallerOK, c, InJava, Top, Program
      <4>2. CASE stack # << >>
        <5>1. stack'[2] = stack[1] /\ Top = stack[1] /\ Len(stack) >= 1
          BY <1>2, <1>3, <4>2, TopFacts
        <5> QED
          BY <1>3, <2>1, <5>1 DEF CallerOK, c, InJava
      <4> QED
        BY <4>1, <4>2
    <3> QED
      BY <3>1, <3>2
  <2>2. CASE k # 1
    <3>1. PICK j \in 1..Len(stack) : k = j + 1
      BY <1>2, <1>3, <2>2
    <3>2. CallOK(j) /\ CallerOK(j)
      BY DEF FlowInv, StackOK
    <3> QED
      BY <1>2, <1>3, <3>1, <3>2 DEF CallOK, CallerOK
  <2> QED
    BY <2>1, <2>2
<1>5. Causes' = Causes \cup {0}
  <2>1. ASSUME NEW k \in 1..Len(stack') PROVE stack'[k].cause \in Causes \cup {0}
    <3>1. CASE k = 1
      BY <1>3, <3>1 DEF c
    <3>2. CASE k # 1
      <4>1. PICK j \in 1..Len(stack) : k = j + 1
        BY <1>2, <1>3, <3>2
      <4> QED
        BY <1>3, <4>1 DEF Causes
    <3> QED
      BY <3>1, <3>2
  <2>2. ASSUME NEW j \in 1..Len(stack) PROVE stack[j].cause \in Causes'
    <3>1. j + 1 \in 1..Len(stack') /\ stack'[j + 1] = stack[j]
      BY <1>2, <1>3
    <3> QED
      BY <3>1 DEF Causes
  <2>3. 1 \in 1..Len(stack') /\ stack'[1].cause = 0
    BY <1>2, <1>3 DEF c
  <2> QED
    BY <2>1, <2>2, <2>3 DEF Causes
<1>6. Len(stack') <= MaxDepth
  BY <1>2, <1>3, FlowAssumption
<1> QED
  BY <1>3, <1>4, <1>5, <1>6 DEF StackOK

LEMMA PopInv ==
  ASSUME FlowInv, stack # << >>, Pop, failures' \in Nat, failures' >= failures
  PROVE  /\ StackOK'
         /\ Causes' \subseteq Causes /\ Causes \subseteq Causes' \cup {Top.cause}
         /\ InJava' <=> Top.op \notin FromScripts
<1>1. /\ stack \in Seq(Call) /\ stack' = Tail(stack) /\ Top = stack[1] /\ failures \in Nat
      /\ Len(stack) <= MaxDepth
  BY TopFacts DEF FlowInv, StackOK, CountsOK, Pop
<1>2. /\ stack' \in Seq(Call) /\ Len(stack') = Len(stack) - 1 /\ Len(stack) \in Nat \ {0}
      /\ \A k \in 1..Len(stack') : stack'[k] = stack[k + 1] /\ k + 1 \in 1..Len(stack)
  BY <1>1
<1>3. ASSUME NEW k \in 1..Len(stack') PROVE CallOK(k)' /\ CallerOK(k)'
  <2>1. CallOK(k + 1) /\ CallerOK(k + 1) /\ stack[k + 1] \in Call
    BY <1>2 DEF FlowInv, StackOK
  <2>2. k + 1 \in 1..Len(stack') => stack'[k + 1] = stack[(k + 1) + 1]
    BY <1>2
  <2>3. stack'[k] = stack[k + 1] /\ stack[k + 1].cause \in Nat
    BY <1>2, <2>1 DEF Call
  <2>4. CallOK(k)'
    BY <1>1, <2>1, <2>3 DEF CallOK
  <2>5. k + 1 < Len(stack) <=> k < Len(stack')
    BY <1>2
  <2>6. k + 1 = Len(stack) <=> k = Len(stack')
    BY <1>2
  <2>7. k < Len(stack') => stack'[k + 1] = stack[(k + 1) + 1]
    BY <1>2, <2>2
  <2>8. k < Len(stack') \/ k = Len(stack')
    BY <1>2
  <2>9. CallerOK(k)'
    BY <2>1, <2>3, <2>5, <2>6, <2>7, <2>8 DEF CallerOK
  <2> QED
    BY <2>4, <2>9
<1>4. Causes' \subseteq Causes
  BY <1>2 DEF Causes
<1>5. Causes \subseteq Causes' \cup {Top.cause}
  <2> SUFFICES ASSUME NEW k \in 1..Len(stack), k # 1 PROVE stack[k].cause \in Causes'
    BY <1>1 DEF Causes
  <2>1. k - 1 \in 1..Len(stack') /\ (k - 1) + 1 = k
    BY <1>2
  <2>2. stack'[k - 1] = stack[k]
    BY <1>2, <2>1
  <2> QED
    BY <2>1, <2>2 DEF Causes
<1>6. InJava' <=> Top.op \notin FromScripts
  <2>1. CallerOK(1)
    BY <1>2 DEF FlowInv, StackOK
  <2>2. CASE Len(stack) = 1
    <3>1. stack' = << >>
      BY <1>2, <2>2
    <3> QED
      BY <1>1, <2>1, <2>2, <3>1 DEF CallerOK, InJava, Top, Program
  <2>3. CASE Len(stack) # 1
    <3>1. stack' # << >> /\ Head(stack') = stack[2]
      BY <1>2, <2>3
    <3> QED
      BY <1>1, <2>1, <2>3, <3>1 DEF CallerOK, InJava, Top
  <2> QED
    BY <2>2, <2>3
<1> QED
  BY <1>1, <1>2, <1>3, <1>4, <1>5, <1>6, FlowAssumption DEF StackOK

LEMMA MoveInv ==
  ASSUME FlowInv, ~InJava, failures' \in Nat, failures' >= failures,
         NEW c \in Call, stack' = [stack EXCEPT ![1] = c],
         c.op = Top.op, c.phase \in DOMAIN Calls[c.op],
         c.cause # 0 <=> c.phase = "reason", c.cause <= failures'
  PROVE  /\ StackOK'
         /\ Causes' \subseteq Causes \cup {c.cause} /\ Causes \subseteq Causes' \cup {Top.cause}
         /\ c.cause \in Causes'
<1>1. /\ stack \in Seq(Call) /\ Top = stack[1] /\ failures \in Nat /\ stack # << >>
      /\ Len(stack) <= MaxDepth
  BY NotJava, TopFacts DEF FlowInv, StackOK, CountsOK
<1>2. /\ stack' \in Seq(Call) /\ Len(stack') = Len(stack) /\ stack'[1] = c
      /\ 1 \in 1..Len(stack) /\ \A k \in 1..Len(stack) : k # 1 => stack'[k] = stack[k]
  BY <1>1
<1>3. ASSUME NEW k \in 1..Len(stack') PROVE CallOK(k)' /\ CallerOK(k)'
  <2>1. CallOK(k) /\ CallerOK(k) /\ stack[k] \in Call
    BY <1>2 DEF FlowInv, StackOK
  <2>2. k + 1 # 1 /\ (k < Len(stack) => stack'[k + 1] = stack[k + 1])
    BY <1>1, <1>2
  <2>3. CASE k = 1
    BY <1>1, <1>2, <2>1, <2>2, <2>3 DEF CallOK, CallerOK
  <2>4. CASE k # 1
    <3>1. stack'[k] = stack[k] /\ stack[k].cause \in Nat
      BY <1>2, <2>1, <2>4 DEF Call
    <3>2. CallOK(k)'
      BY <1>1, <2>1, <3>1 DEF CallOK
    <3>3. CallerOK(k)'
      <4>1. k < Len(stack) \/ k = Len(stack)
        <5>1. k \in 1..Len(stack) /\ Len(stack) \in Nat
          BY <1>1, <1>2
        <5> QED
          BY <5>1
      <4>2. k < Len(stack) => stack'[k + 1] = stack[k + 1]
        BY <2>2
      <4> QED
        BY <1>2, <2>1, <3>1, <4>1, <4>2 DEF CallerOK
    <3> QED
      BY <3>2, <3>3
  <2> QED
    BY <2>3, <2>4
<1>4. Causes' \subseteq Causes \cup {c.cause} /\ c.cause \in Causes'
  BY <1>2 DEF Causes
<1>5. Causes \subseteq Causes' \cup {Top.cause}
  BY <1>1, <1>2 DEF Causes
<1> QED
  BY <1>1, <1>2, <1>3, <1>4, <1>5 DEF StackOK

LEMMA GoOnInv ==
  ASSUME FlowInv, ~InJava, NEW p \in Following, GoOn(p), UNCHANGED failures
  PROVE  StackOK' /\ Causes' \ {0} = Causes \ {0}
<1>1. /\ stack # << >> /\ Top = stack[1] /\ Top \in Call /\ PhaseFacts(Top.op, Top.phase)
      /\ failures \in Nat
  BY NotJava, TopFacts DEF FlowInv, CountsOK
<1>2. Top.phase # "reason" /\ Top.cause = 0 /\ p \in DOMAIN Calls[Top.op] \cup {"leave"}
  BY <1>1, NotJava, TopFacts DEF PhaseFacts, Following
<1>3. CASE p = "leave"
  BY <1>1, <1>2, <1>3, PopInv DEF GoOn
<1>4. CASE p # "leave"
  <2> DEFINE c == [Top EXCEPT !.phase = p]
  <2>1. PhaseFacts(Top.op, p)
    BY <1>1, <1>2, <1>4, Table DEF Call
  <2>2. c \in Call /\ c.op = Top.op /\ c.phase = p /\ c.cause = 0
    BY <1>1, <1>2, <2>1 DEF Call, PhaseFacts
  <2>3. stack' = [stack EXCEPT ![1] = c] /\ p # "reason"
    BY <1>1, <1>4 DEF GoOn
  <2> HIDE DEF c
  <2>4. failures' \in Nat /\ failures' >= failures /\ c.cause <= failures'
    BY <1>1, <2>2
  <2>5. c.phase \in DOMAIN Calls[c.op] /\ (c.cause # 0 <=> c.phase = "reason")
    BY <1>2, <1>4, <2>2, <2>3
  <2>6. StackOK' /\ Causes' \subseteq Causes \cup {c.cause} /\ Causes \subseteq Causes' \cup {Top.cause}
    BY <2>2, <2>3, <2>4, <2>5, MoveInv
  <2> QED
    BY <1>2, <2>2, <2>6
<1> QED
  BY <1>3, <1>4

-----------------------------------------------------------------------------
(* The steps *)

(* What JNIQuiet, NothingElseLost and NoneComesBack say of a step. *)
QuietStep ==
  ~InJava' /\ jni' # 0 =>
    \/ ~InJava /\ jni' = jni
    \/ Where = <<"console", "java">>

Lost == InFlight \ (InFlight' \cup handled')

LossKnown ==
  Lost # {} =>
    \/ raised /\ (Where \in KnownLosses \/ Top.phase = "timer")
    \/ ~InJava /\ jni # 0 /\ InJava' /\ jni' # 0

StaysGone == InFlight' \cap (1..failures) \subseteq InFlight

StepOK == FlowInv' /\ QuietStep /\ LossKnown /\ StaysGone

(* Java calls, or the script calls Java. *)
LEMMA CallStep ==
  ASSUME FlowInv, JavaCalls \/ ScriptCalls
  PROVE  StepOK
<1>1. /\ ~raised /\ (InJava => jni = 0) /\ UNCHANGED <<exc, raised, jni, failures, handled>>
  BY DEF JavaCalls, ScriptCalls, InScript, FlowInv, RaisedOK
<1>2. PICK op \in Ops : Push(op) /\ (op \in FromScripts <=> ~InJava) /\ Len(stack) < MaxDepth
  <2>1. CASE JavaCalls
    BY <2>1 DEF JavaCalls, EntryPoints, Ops
  <2>2. CASE ScriptCalls
    BY <2>2, OpsAre DEF ScriptCalls, InScript, FromScripts
  <2> QED
    BY <2>1, <2>2
<1>3. StackOK' /\ Causes' \ {0} = Causes \ {0}
  BY <1>1, <1>2, PushInv
<1>4. FlowInv'
  BY <1>1, <1>3 DEF FlowInv, CountsOK, RaisedOK
<1>5. InFlight' = InFlight
  BY <1>1, <1>3 DEF InFlight
<1> QED
  BY <1>1, <1>4, <1>5 DEF StepOK, QuietStep, LossKnown, Lost, StaysGone

(* A failure is caught. *)
LEMMA CatchStep ==
  ASSUME FlowInv, JavaCatches \/ ScriptCatches
  PROVE  StepOK
<1>1. UNCHANGED <<stack, failures>> /\ handled \subseteq handled'
  BY DEF JavaCatches, ScriptCatches
<1>2. StackOK' /\ Causes' = Causes
  BY <1>1 DEF FlowInv, StackOK, CallOK, CallerOK, Causes
<1>3. CASE JavaCatches
  <2>1. /\ InJava /\ ~raised /\ jni # 0 /\ jni' = 0 /\ UNCHANGED <<stack, exc, raised, failures>>
        /\ handled' = handled \cup {jni}
    BY <1>3 DEF JavaCatches, FlowInv, RaisedOK
  <2>2. CountsOK' /\ RaisedOK'
    BY <2>1 DEF FlowInv, CountsOK, RaisedOK
  <2>3. InFlight = ({jni} \cup Causes) \ {0} /\ InFlight' = Causes \ {0}
    BY <1>2, <2>1 DEF InFlight
  <2> QED
    BY <1>2, <2>1, <2>2, <2>3 DEF FlowInv, StepOK, QuietStep, LossKnown, Lost, StaysGone
<1>4. CASE ScriptCatches
  <2>1. /\ ~InJava /\ raised /\ jni' = jni /\ exc' = 0 /\ raised' = FALSE
        /\ handled' = handled \cup {exc}
    BY <1>4 DEF ScriptCatches, InScript
  <2>2. exc # 0 /\ exc \in 0..failures /\ failures \in Nat /\ handled \subseteq 1..failures
    BY <2>1 DEF FlowInv, CountsOK, RaisedOK
  <2>3. CountsOK'
    <3>1. failures \in 0..MaxFailures /\ jni \in 0..failures /\ exc' \in 0..failures
      BY <2>1, <2>2 DEF FlowInv, CountsOK
    <3>2. handled' \subseteq 1..failures
      BY <2>1, <2>2
    <3>3. raised' \in BOOLEAN
      BY <2>1
    <3> QED
      BY <1>1, <2>1, <3>1, <3>2, <3>3 DEF CountsOK
  <2>4. RaisedOK'
    BY <2>1 DEF RaisedOK
  <2>5. InFlight = ({exc, jni} \cup Causes) \ {0} /\ InFlight' = ({jni} \cup Causes) \ {0}
    BY <1>2, <2>1 DEF InFlight
  <2> QED
    BY <1>2, <2>1, <2>3, <2>4, <2>5 DEF FlowInv, StepOK, QuietStep, LossKnown, Lost, StaysGone
<1> QED
  BY <1>3, <1>4

LEMMA FailStep ==
  ASSUME FlowInv, Fails
  PROVE  StepOK
<1>1. UNCHANGED <<stack, handled, jni>> /\ ~InJava /\ ~raised
  BY DEF Fails
<1>2. /\ failures \in Nat /\ failures' = failures + 1 /\ exc' = failures' /\ raised' = TRUE
      /\ failures < MaxFailures
  BY DEF Fails, NewFailure, FlowInv, CountsOK
<1>3. StackOK' /\ Causes' = Causes
  <2>1. ASSUME NEW k \in 1..Len(stack) PROVE stack[k].cause \in Nat
    <3>1. stack[k] \in Call
      BY DEF FlowInv, StackOK
    <3> QED
      BY <3>1 DEF Call
  <2> QED
    BY <1>1, <1>2, <2>1 DEF FlowInv, StackOK, CallOK, CallerOK, Causes
<1>4. CountsOK'
  BY <1>1, <1>2, FlowAssumption DEF FlowInv, CountsOK
<1>5. RaisedOK'
  BY <1>1, <1>2 DEF RaisedOK, InJava, Top
<1>6. /\ InFlight = ({jni} \cup Causes) \ {0}
      /\ InFlight' = ({jni, failures + 1} \cup Causes) \ {0}
  BY <1>1, <1>2, <1>3 DEF InFlight
<1> QED
  BY <1>1, <1>2, <1>3, <1>4, <1>5, <1>6
     DEF FlowInv, StepOK, QuietStep, LossKnown, Lost, StaysGone

(* The phase is over, and its failure, if it has one, is left behind. *)
LEMMA GoOnStep ==
  ASSUME FlowInv, ~InJava, NEW p \in Following, GoOn(p),
         UNCHANGED <<exc, jni, failures, handled>>, raised' = FALSE,
         raised => Where \in KnownLosses
  PROVE  StepOK
<1>1. StackOK' /\ Causes' \ {0} = Causes \ {0}
  BY GoOnInv
<1>2. FlowInv'
  BY <1>1 DEF FlowInv, CountsOK, RaisedOK
<1>3. InFlight' = ({jni} \cup Causes) \ {0}
  BY <1>1 DEF InFlight
<1>4. InFlight = IF raised THEN ({exc, jni} \cup Causes) \ {0} ELSE ({jni} \cup Causes) \ {0}
  BY <1>1 DEF InFlight
<1> QED
  BY <1>2, <1>3, <1>4 DEF StepOK, QuietStep, LossKnown, Lost, StaysGone

(* Back to Java without an exception pending there, or to the script. *)
LEMMA PopStep ==
  ASSUME FlowInv, ~InJava, Pop, UNCHANGED <<jni, failures, handled>>,
         exc' = exc, raised' => raised /\ Top.op \in FromScripts, raised' \in BOOLEAN,
         raised /\ ~raised' => Where \in KnownLosses,
         Top.phase = "reason" => raised /\ ~raised'
  PROVE  StepOK
<1>1. /\ stack # << >> /\ failures \in Nat
      /\ Top.cause # 0 <=> Top.phase = "reason"
  BY NotJava, TopFacts DEF FlowInv, CountsOK
<1>2. /\ StackOK' /\ Causes' \subseteq Causes /\ Causes \subseteq Causes' \cup {Top.cause}
      /\ InJava' <=> Top.op \notin FromScripts
  BY <1>1, PopInv
<1>3. FlowInv'
  <2>1. CountsOK'
    BY DEF FlowInv, CountsOK
  <2>2. RaisedOK'
    BY <1>2 DEF FlowInv, RaisedOK
  <2> QED
    BY <1>2, <2>1, <2>2 DEF FlowInv
<1>4. StaysGone
  BY <1>1, <1>2 DEF StaysGone, InFlight
<1>5. LossKnown
  BY <1>1, <1>2 DEF LossKnown, Lost, InFlight
<1> QED
  BY <1>3, <1>4, <1>5 DEF StepOK, QuietStep

(* Back to Java with an exception that was in flight, or with a new one. *)
LEMMA ThrowStep ==
  ASSUME FlowInv, ~InJava, Pop, Top.op \notin FromScripts,
         failures' \in failures..MaxFailures, exc' \in 0..failures',
         jni' \in InFlight \/ jni' \in (failures + 1)..failures',
         raised' = FALSE, UNCHANGED handled,
         raised /\ jni = 0 => jni' = exc \/ Where \in KnownLosses,
         Top.phase = "reason" /\ jni = 0 => ~raised /\ jni' = Top.cause
  PROVE  StepOK
<1>1. /\ stack # << >> /\ failures \in Nat
      /\ Top.cause # 0 <=> Top.phase = "reason"
      /\ Top.cause \in Causes
  BY NotJava, TopFacts DEF FlowInv, CountsOK
<1>2. failures' \in Nat /\ failures' >= failures /\ failures' \in 0..MaxFailures
  BY <1>1, FlowAssumption
<1>3. /\ StackOK' /\ Causes' \subseteq Causes /\ Causes \subseteq Causes' \cup {Top.cause}
      /\ InJava'
  BY <1>1, <1>2, PopInv
<1>4. ASSUME NEW x \in Causes PROVE x \in 0..failures
  <2>1. PICK k \in 1..Len(stack) : x = stack[k].cause
    BY DEF Causes
  <2>2. stack[k] \in Call /\ CallOK(k)
    BY DEF FlowInv, StackOK
  <2> QED
    BY <1>1, <2>1, <2>2 DEF Call, CallOK
<1>5. ASSUME NEW x \in InFlight PROVE x \in 1..failures
  <2>1. x \in 0..failures
    BY <1>1, <1>4 DEF InFlight, FlowInv, CountsOK
  <2> QED
    BY <1>1, <2>1 DEF InFlight
<1>6. jni' \in 1..failures'
  BY <1>1, <1>2, <1>5
<1>7. CountsOK'
  <2>1. handled' \subseteq 1..failures'
    BY <1>1, <1>2 DEF FlowInv, CountsOK
  <2>2. jni' \in 0..failures'
    BY <1>2, <1>6
  <2>3. raised' \in BOOLEAN
    OBVIOUS
  <2> QED
    BY <1>2, <2>1, <2>2, <2>3 DEF CountsOK
<1>8. RaisedOK'
  BY DEF RaisedOK
<1>9. InFlight' = ({jni'} \cup Causes') \ {0}
  BY <1>6 DEF InFlight
<1>10. StaysGone
  <2> SUFFICES ASSUME NEW x \in InFlight', x \in 1..failures PROVE x \in InFlight
    BY DEF StaysGone
  <2>1. CASE x = jni'
    BY <1>1, <2>1
  <2>2. CASE x \in Causes'
    BY <1>3, <1>9, <2>2 DEF InFlight
  <2> QED
    BY <1>9, <2>1, <2>2
<1>11. LossKnown
  <2>1. CASE jni # 0
    BY <1>2, <1>3, <1>6, <2>1 DEF LossKnown
  <2>2. CASE jni = 0
    BY <1>1, <1>3, <1>6, <1>9, <2>2 DEF LossKnown, Lost, InFlight
  <2> QED
    BY <2>1, <2>2
<1> QED
  BY <1>3, <1>7, <1>8, <1>10, <1>11 DEF FlowInv, StepOK, QuietStep

(* Java that the script has called returns. *)
LEMMA JavaReturnsStep ==
  ASSUME FlowInv, JavaReturns
  PROVE  StepOK
<1>1. /\ stack # << >> /\ jni = 0 /\ ~raised /\ failures \in Nat /\ Pop
      /\ UNCHANGED <<exc, raised, jni, failures, handled>> /\ Top.phase = "java"
  BY DEF JavaReturns, FlowInv, CountsOK, RaisedOK, InJava
<1>2. Top.cause = 0 /\ Top.op \in FromScripts
  BY <1>1, TopFacts DEF PhaseFacts
<1>3. StackOK' /\ Causes' \subseteq Causes /\ Causes \subseteq Causes' \cup {0}
  BY <1>1, <1>2, PopInv
<1>4. FlowInv'
  BY <1>1, <1>3 DEF FlowInv, CountsOK, RaisedOK
<1>5. InFlight' = InFlight
  BY <1>1, <1>3 DEF InFlight
<1> QED
  BY <1>1, <1>4, <1>5 DEF StepOK, QuietStep, LossKnown, Lost, StaysGone

(* The handler of the console throws. *)
LEMMA HandlerThrowsStep ==
  ASSUME FlowInv, HandlerThrows
  PROVE  StepOK
<1>1. /\ Top.op = "console" /\ Top.phase = "java" /\ ~raised /\ Pop
      /\ UNCHANGED <<exc, raised, handled>>
  BY DEF HandlerThrows, Where, FlowInv, RaisedOK, InJava
<1>2. stack # << >> /\ failures \in 0..MaxFailures /\ jni \in 0..failures
  BY <1>1 DEF Top, Program, FlowInv, CountsOK
<1>3. /\ failures' \in failures..MaxFailures /\ jni' \in 1..failures'
      /\ \/ jni' = jni
         \/ jni = 0 /\ jni' = failures + 1
  <2>1. CASE jni # 0 /\ UNCHANGED <<jni, failures>>
    BY <1>2, <2>1
  <2>2. CASE jni = 0 /\ NewFailure /\ jni' = failures'
    BY <1>2, <2>2, FlowAssumption DEF NewFailure
  <2> QED
    BY <2>1, <2>2 DEF HandlerThrows
<1>4. Top.cause = 0
  BY <1>1, <1>2, TopFacts
<1>5. failures' \in Nat /\ failures' >= failures /\ failures' \in 0..MaxFailures
  BY <1>2, <1>3
<1>6. StackOK' /\ Causes' \subseteq Causes /\ Causes \subseteq Causes' \cup {0}
  BY <1>1, <1>2, <1>4, <1>5, PopInv
<1>7. CountsOK'
  <2>1. exc \in 0..failures' /\ handled \subseteq 1..failures' /\ jni' \in 0..failures'
    BY <1>2, <1>3, <1>5 DEF FlowInv, CountsOK
  <2> QED
    BY <1>1, <1>5, <2>1 DEF FlowInv, CountsOK
<1>8. RaisedOK'
  BY <1>1 DEF RaisedOK
<1>9. InFlight = ({jni} \cup Causes) \ {0} /\ InFlight' = ({jni'} \cup Causes') \ {0}
  BY <1>1 DEF InFlight
<1>10. Where = <<"console", "java">>
  BY <1>1 DEF Where
<1>11. LossKnown
  BY <1>3, <1>6, <1>9 DEF LossKnown, Lost
<1>12. StaysGone
  BY <1>2, <1>3, <1>6, <1>9 DEF StaysGone
<1> QED
  BY <1>6, <1>7, <1>8, <1>10, <1>11, <1>12 DEF FlowInv, StepOK, QuietStep

(* Java that the script has called throws. *)
LEMMA CallbackThrowsStep ==
  ASSUME FlowInv, CallbackThrows
  PROVE  StepOK
<1>1. /\ Top.op = "callback" /\ Top.phase = "java" /\ ~raised /\ Pop /\ raised' = TRUE
      /\ jni' = 0 /\ UNCHANGED handled
  BY DEF CallbackThrows, Where, FlowInv, RaisedOK, InJava
<1>2. stack # << >> /\ failures \in Nat /\ jni \in 0..failures
  BY <1>1 DEF Top, Program, FlowInv, CountsOK
<1>3. /\ failures' \in Nat /\ failures' >= failures /\ failures' \in 0..MaxFailures
      /\ exc' \in 1..failures'
      /\ \/ jni # 0 /\ exc' = jni
         \/ jni = 0 /\ exc' = failures + 1
  <2>1. failures \in 0..MaxFailures
    BY DEF FlowInv, CountsOK
  <2>2. CASE jni # 0 /\ exc' = jni /\ UNCHANGED failures
    BY <1>2, <2>1, <2>2
  <2>3. CASE jni = 0 /\ NewFailure /\ exc' = failures'
    BY <1>2, <2>1, <2>3, FlowAssumption DEF NewFailure
  <2> QED
    BY <2>2, <2>3 DEF CallbackThrows
<1>4. Top.cause = 0 /\ "callback" \in FromScripts
  BY <1>1, <1>2, TopFacts DEF FromScripts
<1>5. StackOK' /\ Causes' \subseteq Causes /\ Causes \subseteq Causes' \cup {0} /\ ~InJava'
  BY <1>1, <1>2, <1>3, <1>4, PopInv
<1>6. CountsOK'
  BY <1>1, <1>2, <1>3 DEF FlowInv, CountsOK
<1>7. RaisedOK'
  BY <1>1, <1>2, <1>3, <1>5 DEF RaisedOK
<1>8. InFlight = ({jni} \cup Causes) \ {0} /\ InFlight' = ({exc'} \cup Causes') \ {0}
  BY <1>1 DEF InFlight
<1>9. LossKnown
  BY <1>3, <1>5, <1>8 DEF LossKnown, Lost
<1>10. StaysGone
  BY <1>2, <1>3, <1>5, <1>8 DEF StaysGone
<1> QED
  BY <1>1, <1>5, <1>6, <1>7, <1>9, <1>10 DEF FlowInv, StepOK, QuietStep

(* The promise of await is found rejected: the reason is a new failure. *)
LEMMA RejectedStep ==
  ASSUME FlowInv, Rejected
  PROVE  StepOK
<1> DEFINE c == [Top EXCEPT !.phase = "reason", !.cause = failures']
<1>1. /\ ~InJava /\ ~raised /\ stack # << >>
      /\ UNCHANGED <<exc, raised, jni, handled>> /\ "reason" \in Following
  BY NotJava DEF Rejected
<1>2. /\ failures \in Nat /\ failures < MaxFailures /\ failures' = failures + 1
      /\ failures' \in Nat /\ failures' >= failures
  BY DEF Rejected, NewFailure, FlowInv, CountsOK
<1>3. Top = stack[1] /\ Top \in Call /\ PhaseFacts(Top.op, Top.phase)
      /\ (Top.cause # 0 <=> Top.phase = "reason")
  BY <1>1, TopFacts
<1>4. Top.cause = 0 /\ "reason" \in DOMAIN Calls[Top.op]
  BY <1>1, <1>3 DEF PhaseFacts, Following
<1>5. /\ c \in Call /\ c.op = Top.op /\ c.phase = "reason" /\ c.cause = failures'
  BY <1>2, <1>3 DEF Call, Names
<1>6. stack' = [stack EXCEPT ![1] = c]
  BY <1>3 DEF Rejected
<1> HIDE DEF c
<1>7. /\ StackOK' /\ Causes' \subseteq Causes \cup {failures'}
      /\ Causes \subseteq Causes' \cup {0}
  <2>1. c.phase \in DOMAIN Calls[c.op] /\ (c.cause # 0 <=> c.phase = "reason")
    BY <1>2, <1>4, <1>5
  <2>2. c.cause <= failures'
    BY <1>2, <1>5
  <2> QED
    BY <1>1, <1>2, <1>4, <1>5, <1>6, <2>1, <2>2, MoveInv
<1>8. CountsOK'
  BY <1>1, <1>2, FlowAssumption DEF FlowInv, CountsOK
<1>9. RaisedOK'
  BY <1>1 DEF RaisedOK
<1>10. InFlight = ({jni} \cup Causes) \ {0} /\ InFlight' = ({jni} \cup Causes') \ {0}
  BY <1>1 DEF InFlight
<1> QED
  BY <1>1, <1>2, <1>7, <1>8, <1>9, <1>10
     DEF FlowInv, StepOK, QuietStep, LossKnown, Lost, StaysGone

(* The entry point throws an exception of its own making. *)
LEMMA RefuseStep ==
  ASSUME FlowInv, Refuses
  PROVE  StepOK
<1>1. /\ ~InJava /\ Pop /\ raised' = FALSE /\ exc' = exc /\ UNCHANGED handled
      /\ jni' = failures' \/ (jni # 0 /\ jni' = jni)
      /\ stack # << >>
  BY NotJava DEF Refuses, ThrowToJava
<1>2. /\ Top \in Call /\ Top.phase \in DOMAIN Calls[Top.op] /\ PhaseFacts(Top.op, Top.phase)
  BY <1>1, TopFacts
<1>3. /\ failures \in Nat /\ failures' = failures + 1 /\ failures' \in failures..MaxFailures
      /\ exc \in 0..failures'
  BY FlowAssumption DEF Refuses, NewFailure, FlowInv, CountsOK
<1>4. /\ Top.op \notin FromScripts /\ Top.phase # "reason"
      /\ raised => Where \in KnownLosses
  <2>1. CASE Failing = "refuse"
    BY <1>2, <2>1 DEF PhaseFacts, Failing, Where
  <2>2. CASE Where \in {<<"awaitPromise", "job">>, <<"evalAsync", "job">>} /\ ~raised
    BY <2>2 DEF Where, FromScripts
  <2> QED
    BY <2>1, <2>2 DEF Refuses
<1>5. jni' \in InFlight \/ jni' \in (failures + 1)..failures'
  BY <1>1, <1>3 DEF InFlight
<1> QED
  BY <1>1, <1>3, <1>4, <1>5, ThrowStep

(* The reason of a rejected promise is thrown to Java. *)
LEMMA ThrowsReasonStep ==
  ASSUME FlowInv, ThrowsReason
  PROVE  StepOK
<1>1. /\ ~InJava /\ Pop /\ ~raised /\ UNCHANGED <<exc, raised, failures, handled>>
      /\ jni' = Top.cause \/ (jni # 0 /\ jni' = jni)
      /\ stack # << >> /\ Top.phase = "reason"
  BY NotJava DEF ThrowsReason, ThrowToJava
<1>2. /\ PhaseFacts(Top.op, Top.phase) /\ Top.cause # 0 /\ Top.cause \in Causes
  BY <1>1, TopFacts
<1>3. Top.op \notin FromScripts
  BY <1>1, <1>2 DEF PhaseFacts
<1>4. jni' \in InFlight
  BY <1>1, <1>2 DEF InFlight
<1>5. failures' \in failures..MaxFailures /\ exc' \in 0..failures' /\ raised' = FALSE
  BY <1>1 DEF FlowInv, CountsOK
<1> QED
  BY <1>1, <1>3, <1>4, <1>5, ThrowStep

(* throw_current_js_exception, whose own failures stay behind. *)
LEMMA ThrowsStep ==
  ASSUME FlowInv, Throws
  PROVE  StepOK
<1>1. /\ ~InJava /\ Pop /\ raised /\ raised' = FALSE /\ UNCHANGED handled
      /\ jni' = exc \/ (jni # 0 /\ jni' = jni)
      /\ stack # << >> /\ Failing = "throw"
  BY NotJava DEF Throws, ThrowToJava
<1>2. PhaseFacts(Top.op, Top.phase)
  BY <1>1, TopFacts
<1>3. Top.op \notin FromScripts /\ Top.phase # "reason"
  BY <1>1, <1>2 DEF PhaseFacts, Failing
<1>4. jni' \in InFlight
  BY <1>1 DEF InFlight, FlowInv, RaisedOK
<1>5. failures' \in failures..MaxFailures /\ exc' \in 0..failures'
  <2>1. failures \in 0..MaxFailures
    BY DEF FlowInv, CountsOK
  <2>2. CASE exc' = 0 /\ UNCHANGED failures
    BY <2>1, <2>2
  <2>3. CASE NewFailure /\ exc' = failures'
    BY <2>1, <2>3, FlowAssumption DEF NewFailure
  <2> QED
    BY <2>2, <2>3 DEF Throws
<1> QED
  BY <1>1, <1>3, <1>4, <1>5, ThrowStep

(* The phase succeeds, or goes on in spite of its failure. *)
LEMMA ProceedStep ==
  ASSUME FlowInv, Proceeds
  PROVE  StepOK
<1>1. PICK p \in Following : GoOn(p)
  BY DEF Proceeds
<1>2. ~InJava /\ ~raised /\ UNCHANGED <<exc, jni, failures, handled>> /\ raised' = FALSE
  BY DEF Proceeds, FlowInv, CountsOK
<1> QED
  BY <1>1, <1>2, GoOnStep

LEMMA LeaveStep ==
  ASSUME FlowInv, LeavesBehind
  PROVE  StepOK
<1>1. /\ ~InJava /\ raised /\ raised' = FALSE /\ stack # << >>
      /\ UNCHANGED <<exc, jni, failures, handled>>
  BY NotJava DEF LeavesBehind
<1>2. PhaseFacts(Top.op, Top.phase)
  BY <1>1, TopFacts
<1>3. Where \in KnownLosses
  BY <1>2 DEF LeavesBehind, PhaseFacts, Failing, Where
<1>4. CASE Failing = "ignore"
  BY <1>1, <1>3, <1>4, GoOnStep DEF LeavesBehind
<1>5. CASE Failing = "null" /\ Pop
  BY <1>1, <1>3, <1>5, PopStep
<1> QED
  BY <1>4, <1>5 DEF LeavesBehind

LEMMA RaiseStep ==
  ASSUME FlowInv, Raises
  PROVE  StepOK
<1>1. /\ ~InJava /\ Pop /\ raised /\ stack # << >> /\ Failing = "raise"
      /\ UNCHANGED <<exc, raised, jni, failures, handled>>
  BY NotJava DEF Raises
<1>2. PhaseFacts(Top.op, Top.phase)
  BY <1>1, TopFacts
<1>3. Top.op \in FromScripts /\ Top.phase # "reason" /\ raised' \in BOOLEAN
  BY <1>1, <1>2 DEF PhaseFacts, Failing, FlowInv, CountsOK
<1> QED
  BY <1>1, <1>3, PopStep

(* The failure of a timer is freed. *)
LEMMA FreeStep ==
  ASSUME FlowInv, Frees
  PROVE  StepOK
<1>1. /\ ~InJava /\ raised /\ raised' = FALSE /\ exc' = 0 /\ stack # << >>
      /\ UNCHANGED <<stack, jni, failures, handled>> /\ Failing = "free"
  BY NotJava DEF Frees
<1>2. Top.phase = "timer"
  BY <1>1, TopFacts DEF PhaseFacts, Failing
<1>3. StackOK' /\ Causes' = Causes
  BY <1>1 DEF FlowInv, StackOK, CallOK, CallerOK, Causes
<1>4. CountsOK'
  <2>1. raised' \in BOOLEAN
    BY <1>1
  <2>2. exc' \in 0..failures
    BY <1>1 DEF FlowInv, CountsOK
  <2> QED
    BY <1>1, <2>1, <2>2 DEF FlowInv, CountsOK
<1>5. RaisedOK'
  BY <1>1 DEF RaisedOK
<1>6. InFlight' = ({jni} \cup Causes) \ {0} /\ InFlight' \subseteq InFlight
  BY <1>1, <1>3 DEF InFlight
<1> QED
  BY <1>1, <1>2, <1>3, <1>4, <1>5, <1>6 DEF FlowInv, StepOK, QuietStep, LossKnown, StaysGone

LEMMA NextFlow == FlowInv /\ [FlowNext]_flowVars => StepOK
<1> SUFFICES ASSUME FlowInv, [FlowNext]_flowVars PROVE StepOK
  OBVIOUS
<1>1. CASE UNCHANGED flowVars
  <2>1. StackOK' /\ Causes' = Causes
    BY <1>1 DEF flowVars, FlowInv, StackOK, CallOK, CallerOK, Causes
  <2>2. CountsOK' /\ RaisedOK' /\ jni' = jni /\ (InJava' <=> InJava)
    BY <1>1 DEF flowVars, FlowInv, CountsOK, RaisedOK, InJava, Top
  <2>3. InFlight' = InFlight
    BY <1>1, <2>1 DEF flowVars, InFlight
  <2> QED
    BY <2>1, <2>2, <2>3 DEF FlowInv, StepOK, QuietStep, LossKnown, Lost, StaysGone
<1>2. CASE FlowNext
  BY <1>2, CallStep, CatchStep, JavaReturnsStep, CallbackThrowsStep, HandlerThrowsStep, FailStep, ProceedStep,
     RejectedStep, RefuseStep, ThrowsReasonStep, LeaveStep, FreeStep, RaiseStep, ThrowsStep
     DEF FlowNext
<1> QED
  BY <1>1, <1>2

(* The inductive invariant: however deep calls nest, every call is in a     *)
(* phase of its own function (quickjs_jni.c, qjs_callback.c:35-60).         *)
THEOREM FlowInvariance == FlowSpec => []FlowInv
<1>1. FlowInv /\ [FlowNext]_flowVars => FlowInv'
  BY NextFlow DEF StepOK
<1> QED
  BY <1>1, InitFlow, PTL DEF FlowSpec

(* Every call in progress is in a phase of its own, and the numbers of the  *)
(* failures are ones that happened.                                         *)
THEOREM FlowTypeCorrect == FlowSpec => []FlowTypeOK
  BY TypeFlow, FlowInvariance, PTL

(* However deep callbacks nest, the script and JNI functions come to run    *)
(* with a Java exception pending only after a console handler that threw    *)
(* (qjs_callback.c:47-54, qjs_console.c:27, qjs_util.c:216-223).            *)
THEOREM JNIStaysQuiet == FlowSpec => JNIQuiet
<1>1. FlowInv /\ [FlowNext]_flowVars =>
        [~InJava' /\ jni' # 0 =>
           \/ ~InJava /\ jni' = jni
           \/ Where = <<"console", "java">>]_flowVars
  BY NextFlow DEF StepOK, QuietStep
<1> QED
  BY <1>1, FlowInvariance, PTL DEF FlowSpec, JNIQuiet

(* Failures end silently only where the code gives them up, the conversions *)
(* of the timer functions included, or where one meets another because a    *)
(* console handler has thrown (README.md:697, qjs_timer.c:13, 40, 65).      *)
THEOREM FailuresReachHandlers == FlowSpec => NothingElseLost
<1>1. FlowInv /\ [FlowNext]_flowVars =>
        [InFlight \ (InFlight' \cup handled') # {} =>
           \/ raised /\ (Where \in KnownLosses \/ Top.phase = "timer")
           \/ ~InJava /\ jni # 0 /\ InJava' /\ jni' # 0]_flowVars
  BY NextFlow DEF StepOK, LossKnown, Lost
<1> QED
  BY <1>1, FlowInvariance, PTL DEF FlowSpec, NothingElseLost

(* An exception left behind is not thrown by a later call                   *)
(* (quickjs_jni.c:319, 500, 595).                                           *)
THEOREM LeftBehindStaysBehind == FlowSpec => NoneComesBack
<1>1. FlowInv /\ [FlowNext]_flowVars =>
        [InFlight' \cap (1..failures) \subseteq InFlight]_flowVars
  BY NextFlow DEF StepOK, StaysGone
<1> QED
  BY <1>1, FlowInvariance, PTL DEF FlowSpec, NoneComesBack

=============================================================================
