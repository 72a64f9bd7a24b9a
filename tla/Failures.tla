------------------------------ MODULE Failures ------------------------------
(***************************************************************************)
(* What becomes of a failure, an exception of the script or of a Java      *)
(* callback, on its way through the native entry points of one engine.     *)
(* JavaScript and Java call each other in turns on one thread.  QuickJS    *)
(* keeps one exception in its runtime and signals it by the value          *)
(* JS_EXCEPTION; JNI keeps one in its environment.  Each call that can     *)
(* fail is a phase of its entry point, which throws, swallows or ignores   *)
(* the failure.                                                            *)
(***************************************************************************)
EXTENDS Naturals, Sequences

CONSTANTS
  MaxFailures,   (* bound of the failures in a behavior                     *)
  MaxDepth       (* bound of the calls in progress                          *)

ASSUME FlowAssumption == MaxFailures \in Nat /\ MaxDepth \in Nat

VARIABLES
  stack,     (* calls in progress, innermost first; cause is the reason of  *)
             (* a rejection                                                 *)
  exc,       (* the exception QuickJS keeps, pending or left behind, or 0   *)
  raised,    (* JS_EXCEPTION has been returned to the top of the stack      *)
  jni,       (* the exception pending in the JNI environment, or 0          *)
  failures,  (* failures that happened, numbered from 1                     *)
  handled    (* those caught by a script or by Java                         *)

flowVars == <<stack, exc, raised, jni, failures, handled>>

FlowInit ==
  /\ stack = << >> /\ exc = 0 /\ raised = FALSE /\ jni = 0
  /\ failures = 0 /\ handled = {}

-----------------------------------------------------------------------------
(* The native calls, each as its phases: what a failure of the phase makes  *)
(* the call do, and which phases may follow its success.                    *)
(*   throw   take the exception and throw it to Java                        *)
(*   null    return null and leave the exception behind                     *)
(*   ignore  go on and leave the exception behind                           *)
(*   free    take the exception, free it and go on                          *)
(*   refuse  throw another exception and leave this one behind              *)
(*   raise   return JS_EXCEPTION to the script                              *)

Phase(failing, next) == [failing |-> failing, next |-> next]

native_eval ==
  [script |-> Phase("throw", {"job"}),
   job    |-> Phase("throw", {"result"}),
   result |-> Phase("throw", {"leave"})]

native_eval_as_json ==
  [script |-> Phase("throw", {"job"}),
   job    |-> Phase("throw", {"json"}),
   json   |-> Phase("throw", {"leave"})]

native_get_global ==
  [lookup |-> Phase("null", {"json", "leave"}),
   json   |-> Phase("null", {"leave"})]

native_set_global ==
  [parse |-> Phase("throw", {"store"}),
   store |-> Phase("ignore", {"leave"})]

native_call ==
  [lookup |-> Phase("refuse", {"script"}),
   script |-> Phase("throw", {"job"}),
   job    |-> Phase("ignore", {"result"}),
   result |-> Phase("throw", {"leave"})]

native_set_callback == [store |-> Phase("ignore", {"leave"})]

native_compile ==
  [parse |-> Phase("throw", {"write"}),
   write |-> Phase("throw", {"leave"})]

native_load ==
  [parse  |-> Phase("throw", {"script"}),
   script |-> Phase("throw", {"job"}),
   job    |-> Phase("ignore", {"leave"})]

(* drain_jobs and run_event_loop alike. *)
native_run_event_loop ==
  [job   |-> Phase("throw", {"timer"}),
   timer |-> Phase("free", {"job", "leave"})]

native_await_promise ==
  [script |-> Phase("throw", {"timer", "result", "reason"}),
   timer  |-> Phase("free", {"job"}),
   job    |-> Phase("throw", {"timer", "result", "reason"}),
   result |-> Phase("null", {"leave"}),
   reason |-> Phase("null", {})]

(* Seeded fault: the result is converted as awaitPromise does it. *)
native_eval_async_null == native_await_promise

native_eval_async == [native_await_promise EXCEPT !.result = Phase("throw", {"leave"})]

(* Released callbacks are refused. *)
js_java_callback ==
  [check |-> Phase("raise", {"args"}),
   args  |-> Phase("ignore", {"java"}),
   java  |-> Phase("raise", {"leave"})]

(* What the handler throws is not looked at, see HandlerThrows. *)
js_console_log ==
  [args |-> Phase("raise", {"java"}),
   java |-> Phase("none", {"leave"})]

(* A delay that has no number counts as 0. *)
js_set_timeout ==
  [check |-> Phase("raise", {"delay", "slot"}),
   delay |-> Phase("ignore", {"slot"}),
   slot  |-> Phase("raise", {"leave"})]

js_set_interval == js_set_timeout

js_clear_timer == [id |-> Phase("ignore", {"leave"})]

Calls ==
  [eval |-> native_eval, evalAsJson |-> native_eval_as_json,
   getGlobal |-> native_get_global, setGlobal |-> native_set_global,
   call |-> native_call, setCallback |-> native_set_callback,
   compile |-> native_compile, load |-> native_load,
   drainJobs |-> native_run_event_loop, runEventLoop |-> native_run_event_loop,
   awaitPromise |-> native_await_promise, evalAsync |-> native_eval_async,
   callback |-> js_java_callback, console |-> js_console_log,
   setTimeout |-> js_set_timeout, setInterval |-> js_set_interval,
   clearTimer |-> js_clear_timer]

FirstPhase(op) ==
  CASE op \in {"eval", "evalAsJson", "awaitPromise", "evalAsync"} -> "script"
    [] op \in {"load", "compile", "setGlobal"} -> "parse"
    [] op \in {"call", "getGlobal"} -> "lookup"
    [] op = "setCallback" -> "store"
    [] op \in {"drainJobs", "runEventLoop"} -> "job"
    [] op = "console" -> "args"
    [] op \in {"callback", "setTimeout", "setInterval"} -> "check"
    [] op = "clearTimer" -> "id"

FromScripts == {"callback", "console", "setTimeout", "setInterval", "clearTimer"}
EntryPoints == DOMAIN Calls \ FromScripts

(* The Java program is below the calls. *)
Program == [op |-> "program", phase |-> "java", cause |-> 0]
Top == IF stack = << >> THEN Program ELSE Head(stack)
Where == <<Top.op, Top.phase>>
Failing == Calls[Top.op][Top.phase].failing
Following == Calls[Top.op][Top.phase].next

InJava == Top.phase = "java"

(* A phase in which code of the script may run, getters, setters, toString  *)
(* and toJSON included.                                                     *)
InScript == ~InJava /\ Top.phase \notin {"parse", "write", "check", "slot"}

Push(op) == stack' = <<[op |-> op, phase |-> FirstPhase(op), cause |-> 0]>> \o stack
Pop == stack' = Tail(stack)

NewFailure == failures < MaxFailures /\ failures' = failures + 1

(* An entry point throws x to Java.  With an exception pending there, left  *)
(* by a handler of the console, JNI does not say which of the two it is.    *)
ThrowToJava(x) == jni' = x \/ (jni # 0 /\ UNCHANGED jni)

(* On to the next phase p, or out. *)
GoOn(p) ==
  /\ p # "reason"
  /\ IF p = "leave" THEN Pop ELSE stack' = [stack EXCEPT ![1].phase = p]

-----------------------------------------------------------------------------
(* Java and the script *)

JavaCalls ==
  /\ InJava /\ jni = 0 /\ Len(stack) < MaxDepth
  /\ \E op \in EntryPoints : Push(op)
  /\ UNCHANGED <<exc, raised, jni, failures, handled>>

ScriptCalls ==
  /\ InScript /\ ~raised /\ Len(stack) < MaxDepth
  /\ \E op \in FromScripts : Push(op)
  /\ UNCHANGED <<exc, raised, jni, failures, handled>>

(* A phase fails: JS_Throw frees whatever exception was kept before. *)
Fails ==
  /\ ~InJava /\ ~raised
  /\ NewFailure /\ exc' = failures' /\ raised' = TRUE
  /\ UNCHANGED <<stack, jni, handled>>

ScriptCatches ==
  /\ InScript /\ raised
  /\ handled' = handled \cup {exc} /\ exc' = 0 /\ raised' = FALSE
  /\ UNCHANGED <<stack, jni, failures>>

JavaCatches ==
  /\ InJava /\ jni # 0
  /\ handled' = handled \cup {jni} /\ jni' = 0
  /\ UNCHANGED <<stack, exc, raised, failures>>

-----------------------------------------------------------------------------
(* Entry points *)

(* Seeded fault: a call ends by a look at what exception QuickJS keeps. *)
Proceeds_HasException ==
  /\ ~InJava /\ ~raised
  /\ \E p \in Following :
       /\ GoOn(p)
       /\ jni' = IF p = "leave" THEN exc ELSE jni
  /\ UNCHANGED <<exc, raised, failures, handled>>

(* The phase has succeeded. *)
Proceeds ==
  /\ ~InJava /\ ~raised
  /\ \E p \in Following : GoOn(p)
  /\ UNCHANGED <<exc, raised, jni, failures, handled>>

(* The promise of awaitPromise or evalAsync is found rejected. *)
Rejected ==
  /\ ~InJava /\ ~raised /\ "reason" \in Following
  /\ NewFailure
  /\ stack' = [stack EXCEPT ![1] = [@ EXCEPT !.phase = "reason", !.cause = failures']]
  /\ UNCHANGED <<exc, raised, jni, handled>>

(* The entry point throws a QuickJsException of its own: the global is not  *)
(* a function, be it that its getter has failed, or the timeout is over.    *)
Refuses ==
  /\ ~InJava
  /\ \/ Failing = "refuse"
     \/ Where \in {<<"awaitPromise", "job">>, <<"evalAsync", "job">>} /\ ~raised
  /\ NewFailure /\ ThrowToJava(failures')
  /\ Pop /\ raised' = FALSE
  /\ UNCHANGED <<exc, handled>>

(* throw_quickjs_exception with the text of the reason. *)
ThrowsReason ==
  /\ ~InJava /\ ~raised /\ Top.phase = "reason"
  /\ ThrowToJava(Top.cause) /\ Pop
  /\ UNCHANGED <<exc, raised, failures, handled>>

LeavesBehind ==
  /\ ~InJava /\ raised
  /\ \/ Failing = "ignore" /\ \E p \in Following : GoOn(p)
     \/ Failing = "null" /\ Pop
  /\ raised' = FALSE
  /\ UNCHANGED <<exc, jni, failures, handled>>

Frees ==
  /\ ~InJava /\ raised /\ Failing = "free"
  /\ exc' = 0 /\ raised' = FALSE
  /\ UNCHANGED <<stack, jni, failures, handled>>

Raises ==
  /\ ~InJava /\ raised /\ Failing = "raise"
  /\ Pop
  /\ UNCHANGED <<exc, raised, jni, failures, handled>>

(* throw_current_js_exception.  It takes the exception; to read its stack   *)
(* or its text may fail, which leaves that failure behind and makes another *)
(* message.                                                                 *)
Throws ==
  /\ ~InJava /\ raised /\ Failing = "throw"
  /\ ThrowToJava(exc) /\ raised' = FALSE /\ Pop
  /\ \/ exc' = 0 /\ UNCHANGED failures
     \/ NewFailure /\ exc' = failures'
  /\ UNCHANGED handled

-----------------------------------------------------------------------------
(* js_java_callback and emit_console_message *)

JavaReturns ==
  /\ stack # << >> /\ Top.phase = "java" /\ jni = 0
  /\ Pop
  /\ UNCHANGED <<exc, raised, jni, failures, handled>>

(* Seeded fault: ExceptionClear is forgotten. *)
CallbackThrows_notCleared ==
  /\ Where = <<"callback", "java">>
  /\ \/ jni # 0 /\ exc' = jni /\ UNCHANGED failures
     \/ jni = 0 /\ NewFailure /\ exc' = failures'
  /\ raised' = TRUE /\ jni' = exc' /\ Pop
  /\ UNCHANGED handled

(* Seeded fault: JS_EXCEPTION is returned, but no exception is thrown. *)
CallbackThrows_noThrow ==
  /\ Where = <<"callback", "java">>
  /\ \/ jni # 0 /\ UNCHANGED failures
     \/ jni = 0 /\ NewFailure
  /\ raised' = TRUE /\ jni' = 0 /\ Pop
  /\ UNCHANGED <<exc, handled>>

(* The callback throws, or does not catch what a call it made has thrown:   *)
(* an InternalError is raised in its place.                                 *)
CallbackThrows ==
  /\ Where = <<"callback", "java">>
  /\ \/ jni # 0 /\ exc' = jni /\ UNCHANGED failures
     \/ jni = 0 /\ NewFailure /\ exc' = failures'
  /\ raised' = TRUE /\ jni' = 0 /\ Pop
  /\ UNCHANGED handled

(* The handler of the console throws: nothing looks for its exception, and  *)
(* the script goes on with it pending.                                      *)
HandlerThrows ==
  /\ Where = <<"console", "java">>
  /\ \/ jni # 0 /\ UNCHANGED <<jni, failures>>
     \/ jni = 0 /\ NewFailure /\ jni' = failures'
  /\ Pop
  /\ UNCHANGED <<exc, raised, handled>>

FlowNext ==
  \/ JavaCalls \/ JavaCatches \/ JavaReturns \/ CallbackThrows \/ HandlerThrows
  \/ ScriptCalls \/ ScriptCatches \/ Fails
  \/ Proceeds \/ Rejected \/ Refuses
  \/ ThrowsReason \/ LeavesBehind \/ Frees \/ Raises \/ Throws

FlowSpec == FlowInit /\ [][FlowNext]_flowVars

-----------------------------------------------------------------------------
(* Properties *)

(* Types; in particular every call is in a phase of its own, and whoever    *)
(* is told JS_EXCEPTION finds an exception to catch.                        *)
FlowTypeOK ==
  /\ Len(stack) <= MaxDepth
  /\ \A k \in 1..Len(stack) :
       /\ stack[k].op \in EntryPoints \cup FromScripts
       /\ stack[k].phase \in DOMAIN Calls[stack[k].op]
       /\ (stack[k].cause # 0) = (stack[k].phase = "reason")
  /\ failures \in 0..MaxFailures /\ handled \subseteq 1..failures
  /\ exc \in 0..failures /\ jni \in 0..failures /\ raised \in BOOLEAN
  /\ raised => exc # 0 /\ ~InJava

(* The script and JNI functions come to run with a Java exception pending   *)
(* in one way only, a handler of the console that has thrown                *)
(* (qjs_console.c:27): callbacks clear theirs, and an entry point that      *)
(* throws returns to Java at once (qjs_callback.c:47-54,                    *)
(* qjs_util.c:216-223).                                                     *)
JNIQuiet ==
  [][~InJava' /\ jni' # 0 =>
       \/ ~InJava /\ jni' = jni
       \/ Where = <<"console", "java">>]_flowVars

Causes == {stack[k].cause : k \in 1..Len(stack)}

InFlight == ((IF raised THEN {exc} ELSE {}) \cup {jni} \cup Causes) \ {0}

(* A failure in flight reaches a handler, a script or Java that catches it, *)
(* except where the code is known to give it up: a failure of a timer, of a *)
(* job of call or load, of a setter under setGlobal or setCallback, of an   *)
(* argument of a callback, of the delay of setTimeout or setInterval or the *)
(* id of clearTimeout (qjs_timer.c:13, 40, 65), of getGlobal, of a getter   *)
(* under call, and of the text of a result or reason of awaitPromise or a   *)
(* reason of evalAsync; and of two exceptions that meet at a return to Java *)
(* because a handler of the console has thrown, one is kept.  Whatever else *)
(* fails, at whatever depth of callbacks, is not lost (README.md:697).      *)
KnownLosses ==
  {<<"call", "job">>, <<"load", "job">>, <<"setGlobal", "store">>, <<"setCallback", "store">>,
   <<"callback", "args">>, <<"setTimeout", "delay">>, <<"setInterval", "delay">>,
   <<"clearTimer", "id">>, <<"getGlobal", "lookup">>, <<"getGlobal", "json">>,
   <<"call", "lookup">>, <<"awaitPromise", "result">>, <<"awaitPromise", "reason">>,
   <<"evalAsync", "reason">>}

NothingElseLost ==
  [][InFlight \ (InFlight' \cup handled') # {} =>
       \/ raised /\ (Where \in KnownLosses \/ Top.phase = "timer")
       \/ ~InJava /\ jni # 0 /\ InJava' /\ jni' # 0]_flowVars

(* A failure that was caught or given up never comes back: an exception     *)
(* left behind in the runtime is not thrown by a later call                 *)
(* (quickjs_jni.c:319, 500, 595).                                           *)
NoneComesBack ==
  [][InFlight' \cap (1..failures) \subseteq InFlight]_flowVars

=============================================================================
