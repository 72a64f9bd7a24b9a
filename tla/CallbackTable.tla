---------------------------- MODULE CallbackTable ----------------------------
(***************************************************************************)
(* g_callbacks, the table of Java callbacks that all engines of a process  *)
(* share, and its users: setCallback (native_set_callback with             *)
(* register_callback), the call of a JavaScript function bound to a slot   *)
(* (js_java_callback) and the release of slots by native_close.  Each      *)
(* engine has a Java monitor of its own and so one operation in progress;  *)
(* nothing guards the table between engines.  The console handlers of an   *)
(* engine are here because they too are global references, set by Java and *)
(* called by JavaScript (native_set_console_handler, emit_console_message).*)
(***************************************************************************)
EXTENDS Naturals, FiniteSets

CONSTANTS
  Engines,
  MaxCallbacks,   (* MAX_CALLBACKS                                        *)
  MaxRefs,        (* bound of the number of setCallback calls             *)
  Overlap,        (* may threads run two engines at the same time         *)
  Closing         (* engines are closed "never", "last" (no other engine  *)
                  (* has callbacks then) or at "any" time                 *)

ASSUME CallbackAssumption ==
  /\ MaxCallbacks \in Nat \ {0} /\ MaxRefs \in Nat
  /\ Overlap \in BOOLEAN /\ Closing \in {"never", "last", "any"}

Slots == 1..MaxCallbacks
Refs == 1..MaxRefs
Null == 0
Stdout == MaxRefs + 1
Invalid == MaxRefs + 2   (* what Java makes of a reference that is deleted  *)

(* js_console_log (log, info, debug, print), js_console_error (error, warn) *)
Levels == {"log", "error"}

VARIABLES
  used,       (* g_callbacks[s].used                                      *)
  callback,   (* g_callbacks[s].callback, a JNI global reference or NULL  *)
  globals,    (* JNI global references that exist                         *)
  next_ref,   (* the next one NewGlobalRef returns                        *)
  fns,        (* per engine, its JavaScript functions that call Java: the *)
              (* slot they carry as magic, the reference they were set to *)
  pc, slot,   (* per engine, the operation in progress and its locals: i  *)
  ref,        (* of the loops over the table, and the global reference     *)
  calling,    (* the function that a call in progress is a call of        *)
  open,       (* engines not closed                                       *)
  handler,    (* console_log.handler, console_error.handler per engine    *)
  running     (* per engine, the object Java was called on, or Stdout     *)

callbackVars == <<used, callback, globals, next_ref, fns, pc, slot, ref, calling, open,
                  handler, running>>
tableVars == <<used, callback, globals, next_ref>>
javaVars == <<handler, running>>

Fn == [slot : Slots, ref : Refs]
NoFn == [slot |-> 0, ref |-> Null]

CallbackInit ==
  /\ used = [s \in Slots |-> FALSE] /\ callback = [s \in Slots |-> Null]
  /\ globals = {} /\ next_ref = 1
  /\ fns = [e \in Engines |-> {}]
  /\ pc = [e \in Engines |-> "idle"]
  /\ slot = [e \in Engines |-> 0] /\ ref = [e \in Engines |-> Null]
  /\ calling = [e \in Engines |-> NoFn]
  /\ open = Engines
  /\ handler = [e \in Engines |-> [l \in Levels |-> Null]]
  /\ running = [e \in Engines |-> Null]

(* Other engines move while e is in the middle of an operation only on      *)
(* other threads, or on its own thread from the code it called: toString    *)
(* of an argument (JS_ToCStringLen) and the Java callback itself.           *)
Turn(e) == Overlap \/ \A o \in Engines \ {e} : pc[o] \in {"idle", "args", "java", "closed"} \cup Levels

At(e, where) == pc[e] = where /\ Turn(e)
Goto(e, where) == pc' = [pc EXCEPT ![e] = where]

-----------------------------------------------------------------------------
(* setCallback *)

SetCallback(e) ==
  /\ At(e, "idle") /\ e \in open
  /\ next_ref \in Refs
  /\ ref' = [ref EXCEPT ![e] = next_ref]
  /\ globals' = globals \cup {next_ref}
  /\ next_ref' = next_ref + 1
  /\ slot' = [slot EXCEPT ![e] = 1]
  /\ Goto(e, "scan")
  /\ UNCHANGED <<used, callback, fns, calling, open, javaVars>>

(* Seeded fault: the last slot is taken without a look at used. *)
Scan_offByOne(e) ==
  /\ At(e, "scan") /\ slot[e] <= MaxCallbacks
  /\ IF used[slot[e]] /\ slot[e] < MaxCallbacks
     THEN slot' = [slot EXCEPT ![e] = @ + 1] /\ UNCHANGED pc
     ELSE Goto(e, "claim") /\ UNCHANGED slot
  /\ UNCHANGED <<tableVars, fns, ref, calling, open, javaVars>>

Scan(e) ==
  /\ At(e, "scan") /\ slot[e] <= MaxCallbacks
  /\ IF used[slot[e]]
     THEN slot' = [slot EXCEPT ![e] = @ + 1] /\ UNCHANGED pc
     ELSE Goto(e, "claim") /\ UNCHANGED slot
  /\ UNCHANGED <<tableVars, fns, ref, calling, open, javaVars>>

(* Seeded fault: the -1 of register_callback is used as a slot. *)
TooManyCallbacks_untested(e) ==
  /\ At(e, "scan") /\ slot[e] > MaxCallbacks
  /\ Goto(e, "bind")
  /\ UNCHANGED <<tableVars, fns, slot, ref, calling, open, javaVars>>

TooManyCallbacks(e) ==
  /\ At(e, "scan") /\ slot[e] > MaxCallbacks
  /\ globals' = globals \ {ref[e]}
  /\ Goto(e, "idle")
  /\ slot' = [slot EXCEPT ![e] = 0] /\ ref' = [ref EXCEPT ![e] = Null]
  /\ UNCHANGED <<used, callback, next_ref, fns, calling, open, javaVars>>

(* The stores after the slot was found unused; used is written last. *)
Claim(e) ==
  /\ At(e, "claim")
  /\ callback' = [callback EXCEPT ![slot[e]] = ref[e]]
  /\ used' = [used EXCEPT ![slot[e]] = TRUE]
  /\ Goto(e, "bind")
  /\ UNCHANGED <<globals, next_ref, fns, slot, ref, calling, open, javaVars>>

(* JS_NewCFunctionMagic with the slot. *)
Bind(e) ==
  /\ At(e, "bind")
  /\ fns' = [fns EXCEPT ![e] = @ \cup {[slot |-> slot[e], ref |-> ref[e]]}]
  /\ Goto(e, "idle")
  /\ slot' = [slot EXCEPT ![e] = 0] /\ ref' = [ref EXCEPT ![e] = Null]
  /\ UNCHANGED <<tableVars, calling, open, javaVars>>

(* A function whose name was set again, or dropped by the script, is        *)
(* collected.  Its slot stays taken: unregister_callback is never called.   *)
Collect(e) ==
  /\ At(e, "idle")
  /\ \E f \in fns[e] : fns' = [fns EXCEPT ![e] = @ \ {f}]
  /\ UNCHANGED <<tableVars, pc, slot, ref, calling, open, javaVars>>

-----------------------------------------------------------------------------
(* js_java_callback *)

CalledOn(r) == IF r \in globals THEN r ELSE Invalid

(* Line 10: used is read, or "callback has been released" is thrown. *)
CheckSlot(e) ==
  /\ At(e, "idle") /\ e \in open
  /\ \E f \in fns[e] :
       /\ calling' = [calling EXCEPT ![e] = f]
       /\ IF used[f.slot]
          THEN Goto(e, "args") /\ UNCHANGED running
          ELSE Goto(e, "java") /\ running' = [running EXCEPT ![e] = Invalid]
  /\ UNCHANGED <<tableVars, fns, slot, ref, open, handler>>

(* Line 43: slot->callback is read and invoked, after the arguments were    *)
(* converted.                                                               *)
Invoke(e) ==
  /\ At(e, "args")
  /\ running' = [running EXCEPT ![e] = CalledOn(callback[calling[e].slot])]
  /\ Goto(e, "java")
  /\ UNCHANGED <<tableVars, fns, slot, ref, calling, open, handler>>

(* The way back does not look at the table again.  What a callback itself   *)
(* does to its engine is as if it were done after the call, but for         *)
(* SetConsole.  The same goes for the handler of a console message.         *)
CallbackReturns(e) ==
  /\ At(e, "java") \/ \E l \in Levels : At(e, l)
  /\ calling' = [calling EXCEPT ![e] = NoFn]
  /\ running' = [running EXCEPT ![e] = Null]
  /\ Goto(e, "idle")
  /\ UNCHANGED <<tableVars, fns, slot, ref, open, handler>>

-----------------------------------------------------------------------------
(* Console handlers *)

(* setConsoleLog, setConsoleError, with null or a handler, maybe called by  *)
(* the handler that is replaced.                                            *)
SetConsole(e) ==
  /\ At(e, "idle") \/ At(e, "java") \/ \E l \in Levels : At(e, l)
  /\ e \in open
  /\ \E l \in Levels, r \in {Null, next_ref} \cap (Refs \cup {Null}) :
       /\ handler' = [handler EXCEPT ![e][l] = r]
       /\ globals' = (globals \ {handler[e][l]}) \cup ({r} \ {Null})
       /\ next_ref' = next_ref + (IF r = Null THEN 0 ELSE 1)
  /\ UNCHANGED <<used, callback, fns, pc, slot, ref, calling, open, running>>

(* Seeded fault: both levels go to one handler. *)
emit_console_message_typeZero(e) ==
  /\ At(e, "idle") /\ e \in open
  /\ \E l \in Levels :
       /\ running' = [running EXCEPT ![e] = IF handler[e][l] = Null THEN Stdout
                                            ELSE CalledOn(handler[e]["log"])]
       /\ Goto(e, l)
  /\ UNCHANGED <<tableVars, fns, slot, ref, calling, open, handler>>

(* A message of level l, which is where the engine is until it is handled:  *)
(* stdout takes messages of both levels that have no handler.               *)
emit_console_message(e) ==
  /\ At(e, "idle") /\ e \in open
  /\ \E l \in Levels :
       /\ running' = [running EXCEPT ![e] = IF handler[e][l] = Null THEN Stdout
                                            ELSE CalledOn(handler[e][l])]
       /\ Goto(e, l)
  /\ UNCHANGED <<tableVars, fns, slot, ref, calling, open, handler>>

-----------------------------------------------------------------------------
(* native_close *)

Close(e) ==
  /\ At(e, "idle") /\ e \in open
  /\ Closing # "never"
  /\ Closing = "last" => \A o \in open \ {e} : fns[o] = {} /\ ref[o] = Null
  /\ open' = open \ {e}
  /\ slot' = [slot EXCEPT ![e] = 1]
  /\ Goto(e, "close")
  /\ UNCHANGED <<tableVars, fns, ref, calling, javaVars>>

(* Seeded fault: a slot is given up without its reference. *)
CloseSlot_leak(e) ==
  /\ At(e, "close") /\ slot[e] <= MaxCallbacks
  /\ IF used[slot[e]]
     THEN /\ used' = [used EXCEPT ![slot[e]] = FALSE]
          /\ Goto(e, "wipe") /\ UNCHANGED slot
     ELSE /\ slot' = [slot EXCEPT ![e] = @ + 1]
          /\ UNCHANGED <<used, pc>>
  /\ UNCHANGED <<callback, globals, next_ref, fns, ref, calling, open, javaVars>>

(* Every slot in use is released: the test compares the Java VM, which is   *)
(* the same for all engines.                                                *)
CloseSlot(e) ==
  /\ At(e, "close") /\ slot[e] <= MaxCallbacks
  /\ IF used[slot[e]]
     THEN /\ globals' = globals \ {callback[slot[e]]}
          /\ used' = [used EXCEPT ![slot[e]] = FALSE]
          /\ Goto(e, "wipe") /\ UNCHANGED slot
     ELSE /\ slot' = [slot EXCEPT ![e] = @ + 1]
          /\ UNCHANGED <<globals, used, pc>>
  /\ UNCHANGED <<callback, next_ref, fns, ref, calling, open, javaVars>>

WipeSlot(e) ==
  /\ At(e, "wipe")
  /\ callback' = [callback EXCEPT ![slot[e]] = Null]
  /\ slot' = [slot EXCEPT ![e] = @ + 1]
  /\ Goto(e, "close")
  /\ UNCHANGED <<used, globals, next_ref, fns, ref, calling, open, javaVars>>

(* The handlers are given up; JS_FreeContext and JS_FreeRuntime take the    *)
(* functions with them.                                                     *)
FreeRuntime(e) ==
  /\ At(e, "close") /\ slot[e] > MaxCallbacks
  /\ globals' = globals \ {handler[e][l] : l \in Levels}
  /\ handler' = [handler EXCEPT ![e] = [l \in Levels |-> Null]]
  /\ fns' = [fns EXCEPT ![e] = {}]
  /\ slot' = [slot EXCEPT ![e] = 0]
  /\ Goto(e, "closed")
  /\ UNCHANGED <<used, callback, next_ref, ref, calling, open, running>>

AllClosed == (\A e \in Engines : pc[e] = "closed") /\ UNCHANGED callbackVars

-----------------------------------------------------------------------------

Step(e) ==
  \/ SetCallback(e) \/ Scan(e) \/ TooManyCallbacks(e) \/ Claim(e) \/ Bind(e)
  \/ Collect(e)
  \/ CheckSlot(e) \/ Invoke(e) \/ CallbackReturns(e)
  \/ SetConsole(e) \/ emit_console_message(e)
  \/ Close(e) \/ CloseSlot(e) \/ WipeSlot(e) \/ FreeRuntime(e)

CallbackNext == (\E e \in Engines : Step(e)) \/ AllClosed

CallbackSpec == CallbackInit /\ [][CallbackNext]_callbackVars

-----------------------------------------------------------------------------

(* Types; in particular the table is indexed within its bounds              *)
(* (qjs_callback.c:77, quickjs_jni.c:59).                                   *)
CallbackTypeOK ==
  /\ used \in [Slots -> BOOLEAN] /\ callback \in [Slots -> Refs \cup {Null}]
  /\ globals \subseteq Refs /\ next_ref \in 1..(MaxRefs + 1)
  /\ fns \in [Engines -> SUBSET Fn]
  /\ pc \in [Engines -> {"idle", "scan", "claim", "bind", "args", "java",
                         "close", "wipe", "closed"} \cup Levels]
  /\ slot \in [Engines -> 0..(MaxCallbacks + 1)]
  /\ ref \in [Engines -> Refs \cup {Null}]
  /\ calling \in [Engines -> Fn \cup {NoFn}]
  /\ open \subseteq Engines
  /\ handler \in [Engines -> [Levels -> Refs \cup {Null}]]
  /\ running \in [Engines -> Refs \cup {Null, Stdout, Invalid}]

(* A function of an open engine calls the Java callback it was set to: its  *)
(* slot is in use, for that callback, whose global reference exists.  The   *)
(* same goes for the call in progress, between the test of used and the     *)
(* use of slot->callback (qjs_callback.c:10, 43).                           *)
Served(f) == used[f.slot] /\ callback[f.slot] = f.ref /\ f.ref \in globals

FunctionsServed ==
  \A e \in open :
    /\ \A f \in fns[e] : Served(f)
    /\ pc[e] = "args" => Served(calling[e])

(* Every global reference is held by one slot in use, by one console        *)
(* handler, or by the registration that has just made it: none is leaked    *)
(* when the table is full, a handler replaced or the engine closed, none    *)
(* deleted while in use, none held twice (quickjs_jni.c:61, 67-74, 357-360, *)
(* 396-410, qjs_callback.c:77-82).                                          *)
SlotsUsed == {s \in Slots : used[s]}
Handlers == {h \in Engines \X Levels : handler[h[1]][h[2]] # Null}
Registering == {e \in Engines : pc[e] \in {"scan", "claim"}}

RefsAccounted ==
  /\ globals = {callback[s] : s \in SlotsUsed} \cup {handler[h[1]][h[2]] : h \in Handlers}
                 \cup {ref[e] : e \in Registering}
  /\ Cardinality(globals) = Cardinality(SlotsUsed) + Cardinality(Handlers)
                              + Cardinality(Registering)

(* What CallbackRegistry speaks of: of the engines that are open, the       *)
(* callbacks behind their functions and their handlers.                     *)
BoundRefs == [e \in Engines |-> IF e \in open THEN {f.ref : f \in fns[e]} ELSE {}]

OpenHandlers ==
  [e \in Engines |-> [l \in Levels |-> IF e \in open THEN handler[e][l] ELSE Null]]

CalledRefs == [e \in Engines |-> calling[e].ref]

Registry == INSTANCE CallbackRegistry WITH
  Callbacks <- Refs, None <- Null, Default <- [l \in Levels |-> Stdout],
  bound <- BoundRefs, handler <- OpenHandlers, called <- CalledRefs

(* A call of a bound function runs the callback it was set to and a console *)
(* message goes to the handler set for its level, whatever other engines    *)
(* set, drop and close meanwhile: the table implements the registry of      *)
(* CallbackRegistry (quickjs_jni.c:336-412, qjs_callback.c:10, 43,          *)
(* qjs_console.c:15-38).  Without a handler messages of both levels go to   *)
(* stdout, which ErrorsToStderr is about.                                   *)
ImplementsRegistry == Registry!Spec

-----------------------------------------------------------------------------
(* What the code does not keep *)

(* console.error and console.warn without a handler write to stderr         *)
(* (QuickJsTest.java:301, and the code itself where there is no engine,     *)
(* qjs_console.c:116): but emit_console_message has only stdout             *)
(* (qjs_console.c:35).                                                      *)
ErrorsToStderr == \A e \in Engines : pc[e] = "error" => running[e] # Stdout

=============================================================================
