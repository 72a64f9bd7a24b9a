----------------------------- MODULE EngineLife -----------------------------
(***************************************************************************)
(* The life of engines as QuickJs.java guards it: every method runs in the *)
(* monitor of its object (synchronized (lock)), takes the native handle    *)
(* with requireHandle and calls the native method; close() zeroes the      *)
(* handle and frees the engine.  Native code that runs JavaScript may call *)
(* back into Java, on the same thread, and from there into this or another *)
(* engine.  The monitors themselves are the JVM's: a thread may enter      *)
(* those it is in already.                                                 *)
(***************************************************************************)
EXTENDS Naturals, Sequences

CONSTANTS
  Threads,
  MaxEngines,    (* engines are numbered                                   *)
  MaxNest,       (* bound of the calls in progress on one thread           *)
  Ordered,       (* TRUE: callbacks call engines of higher number only, or *)
                 (* ones whose monitor their thread is in                  *)
  CloseInside    (* TRUE: callbacks close engines that are below them      *)

ASSUME LifeAssumption ==
  /\ MaxEngines \in Nat /\ MaxNest \in Nat \ {0}
  /\ Ordered \in BOOLEAN /\ CloseInside \in BOOLEAN

Instances == 1..MaxEngines

VARIABLES
  frames,    (* per thread, the Java calls in progress, innermost first *)
  handle,   (* engines whose handle field is not 0                     *)
  alive     (* engines whose native memory is not freed                *)

lifeVars == <<frames, handle, alive>>

(* A call waits for the monitor, looks at the handle, runs native code. *)
Call == [engine : Instances, op : {"run", "close"}, at : {"monitor", "handle", "native"}]

LifeInit ==
  /\ frames = [t \in Threads |-> << >>]
  /\ handle = Instances
  /\ alive = Instances

CallsOf(t) == {frames[t][n] : n \in DOMAIN frames[t]}
Idle(t) == frames[t] = << >>
Innermost(t) == Head(frames[t])
InnermostAt(t, where) == ~Idle(t) /\ Innermost(t).at = where
Move(t, where) ==
  frames' = [frames EXCEPT ![t] = <<[Innermost(t) EXCEPT !.at = where]>> \o Tail(@)]
Return(t) == frames' = [frames EXCEPT ![t] = Tail(@)]

Inside(t, e) == \E c \in CallsOf(t) : c.engine = e /\ c.at # "monitor"

(* Seeded fault: a lock that its holder cannot enter again. *)
MonitorFree_plain(t, e) == \A u \in Threads : ~Inside(u, e)

MonitorFree(t, e) == \A u \in Threads \ {t} : ~Inside(u, e)

(* Java code calls a method: at the top level, or in a callback. *)
CallMethod(t, e, op) ==
  /\ Len(frames[t]) < MaxNest
  /\ Idle(t) \/ (InnermostAt(t, "native") /\ Innermost(t).op = "run")
  /\ Ordered => Inside(t, e) \/ \A c \in CallsOf(t) : c.engine < e
  /\ op = "close" /\ ~CloseInside => ~Inside(t, e)
  /\ frames' = [frames EXCEPT ![t] = <<[engine |-> e, op |-> op, at |-> "monitor"]>> \o @]
  /\ UNCHANGED <<handle, alive>>

Acquire(t) ==
  /\ InnermostAt(t, "monitor")
  /\ MonitorFree(t, Innermost(t).engine)
  /\ Move(t, "handle")
  /\ UNCHANGED <<handle, alive>>

(* Seeded fault: requireHandle does not look. *)
RunMethod_unchecked(t) ==
  /\ InnermostAt(t, "handle") /\ Innermost(t).op = "run"
  /\ Move(t, "native")
  /\ UNCHANGED <<handle, alive>>

(* requireHandle: "QuickJs is closed" is thrown for a handle of 0. *)
RunMethod(t) ==
  /\ InnermostAt(t, "handle") /\ Innermost(t).op = "run"
  /\ IF Innermost(t).engine \in handle THEN Move(t, "native") ELSE Return(t)
  /\ UNCHANGED <<handle, alive>>

(* Seeded fault: close() leaves the handle. *)
CloseMethod_unmarked(t) ==
  /\ InnermostAt(t, "handle") /\ Innermost(t).op = "close"
  /\ IF Innermost(t).engine \in handle THEN Move(t, "native") ELSE Return(t)
  /\ UNCHANGED <<handle, alive>>

(* close(): the handle is zeroed before it is freed, and freed once. *)
CloseMethod(t) ==
  /\ InnermostAt(t, "handle") /\ Innermost(t).op = "close"
  /\ IF Innermost(t).engine \in handle THEN Move(t, "native") ELSE Return(t)
  /\ handle' = handle \ {Innermost(t).engine}
  /\ UNCHANGED alive

NativeReturns(t) ==
  /\ InnermostAt(t, "native")
  /\ Return(t)
  /\ alive' = IF Innermost(t).op = "close" THEN alive \ {Innermost(t).engine} ELSE alive
  /\ UNCHANGED handle

LifeNext ==
  \E t \in Threads :
    \/ \E e \in Instances, op \in {"run", "close"} : CallMethod(t, e, op)
    \/ Acquire(t) \/ RunMethod(t) \/ CloseMethod(t) \/ NativeReturns(t)

LifeSpec == LifeInit /\ [][LifeNext]_lifeVars

-----------------------------------------------------------------------------

(* Types, and a handle that is not 0 is that of an engine not freed. *)
LifeTypeOK ==
  /\ frames \in [Threads -> Seq(Call)]
  /\ \A t \in Threads : Len(frames[t]) <= MaxNest
  /\ handle \subseteq alive /\ alive \subseteq Instances

(* Native code runs on engines that are not freed, on one thread at a time  *)
(* per engine, and an engine is freed once and not under a method of its    *)
(* own: the handle was read inside the monitor and close() zeroes it there  *)
(* (QuickJs.java:53-54, 194-198, 204).  It takes ~CloseInside.              *)
InNative(t, e) == {n \in DOMAIN frames[t] : frames[t][n].at = "native" /\ frames[t][n].engine = e}

NativeOnLiveEngines ==
  \A e \in Instances, t \in Threads : InNative(t, e) # {} =>
    /\ e \in alive
    /\ \A u \in Threads \ {t} : InNative(u, e) = {}
    /\ (\E n \in InNative(t, e) : frames[t][n].op = "close") =>
         \A m, n \in InNative(t, e) : m = n

(* Calls in progress never all wait for each other's monitors.  It takes    *)
(* Ordered: two engines whose callbacks call each other, on two threads,    *)
(* can (QuickJs.java:53).                                                   *)
CanMove(t) == ~Idle(t) /\ (InnermostAt(t, "monitor") => MonitorFree(t, Innermost(t).engine))

SomeCallMoves == (\E t \in Threads : ~Idle(t)) => \E t \in Threads : CanMove(t)

=============================================================================
