----------------------------- MODULE TimerTable -----------------------------
(***************************************************************************)
(* The timer table of one engine: QuickJsNative.timers and next_timer_id   *)
(* of qjs_jni.h, with the operations of qjs_timer.c on them.  The module   *)
(* has no next-state relation of its own: the steps that JavaScript and    *)
(* the event loops take on the table are composed in EventLoop.            *)
(*                                                                         *)
(* An entry keeps its stale id, delay and repeat flag after it is cleared, *)
(* as the C array does; the code after a callback reads them again.        *)
(***************************************************************************)
EXTENDS Naturals, Integers, FiniteSets

CONSTANTS
  MaxTimers,   (* MAX_TIMERS, the length of the table                *)
  Fns,         (* JavaScript functions a script can pass             *)
  Undefined    (* JS_UNDEFINED, or the zeroed value of a fresh entry *)

ASSUME MaxTimersAssumption == MaxTimers \in Nat \ {0}
ASSUME UndefinedAssumption == Undefined \notin Fns /\ Undefined \notin Nat

VARIABLES
  timers,          (* engine->timers                                       *)
  next_timer_id,   (* engine->next_timer_id                                *)
  refs             (* per function: JS_DupValue minus JS_FreeValue calls   *)
                   (* made by the table, the share of QuickJS's reference  *)
                   (* count that belongs to it                             *)

tableVars == <<timers, next_timer_id, refs>>

Slots == 1..MaxTimers

Entry == [id : Nat, callback : Fns \cup {Undefined}, delay_ms : Nat,
          repeat : BOOLEAN, fire_time_ms : Nat, active : BOOLEAN]

FreshEntry == [id |-> 0, callback |-> Undefined, delay_ms |-> 0,
               repeat |-> FALSE, fire_time_ms |-> 0, active |-> FALSE]

(* calloc in native_create zeroes the table and the id counter. *)
TableInit ==
  /\ timers = [s \in Slots |-> FreshEntry]
  /\ next_timer_id = 0
  /\ refs = [f \in Fns |-> 0]

Active == {s \in Slots : timers[s].active}

has_active_timers == Active # {}

(* The slot the scan of js_set_timeout and js_set_interval stops at. *)
IsFirstFree(s) ==
  /\ s \in Slots \ Active
  /\ \A r \in Slots : r < s => r \in Active

TableFull == Active = Slots

(* JS_DupValue and JS_FreeValue as the table calls them: no effect on a    *)
(* value that is not reference counted.                                    *)
JS_DupValue(f)  == refs' = [g \in Fns |-> IF g = f THEN refs[g] + 1 ELSE refs[g]]
JS_FreeValue(f) == refs' = [g \in Fns |-> IF g = f THEN refs[g] - 1 ELSE refs[g]]

(* Seeded fault: setInterval gives out the id without counting it. *)
set_timer_uncounted(f, delay, rep, now) ==
  \/ \E s \in Slots :
       /\ IsFirstFree(s)
       /\ timers' = [timers EXCEPT ![s] =
                      [id |-> next_timer_id, callback |-> f, delay_ms |-> delay,
                       repeat |-> rep, fire_time_ms |-> now + delay,
                       active |-> TRUE]]
       /\ next_timer_id' = IF rep THEN next_timer_id ELSE next_timer_id + 1
       /\ JS_DupValue(f)
  \/ TableFull /\ UNCHANGED tableVars

(* setTimeout (rep = FALSE) and setInterval (rep = TRUE).  With the table  *)
(* full both throw "too many timers" and leave the table alone, the id     *)
(* counter included.                                                       *)
set_timer(f, delay, rep, now) ==
  \/ \E s \in Slots :
       /\ IsFirstFree(s)
       /\ timers' = [timers EXCEPT ![s] =
                      [id |-> next_timer_id, callback |-> f, delay_ms |-> delay,
                       repeat |-> rep, fire_time_ms |-> now + delay,
                       active |-> TRUE]]
       /\ next_timer_id' = next_timer_id + 1
       /\ JS_DupValue(f)
  \/ TableFull /\ UNCHANGED tableVars

(* Seeded fault: the freed callback stays in the entry. *)
Release_dangling(s) ==
  /\ JS_FreeValue(timers[s].callback)
  /\ timers' = [timers EXCEPT ![s].active = FALSE]
  /\ UNCHANGED next_timer_id

(* Free the callback of slot s, whatever it holds now, and deactivate it.  *)
Release(s) ==
  /\ JS_FreeValue(timers[s].callback)
  /\ timers' = [timers EXCEPT ![s] =
                 [@ EXCEPT !.callback = Undefined, !.active = FALSE]]
  /\ UNCHANGED next_timer_id

(* JS_ToInt32 of the argument of clearTimeout: undefined converts to 0. *)
JS_ToInt32(arg) == IF arg = Undefined THEN 0 ELSE arg

(* clearTimeout and clearInterval are one function, js_clear_timer: the    *)
(* first active slot with that id is released.                             *)
HasId(s, id) == s \in Active /\ timers[s].id = id

js_clear_timer(arg) ==
  \/ \E s \in Slots :
       /\ HasId(s, JS_ToInt32(arg))
       /\ \A r \in Slots : HasId(r, JS_ToInt32(arg)) => s <= r
       /\ Release(s)
  \/ /\ \A s \in Slots : ~HasId(s, JS_ToInt32(arg))
     /\ UNCHANGED tableVars

(* The test before a callback is called, with the clock read once per pass. *)
Due(s, now) == s \in Active /\ timers[s].fire_time_ms <= now

(* The slot at which a pass that has reached index i calls a callback next. *)
IsNextDue(s, i, now) ==
  /\ s \in Slots /\ i <= s
  /\ Due(s, now)
  /\ \A r \in Slots : i <= r /\ r < s => ~Due(r, now)

Later(a, b) == IF a < b THEN b ELSE a

(* Seeded fault: an overdue interval is not brought up to the present. *)
after_callback_behind(s, now) ==
  IF timers[s].repeat
  THEN /\ timers' = [timers EXCEPT ![s].fire_time_ms = @ + timers[s].delay_ms]
       /\ UNCHANGED <<next_timer_id, refs>>
  ELSE Release(s)

(* Seeded fault: a timeout is not released after its call. *)
after_callback_again(s, now) ==
  /\ timers' = [timers EXCEPT ![s].fire_time_ms =
                   Later(timers[s].fire_time_ms + timers[s].delay_ms, now)]
  /\ UNCHANGED <<next_timer_id, refs>>

(* What a pass does with slot s after the callback it called there is back: *)
(* it acts on the entry as it is by then.                                   *)
after_callback(s, now) ==
  IF timers[s].repeat
  THEN /\ timers' = [timers EXCEPT ![s].fire_time_ms =
                       Later(timers[s].fire_time_ms + timers[s].delay_ms, now)]
       /\ UNCHANGED <<next_timer_id, refs>>
  ELSE Release(s)

(* free_all_timers, called by native_close. *)
Holders(f) == {s \in Active : timers[s].callback = f}

free_all_timers ==
  /\ refs' = [f \in Fns |-> refs[f] - Cardinality(Holders(f))]
  /\ timers' = [s \in Slots |->
                 IF s \in Active
                 THEN [timers[s] EXCEPT !.callback = Undefined, !.active = FALSE]
                 ELSE timers[s]]
  /\ UNCHANGED next_timer_id

-----------------------------------------------------------------------------

(* Types of the table.  refs is an integer: that it never goes below zero   *)
(* is part of RefBalance.                                                   *)
TableTypeOK ==
  /\ timers \in [Slots -> Entry]
  /\ next_timer_id \in Nat
  /\ refs \in [Fns -> Int]

(* An entry holds a function exactly while it is active, so a pass never    *)
(* calls JS_UNDEFINED and a release never leaks.                            *)
HeldIffActive ==
  \A s \in Slots : timers[s].active <=> timers[s].callback \in Fns

(* No two active timers have one id, so clearTimeout(id) stops the timer    *)
(* its caller meant (qjs_timer.c:69 takes the first match).                 *)
UniqueIds ==
  /\ \A s \in Active : timers[s].id < next_timer_id
  /\ \A r, s \in Active : timers[r].id = timers[s].id => r = s

(* Every reference the table took with JS_DupValue is one an active entry   *)
(* still owns: none is leaked when an entry is reused and none is freed     *)
(* twice, whichever of clearTimeout, the end of a callback or close runs    *)
(* first (qjs_timer.c:21, 70, 100, 118, 178, 214).                          *)
RefBalance ==
  /\ HeldIffActive
  /\ \A f \in Fns : refs[f] = Cardinality(Holders(f))

=============================================================================
