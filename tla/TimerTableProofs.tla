-------------------------- MODULE TimerTableProofs --------------------------
(***************************************************************************)
(* Every operation of the timer table preserves its types, the uniqueness  *)
(* of timer ids and the balance of function references, for a table of any *)
(* length.                                                                 *)
(***************************************************************************)
EXTENDS TimerTable, FiniteSetTheorems, TLAPS

TableInv == TableTypeOK /\ UniqueIds /\ RefBalance

(* The sets whose sizes RefBalance speaks of are finite. *)
LEMMA HoldersFinite ==
  ASSUME NEW f
  PROVE  IsFiniteSet(Holders(f)) /\ Cardinality(Holders(f)) \in Nat
<1>1. IsFiniteSet(Slots)
  BY FS_Interval, MaxTimersAssumption DEF Slots
<1>2. Holders(f) \in SUBSET Slots
  BY DEF Holders, Active
<1> QED
  BY <1>1, <1>2, FS_Subset, FS_CardinalityType, Zenon

(* calloc leaves the table in a state that satisfies the invariant. *)
LEMMA TableInitInv ==
  ASSUME TableInit
  PROVE  TableInv
<1>1. TableTypeOK
  BY DEF TableInit, TableTypeOK, Entry, FreshEntry
<1>2. Active = {}
  BY DEF TableInit, Active, FreshEntry
<1>3. UniqueIds
  BY <1>2 DEF UniqueIds
<1>4. HeldIffActive
  BY UndefinedAssumption DEF TableInit, HeldIffActive, FreshEntry
<1>5. \A f \in Fns : Holders(f) = {}
  BY <1>2 DEF Holders
<1>6. \A f \in Fns : refs[f] = Cardinality(Holders(f))
  BY <1>5, FS_EmptySet DEF TableInit
<1> QED
  BY <1>1, <1>3, <1>4, <1>6 DEF TableInv, RefBalance

(* A step that leaves the table alone leaves the invariant alone. *)
LEMMA TableStutterInv ==
  ASSUME TableInv, UNCHANGED tableVars
  PROVE  TableInv'
  BY DEF TableInv, TableTypeOK, UniqueIds, RefBalance, HeldIffActive,
         Holders, Active, tableVars

(* setTimeout and setInterval: the new entry takes one reference, and its   *)
(* id is not that of any active entry.                                      *)
LEMMA SetTimerInv ==
  ASSUME TableInv, NEW f \in Fns, NEW delay \in Nat, NEW rep \in BOOLEAN,
         NEW now \in Nat, set_timer(f, delay, rep, now)
  PROVE  TableInv'
<1>1. CASE TableFull /\ UNCHANGED tableVars
  BY <1>1, TableStutterInv
<1>2. CASE \E s \in Slots :
             /\ IsFirstFree(s)
             /\ timers' = [timers EXCEPT ![s] =
                            [id |-> next_timer_id, callback |-> f, delay_ms |-> delay,
                             repeat |-> rep, fire_time_ms |-> now + delay,
                             active |-> TRUE]]
             /\ next_timer_id' = next_timer_id + 1
             /\ JS_DupValue(f)
  <2>1. PICK s \in Slots :
             /\ IsFirstFree(s)
             /\ timers' = [timers EXCEPT ![s] =
                            [id |-> next_timer_id, callback |-> f, delay_ms |-> delay,
                             repeat |-> rep, fire_time_ms |-> now + delay,
                             active |-> TRUE]]
             /\ next_timer_id' = next_timer_id + 1
             /\ JS_DupValue(f)
    BY <1>2
  <2>2. s \notin Active /\ Active' = Active \cup {s}
    BY <2>1 DEF IsFirstFree, Active, TableInv, TableTypeOK, Entry
  <2>3. TableTypeOK'
    BY <2>1 DEF TableInv, TableTypeOK, Entry, JS_DupValue
  <2>4. UniqueIds'
    BY <2>1, <2>2 DEF TableInv, TableTypeOK, Entry, UniqueIds, Active
  <2>5. HeldIffActive'
    BY <2>1 DEF TableInv, TableTypeOK, Entry, RefBalance, HeldIffActive
  <2>6. ASSUME NEW g \in Fns
        PROVE  (refs[g] = Cardinality(Holders(g)))'
    <3>1. CASE g = f
      <4>1. Holders(g)' = Holders(g) \cup {s} /\ s \notin Holders(g)
        BY <2>1, <2>2, <3>1 DEF Holders, Active, TableInv, TableTypeOK, Entry
      <4>2. Cardinality(Holders(g)') = Cardinality(Holders(g)) + 1
        BY <4>1, HoldersFinite, FS_AddElement
      <4> QED
        BY <4>2, <2>1, <3>1 DEF JS_DupValue, TableInv, RefBalance
    <3>2. CASE g # f
      <4>1. Holders(g)' = Holders(g)
        BY <2>1, <2>2, <3>2 DEF Holders, Active, TableInv, TableTypeOK, Entry
      <4> QED
        BY <4>1, <2>1, <3>2 DEF JS_DupValue, TableInv, RefBalance
    <3> QED
      BY <3>1, <3>2
  <2> QED
    BY <2>3, <2>4, <2>5, <2>6 DEF TableInv, RefBalance
<1> QED
  BY <1>1, <1>2 DEF set_timer

(* Freeing the callback of a slot and deactivating it gives back exactly    *)
(* the reference the entry holds, and none if it holds none.                *)
LEMMA ReleaseInv ==
  ASSUME TableInv, NEW s \in Slots, Release(s)
  PROVE  TableInv'
<1>1. /\ timers' = [timers EXCEPT ![s] =
                     [timers[s] EXCEPT !.callback = Undefined, !.active = FALSE]]
      /\ next_timer_id' = next_timer_id
      /\ refs' = [g \in Fns |-> IF g = timers[s].callback THEN refs[g] - 1 ELSE refs[g]]
  BY DEF Release, JS_FreeValue
<1>2. timers \in [Slots -> Entry] /\ next_timer_id \in Nat /\ refs \in [Fns -> Int]
  BY DEF TableInv, TableTypeOK
<1>3. TableTypeOK'
  <2>1. timers[s] \in Entry
    BY <1>2
  <2>2. [timers[s] EXCEPT !.callback = Undefined, !.active = FALSE] \in Entry
    BY <2>1 DEF Entry
  <2>3. timers' \in [Slots -> Entry]
    BY <1>1, <1>2, <2>2
  <2>4. refs' \in [Fns -> Int]
    BY <1>1, <1>2
  <2> QED
    BY <1>1, <1>2, <2>3, <2>4 DEF TableTypeOK
<1>4. Active' = Active \ {s}
  BY <1>1, <1>2 DEF Active, Entry
<1>5. UniqueIds'
  BY <1>1, <1>2, <1>4 DEF TableInv, UniqueIds, Active, Entry
<1>6. HeldIffActive'
  BY <1>1, <1>2, UndefinedAssumption
     DEF TableInv, RefBalance, HeldIffActive, Entry
<1>7. ASSUME NEW g \in Fns
      PROVE  (refs[g] = Cardinality(Holders(g)))'
  <2>1. refs[g] = Cardinality(Holders(g))
    BY DEF TableInv, RefBalance
  <2>2. CASE g = timers[s].callback
    <3>1. s \in Holders(g)
      BY <2>2 DEF TableInv, RefBalance, HeldIffActive, Holders, Active
    <3>2. Holders(g)' = Holders(g) \ {s}
      BY <1>1, <1>2, <1>4 DEF Holders, Active, Entry
    <3>3. Cardinality(Holders(g)') = Cardinality(Holders(g)) - 1
      BY <3>1, <3>2, HoldersFinite, FS_RemoveElement
    <3> QED
      BY <3>3, <1>1, <2>1, <2>2
  <2>3. CASE g # timers[s].callback
    <3>1. Holders(g)' = Holders(g)
      BY <1>1, <1>2, <1>4, <2>3 DEF Holders, Active, Entry
    <3> QED
      BY <3>1, <1>1, <2>1, <2>3
  <2> QED
    BY <2>2, <2>3
<1> QED
  BY <1>3, <1>5, <1>6, <1>7 DEF TableInv, RefBalance

(* clearTimeout and clearInterval, whatever their argument. *)
LEMMA ClearTimerInv ==
  ASSUME TableInv, NEW arg, js_clear_timer(arg)
  PROVE  TableInv'
  BY ReleaseInv, TableStutterInv, Zenon DEF js_clear_timer

(* What a pass does after a callback keeps the balance whatever happened to *)
(* the slot meanwhile: the timer may be there still, be cleared, or have    *)
(* been replaced by another.                                                *)
LEMMA AfterCallbackInv ==
  ASSUME TableInv, NEW s \in Slots, NEW now \in Nat, after_callback(s, now)
  PROVE  TableInv'
<1>1. CASE ~timers[s].repeat
  BY <1>1, ReleaseInv DEF after_callback
<1>2. CASE timers[s].repeat
  <2> DEFINE t == Later(timers[s].fire_time_ms + timers[s].delay_ms, now)
  <2>1. /\ timers' = [timers EXCEPT ![s].fire_time_ms = t]
        /\ UNCHANGED <<next_timer_id, refs>>
    BY <1>2 DEF after_callback
  <2>2. timers \in [Slots -> Entry]
    BY DEF TableInv, TableTypeOK
  <2>3. t \in Nat
    BY <2>2 DEF Later, Entry
  <2> HIDE DEF t
  <2>4. TableTypeOK'
    BY <2>1, <2>2, <2>3 DEF TableInv, TableTypeOK, Entry
  <2>5. \A r \in Slots : /\ timers'[r].active = timers[r].active
                         /\ timers'[r].id = timers[r].id
                         /\ timers'[r].callback = timers[r].callback
    BY <2>1, <2>2 DEF Entry
  <2>6. Active' = Active /\ \A f : Holders(f)' = Holders(f)
    BY <2>5 DEF Active, Holders
  <2>7. UniqueIds'
    BY <2>1, <2>5, <2>6 DEF TableInv, UniqueIds, Active
  <2>8. RefBalance'
    BY <2>1, <2>5, <2>6 DEF TableInv, RefBalance, HeldIffActive
  <2> QED
    BY <2>4, <2>7, <2>8 DEF TableInv
<1> QED
  BY <1>1, <1>2

(* Closing the engine gives every reference of the table back. *)
LEMMA FreeAllInv ==
  ASSUME TableInv, free_all_timers
  PROVE  TableInv' /\ \A f \in Fns : refs'[f] = 0
<1>1. timers \in [Slots -> Entry] /\ next_timer_id \in Nat /\ refs \in [Fns -> Int]
  BY DEF TableInv, TableTypeOK
<1>2. Active' = {}
  BY <1>1 DEF free_all_timers, Active, Entry
<1>3. TableTypeOK'
  <2>1. timers' \in [Slots -> Entry]
    BY <1>1 DEF free_all_timers, Entry
  <2>2. refs' \in [Fns -> Int]
    <3>1. \A f \in Fns : refs[f] - Cardinality(Holders(f)) \in Int
      <4> TAKE f \in Fns
      <4>1. Cardinality(Holders(f)) \in Nat
        BY HoldersFinite
      <4> QED
        BY <1>1, <4>1
    <3> QED
      BY <3>1 DEF free_all_timers
  <2> QED
    BY <1>1, <2>1, <2>2 DEF free_all_timers, TableTypeOK
<1>4. UniqueIds'
  BY <1>2 DEF UniqueIds
<1>5. HeldIffActive'
  BY <1>1, UndefinedAssumption
     DEF TableInv, RefBalance, free_all_timers, HeldIffActive, Active, Entry
<1>6. \A f \in Fns : refs'[f] = 0
  <2> TAKE f \in Fns
  <2>1. Cardinality(Holders(f)) \in Nat
    BY HoldersFinite
  <2>2. refs[f] = Cardinality(Holders(f))
    BY DEF TableInv, RefBalance
  <2>3. refs'[f] = refs[f] - Cardinality(Holders(f))
    BY DEF free_all_timers
  <2> QED
    BY <2>1, <2>2, <2>3
<1>7. \A f \in Fns : Holders(f)' = {}
  BY <1>2 DEF Holders
<1>8. RefBalance'
  BY <1>5, <1>6, <1>7, FS_EmptySet DEF RefBalance
<1> QED
  BY <1>3, <1>4, <1>6, <1>8 DEF TableInv

=============================================================================
