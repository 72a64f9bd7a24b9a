------------------------- MODULE CallbackTableProofs -------------------------
(***************************************************************************)
(* The invariants of CallbackTable, for any number of engines, slots and   *)
(* references, and the proof that the table implements CallbackRegistry.   *)
(* Types need no assumption; that references are accounted for needs one   *)
(* thread; that functions are served needs one thread and engines that are *)
(* not closed while others have callbacks.                                 *)
(***************************************************************************)
EXTENDS CallbackTable, FiniteSetTheorems, TLAPS

Quiet == {"idle", "args", "java", "closed"} \cup Levels

Running == {"java"} \cup Levels

(* What the place of an engine says of its locals. *)
PlaceOK ==
  \A e \in Engines :
    /\ pc[e] \in {"claim", "bind", "wipe"} => slot[e] \in Slots
    /\ pc[e] \in {"scan", "close"} => slot[e] > 0
    /\ pc[e] \in {"scan", "claim", "bind"} => ref[e] # Null
    /\ pc[e] \notin {"scan", "claim", "bind"} => ref[e] = Null
    /\ (e \in open) = (pc[e] \notin {"close", "wipe", "closed"})
    /\ pc[e] = "args" => calling[e] \in fns[e]
    /\ pc[e] \notin {"args", "java"} => calling[e] = NoFn
    /\ (pc[e] \in Running) = (running[e] # Null)

TypeInv == CallbackTypeOK /\ PlaceOK

LEMMA InitTypeInv == CallbackInit => TypeInv
BY CallbackAssumption
DEF CallbackInit, TypeInv, CallbackTypeOK, PlaceOK, Fn, NoFn, Slots, Refs, Null, Levels, Running

LEMMA NextTypeInv == TypeInv /\ [CallbackNext]_callbackVars => TypeInv'
<1> USE CallbackAssumption DEF TypeInv, CallbackTypeOK, PlaceOK
<1> SUFFICES ASSUME TypeInv, [CallbackNext]_callbackVars PROVE TypeInv'
  OBVIOUS
<1> USE DEF At, Goto, Slots, Refs, Null, Fn, NoFn, tableVars, javaVars, Running, Levels
<1>1. CASE UNCHANGED callbackVars
  BY <1>1 DEF callbackVars
<1>2. CASE AllClosed
  BY <1>2 DEF AllClosed, callbackVars
<1>3. ASSUME NEW e \in Engines, Step(e) PROVE TypeInv'
  <2>1. CASE SetCallback(e)
    <3>1. CallbackTypeOK'
      BY <2>1 DEF SetCallback
    <3>2. PlaceOK'
      BY <2>1 DEF SetCallback
    <3> QED
      BY <3>1, <3>2
  <2>2. CASE Scan(e)
    <3>1. CASE used[slot[e]]
      <4>1. slot' = [slot EXCEPT ![e] = @ + 1] /\ pc' = pc /\ slot[e] \in Slots
        BY <2>2, <3>1 DEF Scan
      <4>2. CallbackTypeOK' /\ PlaceOK'
        BY <2>2, <4>1 DEF Scan
      <4> QED
        BY <4>2
    <3>2. CASE ~used[slot[e]]
      <4>1. pc' = [pc EXCEPT ![e] = "claim"] /\ slot' = slot /\ slot[e] \in Slots
        BY <2>2, <3>2 DEF Scan
      <4>2. CallbackTypeOK' /\ PlaceOK'
        BY <2>2, <4>1 DEF Scan
      <4> QED
        BY <4>2
    <3> QED
      BY <3>1, <3>2
  <2>3. CASE TooManyCallbacks(e)
    <3>1. globals' \subseteq Refs
      BY <2>3 DEF TooManyCallbacks
    <3>2. CallbackTypeOK'
      BY <2>3, <3>1 DEF TooManyCallbacks
    <3>3. PlaceOK'
      BY <2>3 DEF TooManyCallbacks
    <3> QED
      BY <3>2, <3>3
  <2>4. CASE Claim(e)
    BY <2>4 DEF Claim
  <2>5. CASE Bind(e)
    BY <2>5 DEF Bind
  <2>6. CASE Collect(e)
    BY <2>6 DEF Collect
  <2>7. CASE CheckSlot(e)
    <3>1. PICK f \in fns[e] :
            /\ calling' = [calling EXCEPT ![e] = f]
            /\ \/ pc' = [pc EXCEPT ![e] = "args"] /\ running' = running
               \/ /\ pc' = [pc EXCEPT ![e] = "java"]
                  /\ running' = [running EXCEPT ![e] = Invalid]
      BY <2>7 DEF CheckSlot
    <3>2. CallbackTypeOK'
      BY <2>7, <3>1 DEF CheckSlot
    <3>3. PlaceOK'
      BY <2>7, <3>1 DEF CheckSlot, Invalid
    <3> QED
      BY <3>2, <3>3
  <2>8. CASE Invoke(e)
    <3>1. CallbackTypeOK'
      BY <2>8 DEF Invoke, CalledOn, Invalid
    <3>2. PlaceOK'
      BY <2>8 DEF Invoke, CalledOn, Invalid
    <3> QED
      BY <3>1, <3>2
  <2>9. CASE CallbackReturns(e)
    BY <2>9 DEF CallbackReturns
  <2>10. CASE SetConsole(e)
    <3>1. PICK l \in Levels, r \in {Null, next_ref} \cap (Refs \cup {Null}) :
            /\ handler' = [handler EXCEPT ![e][l] = r]
            /\ globals' = (globals \ {handler[e][l]}) \cup ({r} \ {Null})
            /\ next_ref' = next_ref + (IF r = Null THEN 0 ELSE 1)
      BY <2>10 DEF SetConsole
    <3>2. handler' \in [Engines -> [Levels -> Refs \cup {Null}]]
      BY <3>1
    <3>3. globals' \subseteq Refs
      BY <3>1
    <3>4. next_ref' \in 1..(MaxRefs + 1)
      BY <3>1
    <3>5. CallbackTypeOK'
      BY <2>10, <3>2, <3>3, <3>4 DEF SetConsole
    <3>6. PlaceOK'
      BY <2>10 DEF SetConsole
    <3> QED
      BY <3>5, <3>6
  <2>11. CASE emit_console_message(e)
    <3>1. PICK l \in Levels, r \in Refs \cup {Stdout, Invalid} :
            running' = [running EXCEPT ![e] = r] /\ pc' = [pc EXCEPT ![e] = l]
      BY <2>11 DEF emit_console_message, CalledOn
    <3>2. r # Null /\ pc[e] = "idle" /\ e \in open
      BY <2>11 DEF emit_console_message, Stdout, Invalid
    <3>3. CallbackTypeOK'
      BY <2>11, <3>1 DEF emit_console_message
    <3>4. PlaceOK'
      BY <2>11, <3>1, <3>2 DEF emit_console_message
    <3> QED
      BY <3>3, <3>4
  <2>12. CASE Close(e)
    BY <2>12 DEF Close
  <2>13. CASE CloseSlot(e)
    <3>1. slot[e] \in Slots
      BY <2>13 DEF CloseSlot
    <3>2. used' \in [Slots -> BOOLEAN] /\ globals' \subseteq Refs
      <4>1. CASE used[slot[e]]
        BY <2>13, <3>1, <4>1 DEF CloseSlot
      <4>2. CASE ~used[slot[e]]
        BY <2>13, <4>2 DEF CloseSlot
      <4> QED
        BY <4>1, <4>2
    <3>3. CASE used[slot[e]]
      <4>1. pc' = [pc EXCEPT ![e] = "wipe"] /\ slot' = slot
        BY <2>13, <3>3 DEF CloseSlot
      <4>2. CallbackTypeOK' /\ PlaceOK'
        BY <2>13, <3>1, <3>2, <4>1 DEF CloseSlot
      <4> QED
        BY <4>2
    <3>4. CASE ~used[slot[e]]
      <4>1. pc' = pc /\ slot' = [slot EXCEPT ![e] = @ + 1]
        BY <2>13, <3>4 DEF CloseSlot
      <4>2. CallbackTypeOK' /\ PlaceOK'
        BY <2>13, <3>1, <3>2, <4>1 DEF CloseSlot
      <4> QED
        BY <4>2
    <3> QED
      BY <3>3, <3>4
  <2>14. CASE WipeSlot(e)
    BY <2>14 DEF WipeSlot
  <2>15. CASE FreeRuntime(e)
    <3>1. handler' \in [Engines -> [Levels -> Refs \cup {Null}]]
      BY <2>15 DEF FreeRuntime
    <3>2. fns' \in [Engines -> SUBSET Fn]
      BY <2>15 DEF FreeRuntime
    <3>3. globals' \subseteq Refs
      BY <2>15 DEF FreeRuntime
    <3>4. CallbackTypeOK'
      BY <2>15, <3>1, <3>2, <3>3 DEF FreeRuntime
    <3>5. PlaceOK'
      BY <2>15 DEF FreeRuntime
    <3> QED
      BY <3>4, <3>5
  <2> QED
    BY <1>3, <2>1, <2>2, <2>3, <2>4, <2>5, <2>6, <2>7, <2>8, <2>9, <2>10, <2>11, <2>12,
       <2>13, <2>14, <2>15, Zenon DEF Step
<1> QED
  BY <1>1, <1>2, <1>3, Zenon DEF CallbackNext

(* CallbackTable never indexes the table outside its bounds, whatever       *)
(* threads do and whenever engines are closed (qjs_callback.c:77,           *)
(* quickjs_jni.c:59).                                                       *)
THEOREM CallbackTypeCorrect == CallbackSpec => []CallbackTypeOK
<1>1. TypeInv => CallbackTypeOK
  BY DEF TypeInv
<1> QED
  BY <1>1, InitTypeInv, NextTypeInv, PTL DEF CallbackSpec

-----------------------------------------------------------------------------
(* One thread *)

(* Engines other than the one that moves are at rest. *)
LEMMA OthersRest ==
  ASSUME TypeInv, ~Overlap, NEW e \in Engines, Step(e)
  PROVE  \A o \in Engines \ {e} :
           pc[o] \in Quiet /\ pc'[o] = pc[o] /\ slot'[o] = slot[o] /\ ref'[o] = ref[o]
<1> USE DEF TypeInv, CallbackTypeOK, At, Goto, tableVars, javaVars
<1>1. \A o \in Engines \ {e} : pc[o] \in Quiet
  BY DEF Step, Turn, Quiet, SetCallback, Scan, TooManyCallbacks, Claim, Bind, Collect,
         CheckSlot, Invoke, CallbackReturns, SetConsole, emit_console_message, Close,
         CloseSlot, WipeSlot, FreeRuntime
<1>2. \A o \in Engines \ {e} : pc'[o] = pc[o] /\ slot'[o] = slot[o] /\ ref'[o] = ref[o]
  <2>1. CASE \/ SetCallback(e) \/ Scan(e) \/ TooManyCallbacks(e) \/ Claim(e) \/ Bind(e)
    BY <2>1 DEF SetCallback, Scan, TooManyCallbacks, Claim, Bind
  <2>2. CASE \/ Collect(e) \/ CheckSlot(e) \/ Invoke(e) \/ CallbackReturns(e)
    BY <2>2 DEF Collect, CheckSlot, Invoke, CallbackReturns
  <2>3. CASE \/ SetConsole(e) \/ emit_console_message(e)
    BY <2>3 DEF SetConsole, emit_console_message
  <2>4. CASE \/ Close(e) \/ CloseSlot(e) \/ WipeSlot(e) \/ FreeRuntime(e)
    BY <2>4 DEF Close, CloseSlot, WipeSlot, FreeRuntime
  <2> QED
    BY <2>1, <2>2, <2>3, <2>4, Zenon DEF Step
<1> QED
  BY <1>1, <1>2

(* What is behind a reference: the parts of RefsAccounted, and what the     *)
(* steps of a registration and of a close rely on.                          *)
SlotsHold == \A s \in Slots : used[s] => callback[s] \in globals

SlotsDiffer ==
  \A s, t \in Slots : used[s] /\ used[t] /\ callback[s] = callback[t] => s = t

HandlersHold == \A e \in Engines, l \in Levels : handler[e][l] \in globals \cup {Null}

HandlersDiffer ==
  \A e, o \in Engines, l, m \in Levels :
    handler[e][l] # Null /\ handler[e][l] = handler[o][m] => e = o /\ l = m

Apart == \A s \in Slots, e \in Engines, l \in Levels : used[s] => callback[s] # handler[e][l]

RegisteringAlone == \A e, o \in Registering : e = o

RegisteringHold ==
  \A e \in Registering :
    /\ ref[e] \in globals
    /\ \A s \in Slots : used[s] => callback[s] # ref[e]
    /\ \A o \in Engines, l \in Levels : handler[o][l] # ref[e]

SlotInHand ==
  \A e \in Engines :
    /\ pc[e] \in {"claim", "wipe"} => ~used[slot[e]]
    /\ pc[e] = "bind" => used[slot[e]] /\ callback[slot[e]] = ref[e]

Fresh == \A r \in globals : r < next_ref

Behind(r) ==
  \/ \E s \in Slots : used[s] /\ callback[s] = r
  \/ \E e \in Engines, l \in Levels : handler[e][l] = r
  \/ \E e \in Registering : ref[e] = r

NoneLeaked == \A r \in globals : Behind(r)

RefsOK ==
  /\ SlotsHold /\ SlotsDiffer /\ HandlersHold /\ HandlersDiffer /\ Apart
  /\ RegisteringAlone /\ RegisteringHold /\ SlotInHand /\ Fresh /\ NoneLeaked

OwnInv == TypeInv /\ RefsOK

LEMMA InitRefsOK == CallbackInit => RefsOK
BY DEF CallbackInit, RefsOK, SlotsHold, SlotsDiffer, HandlersHold, HandlersDiffer, Apart,
       RegisteringAlone, RegisteringHold, SlotInHand, Fresh, NoneLeaked, Registering, Null

(* Steps that touch neither references nor slots. *)
LEMMA RefsUndisturbed ==
  ASSUME OwnInv, UNCHANGED <<used, callback, globals, next_ref, handler>>,
         UNCHANGED <<slot, ref>>, NEW e \in Engines,
         \A o \in Engines \ {e} : pc'[o] = pc[o],
         pc[e] \in Quiet, pc'[e] \in Quiet
  PROVE  RefsOK'
<1> USE DEF OwnInv, TypeInv, CallbackTypeOK, RefsOK
<1>1. Registering' = Registering
  BY DEF Registering, Quiet, Levels
<1>2. (SlotsHold /\ SlotsDiffer /\ HandlersHold /\ HandlersDiffer /\ Apart /\ Fresh)'
  BY DEF SlotsHold, SlotsDiffer, HandlersHold, HandlersDiffer, Apart, Fresh
<1>3. (RegisteringAlone /\ RegisteringHold /\ NoneLeaked)'
  BY <1>1 DEF RegisteringAlone, RegisteringHold, NoneLeaked, Behind
<1>4. SlotInHand'
  BY DEF SlotInHand, Quiet, Levels
<1> QED
  BY <1>2, <1>3, <1>4

LEMMA NextRefsOK ==
  ASSUME OwnInv, TypeInv', ~Overlap, NEW e \in Engines, Step(e)
  PROVE  RefsOK'
<1> USE CallbackAssumption
<1>a. /\ CallbackTypeOK /\ PlaceOK /\ RefsOK /\ CallbackTypeOK' /\ PlaceOK'
  BY DEF OwnInv, TypeInv
<1>b. \A o \in Engines \ {e} :
        pc[o] \in Quiet /\ pc'[o] = pc[o] /\ slot'[o] = slot[o] /\ ref'[o] = ref[o]
  BY OthersRest, Zenon DEF OwnInv
<1>c. /\ Registering = IF pc[e] \in {"scan", "claim"} THEN {e} ELSE {}
      /\ Registering' = IF pc'[e] \in {"scan", "claim"} THEN {e} ELSE {}
  BY <1>b DEF Registering, Quiet, Levels
<1>d. ASSUME /\ pc'[e] \in {"claim", "wipe"} => ~used'[slot'[e]]
             /\ pc'[e] = "bind" => used'[slot'[e]] /\ callback'[slot'[e]] = ref'[e]
      PROVE  SlotInHand'
  BY <1>b, <1>d DEF SlotInHand, Quiet, Levels
<1>e. RegisteringAlone'
  BY <1>c DEF RegisteringAlone
<1> USE DEF At, Goto, tableVars, javaVars, Slots, Refs, Null
<1>1. CASE SetCallback(e)
  <2>1. (SlotsHold /\ SlotsDiffer)'
    BY <1>1, <1>a, <1>c
    DEF SetCallback, CallbackTypeOK, PlaceOK, RefsOK, SlotsHold, SlotsDiffer, HandlersHold,
        HandlersDiffer, Apart, RegisteringHold, SlotInHand, Fresh
  <2>2. (HandlersHold /\ HandlersDiffer /\ Apart)'
    BY <1>1, <1>a, <1>c
    DEF SetCallback, CallbackTypeOK, PlaceOK, RefsOK, SlotsHold, SlotsDiffer, HandlersHold,
        HandlersDiffer, Apart, RegisteringHold, SlotInHand, Fresh
  <2>3. (RegisteringHold /\ Fresh)'
    BY <1>1, <1>a, <1>c
    DEF SetCallback, CallbackTypeOK, PlaceOK, RefsOK, SlotsHold, SlotsDiffer, HandlersHold,
        HandlersDiffer, Apart, RegisteringHold, SlotInHand, Fresh
  <2>4. SlotInHand'
    BY <1>1, <1>a, <1>d DEF SetCallback, CallbackTypeOK, PlaceOK, RefsOK, SlotInHand
  <2>5. NoneLeaked'
    <3>1. SUFFICES ASSUME NEW r \in globals' PROVE Behind(r)'
      BY DEF NoneLeaked
    <3>2. CASE r \in globals
      BY <1>1, <1>a, <1>c, <3>2 DEF SetCallback, RefsOK, NoneLeaked, Behind
    <3>3. CASE r = next_ref
      <4>1. e \in Registering' /\ ref'[e] = r
        BY <1>1, <1>a, <1>c, <3>3 DEF SetCallback, CallbackTypeOK
      <4> QED
        BY <4>1 DEF Behind
    <3> QED
      BY <1>1, <3>1, <3>2, <3>3 DEF SetCallback
  <2> QED
    BY <1>e, <2>1, <2>2, <2>3, <2>4, <2>5 DEF RefsOK
<1>2. CASE Scan(e)
  <2>1. (SlotsHold /\ SlotsDiffer)'
    BY <1>2, <1>a, <1>c
    DEF Scan, CallbackTypeOK, PlaceOK, RefsOK, SlotsHold, SlotsDiffer, HandlersHold,
        HandlersDiffer, Apart, RegisteringHold, SlotInHand, Fresh
  <2>2. (HandlersHold /\ HandlersDiffer /\ Apart)'
    BY <1>2, <1>a, <1>c
    DEF Scan, CallbackTypeOK, PlaceOK, RefsOK, SlotsHold, SlotsDiffer, HandlersHold,
        HandlersDiffer, Apart, RegisteringHold, SlotInHand, Fresh
  <2>3. (RegisteringHold /\ Fresh)'
    BY <1>2, <1>a, <1>c
    DEF Scan, CallbackTypeOK, PlaceOK, RefsOK, SlotsHold, SlotsDiffer, HandlersHold,
        HandlersDiffer, Apart, RegisteringHold, SlotInHand, Fresh
  <2>4. SlotInHand'
    BY <1>2, <1>a, <1>d DEF Scan, CallbackTypeOK, PlaceOK, RefsOK, SlotInHand
  <2>5. NoneLeaked'
    <3>1. /\ UNCHANGED <<used, callback, globals, handler, ref>>
          /\ Registering' = Registering
      BY <1>2, <1>a, <1>c DEF Scan, CallbackTypeOK
    <3> QED
      BY <1>a, <3>1 DEF RefsOK, NoneLeaked, Behind
  <2> QED
    BY <1>e, <2>1, <2>2, <2>3, <2>4, <2>5 DEF RefsOK
<1>3. CASE TooManyCallbacks(e)
  <2>1. (SlotsHold /\ SlotsDiffer)'
    BY <1>3, <1>a, <1>c
    DEF TooManyCallbacks, CallbackTypeOK, PlaceOK, RefsOK, SlotsHold, SlotsDiffer, HandlersHold,
        HandlersDiffer, Apart, RegisteringHold, SlotInHand, Fresh
  <2>2. (HandlersHold /\ HandlersDiffer /\ Apart)'
    BY <1>3, <1>a, <1>c
    DEF TooManyCallbacks, CallbackTypeOK, PlaceOK, RefsOK, SlotsHold, SlotsDiffer, HandlersHold,
        HandlersDiffer, Apart, RegisteringHold, SlotInHand, Fresh
  <2>3. (RegisteringHold /\ Fresh)'
    BY <1>3, <1>a, <1>c
    DEF TooManyCallbacks, CallbackTypeOK, PlaceOK, RefsOK, SlotsHold, SlotsDiffer, HandlersHold,
        HandlersDiffer, Apart, RegisteringHold, SlotInHand, Fresh
  <2>4. SlotInHand'
    BY <1>3, <1>a, <1>d DEF TooManyCallbacks, CallbackTypeOK, PlaceOK, RefsOK, SlotInHand
  <2>5. NoneLeaked'
    BY <1>3, <1>a, <1>c, SMTT(30)
    DEF TooManyCallbacks, CallbackTypeOK, PlaceOK, RefsOK, NoneLeaked, Behind
  <2> QED
    BY <1>e, <2>1, <2>2, <2>3, <2>4, <2>5 DEF RefsOK
<1>4. CASE Claim(e)
  <2>1. (SlotsHold /\ SlotsDiffer)'
    BY <1>4, <1>a, <1>c
    DEF Claim, CallbackTypeOK, PlaceOK, RefsOK, SlotsHold, SlotsDiffer, HandlersHold,
        HandlersDiffer, Apart, RegisteringHold, SlotInHand, Fresh
  <2>2. (HandlersHold /\ HandlersDiffer /\ Apart)'
    BY <1>4, <1>a, <1>c
    DEF Claim, CallbackTypeOK, PlaceOK, RefsOK, SlotsHold, SlotsDiffer, HandlersHold,
        HandlersDiffer, Apart, RegisteringHold, SlotInHand, Fresh
  <2>3. (RegisteringHold /\ Fresh)'
    BY <1>4, <1>a, <1>c
    DEF Claim, CallbackTypeOK, PlaceOK, RefsOK, SlotsHold, SlotsDiffer, HandlersHold,
        HandlersDiffer, Apart, RegisteringHold, SlotInHand, Fresh
  <2>4. SlotInHand'
    BY <1>4, <1>a, <1>d DEF Claim, CallbackTypeOK, PlaceOK, RefsOK, SlotInHand
  <2>5. NoneLeaked'
    <3>1. SUFFICES ASSUME NEW r \in globals' PROVE Behind(r)'
      BY DEF NoneLeaked
    <3>2. Behind(r)
      BY <1>4, <1>a DEF Claim, RefsOK, NoneLeaked
    <3>3. CASE \E s \in Slots : used[s] /\ callback[s] = r
      <4>1. PICK s \in Slots : used[s] /\ callback[s] = r
        BY <3>3
      <4>2. s # slot[e]
        BY <1>4, <1>a, <4>1 DEF Claim, RefsOK, SlotInHand
      <4>3. used'[s] /\ callback'[s] = r
        BY <1>4, <1>a, <4>1, <4>2 DEF Claim, CallbackTypeOK
      <4> QED
        BY <4>3 DEF Behind
    <3>4. CASE \E o \in Registering : ref[o] = r
      <4>1. ref[e] = r /\ slot[e] \in Slots
        BY <1>4, <1>a, <1>c, <3>4 DEF Claim, PlaceOK
      <4>2. used'[slot[e]] /\ callback'[slot[e]] = r
        BY <1>4, <1>a, <4>1 DEF Claim, CallbackTypeOK
      <4> QED
        BY <4>1, <4>2 DEF Behind
    <3> QED
      BY <1>4, <3>2, <3>3, <3>4 DEF Claim, Behind
  <2> QED
    BY <1>e, <2>1, <2>2, <2>3, <2>4, <2>5 DEF RefsOK
<1>5. CASE Bind(e)
  <2>1. (SlotsHold /\ SlotsDiffer)'
    BY <1>5, <1>a, <1>c
    DEF Bind, CallbackTypeOK, PlaceOK, RefsOK, SlotsHold, SlotsDiffer, HandlersHold,
        HandlersDiffer, Apart, RegisteringHold, SlotInHand, Fresh
  <2>2. (HandlersHold /\ HandlersDiffer /\ Apart)'
    BY <1>5, <1>a, <1>c
    DEF Bind, CallbackTypeOK, PlaceOK, RefsOK, SlotsHold, SlotsDiffer, HandlersHold,
        HandlersDiffer, Apart, RegisteringHold, SlotInHand, Fresh
  <2>3. (RegisteringHold /\ Fresh)'
    BY <1>5, <1>a, <1>c
    DEF Bind, CallbackTypeOK, PlaceOK, RefsOK, SlotsHold, SlotsDiffer, HandlersHold,
        HandlersDiffer, Apart, RegisteringHold, SlotInHand, Fresh
  <2>4. SlotInHand'
    BY <1>5, <1>a, <1>d DEF Bind, CallbackTypeOK, PlaceOK, RefsOK, SlotInHand
  <2>5. NoneLeaked'
    <3>1. /\ UNCHANGED <<used, callback, globals, handler>>
          /\ Registering = {} /\ Registering' = {}
      BY <1>5, <1>a, <1>c DEF Bind, CallbackTypeOK
    <3> QED
      BY <1>a, <3>1 DEF RefsOK, NoneLeaked, Behind
  <2> QED
    BY <1>e, <2>1, <2>2, <2>3, <2>4, <2>5 DEF RefsOK
<1>6. CASE Collect(e) \/ CheckSlot(e) \/ Invoke(e) \/ CallbackReturns(e) \/ emit_console_message(e)
  BY <1>6, <1>a, <1>b, RefsUndisturbed
  DEF Collect, CheckSlot, Invoke, CallbackReturns, emit_console_message, CallbackTypeOK, Quiet,
      Levels
<1>7. CASE SetConsole(e)
  <2>1. (SlotsHold /\ SlotsDiffer)'
    BY <1>7, <1>a, <1>c
    DEF SetConsole, CallbackTypeOK, PlaceOK, RefsOK, SlotsHold, SlotsDiffer, HandlersHold,
        HandlersDiffer, Apart, RegisteringHold, SlotInHand, Fresh
  <2>2. (HandlersHold /\ HandlersDiffer /\ Apart)'
    BY <1>7, <1>a, <1>c
    DEF SetConsole, CallbackTypeOK, PlaceOK, RefsOK, SlotsHold, SlotsDiffer, HandlersHold,
        HandlersDiffer, Apart, RegisteringHold, SlotInHand, Fresh
  <2>3. (RegisteringHold /\ Fresh)'
    BY <1>7, <1>a, <1>c
    DEF SetConsole, CallbackTypeOK, PlaceOK, RefsOK, SlotsHold, SlotsDiffer, HandlersHold,
        HandlersDiffer, Apart, RegisteringHold, SlotInHand, Fresh
  <2>4. SlotInHand'
    BY <1>7, <1>a, <1>d DEF SetConsole, CallbackTypeOK, PlaceOK, RefsOK, SlotInHand
  <2>5. NoneLeaked'
    <3>1. PICK l \in Levels, new \in {Null, next_ref} \cap (Refs \cup {Null}) :
            /\ handler' = [handler EXCEPT ![e][l] = new]
            /\ globals' = (globals \ {handler[e][l]}) \cup ({new} \ {Null})
      BY <1>7 DEF SetConsole
    <3>2. SUFFICES ASSUME NEW r \in globals' PROVE Behind(r)'
      BY DEF NoneLeaked
    <3>3. CASE r = new
      <4>1. handler'[e][l] = r
        BY <1>a, <3>1, <3>3 DEF CallbackTypeOK
      <4> QED
        BY <4>1 DEF Behind
    <3>4. CASE r # new
      <4>1. r \in globals /\ r # handler[e][l]
        BY <3>1, <3>4
      <4>2. Behind(r)
        BY <1>a, <4>1 DEF RefsOK, NoneLeaked
      <4>3. CASE \E o \in Engines, m \in Levels : handler[o][m] = r
        <5>1. PICK o \in Engines, m \in Levels : handler[o][m] = r
          BY <4>3
        <5>2. handler'[o][m] = r
          BY <1>a, <3>1, <4>1, <5>1 DEF CallbackTypeOK
        <5> QED
          BY <5>2 DEF Behind
      <4> QED
        BY <1>7, <1>c, <4>2, <4>3 DEF SetConsole, Behind
    <3> QED
      BY <3>3, <3>4
  <2> QED
    BY <1>e, <2>1, <2>2, <2>3, <2>4, <2>5 DEF RefsOK
<1>8. CASE Close(e)
  <2>1. (SlotsHold /\ SlotsDiffer)'
    BY <1>8, <1>a, <1>c
    DEF Close, CallbackTypeOK, PlaceOK, RefsOK, SlotsHold, SlotsDiffer, HandlersHold,
        HandlersDiffer, Apart, RegisteringHold, SlotInHand, Fresh
  <2>2. (HandlersHold /\ HandlersDiffer /\ Apart)'
    BY <1>8, <1>a, <1>c
    DEF Close, CallbackTypeOK, PlaceOK, RefsOK, SlotsHold, SlotsDiffer, HandlersHold,
        HandlersDiffer, Apart, RegisteringHold, SlotInHand, Fresh
  <2>3. (RegisteringHold /\ Fresh)'
    BY <1>8, <1>a, <1>c
    DEF Close, CallbackTypeOK, PlaceOK, RefsOK, SlotsHold, SlotsDiffer, HandlersHold,
        HandlersDiffer, Apart, RegisteringHold, SlotInHand, Fresh
  <2>4. SlotInHand'
    BY <1>8, <1>a, <1>d DEF Close, CallbackTypeOK, PlaceOK, RefsOK, SlotInHand
  <2>5. NoneLeaked'
    BY <1>8, <1>a, <1>c DEF Close, CallbackTypeOK, PlaceOK, RefsOK, NoneLeaked, Behind
  <2> QED
    BY <1>e, <2>1, <2>2, <2>3, <2>4, <2>5 DEF RefsOK
<1>9. CASE CloseSlot(e)
  <2>1. (SlotsHold /\ SlotsDiffer)'
    <3>1. \A s \in Slots : used'[s] => used[s] /\ callback'[s] = callback[s]
      BY <1>9, <1>a DEF CloseSlot, CallbackTypeOK
    <3>2. SlotsDiffer'
      BY <1>a, <3>1 DEF RefsOK, SlotsDiffer
    <3>3. \A s \in Slots : used'[s] => callback[s] \in globals'
      <4>1. SUFFICES ASSUME NEW s \in Slots, used'[s] PROVE callback[s] \in globals'
        OBVIOUS
      <4>2. callback[s] \in globals
        BY <1>a, <3>1, <4>1 DEF RefsOK, SlotsHold
      <4>3. CASE used[slot[e]]
        <5>1. slot[e] \in Slots /\ s # slot[e]
          BY <1>9, <1>a, <4>1, <4>3 DEF CloseSlot, CallbackTypeOK, PlaceOK
        <5>2. callback[s] # callback[slot[e]]
          BY <1>a, <3>1, <4>1, <4>3, <5>1 DEF RefsOK, SlotsDiffer
        <5> QED
          BY <1>9, <4>2, <4>3, <5>2 DEF CloseSlot
      <4>4. CASE ~used[slot[e]]
        BY <1>9, <4>2, <4>4 DEF CloseSlot
      <4> QED
        BY <4>3, <4>4
    <3> QED
      BY <3>1, <3>2, <3>3 DEF SlotsHold
  <2>2. (HandlersHold /\ HandlersDiffer /\ Apart)'
    BY <1>9, <1>a, <1>c
    DEF CloseSlot, CallbackTypeOK, PlaceOK, RefsOK, SlotsHold, SlotsDiffer, HandlersHold,
        HandlersDiffer, Apart, RegisteringHold, SlotInHand, Fresh
  <2>3. (RegisteringHold /\ Fresh)'
    BY <1>9, <1>a, <1>c
    DEF CloseSlot, CallbackTypeOK, PlaceOK, RefsOK, SlotsHold, SlotsDiffer, HandlersHold,
        HandlersDiffer, Apart, RegisteringHold, SlotInHand, Fresh
  <2>4. SlotInHand'
    BY <1>9, <1>a, <1>d DEF CloseSlot, CallbackTypeOK, PlaceOK, RefsOK, SlotInHand
  <2>5. NoneLeaked'
    <3>1. SUFFICES ASSUME NEW r \in globals' PROVE Behind(r)'
      BY DEF NoneLeaked
    <3>2. Behind(r)
      BY <1>9, <1>a DEF CloseSlot, RefsOK, NoneLeaked
    <3>3. CASE \E s \in Slots : used[s] /\ callback[s] = r
      <4>1. PICK s \in Slots : used[s] /\ callback[s] = r
        BY <3>3
      <4>2. used'[s] /\ callback'[s] = r
        BY <1>9, <1>a, <4>1 DEF CloseSlot, CallbackTypeOK
      <4> QED
        BY <4>2 DEF Behind
    <3> QED
      BY <1>9, <1>c, <3>2, <3>3 DEF CloseSlot, Behind
  <2> QED
    BY <1>e, <2>1, <2>2, <2>3, <2>4, <2>5 DEF RefsOK
<1>10. CASE WipeSlot(e)
  <2>1. (SlotsHold /\ SlotsDiffer)'
    BY <1>10, <1>a, <1>c
    DEF WipeSlot, CallbackTypeOK, PlaceOK, RefsOK, SlotsHold, SlotsDiffer, HandlersHold,
        HandlersDiffer, Apart, RegisteringHold, SlotInHand, Fresh
  <2>2. (HandlersHold /\ HandlersDiffer /\ Apart)'
    BY <1>10, <1>a, <1>c
    DEF WipeSlot, CallbackTypeOK, PlaceOK, RefsOK, SlotsHold, SlotsDiffer, HandlersHold,
        HandlersDiffer, Apart, RegisteringHold, SlotInHand, Fresh
  <2>3. (RegisteringHold /\ Fresh)'
    BY <1>10, <1>a, <1>c
    DEF WipeSlot, CallbackTypeOK, PlaceOK, RefsOK, SlotsHold, SlotsDiffer, HandlersHold,
        HandlersDiffer, Apart, RegisteringHold, SlotInHand, Fresh
  <2>4. SlotInHand'
    BY <1>10, <1>a, <1>d DEF WipeSlot, CallbackTypeOK, PlaceOK, RefsOK, SlotInHand
  <2>5. NoneLeaked'
    <3>1. SUFFICES ASSUME NEW r \in globals' PROVE Behind(r)'
      BY DEF NoneLeaked
    <3>2. Behind(r)
      BY <1>10, <1>a DEF WipeSlot, RefsOK, NoneLeaked
    <3>3. CASE \E s \in Slots : used[s] /\ callback[s] = r
      <4>1. PICK s \in Slots : used[s] /\ callback[s] = r
        BY <3>3
      <4>2. s # slot[e]
        BY <1>10, <1>a, <4>1 DEF WipeSlot, RefsOK, SlotInHand
      <4>3. used'[s] /\ callback'[s] = r
        BY <1>10, <1>a, <4>1, <4>2 DEF WipeSlot, CallbackTypeOK
      <4> QED
        BY <4>3 DEF Behind
    <3> QED
      BY <1>10, <1>c, <3>2, <3>3 DEF WipeSlot, Behind
  <2> QED
    BY <1>e, <2>1, <2>2, <2>3, <2>4, <2>5 DEF RefsOK
<1>11. CASE FreeRuntime(e)
  <2>1. (SlotsHold /\ SlotsDiffer)'
    BY <1>11, <1>a, <1>c
    DEF FreeRuntime, CallbackTypeOK, PlaceOK, RefsOK, SlotsHold, SlotsDiffer, HandlersHold,
        HandlersDiffer, Apart, RegisteringHold, SlotInHand, Fresh
  <2>2. (HandlersHold /\ HandlersDiffer /\ Apart)'
    BY <1>11, <1>a, <1>c
    DEF FreeRuntime, CallbackTypeOK, PlaceOK, RefsOK, SlotsHold, SlotsDiffer, HandlersHold,
        HandlersDiffer, Apart, RegisteringHold, SlotInHand, Fresh
  <2>3. (RegisteringHold /\ Fresh)'
    BY <1>11, <1>a, <1>c
    DEF FreeRuntime, CallbackTypeOK, PlaceOK, RefsOK, SlotsHold, SlotsDiffer, HandlersHold,
        HandlersDiffer, Apart, RegisteringHold, SlotInHand, Fresh
  <2>4. SlotInHand'
    BY <1>11, <1>a, <1>d DEF FreeRuntime, CallbackTypeOK, PlaceOK, RefsOK, SlotInHand
  <2>5. NoneLeaked'
    <3>1. SUFFICES ASSUME NEW r \in globals' PROVE Behind(r)'
      BY DEF NoneLeaked
    <3>2. Behind(r)
      BY <1>11, <1>a DEF FreeRuntime, RefsOK, NoneLeaked
    <3>3. CASE \E o \in Engines, l \in Levels : handler[o][l] = r
      <4>1. PICK o \in Engines, l \in Levels : handler[o][l] = r
        BY <3>3
      <4>2. handler'[o][l] = r
        BY <1>11, <1>a, <4>1 DEF FreeRuntime, CallbackTypeOK
      <4> QED
        BY <4>2 DEF Behind
    <3> QED
      BY <1>11, <1>c, <3>2, <3>3 DEF FreeRuntime, Behind
  <2> QED
    BY <1>e, <2>1, <2>2, <2>3, <2>4, <2>5 DEF RefsOK
<1> QED
  BY <1>1, <1>2, <1>3, <1>4, <1>5, <1>6, <1>7, <1>8, <1>9, <1>10, <1>11, Zenon DEF Step

LEMMA NextOwnInv ==
  ASSUME ~Overlap, OwnInv, [CallbackNext]_callbackVars
  PROVE  OwnInv'
<1>1. TypeInv'
  BY NextTypeInv DEF OwnInv
<1>2. CASE UNCHANGED callbackVars
  BY <1>1, <1>2 DEF callbackVars, OwnInv, RefsOK, SlotsHold, SlotsDiffer, HandlersHold,
    HandlersDiffer, Apart, RegisteringAlone, RegisteringHold, SlotInHand, Fresh, NoneLeaked,
    Behind, Registering
<1>3. CASE AllClosed
  BY <1>2, <1>3 DEF AllClosed
<1>4. ASSUME NEW e \in Engines, Step(e) PROVE OwnInv'
  BY <1>1, <1>4, NextRefsOK DEF OwnInv
<1> QED
  BY <1>2, <1>3, <1>4 DEF CallbackNext

LEMMA InitOwnInv == CallbackInit => OwnInv
BY InitTypeInv, InitRefsOK DEF OwnInv

LEMMA ImageCount ==
  ASSUME NEW S, IsFiniteSet(S), NEW f, \A x, y \in S : f[x] = f[y] => x = y
  PROVE  /\ IsFiniteSet({f[x] : x \in S})
         /\ Cardinality({f[x] : x \in S}) = Cardinality(S)
<1> DEFINE T == {f[x] : x \in S}
           g == [x \in S |-> f[x]]
<1>1. g \in Bijection(S, T)
  BY DEF Bijection, Injection, Surjection, IsInjective
<1>2. ExistsBijection(S, T)
  BY <1>1 DEF ExistsBijection
<1> HIDE DEF T
<1>3. IsFiniteSet(T) /\ Cardinality(T) = Cardinality(S)
  BY <1>2, FS_Bijection
<1> QED
  BY <1>3 DEF T

LEMMA DisjointCount ==
  ASSUME NEW S, IsFiniteSet(S), NEW T, IsFiniteSet(T), S \cap T = {}
  PROVE  /\ IsFiniteSet(S \cup T)
         /\ Cardinality(S \cup T) = Cardinality(S) + Cardinality(T)
BY FS_Union, FS_EmptySet, FS_CardinalityType

(* Three families of references, each without repetition, and none in two   *)
(* of them.                                                                 *)
LEMMA OwnInvAccounts ==
  ASSUME OwnInv, IsFiniteSet(Engines)
  PROVE  RefsAccounted
<1> DEFINE inSlots == {callback[s] : s \in SlotsUsed}
           inHandlers == {handler[h[1]][h[2]] : h \in Handlers}
           inHands == {ref[e] : e \in Registering}
<1> USE DEF OwnInv, TypeInv, RefsOK
<1>1. globals = inSlots \cup inHandlers \cup inHands
  <2>1. globals \subseteq inSlots \cup inHandlers \cup inHands
    <3>1. SUFFICES ASSUME NEW r \in globals PROVE r \in inSlots \cup inHandlers \cup inHands
      OBVIOUS
    <3>2. r \in Refs /\ Behind(r)
      BY DEF NoneLeaked, CallbackTypeOK
    <3>3. ASSUME NEW o \in Engines, NEW l \in Levels, handler[o][l] = r PROVE r \in inHandlers
      <4>1. <<o, l>> \in Handlers
        BY <3>2, <3>3 DEF Handlers, Refs, Null
      <4> QED
        BY <3>3, <4>1
    <3> QED
      BY <3>2, <3>3 DEF Behind, SlotsUsed
  <2>2. inSlots \subseteq globals
    BY DEF SlotsHold, SlotsUsed
  <2>3. inHandlers \subseteq globals
    BY DEF HandlersHold, Handlers
  <2>4. inHands \subseteq globals
    BY DEF RegisteringHold
  <2> QED
    BY <2>1, <2>2, <2>3, <2>4
<1>2. IsFiniteSet(inSlots) /\ Cardinality(inSlots) = Cardinality(SlotsUsed)
  <2>1. IsFiniteSet(SlotsUsed)
    BY CallbackAssumption, FS_Interval, FS_Subset DEF SlotsUsed, Slots
  <2>2. \A s, t \in SlotsUsed : callback[s] = callback[t] => s = t
    BY DEF SlotsDiffer, SlotsUsed
  <2> QED
    BY <2>1, <2>2, ImageCount
<1>3. IsFiniteSet(inHandlers) /\ Cardinality(inHandlers) = Cardinality(Handlers)
  <2> DEFINE f == [h \in Handlers |-> handler[h[1]][h[2]]]
  <2>1. IsFiniteSet(Handlers)
    <3>1. IsFiniteSet(Levels)
      <4>1. Levels = {"log"} \cup {"error"}
        BY DEF Levels
      <4> QED
        BY <4>1, FS_Singleton, FS_Union
    <3> QED
      BY <3>1, FS_Product, FS_Subset DEF Handlers
  <2>2. \A g, h \in Handlers : f[g] = f[h] => g = h
    BY DEF HandlersDiffer, Handlers
  <2>3. inHandlers = {f[h] : h \in Handlers}
    OBVIOUS
  <2> HIDE DEF f
  <2>4. /\ IsFiniteSet({f[h] : h \in Handlers})
        /\ Cardinality({f[h] : h \in Handlers}) = Cardinality(Handlers)
    BY <2>1, <2>2, ImageCount
  <2> QED
    BY <2>3, <2>4
<1>4. IsFiniteSet(inHands) /\ Cardinality(inHands) = Cardinality(Registering)
  <2>1. IsFiniteSet(Registering)
    BY FS_Subset DEF Registering
  <2> QED
    BY <2>1, ImageCount DEF RegisteringAlone
<1>5. inSlots \cap inHandlers = {}
  BY DEF Apart, SlotsUsed, Handlers
<1>6. (inSlots \cup inHandlers) \cap inHands = {}
  BY DEF RegisteringHold, SlotsUsed, Handlers
<1> HIDE DEF inSlots, inHandlers, inHands
<1>7. Cardinality(inSlots \cup inHandlers \cup inHands)
        = Cardinality(inSlots) + Cardinality(inHandlers) + Cardinality(inHands)
  BY <1>2, <1>3, <1>4, <1>5, <1>6, DisjointCount
<1> QED
  BY <1>1, <1>2, <1>3, <1>4, <1>7 DEF RefsAccounted, inSlots, inHandlers, inHands

(* On one thread every global reference has exactly one owner, whenever     *)
(* engines are closed (quickjs_jni.c:61, 357-360, 396-410).                 *)
THEOREM ReferencesAccounted ==
  ASSUME ~Overlap, IsFiniteSet(Engines)
  PROVE  CallbackSpec => []RefsAccounted
<1>1. OwnInv => RefsAccounted
  BY OwnInvAccounts
<1>2. OwnInv /\ [CallbackNext]_callbackVars => OwnInv'
  BY NextOwnInv
<1> QED
  BY <1>1, <1>2, InitOwnInv, PTL DEF CallbackSpec

-----------------------------------------------------------------------------
(* Engines are not closed while others have callbacks *)

FnsServed == \A e \in open : \A f \in fns[e] : Served(f)

ClosedLast ==
  \A e \in Engines : pc[e] \in {"close", "wipe"} => \A o \in open : fns[o] = {}

ServeInv == OwnInv /\ FnsServed /\ ClosedLast

LEMMA InitServeInv == CallbackInit => ServeInv
BY InitOwnInv DEF CallbackInit, ServeInv, FnsServed, ClosedLast

LEMMA ServeInvServes ==
  ASSUME ServeInv
  PROVE  FunctionsServed
BY DEF ServeInv, FnsServed, OwnInv, TypeInv, CallbackTypeOK, PlaceOK, FunctionsServed

(* A step that leaves the slots in use as they are, and no engine with a    *)
(* new function.                                                            *)
LEMMA ServedStays ==
  ASSUME FnsServed, open' \subseteq open, CallbackTypeOK,
         \A o \in open' : fns'[o] \subseteq fns[o],
         \A s \in Slots : used[s] /\ callback[s] \in globals =>
           used'[s] /\ callback'[s] = callback[s] /\ callback[s] \in globals'
  PROVE  FnsServed'
BY DEF FnsServed, Served, CallbackTypeOK, Fn

LEMMA NextServeInv ==
  ASSUME ~Overlap, Closing # "any", ServeInv, [CallbackNext]_callbackVars
  PROVE  ServeInv'
<1> USE CallbackAssumption
<1>1. OwnInv'
  BY NextOwnInv DEF ServeInv
<1>2. CASE UNCHANGED callbackVars
  BY <1>1, <1>2 DEF callbackVars, ServeInv, FnsServed, Served, ClosedLast
<1>3. CASE AllClosed
  BY <1>2, <1>3 DEF AllClosed
<1>4. ASSUME NEW e \in Engines, Step(e) PROVE FnsServed' /\ ClosedLast'
  <2>a. /\ CallbackTypeOK /\ PlaceOK /\ RefsOK /\ FnsServed /\ ClosedLast
        /\ TypeInv /\ CallbackTypeOK' /\ PlaceOK'
    BY <1>1 DEF ServeInv, OwnInv, TypeInv
  <2>b. \A o \in Engines \ {e} : pc[o] \in Quiet /\ pc'[o] = pc[o]
    BY <1>4, <2>a, OthersRest
  <2>c. ASSUME pc'[e] \in {"close", "wipe"} => \A o \in open' : fns'[o] = {}
        PROVE  ClosedLast'
    BY <2>b, <2>c DEF ClosedLast, Quiet, Levels
  <2> USE DEF At, Goto, tableVars, javaVars
  <2>1. CASE SetCallback(e)
    BY <1>4, <2>1, <2>a, <2>c, ServedStays DEF SetCallback, CallbackTypeOK
  <2>2. CASE Scan(e)
    BY <1>4, <2>2, <2>a, <2>c, ServedStays DEF Scan, CallbackTypeOK
  <2>3. CASE TooManyCallbacks(e)
    BY <1>4, <2>3, <2>a, <2>c, ServedStays
    DEF TooManyCallbacks, CallbackTypeOK, RefsOK, RegisteringHold, Registering
  <2>4. CASE Claim(e)
    BY <1>4, <2>4, <2>a, <2>c, ServedStays DEF Claim, CallbackTypeOK, RefsOK, SlotInHand
  <2>5. CASE Bind(e)
    BY <1>4, <2>5, <2>a, <2>c
    DEF Bind, CallbackTypeOK, PlaceOK, RefsOK, SlotInHand, SlotsHold, FnsServed, Served
  <2>6. CASE Collect(e)
    BY <1>4, <2>6, <2>a, <2>c, ServedStays DEF Collect, CallbackTypeOK
  <2>7. CASE CheckSlot(e) \/ Invoke(e) \/ CallbackReturns(e) \/ emit_console_message(e)
    BY <1>4, <2>7, <2>a, <2>c, ServedStays
    DEF CheckSlot, Invoke, CallbackReturns, emit_console_message, CallbackTypeOK, Levels
  <2>8. CASE SetConsole(e)
    BY <1>4, <2>8, <2>a, <2>c, ServedStays
    DEF SetConsole, CallbackTypeOK, RefsOK, Apart, Levels
  <2>9. CASE Close(e)
    BY <1>4, <2>9, <2>a, <2>c, ServedStays DEF Close, CallbackTypeOK
  <2>10. CASE CloseSlot(e)
    BY <1>4, <2>10, <2>a, <2>c DEF CloseSlot, CallbackTypeOK, ClosedLast, FnsServed
  <2>11. CASE WipeSlot(e)
    BY <1>4, <2>11, <2>a, <2>c DEF WipeSlot, CallbackTypeOK, ClosedLast, FnsServed
  <2>12. CASE FreeRuntime(e)
    BY <1>4, <2>12, <2>a, <2>c DEF FreeRuntime, CallbackTypeOK, PlaceOK, ClosedLast, FnsServed
  <2> QED
    BY <1>4, <2>1, <2>2, <2>3, <2>4, <2>5, <2>6, <2>7, <2>8, <2>9, <2>10, <2>11, <2>12,
       Zenon DEF Step
<1> QED
  BY <1>1, <1>2, <1>3, <1>4 DEF CallbackNext, ServeInv

(* On one thread, if engines are closed only when no other has callbacks,   *)
(* every function calls what it was set to (qjs_callback.c:10, 43).         *)
THEOREM FunctionsAreServed ==
  ASSUME ~Overlap, Closing # "any"
  PROVE  CallbackSpec => []FunctionsServed
<1>1. ServeInv => FunctionsServed
  BY ServeInvServes
<1>2. ServeInv /\ [CallbackNext]_callbackVars => ServeInv'
  BY NextServeInv
<1> QED
  BY <1>1, <1>2, InitServeInv, PTL DEF CallbackSpec

-----------------------------------------------------------------------------
(* The refinement *)

LEMMA InitRegistry == CallbackInit => Registry!Init
BY DEF CallbackInit, Registry!Init, BoundRefs, OpenHandlers, CalledRefs, NoFn, Null

LEMMA StepRegistry ==
  ASSUME ~Overlap, ServeInv, NEW e \in Engines, Step(e)
  PROVE  Registry!Next \/ UNCHANGED Registry!vars
<1> USE CallbackAssumption
<1>a. /\ CallbackTypeOK /\ PlaceOK /\ RefsOK /\ FnsServed
  BY DEF ServeInv, OwnInv, TypeInv
<1>b. pc[e] \in {"idle", "args", "java"} \cup Levels => e \in open
  BY <1>a DEF PlaceOK, Levels
<1>c. /\ pc[e] \notin {"args", "java"} => CalledRefs[e] = Null
      /\ pc[e] \notin Running => running[e] = Null
  BY <1>a DEF PlaceOK, CalledRefs, NoFn
<1>d. UNCHANGED <<fns, open>> => UNCHANGED BoundRefs
  BY DEF BoundRefs
<1>e. UNCHANGED <<handler, open>> => UNCHANGED OpenHandlers
  BY DEF OpenHandlers
<1>f. UNCHANGED calling => UNCHANGED CalledRefs
  BY DEF CalledRefs
<1> USE DEF At, Goto, tableVars, javaVars
<1>1. CASE SetCallback(e) \/ Scan(e) \/ TooManyCallbacks(e) \/ Claim(e)
  BY <1>1, <1>d, <1>e, <1>f DEF SetCallback, Scan, TooManyCallbacks, Claim, Registry!vars
<1>2. CASE Bind(e)
  <2>1. e \in open /\ ref[e] \in Refs
    BY <1>2, <1>a DEF Bind, CallbackTypeOK, PlaceOK
  <2>2. {f.ref : f \in fns'[e]} = {f.ref : f \in fns[e]} \cup {ref[e]}
    <3> DEFINE new == [slot |-> slot[e], ref |-> ref[e]]
    <3>1. fns'[e] = fns[e] \cup {new}
      BY <1>2, <1>a DEF Bind, CallbackTypeOK
    <3>2. new.ref = ref[e]
      OBVIOUS
    <3> HIDE DEF new
    <3> QED
      BY <3>1, <3>2
  <2>3. BoundRefs' = [BoundRefs EXCEPT ![e] = @ \cup {ref[e]}]
    <3>1. open' = open /\ \A o \in Engines \ {e} : fns'[o] = fns[o]
      BY <1>2, <1>a DEF Bind, CallbackTypeOK
    <3> QED
      BY <2>1, <2>2, <3>1 DEF BoundRefs
  <2>4. Registry!Bind(e)
    BY <1>2, <1>e, <1>f, <2>1, <2>3 DEF Bind, Registry!Bind
  <2> QED
    BY <2>4 DEF Registry!Next
<1>3. CASE Collect(e)
  <2>1. PICK f \in fns[e] : fns' = [fns EXCEPT ![e] = @ \ {f}]
    BY <1>3 DEF Collect
  <2>2. e \in open /\ open' = open
    BY <1>3, <1>b DEF Collect
  <2>3. \A g \in fns[e] : g.ref = f.ref => g = f
    BY <1>a, <2>2 DEF CallbackTypeOK, Fn, FnsServed, Served, RefsOK, SlotsDiffer
  <2>4. {g.ref : g \in fns'[e]} = {g.ref : g \in fns[e]} \ {f.ref}
    <3>1. fns'[e] = fns[e] \ {f}
      BY <1>a, <2>1 DEF CallbackTypeOK
    <3> QED
      BY <2>3, <3>1
  <2>5. BoundRefs' = [BoundRefs EXCEPT ![e] = @ \ {f.ref}]
    <3>1. \A o \in Engines \ {e} : fns'[o] = fns[o]
      BY <1>a, <2>1 DEF CallbackTypeOK
    <3> QED
      BY <2>2, <2>4, <3>1 DEF BoundRefs
  <2>6. f.ref \in BoundRefs[e]
    BY <2>2 DEF BoundRefs
  <2>7. Registry!Drop(e)
    BY <1>3, <1>e, <1>f, <2>5, <2>6 DEF Collect, Registry!Drop
  <2> QED
    BY <2>7 DEF Registry!Next
<1>4. CASE CheckSlot(e)
  <2>1. PICK f \in fns[e] : calling' = [calling EXCEPT ![e] = f] /\ (used[f.slot] => running' = running)
    BY <1>4 DEF CheckSlot
  <2>2. e \in open /\ UNCHANGED <<fns, open, handler>>
    BY <1>4 DEF CheckSlot
  <2>3. used[f.slot]
    BY <1>a, <2>2 DEF FnsServed, Served
  <2>4. f.ref \in BoundRefs[e]
    BY <2>2 DEF BoundRefs
  <2>5. CalledRefs' = [CalledRefs EXCEPT ![e] = f.ref]
    BY <1>a, <2>1 DEF CalledRefs, CallbackTypeOK
  <2>6. CalledRefs[e] = Null
    BY <1>4, <1>c DEF CheckSlot, Levels
  <2>7. Registry!Call(e)
    BY <1>d, <1>e, <2>1, <2>2, <2>3, <2>4, <2>5, <2>6 DEF Registry!Call
  <2> QED
    BY <2>7 DEF Registry!Next
<1>5. CASE Invoke(e)
  <2>1. calling[e] \in fns[e] /\ e \in open /\ calling[e] \in Fn
    BY <1>5, <1>a, <1>b DEF Invoke, PlaceOK, CallbackTypeOK
  <2>2. CalledOn(callback[calling[e].slot]) = CalledRefs[e]
    BY <1>a, <2>1 DEF FnsServed, Served, CalledOn, CalledRefs
  <2>3. CalledRefs[e] # Null /\ running[e] = Null
    BY <1>5, <1>c, <2>1 DEF Invoke, CalledRefs, Fn, Refs, Null, Running, Levels
  <2>4. Registry!Run(e)
    BY <1>5, <1>d, <1>e, <1>f, <2>2, <2>3 DEF Invoke, Registry!Run
  <2> QED
    BY <2>4 DEF Registry!Next
<1>6. CASE CallbackReturns(e)
  <2>1. CalledRefs' = [CalledRefs EXCEPT ![e] = Null]
    BY <1>6, <1>a DEF CallbackReturns, CalledRefs, CallbackTypeOK, NoFn
  <2>2. running[e] # Null
    BY <1>6, <1>a DEF CallbackReturns, PlaceOK, Running
  <2>3. Registry!Return(e)
    BY <1>6, <1>d, <1>e, <2>1, <2>2 DEF CallbackReturns, Registry!Return
  <2> QED
    BY <2>3 DEF Registry!Next
<1>7. CASE SetConsole(e)
  <2>1. PICK l \in Levels, r \in Refs \cup {Null} : handler' = [handler EXCEPT ![e][l] = r]
    BY <1>7 DEF SetConsole
  <2>2. e \in open /\ UNCHANGED <<fns, open, calling, running>>
    BY <1>7 DEF SetConsole
  <2>3. OpenHandlers' = [OpenHandlers EXCEPT ![e][l] = r]
    BY <1>a, <2>1, <2>2 DEF OpenHandlers, CallbackTypeOK
  <2>4. Registry!SetHandler(e)
    BY <1>d, <1>f, <2>2, <2>3 DEF Registry!SetHandler
  <2> QED
    BY <2>4 DEF Registry!Next
<1>8. CASE emit_console_message(e)
  <2>1. CalledRefs[e] = Null /\ running[e] = Null /\ e \in open
    BY <1>8, <1>c DEF emit_console_message, Running, Levels
  <2>2. \A l \in Levels : OpenHandlers[e][l] = handler[e][l]
    BY <2>1 DEF OpenHandlers
  <2>3. \A l \in Levels : handler[e][l] # Null => CalledOn(handler[e][l]) = handler[e][l]
    BY <1>a DEF RefsOK, HandlersHold, CalledOn
  <2>4. PICK l \in Levels :
          running' = [running EXCEPT ![e] = IF handler[e][l] = Null THEN Stdout
                                            ELSE CalledOn(handler[e][l])]
    BY <1>8 DEF emit_console_message
  <2>5. running' = [running EXCEPT ![e] = IF OpenHandlers[e][l] = Null
                                          THEN [m \in Levels |-> Stdout][l]
                                          ELSE OpenHandlers[e][l]]
    BY <2>2, <2>3, <2>4
  <2>6. UNCHANGED <<BoundRefs, OpenHandlers, CalledRefs>>
    BY <1>8, <1>d, <1>e, <1>f DEF emit_console_message
  <2>7. Registry!Message(e)
    BY <2>1, <2>5, <2>6 DEF Registry!Message
  <2> QED
    BY <2>7 DEF Registry!Next
<1>9. CASE Close(e)
  <2>1. BoundRefs' = [BoundRefs EXCEPT ![e] = {}]
    BY <1>9 DEF Close, BoundRefs
  <2>2. OpenHandlers' = [OpenHandlers EXCEPT ![e] = [l \in Levels |-> Null]]
    BY <1>9 DEF Close, OpenHandlers
  <2>3. Registry!Close(e)
    <3>1. CalledRefs[e] = Null /\ running[e] = Null
      BY <1>9, <1>c DEF Close, Running, Levels
    <3> QED
      BY <1>9, <1>f, <2>1, <2>2, <3>1 DEF Close, Registry!Close
  <2> QED
    BY <2>3 DEF Registry!Next
<1>10. CASE CloseSlot(e) \/ WipeSlot(e)
  BY <1>10, <1>d, <1>e, <1>f DEF CloseSlot, WipeSlot, Registry!vars
<1>11. CASE FreeRuntime(e)
  <2>1. e \notin open /\ open' = open
    BY <1>11, <1>a DEF FreeRuntime, PlaceOK
  <2>2. BoundRefs' = BoundRefs
    BY <1>11, <1>a, <2>1 DEF FreeRuntime, BoundRefs, CallbackTypeOK
  <2>3. OpenHandlers' = OpenHandlers
    BY <1>11, <1>a, <2>1 DEF FreeRuntime, OpenHandlers, CallbackTypeOK
  <2> QED
    BY <1>11, <1>f, <2>2, <2>3 DEF FreeRuntime, Registry!vars
<1> QED
  BY <1>1, <1>2, <1>3, <1>4, <1>5, <1>6, <1>7, <1>8, <1>9, <1>10, <1>11, Zenon DEF Step

(* On one thread, if engines are closed only when no other has callbacks,   *)
(* the shared table is as good as a registry per engine                     *)
(* (quickjs_jni.c:336-412, qjs_callback.c:10, 43, qjs_console.c:15-38).     *)
THEOREM TableImplementsRegistry ==
  ASSUME ~Overlap, Closing # "any"
  PROVE  CallbackSpec => ImplementsRegistry
<1>1. ServeInv /\ [CallbackNext]_callbackVars => [Registry!Next]_(Registry!vars)
  <2>1. CASE UNCHANGED callbackVars \/ AllClosed
    BY <2>1 DEF callbackVars, AllClosed, Registry!vars, BoundRefs, OpenHandlers, CalledRefs
  <2> QED
    BY <2>1, StepRegistry DEF CallbackNext
<1>2. ServeInv /\ [CallbackNext]_callbackVars => ServeInv'
  BY NextServeInv
<1> QED
  BY <1>1, <1>2, InitServeInv, InitRegistry, PTL DEF CallbackSpec, ImplementsRegistry, Registry!Spec

=============================================================================
