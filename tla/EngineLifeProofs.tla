--------------------------- MODULE EngineLifeProofs ---------------------------
(***************************************************************************)
(* The invariants of EngineLife, for any number of threads and engines and *)
(* calls nested to any depth.                                              *)
(***************************************************************************)
EXTENDS EngineLife, WellFoundedInduction, TLAPS

(* Calls below the innermost one are in native code that runs a script: a   *)
(* call waits, or closes an engine, only on top of its stack.               *)
LowerRun ==
  \A t \in Threads : \A n \in DOMAIN frames[t] :
    n > 1 => frames[t][n].at = "native" /\ frames[t][n].op = "run"

StackTypeOK == frames \in [Threads -> Seq(Call)] /\ \A t \in Threads : Len(frames[t]) <= MaxNest

(* What the three ways to change a stack do to its elements. *)
LEMMA PushElements ==
  ASSUME NEW s \in Seq(Call), NEW c \in Call
  PROVE  /\ <<c>> \o s \in Seq(Call) /\ Len(<<c>> \o s) = Len(s) + 1
         /\ (<<c>> \o s)[1] = c
         /\ \A n \in 2..(Len(s) + 1) : (<<c>> \o s)[n] = s[n - 1]
OBVIOUS

LEMMA TailElements ==
  ASSUME NEW s \in Seq(Call), s # << >>
  PROVE  /\ Tail(s) \in Seq(Call) /\ Len(Tail(s)) = Len(s) - 1
         /\ \A n \in 1..(Len(s) - 1) : Tail(s)[n] = s[n + 1]
OBVIOUS

LEMMA HeadElement ==
  ASSUME NEW s \in Seq(Call), s # << >>
  PROVE  Head(s) = s[1] /\ s[1] \in Call /\ Len(s) > 0 /\ 1 \in DOMAIN s
OBVIOUS

LEMMA InvokeEffect ==
  ASSUME StackTypeOK, NEW t \in Threads, NEW e \in Instances, NEW op \in {"run", "close"},
         CallMethod(t, e, op)
  PROVE  /\ StackTypeOK' /\ \A u \in Threads \ {t} : frames'[u] = frames[u]
         /\ DOMAIN frames'[t] = 1..(Len(frames[t]) + 1)
         /\ frames'[t][1] = [engine |-> e, op |-> op, at |-> "monitor"]
         /\ \A n \in DOMAIN frames'[t] : n > 1 => n - 1 \in DOMAIN frames[t] /\ frames'[t][n] = frames[t][n - 1]
<1> DEFINE c == [engine |-> e, op |-> op, at |-> "monitor"]
<1>1. c \in Call
  BY DEF Call
<1>2. frames[t] \in Seq(Call) /\ Len(frames[t]) < MaxNest
  BY DEF StackTypeOK, CallMethod
<1>3. frames' = [frames EXCEPT ![t] = <<c>> \o frames[t]]
  BY DEF CallMethod
<1> HIDE DEF c
<1>4. frames'[t] = <<c>> \o frames[t] /\ \A u \in Threads \ {t} : frames'[u] = frames[u]
  BY <1>3 DEF StackTypeOK
<1>5. /\ frames'[t] \in Seq(Call) /\ Len(frames'[t]) = Len(frames[t]) + 1
      /\ frames'[t][1] = c
      /\ \A n \in 2..(Len(frames[t]) + 1) : frames'[t][n] = frames[t][n - 1]
  BY <1>1, <1>2, <1>4, PushElements
<1>6. StackTypeOK'
  BY <1>2, <1>3, <1>4, <1>5, LifeAssumption DEF StackTypeOK
<1>7. DOMAIN frames'[t] = 1..(Len(frames[t]) + 1) /\ DOMAIN frames[t] = 1..Len(frames[t])
  BY <1>2, <1>5
<1> QED
  BY <1>2, <1>4, <1>5, <1>6, <1>7 DEF c

LEMMA MoveEffect ==
  ASSUME StackTypeOK, NEW t \in Threads, ~Idle(t), NEW where \in {"handle", "native"},
         Move(t, where)
  PROVE  /\ StackTypeOK' /\ \A u \in Threads \ {t} : frames'[u] = frames[u]
         /\ DOMAIN frames'[t] = DOMAIN frames[t] /\ 1 \in DOMAIN frames[t]
         /\ Innermost(t) = frames[t][1] /\ frames'[t][1] = [frames[t][1] EXCEPT !.at = where]
         /\ \A n \in DOMAIN frames[t] : n > 1 => frames'[t][n] = frames[t][n]
<1> DEFINE c == [Innermost(t) EXCEPT !.at = where]
           s == frames[t]
<1>1. s \in Seq(Call) /\ s # << >> /\ Len(s) <= MaxNest
  BY DEF StackTypeOK, Idle
<1>2. Innermost(t) = s[1] /\ s[1] \in Call /\ Len(s) > 0
  BY <1>1, HeadElement DEF Innermost
<1>3. c \in Call
  BY <1>2 DEF Call
<1>4. frames' = [frames EXCEPT ![t] = <<c>> \o Tail(frames[t])]
  BY DEF Move
<1>5. /\ Tail(s) \in Seq(Call) /\ Len(Tail(s)) = Len(s) - 1
      /\ \A n \in 1..(Len(s) - 1) : Tail(s)[n] = s[n + 1]
  BY <1>1, TailElements
<1> HIDE DEF c
<1>6. frames'[t] = <<c>> \o Tail(s) /\ \A u \in Threads \ {t} : frames'[u] = frames[u]
  BY <1>4 DEF StackTypeOK
<1>7. /\ frames'[t] \in Seq(Call) /\ Len(frames'[t]) = Len(Tail(s)) + 1
      /\ frames'[t][1] = c
      /\ \A n \in 2..(Len(Tail(s)) + 1) : frames'[t][n] = Tail(s)[n - 1]
  BY <1>3, <1>5, <1>6, PushElements
<1>8. \A n \in 2..Len(s) : frames'[t][n] = s[n]
  BY <1>1, <1>5, <1>7
<1>9. StackTypeOK'
  BY <1>1, <1>2, <1>4, <1>5, <1>6, <1>7, LifeAssumption DEF StackTypeOK
<1> QED
  BY <1>1, <1>2, <1>5, <1>6, <1>7, <1>8, <1>9 DEF c

LEMMA ReturnEffect ==
  ASSUME StackTypeOK, NEW t \in Threads, ~Idle(t), Return(t)
  PROVE  /\ StackTypeOK' /\ \A u \in Threads \ {t} : frames'[u] = frames[u]
         /\ 1 \in DOMAIN frames[t] /\ Innermost(t) = frames[t][1]
         /\ \A n \in DOMAIN frames'[t] : n \in Nat \ {0} /\ n + 1 \in DOMAIN frames[t] /\ frames'[t][n] = frames[t][n + 1]
<1> DEFINE s == frames[t]
<1>1. s \in Seq(Call) /\ s # << >> /\ Len(s) <= MaxNest
  BY DEF StackTypeOK, Idle
<1>2. Innermost(t) = s[1] /\ s[1] \in Call /\ Len(s) > 0
  BY <1>1, HeadElement DEF Innermost
<1>3. /\ Tail(s) \in Seq(Call) /\ Len(Tail(s)) = Len(s) - 1
      /\ \A n \in 1..(Len(s) - 1) : Tail(s)[n] = s[n + 1]
  BY <1>1, TailElements
<1>4. frames' = [frames EXCEPT ![t] = Tail(frames[t])]
  BY DEF Return
<1>5. frames'[t] = Tail(s) /\ \A u \in Threads \ {t} : frames'[u] = frames[u]
  BY <1>4 DEF StackTypeOK
<1>6. StackTypeOK'
  BY <1>1, <1>2, <1>3, <1>4, <1>5, LifeAssumption DEF StackTypeOK
<1> QED
  BY <1>1, <1>2, <1>3, <1>5, <1>6

-----------------------------------------------------------------------------

(* One thread at a time is inside the methods of an engine. *)
OneInside ==
  \A t, u \in Threads : \A m \in DOMAIN frames[t], n \in DOMAIN frames[u] :
    frames[t][m].engine = frames[u][n].engine =>
      frames[t][m].at = "monitor" \/ frames[u][n].at = "monitor" \/ t = u

(* A call that closes an engine is the only one of its thread in it. *)
CloseAlone ==
  \A t \in Threads : \A m, n \in DOMAIN frames[t] :
    frames[t][m].op = "close" /\ frames[t][m].engine = frames[t][n].engine => m = n

(* close frees engines without a handle, *)
FreesZeroed ==
  \A t \in Threads : \A n \in DOMAIN frames[t] :
    frames[t][n].at = "native" /\ frames[t][n].op = "close" => frames[t][n].engine \notin handle

(* scripts run on engines with one, and neither on engines that are freed.  *)
NativeOK ==
  \A t \in Threads : \A n \in DOMAIN frames[t] :
    frames[t][n].at = "native" =>
      /\ frames[t][n].op = "run" => frames[t][n].engine \in handle
      /\ frames[t][n].engine \in alive

(* A call waits for an engine its thread is in, or for one above all of     *)
(* those.                                                                   *)
InOrder ==
  \A t \in Threads :
    1 \in DOMAIN frames[t] /\ frames[t][1].at = "monitor" =>
      \/ \E n \in DOMAIN frames[t] : n > 1 /\ frames[t][n].engine = frames[t][1].engine
      \/ \A n \in DOMAIN frames[t] : n > 1 => frames[t][n].engine < frames[t][1].engine

TypeInv ==
  /\ StackTypeOK /\ LowerRun /\ FreesZeroed /\ OneInside
  /\ handle \subseteq alive /\ alive \subseteq Instances

CloseInv == TypeInv /\ CloseAlone /\ NativeOK

LEMMA CallInRange ==
  ASSUME StackTypeOK, NEW t \in Threads, NEW n \in DOMAIN frames[t]
  PROVE  frames[t][n] \in Call /\ n \in Nat \ {0} /\ 1 \in DOMAIN frames[t] /\ ~Idle(t)
BY DEF StackTypeOK, Idle

LEMMA InsideElement ==
  ASSUME StackTypeOK, NEW t \in Threads, NEW e
  PROVE  Inside(t, e) <=> \E n \in DOMAIN frames[t] :
                            frames[t][n].engine = e /\ frames[t][n].at # "monitor"
BY DEF Inside, CallsOf

LEMMA InitCloseInv == LifeInit => CloseInv /\ InOrder
BY LifeAssumption
DEF LifeInit, CloseInv, TypeInv, StackTypeOK, LowerRun, FreesZeroed, OneInside, CloseAlone,
    NativeOK, InOrder, Instances, Call

(* The types and the shape of stacks need neither restriction. *)
LEMMA NextTypeInv ==
  ASSUME TypeInv, [LifeNext]_lifeVars
  PROVE  TypeInv'
<1> USE DEF TypeInv
<1>1. CASE UNCHANGED lifeVars
  BY <1>1 DEF lifeVars, StackTypeOK, LowerRun, FreesZeroed, OneInside
<1>2. ASSUME NEW t \in Threads, NEW e \in Instances, NEW op \in {"run", "close"}, CallMethod(t, e, op)
      PROVE  TypeInv'
  <2>1. /\ StackTypeOK' /\ \A u \in Threads \ {t} : frames'[u] = frames[u]
        /\ frames'[t][1] = [engine |-> e, op |-> op, at |-> "monitor"]
        /\ \A n \in DOMAIN frames'[t] :
             n > 1 => n - 1 \in DOMAIN frames[t] /\ frames'[t][n] = frames[t][n - 1]
    BY <1>2, InvokeEffect
  <2>2. ASSUME NEW n \in DOMAIN frames'[t], n > 1
        PROVE  frames'[t][n].at = "native" /\ frames'[t][n].op = "run"
    <3>1. n - 1 \in DOMAIN frames[t] /\ frames'[t][n] = frames[t][n - 1] /\ n - 1 \in Nat \ {0}
      BY <2>1, <2>2, CallInRange
    <3>2. frames[t][1].at = "native" /\ frames[t][1].op = "run"
      <4>1. ~Idle(t) /\ frames[t] \in Seq(Call) /\ frames[t] # << >>
        BY <3>1, CallInRange DEF StackTypeOK, Idle
      <4> QED
        BY <1>2, <4>1, HeadElement DEF CallMethod, InnermostAt, Innermost
    <3>3. n \in Nat
      BY <2>1, <2>2 DEF StackTypeOK
    <3>4. CASE n = 2
      BY <3>1, <3>2, <3>4
    <3>5. CASE n > 2
      BY <3>1, <3>3, <3>5 DEF LowerRun
    <3> QED
      BY <2>2, <3>3, <3>4, <3>5
  <2>3. LowerRun'
    BY <2>1, <2>2 DEF LowerRun
  <2>4. \A n \in DOMAIN frames'[t] : n = 1 \/ n > 1
    BY <2>1 DEF StackTypeOK
  <2>5. FreesZeroed'
    BY <1>2, <2>1, <2>2, <2>4 DEF FreesZeroed, CallMethod
  <2>6. \A u \in Threads : \A n \in DOMAIN frames'[u] :
          frames'[u][n].at # "monitor" => \E m \in DOMAIN frames[u] : frames'[u][n] = frames[u][m]
    BY <2>1, <2>4
  <2>7. OneInside'
    <3>1. SUFFICES ASSUME NEW u \in Threads, NEW v \in Threads,
                          NEW m \in DOMAIN frames'[u], NEW n \in DOMAIN frames'[v],
                          frames'[u][m].engine = frames'[v][n].engine,
                          frames'[u][m].at # "monitor", frames'[v][n].at # "monitor"
                   PROVE  u = v
      BY DEF OneInside
    <3>2. PICK k \in DOMAIN frames[u] : frames'[u][m] = frames[u][k]
      BY <2>6, <3>1
    <3>3. PICK l \in DOMAIN frames[v] : frames'[v][n] = frames[v][l]
      BY <2>6, <3>1
    <3> QED
      BY <3>1, <3>2, <3>3 DEF OneInside
  <2> QED
    BY <1>2, <2>1, <2>3, <2>5, <2>7 DEF CallMethod
<1>3. ASSUME NEW t \in Threads, ~Idle(t), NEW where \in {"handle", "native"}, Move(t, where),
             alive' = alive, handle' \subseteq handle,
             Innermost(t).at = "monitor" => MonitorFree(t, Innermost(t).engine),
             where = "native" /\ Innermost(t).op = "close" => Innermost(t).engine \notin handle'
      PROVE  TypeInv'
  <2>1. /\ StackTypeOK' /\ \A u \in Threads \ {t} : frames'[u] = frames[u]
        /\ DOMAIN frames'[t] = DOMAIN frames[t] /\ Innermost(t) = frames[t][1] /\ 1 \in DOMAIN frames[t]
        /\ frames'[t][1] = [frames[t][1] EXCEPT !.at = where]
        /\ \A n \in DOMAIN frames[t] : n > 1 => frames'[t][n] = frames[t][n]
    BY <1>3, MoveEffect
  <2>2. LowerRun'
    BY <2>1 DEF LowerRun
  <2>3. frames[t][1] \in Call /\ \A n \in DOMAIN frames[t] : n = 1 \/ n > 1
    BY <2>1, CallInRange DEF StackTypeOK
  <2>4. /\ frames'[t][1].at = where /\ frames'[t][1].op = Innermost(t).op
        /\ frames'[t][1].engine = Innermost(t).engine
    BY <2>1, <2>3 DEF Call
  <2>5. FreesZeroed'
    <3>1. SUFFICES ASSUME NEW u \in Threads, NEW n \in DOMAIN frames'[u],
                          frames'[u][n].at = "native" /\ frames'[u][n].op = "close"
                   PROVE  frames'[u][n].engine \notin handle'
      BY DEF FreesZeroed
    <3>2. CASE u = t /\ n = 1
      BY <1>3, <2>4, <3>1, <3>2
    <3>3. CASE ~(u = t /\ n = 1)
      <4>1. n \in DOMAIN frames[u] /\ frames'[u][n] = frames[u][n]
        BY <2>1, <2>3, <3>3
      <4> QED
        BY <1>3, <3>1, <4>1 DEF FreesZeroed
    <3> QED
      BY <3>2, <3>3
  <2>6. \A u \in Threads \ {t} : \A n \in DOMAIN frames[u] :
          frames[u][n].engine = Innermost(t).engine => frames[u][n].at = "monitor"
    <3>1. CASE Innermost(t).at = "monitor"
      BY <1>3, <3>1, InsideElement DEF MonitorFree
    <3>2. CASE Innermost(t).at # "monitor"
      BY <2>1, <3>2 DEF OneInside
    <3> QED
      BY <3>1, <3>2
  <2>7. \A u \in Threads : \A n \in DOMAIN frames'[u] :
          /\ n \in DOMAIN frames[u] /\ frames'[u][n].engine = frames[u][n].engine
          /\ (u = t /\ n = 1) \/ frames'[u][n].at = frames[u][n].at
    BY <2>1, <2>3, <2>4
  <2>8. OneInside'
    BY <2>1, <2>6, <2>7 DEF OneInside
  <2> QED
    BY <1>3, <2>1, <2>2, <2>5, <2>8
<1>4. ASSUME NEW t \in Threads, ~Idle(t), Return(t), handle' \subseteq handle,
             alive' \subseteq alive, handle' \subseteq alive'
      PROVE  TypeInv'
  <2>1. /\ StackTypeOK' /\ \A u \in Threads \ {t} : frames'[u] = frames[u]
        /\ \A n \in DOMAIN frames'[t] :
             /\ n \in Nat \ {0} /\ n + 1 \in DOMAIN frames[t]
             /\ frames'[t][n] = frames[t][n + 1]
    BY <1>4, ReturnEffect
  <2>2. LowerRun'
    BY <2>1 DEF LowerRun
  <2>3. FreesZeroed'
    BY <1>4, <2>1 DEF FreesZeroed
  <2>4. OneInside'
    BY <2>1 DEF OneInside
  <2> QED
    BY <1>4, <2>1, <2>2, <2>3, <2>4
<1>5. ASSUME NEW t \in Threads, Acquire(t) PROVE TypeInv'
  BY <1>3, <1>5 DEF Acquire, InnermostAt
<1>6. ASSUME NEW t \in Threads, RunMethod(t) PROVE TypeInv'
  BY <1>3, <1>4, <1>6 DEF RunMethod, InnermostAt
<1>7. ASSUME NEW t \in Threads, CloseMethod(t) PROVE TypeInv'
  BY <1>3, <1>4, <1>7 DEF CloseMethod, InnermostAt
<1>8. ASSUME NEW t \in Threads, NativeReturns(t) PROVE TypeInv'
  <2>1. ~Idle(t) /\ Innermost(t).at = "native" /\ frames[t] \in Seq(Call)
    BY <1>8 DEF NativeReturns, InnermostAt, StackTypeOK
  <2>2. 1 \in DOMAIN frames[t] /\ Innermost(t) = frames[t][1]
    BY <2>1, HeadElement DEF Idle, Innermost
  <2>3. Innermost(t).op = "close" => Innermost(t).engine \notin handle
    BY <2>1, <2>2 DEF FreesZeroed
  <2> QED
    BY <1>4, <1>8, <2>1, <2>3 DEF NativeReturns
<1> QED
  BY <1>1, <1>2, <1>5, <1>6, <1>7, <1>8 DEF LifeNext

(* Types, and a handle that is not 0 is that of an engine not freed, even   *)
(* when scripts close engines that run them (QuickJs.java:194-198).         *)
THEOREM LifeTypeCorrect == LifeSpec => []LifeTypeOK
<1>1. LifeInit => TypeInv
  BY InitCloseInv DEF CloseInv
<1>2. TypeInv => LifeTypeOK
  BY DEF TypeInv, StackTypeOK, LifeTypeOK
<1> QED
  BY <1>1, <1>2, NextTypeInv, PTL DEF LifeSpec

-----------------------------------------------------------------------------
(* Callbacks do not close the engines below them *)

LEMMA NextCloseInv ==
  ASSUME ~CloseInside, CloseInv, [LifeNext]_lifeVars
  PROVE  CloseInv'
<1>a. TypeInv /\ TypeInv' /\ StackTypeOK /\ StackTypeOK'
  BY NextTypeInv DEF CloseInv, TypeInv
<1>b. \A t \in Threads : \A n \in DOMAIN frames[t] : frames[t][n] \in Call /\ (n = 1 \/ n > 1)
  BY <1>a, CallInRange DEF StackTypeOK
<1>1. CASE UNCHANGED lifeVars
  BY <1>1, <1>a DEF lifeVars, CloseInv, CloseAlone, NativeOK
<1>2. ASSUME NEW t \in Threads, NEW e \in Instances, NEW op \in {"run", "close"}, CallMethod(t, e, op)
      PROVE  CloseInv'
  <2>1. /\ \A u \in Threads \ {t} : frames'[u] = frames[u]
        /\ frames'[t][1] = [engine |-> e, op |-> op, at |-> "monitor"]
        /\ \A n \in DOMAIN frames'[t] :
             n > 1 => n - 1 \in DOMAIN frames[t] /\ frames'[t][n] = frames[t][n - 1]
    BY <1>2, <1>a, InvokeEffect
  <2>2. \A n \in DOMAIN frames'[t] : n \in Nat /\ (n = 1 \/ n > 1)
    BY <1>a DEF StackTypeOK
  <2>3. \A n \in DOMAIN frames[t] : frames[t][n].at = "native" /\ frames[t][n].op = "run"
    <3>1. SUFFICES ASSUME NEW n \in DOMAIN frames[t]
                   PROVE  frames[t][n].at = "native" /\ frames[t][n].op = "run"
      OBVIOUS
    <3>2. ~Idle(t) /\ frames[t] \in Seq(Call) /\ frames[t] # << >>
      BY <1>a, CallInRange DEF StackTypeOK, Idle
    <3>3. frames[t][1].at = "native" /\ frames[t][1].op = "run"
      BY <1>2, <3>2, HeadElement DEF CallMethod, InnermostAt, Innermost
    <3> QED
      BY <1>a, <1>b, <3>3 DEF TypeInv, LowerRun
  <2>5. op = "close" => \A n \in DOMAIN frames[t] : frames[t][n].engine # e
    BY <1>2, <1>a, <2>3, InsideElement DEF CallMethod
  <2>6. CloseAlone'
    BY <2>1, <2>2, <2>3, <2>5 DEF CloseInv, CloseAlone
  <2>7. NativeOK'
    BY <1>2, <2>1, <2>2 DEF CloseInv, NativeOK, CallMethod
  <2> QED
    BY <1>a, <2>6, <2>7 DEF CloseInv
<1>3. ASSUME NEW t \in Threads, ~Idle(t), NEW where \in {"handle", "native"}, Move(t, where),
             alive' = alive,
             where = "native" => Innermost(t).engine \in alive,
             where = "native" /\ Innermost(t).op = "run" => Innermost(t).engine \in handle',
             \/ handle' = handle
             \/ /\ Innermost(t).op = "close" /\ Innermost(t).at # "monitor"
                /\ handle' = handle \ {Innermost(t).engine}
      PROVE  CloseInv'
  <2>1. /\ \A u \in Threads \ {t} : frames'[u] = frames[u]
        /\ DOMAIN frames'[t] = DOMAIN frames[t] /\ Innermost(t) = frames[t][1] /\ 1 \in DOMAIN frames[t]
        /\ frames'[t][1] = [frames[t][1] EXCEPT !.at = where]
        /\ \A n \in DOMAIN frames[t] : n > 1 => frames'[t][n] = frames[t][n]
    BY <1>3, <1>a, MoveEffect
  <2>2. /\ frames'[t][1].at = where /\ frames'[t][1].op = Innermost(t).op
        /\ frames'[t][1].engine = Innermost(t).engine
    BY <1>b, <2>1 DEF Call
  <2>3. \A u \in Threads : \A n \in DOMAIN frames'[u] :
          /\ n \in DOMAIN frames[u]
          /\ frames'[u][n].engine = frames[u][n].engine /\ frames'[u][n].op = frames[u][n].op
          /\ (u = t /\ n = 1) \/ frames'[u][n].at = frames[u][n].at
    BY <1>b, <2>1, <2>2
  <2>6. CloseAlone'
    BY <2>3 DEF CloseInv, CloseAlone
  <2>7. NativeOK'
    <3>1. SUFFICES ASSUME NEW u \in Threads, NEW n \in DOMAIN frames'[u], frames'[u][n].at = "native"
                   PROVE  /\ frames'[u][n].op = "run" => frames'[u][n].engine \in handle'
                          /\ frames'[u][n].engine \in alive'
      BY DEF NativeOK
    <3>2. CASE u = t /\ n = 1
      BY <1>3, <2>2, <3>1, <3>2
    <3>3. CASE ~(u = t /\ n = 1)
      <4>1. frames[u][n].at = "native" /\ n \in DOMAIN frames[u]
        BY <2>3, <3>1, <3>3
      <4>2. handle' # handle => frames[u][n].engine # Innermost(t).engine
        BY <1>3, <1>a, <2>1, <3>3, <4>1 DEF CloseInv, CloseAlone, TypeInv, OneInside
      <4> QED
        BY <1>3, <2>3, <4>1, <4>2 DEF CloseInv, NativeOK
    <3> QED
      BY <3>2, <3>3
  <2> QED
    BY <1>a, <2>6, <2>7 DEF CloseInv
<1>4. ASSUME NEW t \in Threads, ~Idle(t), Return(t), handle' = handle,
             \/ alive' = alive
             \/ /\ Innermost(t).op = "close" /\ Innermost(t).at = "native"
                /\ alive' = alive \ {Innermost(t).engine}
      PROVE  CloseInv'
  <2>1. /\ \A u \in Threads \ {t} : frames'[u] = frames[u]
        /\ 1 \in DOMAIN frames[t] /\ Innermost(t) = frames[t][1]
        /\ \A n \in DOMAIN frames'[t] :
             /\ n \in Nat \ {0} /\ n + 1 \in DOMAIN frames[t]
             /\ frames'[t][n] = frames[t][n + 1]
    BY <1>4, <1>a, ReturnEffect
  <2>3. CloseAlone'
    BY <2>1 DEF CloseInv, CloseAlone
  <2>4. NativeOK'
    <3>1. SUFFICES ASSUME NEW u \in Threads, NEW n \in DOMAIN frames'[u], frames'[u][n].at = "native"
                   PROVE  /\ frames'[u][n].op = "run" => frames'[u][n].engine \in handle'
                          /\ frames'[u][n].engine \in alive'
      BY DEF NativeOK
    <3>2. PICK m \in DOMAIN frames[u] : frames'[u][n] = frames[u][m] /\ (u = t => m # 1)
      BY <2>1, <3>1
    <3>3. alive' # alive => frames[u][m].engine # Innermost(t).engine
      BY <1>4, <1>a, <2>1, <3>1, <3>2 DEF CloseInv, CloseAlone, TypeInv, OneInside
    <3> QED
      BY <1>4, <3>1, <3>2, <3>3 DEF CloseInv, NativeOK
  <2> QED
    BY <1>a, <2>3, <2>4 DEF CloseInv
<1>c. handle \subseteq alive
  BY <1>a DEF TypeInv
<1>5. ASSUME NEW t \in Threads, Acquire(t) PROVE CloseInv'
  BY <1>3, <1>5 DEF Acquire, InnermostAt
<1>6. ASSUME NEW t \in Threads, RunMethod(t) PROVE CloseInv'
  BY <1>3, <1>4, <1>6, <1>c DEF RunMethod, InnermostAt
<1>7. ASSUME NEW t \in Threads, CloseMethod(t) PROVE CloseInv'
  <2>1. CASE Innermost(t).engine \in handle
    BY <1>3, <1>7, <1>c, <2>1 DEF CloseMethod, InnermostAt
  <2>2. CASE Innermost(t).engine \notin handle
    BY <1>4, <1>7, <2>2 DEF CloseMethod, InnermostAt
  <2> QED
    BY <2>1, <2>2
<1>8. ASSUME NEW t \in Threads, NativeReturns(t) PROVE CloseInv'
  BY <1>4, <1>8 DEF NativeReturns, InnermostAt
<1> QED
  BY <1>1, <1>2, <1>5, <1>6, <1>7, <1>8 DEF LifeNext

LEMMA CloseInvLives ==
  ASSUME CloseInv
  PROVE  NativeOnLiveEngines
BY DEF CloseInv, TypeInv, OneInside, CloseAlone, NativeOK, NativeOnLiveEngines, InNative

(* Native code runs on engines not freed, on one thread at a time, if no    *)
(* callback closes an engine below it (QuickJs.java:53-54, 194-198, 204).   *)
THEOREM NativeRunsOnLiveEngines ==
  ASSUME ~CloseInside
  PROVE  LifeSpec => []NativeOnLiveEngines
<1>1. LifeInit => CloseInv
  BY InitCloseInv
<1>2. CloseInv /\ [LifeNext]_lifeVars => CloseInv'
  BY NextCloseInv
<1>3. CloseInv => NativeOnLiveEngines
  BY CloseInvLives
<1> QED
  BY <1>1, <1>2, <1>3, PTL DEF LifeSpec

-----------------------------------------------------------------------------
(* Callbacks call engines in one order *)

OrderInv == TypeInv /\ InOrder

LEMMA NextOrderInv ==
  ASSUME Ordered, OrderInv, [LifeNext]_lifeVars
  PROVE  OrderInv'
<1>a. TypeInv /\ TypeInv' /\ StackTypeOK /\ StackTypeOK'
  BY NextTypeInv DEF OrderInv, TypeInv
<1>1. CASE UNCHANGED lifeVars
  BY <1>1, <1>a DEF lifeVars, OrderInv, InOrder
<1>2. ASSUME NEW t \in Threads, NEW e \in Instances, NEW op \in {"run", "close"}, CallMethod(t, e, op)
      PROVE  InOrder'
  <2>1. /\ \A u \in Threads \ {t} : frames'[u] = frames[u]
        /\ DOMAIN frames'[t] = 1..(Len(frames[t]) + 1)
        /\ frames'[t][1] = [engine |-> e, op |-> op, at |-> "monitor"]
        /\ \A n \in DOMAIN frames'[t] :
             n > 1 => n - 1 \in DOMAIN frames[t] /\ frames'[t][n] = frames[t][n - 1]
    BY <1>2, <1>a, InvokeEffect
  <2>2. CASE Inside(t, e)
    <3>1. PICK m \in DOMAIN frames[t] : frames[t][m].engine = e
      BY <1>a, <2>2, InsideElement
    <3>2. m + 1 \in DOMAIN frames'[t] /\ m + 1 > 1 /\ (m + 1) - 1 = m
      BY <1>a, <2>1, <3>1 DEF StackTypeOK
    <3>3. frames'[t][m + 1].engine = frames'[t][1].engine
      BY <2>1, <3>1, <3>2
    <3>4. frames'[t][1].at = "monitor" =>
            \E n \in DOMAIN frames'[t] : n > 1 /\ frames'[t][n].engine = frames'[t][1].engine
      BY <3>2, <3>3
    <3>5. InOrder
      BY DEF OrderInv
    <3> QED
      BY <2>1, <3>4, <3>5, SMTT(30) DEF InOrder
  <2>3. CASE \A c \in CallsOf(t) : c.engine < e
    <3>1. \A n \in DOMAIN frames[t] : frames[t][n].engine < e
      BY <2>3 DEF CallsOf
    <3>2. \A n \in DOMAIN frames'[t] : n > 1 => frames'[t][n].engine < frames'[t][1].engine
      BY <2>1, <3>1
    <3> QED
      BY <2>1, <3>2 DEF OrderInv, InOrder
  <2> QED
    BY <1>2, <2>2, <2>3 DEF CallMethod
<1>3. ASSUME NEW t \in Threads, ~Idle(t), NEW where \in {"handle", "native"}, Move(t, where)
      PROVE  InOrder'
  <2>1. /\ \A u \in Threads \ {t} : frames'[u] = frames[u]
        /\ 1 \in DOMAIN frames[t] /\ frames'[t][1] = [frames[t][1] EXCEPT !.at = where]
    BY <1>3, <1>a, MoveEffect
  <2>2. frames'[t][1].at # "monitor"
    BY <1>a, <2>1, CallInRange DEF Call
  <2> QED
    BY <2>1, <2>2 DEF OrderInv, InOrder
<1>4. ASSUME NEW t \in Threads, ~Idle(t), Return(t) PROVE InOrder'
  <2>1. /\ \A u \in Threads \ {t} : frames'[u] = frames[u]
        /\ \A n \in DOMAIN frames'[t] :
             /\ n \in Nat \ {0} /\ n + 1 \in DOMAIN frames[t]
             /\ frames'[t][n] = frames[t][n + 1]
    BY <1>4, <1>a, ReturnEffect
  <2>2. 1 \in DOMAIN frames'[t] => frames'[t][1].at = "native"
    BY <1>a, <2>1 DEF TypeInv, LowerRun
  <2> QED
    BY <2>1, <2>2 DEF OrderInv, InOrder
<1>5. ASSUME NEW t \in Threads,
             Acquire(t) \/ RunMethod(t) \/ CloseMethod(t) \/ NativeReturns(t)
      PROVE  InOrder'
  BY <1>3, <1>4, <1>5 DEF Acquire, RunMethod, CloseMethod, NativeReturns, InnermostAt
<1> QED
  BY <1>a, <1>1, <1>2, <1>5 DEF LifeNext, OrderInv

(* A thread that waits for another waits for an engine that the other is    *)
(* in; the other, if it waits too, waits for a higher one.                  *)
LEMMA WaitsUpward ==
  ASSUME OrderInv, NEW t \in Threads, ~Idle(t), ~CanMove(t), \A u \in Threads : ~CanMove(u)
  PROVE  \E u \in Threads : ~Idle(u) /\ Innermost(u).engine > Innermost(t).engine
<1>a. TypeInv /\ StackTypeOK
  BY DEF OrderInv, TypeInv
<1>1. Innermost(t).at = "monitor" /\ ~MonitorFree(t, Innermost(t).engine)
  BY DEF CanMove, InnermostAt
<1>2. PICK u \in Threads \ {t} : Inside(u, Innermost(t).engine)
  BY <1>1 DEF MonitorFree
<1>3. PICK n \in DOMAIN frames[u] :
        frames[u][n].engine = Innermost(t).engine /\ frames[u][n].at # "monitor"
  BY <1>a, <1>2, InsideElement
<1>4. ~Idle(u) /\ 1 \in DOMAIN frames[u] /\ n \in Nat \ {0} /\ frames[u] \in Seq(Call)
  BY <1>a, CallInRange DEF StackTypeOK
<1>5. Innermost(u) = frames[u][1] /\ Innermost(u) \in Call
  BY <1>4, HeadElement DEF Idle, Innermost
<1>6. Innermost(u).at = "monitor" /\ ~MonitorFree(u, Innermost(u).engine)
  BY <1>4 DEF CanMove, InnermostAt
<1>7. n > 1
  BY <1>3, <1>4, <1>5, <1>6
<1>8. ~ \E m \in DOMAIN frames[u] : m > 1 /\ frames[u][m].engine = Innermost(u).engine
  <2>1. SUFFICES ASSUME NEW m \in DOMAIN frames[u], m > 1, frames[u][m].engine = Innermost(u).engine
                 PROVE  FALSE
    OBVIOUS
  <2>2. frames[u][m].at = "native"
    BY <1>a, <2>1 DEF TypeInv, LowerRun
  <2>3. PICK v \in Threads \ {u} : Inside(v, Innermost(u).engine)
    BY <1>6 DEF MonitorFree
  <2>4. PICK k \in DOMAIN frames[v] :
          frames[v][k].engine = Innermost(u).engine /\ frames[v][k].at # "monitor"
    BY <1>a, <2>3, InsideElement
  <2> QED
    BY <1>a, <2>1, <2>2, <2>3, <2>4 DEF TypeInv, OneInside
<1>9. frames[u][n].engine < Innermost(u).engine
  BY <1>4, <1>5, <1>6, <1>7, <1>8 DEF OrderInv, InOrder
<1>10. Innermost(u).engine \in Nat /\ frames[u][n].engine \in Nat
  BY <1>a, <1>5, CallInRange, LifeAssumption DEF Call, Instances
<1> QED
  BY <1>3, <1>4, <1>9, <1>10

LEMMA OrderInvMoves ==
  ASSUME OrderInv
  PROVE  SomeCallMoves
<1> DEFINE waiting == {u \in Threads : ~Idle(u)}
           height == {MaxEngines - Innermost(u).engine : u \in waiting}
<1>a. StackTypeOK
  BY DEF OrderInv, TypeInv
<1>1. SUFFICES ASSUME \E t \in Threads : ~Idle(t), \A u \in Threads : ~CanMove(u)
               PROVE  FALSE
  BY DEF SomeCallMoves
<1>2. \A u \in waiting : Innermost(u).engine \in 1..MaxEngines
  <2>1. SUFFICES ASSUME NEW u \in waiting PROVE Innermost(u).engine \in 1..MaxEngines
    OBVIOUS
  <2>2. frames[u] \in Seq(Call) /\ frames[u] # << >>
    BY <1>a, <2>1 DEF StackTypeOK, Idle
  <2>3. Innermost(u) \in Call
    BY <2>2, HeadElement DEF Innermost
  <2> QED
    BY <2>3 DEF Call, Instances
<1>3. height \subseteq Nat /\ height # {}
  BY <1>1, <1>2, LifeAssumption
<1>4. PICK h \in height : \A k \in height : <<k, h>> \notin OpToRel(<, Nat)
  <2> HIDE DEF height
  <2> QED
    BY <1>3, NatLessThanWellFounded, WFMin
<1>5. PICK t \in waiting : h = MaxEngines - Innermost(t).engine
  OBVIOUS
<1>6. PICK u \in Threads : ~Idle(u) /\ Innermost(u).engine > Innermost(t).engine
  BY <1>1, <1>5, WaitsUpward
<1>7. MaxEngines - Innermost(u).engine \in height /\ MaxEngines - Innermost(u).engine < h
  BY <1>2, <1>5, <1>6, LifeAssumption
<1>8. <<MaxEngines - Innermost(u).engine, h>> \in OpToRel(<, Nat)
  BY <1>3, <1>7 DEF OpToRel
<1> QED
  BY <1>4, <1>7, <1>8

(* Calls in progress never all wait for each other's monitors, if callbacks *)
(* nest in one order of the engines, closes included (QuickJs.java:53).     *)
THEOREM CallsMove ==
  ASSUME Ordered
  PROVE  LifeSpec => []SomeCallMoves
<1>1. LifeInit => OrderInv
  BY InitCloseInv DEF CloseInv, OrderInv
<1>2. OrderInv /\ [LifeNext]_lifeVars => OrderInv'
  BY NextOrderInv
<1>3. OrderInv => SomeCallMoves
  BY OrderInvMoves
<1> QED
  BY <1>1, <1>2, <1>3, PTL DEF LifeSpec

=============================================================================
