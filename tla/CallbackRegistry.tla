-------------------------- MODULE CallbackRegistry --------------------------
(***************************************************************************)
(* What setCallback, setConsoleLog and setConsoleError promise: each       *)
(* engine has functions that stand for Java callbacks, and a console       *)
(* handler per level.  Nothing is shared between engines and nothing is    *)
(* ever taken away from an engine that is open.                            *)
(***************************************************************************)
CONSTANTS
  Engines, Callbacks, Levels, None,
  Default    (* per level, where messages go that have no handler           *)

VARIABLES
  bound,     (* per engine, the callbacks that functions stand for          *)
  handler,   (* per engine and level, the console handler or None           *)
  called,    (* the callback whose function is being called, or None        *)
  running    (* what a call of the engine has reached, or None              *)

vars == <<bound, handler, called, running>>

Init ==
  /\ bound = [e \in Engines |-> {}]
  /\ handler = [e \in Engines |-> [l \in Levels |-> None]]
  /\ called = [e \in Engines |-> None]
  /\ running = [e \in Engines |-> None]

Bind(e) ==
  /\ \E c \in Callbacks : bound' = [bound EXCEPT ![e] = @ \cup {c}]
  /\ UNCHANGED <<handler, called, running>>

Drop(e) ==
  /\ \E c \in bound[e] : bound' = [bound EXCEPT ![e] = @ \ {c}]
  /\ UNCHANGED <<handler, called, running>>

Call(e) ==
  /\ called[e] = None
  /\ \E c \in bound[e] : called' = [called EXCEPT ![e] = c]
  /\ UNCHANGED <<bound, handler, running>>

Run(e) ==
  /\ called[e] # None /\ running[e] = None
  /\ running' = [running EXCEPT ![e] = called[e]]
  /\ UNCHANGED <<bound, handler, called>>

SetHandler(e) ==
  /\ \E l \in Levels, c \in Callbacks \cup {None} : handler' = [handler EXCEPT ![e][l] = c]
  /\ UNCHANGED <<bound, called, running>>

Message(e) ==
  /\ called[e] = None /\ running[e] = None
  /\ \E l \in Levels :
       running' = [running EXCEPT ![e] =
                     IF handler[e][l] = None THEN Default[l] ELSE handler[e][l]]
  /\ UNCHANGED <<bound, handler, called>>

Return(e) ==
  /\ running[e] # None
  /\ called' = [called EXCEPT ![e] = None]
  /\ running' = [running EXCEPT ![e] = None]
  /\ UNCHANGED <<bound, handler>>

Close(e) ==
  /\ called[e] = None /\ running[e] = None
  /\ bound' = [bound EXCEPT ![e] = {}]
  /\ handler' = [handler EXCEPT ![e] = [l \in Levels |-> None]]
  /\ UNCHANGED <<called, running>>

Next ==
  \E e \in Engines :
    \/ Bind(e) \/ Drop(e) \/ Call(e) \/ Run(e) \/ Return(e)
    \/ SetHandler(e) \/ Message(e) \/ Close(e)

Spec == Init /\ [][Next]_vars

=============================================================================
