--------------------------- MODULE AbstractTimers ---------------------------
(***************************************************************************)
(* What setTimeout, setInterval, clearTimeout and clearInterval promise a  *)
(* script, with no table, no slots and no passes: a set of live timers,    *)
(* each of them called when its time has come, one call of it at a time.   *)
(* A timer leaves the set for three reasons only: it is cleared, it is a   *)
(* timeout whose call has ended, or the engine is closed.                  *)
(***************************************************************************)
EXTENDS Naturals

CONSTANTS
  Fns,       (* JavaScript functions *)
  Delays     (* delays a script asks for *)

VARIABLES
  live,      (* function from the ids of the live timers to their data *)
  next,      (* no timer had this id or a greater one                  *)
  calls,     (* calls in progress: pairs of a number and a timer's id   *)
  now        (* the time                                               *)

vars == <<live, next, calls, now>>

Init == live = << >> /\ next = 0 /\ calls = {} /\ now \in Nat

Running == {c[2] : c \in calls}

Without(id) == [j \in DOMAIN live \ {id} |-> live[j]]

Set ==
  /\ \E t \in {[callback |-> f, due |-> now + d, delay |-> d, repeat |-> r] :
                 f \in Fns, d \in Delays, r \in BOOLEAN} :
       live' = [j \in DOMAIN live \cup {next} |-> IF j = next THEN t ELSE live[j]]
  /\ next' = next + 1
  /\ UNCHANGED <<calls, now>>

Clear ==
  /\ \E id \in DOMAIN live : live' = Without(id)
  /\ UNCHANGED <<next, calls, now>>

(* A call starts no earlier than asked for, and never on top of itself. *)
Begin ==
  /\ \E id \in DOMAIN live \ Running :
       /\ live[id].due <= now
       /\ \E c \in calls' : calls' = calls \cup {c} /\ c[2] = id
  /\ UNCHANGED <<live, next, now>>

(* The next call of an interval is due a delay after the last was, or at    *)
(* some time that has come already if that one is past: calls that were     *)
(* missed are not made up for.                                              *)
Rearmed(t, due) ==
  /\ due >= t.due + t.delay
  /\ due = t.due + t.delay \/ due <= now

End ==
  /\ \E c \in calls : LET id == c[2] IN
       /\ calls' = calls \ {c}
       /\ IF id \notin DOMAIN live THEN live' = live
          ELSE IF ~live[id].repeat THEN live' = Without(id)
          ELSE /\ DOMAIN live' = DOMAIN live
               /\ \A j \in DOMAIN live \ {id} : live'[j] = live[j]
               /\ live'[id] = [live[id] EXCEPT !.due = live'[id].due]
               /\ Rearmed(live[id], live'[id].due)
  /\ UNCHANGED <<next, now>>

Shutdown == calls = {} /\ live' = << >> /\ UNCHANGED <<next, calls, now>>

TimePasses == now' > now /\ UNCHANGED <<live, next, calls>>

Next == Set \/ Clear \/ Begin \/ End \/ Shutdown \/ TimePasses

Spec == Init /\ [][Next]_vars

=============================================================================
