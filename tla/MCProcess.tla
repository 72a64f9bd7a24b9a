----------------------------- MODULE MCProcess -----------------------------
(***************************************************************************)
(* The parts of a process around the event loop as one system for TLC:     *)
(* text (Text) and failures (Failures) on their way between Java and       *)
(* JavaScript, the table of callbacks (CallbackTable) and the life of      *)
(* engines (EngineLife).  They share nothing; each moves only while the    *)
(* others are as they started, so the states are the sum of theirs.        *)
(***************************************************************************)
EXTENDS Text, Failures, CallbackTable, EngineLife

(* Code units and bytes on both sides of every boundary of the coding: one, *)
(* two, three and four bytes; the first and last surrogates of each kind,   *)
(* which make U+10000 and U+10FFFF; overlong, truncated and stray bytes.    *)
MCUnits == {65, 127, 128, 2047, 2048, 55296, 56319, 56320, 57343, 65533, 65535}
MCBytes == {65, 128, 143, 144, 160, 191, 192, 194, 224, 237, 240, 244, 248}
MCLogUnits == {97, 55357, 56832}

(* The properties do not tell the engines of CallbackTable apart.           *)
EngineSymmetry == Permutations(Engines)

ProcessInit == TextInit /\ FlowInit /\ CallbackInit /\ LifeInit

ProcessNext ==
  \/ /\ FlowInit /\ CallbackInit /\ LifeInit
     /\ TextNext /\ UNCHANGED <<flowVars, callbackVars, lifeVars>>
  \/ /\ TextInit /\ CallbackInit /\ LifeInit
     /\ FlowNext /\ UNCHANGED <<textVars, callbackVars, lifeVars>>
  \/ /\ TextInit /\ FlowInit /\ LifeInit
     /\ CallbackNext /\ UNCHANGED <<textVars, flowVars, lifeVars>>
  \/ /\ TextInit /\ FlowInit /\ CallbackInit
     /\ LifeNext /\ UNCHANGED <<textVars, flowVars, callbackVars>>

ProcessSpec == ProcessInit /\ [][ProcessNext]_<<textVars, flowVars, callbackVars, lifeVars>>

=============================================================================
