-------------------------- MODULE CameraLifecycle --------------------------
(***************************************************************************)
(* What one distributed camera promises on the source device, whatever     *)
(* threads, queues and channels it is made of: it is registered before it  *)
(* is opened, it holds one control session at most, it takes one only by   *)
(* opening and gives it back whenever it is closed or unregistered, and    *)
(* its streams are configured and captured only while it holds one.        *)
(* SourceDev implements this module.                                       *)
(***************************************************************************)
CONSTANTS Sockets

VARIABLES
  state,    \* how far the camera is, as its state machine names it
  session,  \* the control session it holds: {} or {s}
  used      \* sockets that have been a session

vars == <<state, session, used>>

OpenStates == {"OPENED", "CONFIG_STREAM", "CAPTURE"}

\* Steps between two open states.
StreamMoves == {<<"OPENED", "CONFIG_STREAM">>, <<"CONFIG_STREAM", "OPENED">>,
                <<"CONFIG_STREAM", "CAPTURE">>, <<"CAPTURE", "CONFIG_STREAM">>}

Init == state = "INIT" /\ session = {} /\ used = {}

Register == /\ state = "INIT" /\ state' = "REGIST"
            /\ UNCHANGED <<session, used>>

Open(s) == /\ state = "REGIST" /\ s \notin used
           /\ state' = "OPENED" /\ session' = {s}
           /\ used' = used \cup {s}

Stream == /\ session # {} /\ <<state, state'>> \in StreamMoves
          /\ UNCHANGED <<session, used>>

Close == /\ state \in OpenStates /\ state' = "REGIST"
         /\ session' = {} /\ UNCHANGED used

Unregister == /\ state # "INIT" /\ state' = "INIT"
              /\ session' = {} /\ UNCHANGED used

\* An unregistration that fails half way has given the session back.
Drop == /\ state \in OpenStates /\ session' = {}
        /\ UNCHANGED <<state, used>>

Next == \/ Register \/ Stream \/ Close \/ Unregister \/ Drop
        \/ \E s \in Sockets : Open(s)

Spec == Init /\ [][Next]_vars
=============================================================================
