------------------------------- MODULE MCDoor -------------------------------
(***************************************************************************)
(* What a phone meets - a slot for its socket, the limit on its messages,  *)
(* the question for the party code, the queue of what is sent to it, a     *)
(* place in the queue for its jingle.  The five share no state but the     *)
(* clock; a behaviour is one of any of them.  For the queue of what is     *)
(* sent: coalesce at 2 messages, drop at 4, close at 2 controls.           *)
(***************************************************************************)
EXTENDS TokenBucket, Authorization, Admission, AsyncQueue, WsFlow

CONSTANTS ann, bob, noClient, up, join, leave, unset

VARIABLE part

Clients  == {ann, bob}
Requests == {up, join, leave}

Init ==
    /\ part \in {"bucket", "authorization", "admission", "queue", "flow"}
    /\ clock = 0
    /\ BucketInit /\ AuthInit /\ AdmissionInit /\ QueueInit /\ FlowInit

Next ==
    /\ UNCHANGED part
    /\ \/ /\ part = "bucket" /\ BucketNext
          /\ UNCHANGED <<authVars, admissionVars, queueVars, flowVars>>
       \/ /\ part = "authorization" /\ AuthNext
          /\ UNCHANGED <<bucketVars, admissionVars, queueVars, flowVars>>
       \/ /\ part = "admission" /\ AdmissionNext
          /\ UNCHANGED <<bucketVars, authVars, queueVars, flowVars>>
       \/ /\ part = "queue" /\ QueueNext
          /\ UNCHANGED <<clock, bucketVars, authVars, admissionVars, flowVars>>
       \/ /\ part = "flow" /\ FlowNext
          /\ UNCHANGED <<clock, bucketVars, authVars, admissionVars, queueVars>>

\* Fairness is that of the flow control; where nothing is sent it asks for nothing.
Spec ==
    /\ Init
    /\ [][Next]_<<part, clock, bucketVars, authVars, admissionVars, queueVars, flowVars>>
    /\ Fairness
=============================================================================
