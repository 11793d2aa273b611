----------------------------- MODULE ResourceAbs -----------------------------
(***************************************************************************)
(* What a caller of resource.Reconcile may rely on. A call asks for one    *)
(* object of the cluster to be as wanted: present with a content, or       *)
(* Missing. While it runs the call may put the wanted content, take the    *)
(* object away (for good, or to build it again) and find it not there.     *)
(* It answers whether it changed something and whether it failed:          *)
(*   - "changed" without an error means that it put or removed what was    *)
(*     wanted, or found nothing to remove;                                 *)
(*   - a call that took away what should be present and did not put it     *)
(*     back says so with an error.                                         *)
(* Anybody else may change the object at any time, and the process may die.*)
(***************************************************************************)
CONSTANTS Contents,  \* what an object can hold
          Missing,   \* the object does not exist
          Idle       \* no call is running

VARIABLES obj,       \* the object on the cluster
          want,      \* what the running call wants
          mark,      \* what the call has done: nothing, served, torn
          answer     \* the answer to the last call

vars == <<obj, want, mark, answer>>

Objects == Contents \cup {Missing}
Answers == [changed : BOOLEAN, err : BOOLEAN]

Init == /\ obj \in Objects
        /\ want = Idle
        /\ mark = "nothing"
        /\ answer = [changed |-> FALSE, err |-> FALSE]

Begin == /\ want = Idle
         /\ want' \in Objects
         /\ mark' = "nothing"
         /\ UNCHANGED <<obj, answer>>

Others == /\ obj' \in Objects
          /\ UNCHANGED <<want, mark, answer>>

Serve == /\ want # Idle
         /\ obj' = want
         /\ mark' = "served"
         /\ UNCHANGED <<want, answer>>

NotThere == /\ want = Missing
            /\ mark' = "served"
            /\ UNCHANGED <<obj, want, answer>>

Tear == /\ want \in Contents
        /\ obj' = Missing
        /\ mark' = "torn"
        /\ UNCHANGED <<want, answer>>

Reply == /\ want # Idle
         /\ want' = Idle
         /\ answer' \in Answers
         /\ answer'.changed /\ ~answer'.err => mark = "served"
         /\ mark = "torn" => answer'.err
         /\ UNCHANGED <<obj, mark>>

Crash == /\ want' = Idle
         /\ mark' = "nothing"
         /\ UNCHANGED <<obj, answer>>

Next == Begin \/ Others \/ Serve \/ NotThere \/ Tear \/ Reply \/ Crash

Spec == Init /\ [][Next]_vars
=============================================================================
