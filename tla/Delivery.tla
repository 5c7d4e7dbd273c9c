------------------------------ MODULE Delivery ------------------------------
(***************************************************************************)
(* What channels/router.ts promises of an outbound message: it is either    *)
(* dropped because no adapter serves its channel, or it is settled exactly  *)
(* once, as message:delivered after its last part reached the platform, or  *)
(* as message:failed with any number of parts already shown.                *)
(***************************************************************************)
EXTENDS Naturals

CONSTANTS Message

VARIABLES
    status,     \* where a message is
    left        \* how many parts the platform has yet to take while it is sent

vars == <<status, left>>

Init ==
    /\ status = [m \in Message |-> "idle"]
    /\ left = [m \in Message |-> 0]

Move(m, from, to) ==
    /\ status[m] = from
    /\ status' = [status EXCEPT ![m] = to]

Drop(m)   == Move(m, "idle", "unrouted") /\ UNCHANGED left
Refuse(m) == Move(m, "idle", "failed") /\ UNCHANGED left

Accept(m) ==
    /\ Move(m, "idle", "sending")
    /\ left'[m] \in Nat
    /\ left' = [left EXCEPT ![m] = left'[m]]

Show(m) ==
    /\ status[m] = "sending"
    /\ left[m] > 0
    /\ left' = [left EXCEPT ![m] = @ - 1]
    /\ UNCHANGED status

Deliver(m) == left[m] = 0 /\ Move(m, "sending", "delivered") /\ UNCHANGED left
Fail(m)    == Move(m, "sending", "failed") /\ left' = [left EXCEPT ![m] = 0]

Next == \E m \in Message :
            Drop(m) \/ Refuse(m) \/ Accept(m) \/ Show(m) \/ Deliver(m) \/ Fail(m)

Settles == \A m \in Message : status[m] = "sending" ~> status[m] # "sending"

SafeSpec == Init /\ [][Next]_vars

Spec == SafeSpec /\ Settles
=============================================================================
