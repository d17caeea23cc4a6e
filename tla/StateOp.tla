------------------------------ MODULE StateOp ------------------------------
(***************************************************************************)
(* state_op_operation and idle_op_operation                                *)
(* (include/bkmail/imap/state/detail/state_op_sender.h): a command that    *)
(* completes with its tagged reply, and an IDLE cycle that also completes  *)
(* on a push of the server and at the heartbeat.                           *)
(***************************************************************************)
EXTENDS OperationState

VARIABLES
    hooked,   \* idle: the unsolicited handler is registered
    timer     \* idle: off, armed, due (fired, not yet run), ran, cancelled

stateOpVars == <<hooked, timer>>

StateOpInit == hooked = FALSE /\ timer = "off"

IsStateOp == kind \in {"command", "idle"}

-----------------------------------------------------------------------------
(* start(): the capability gate completes without touching the wire;       *)
(* otherwise submit, flush, [timer,] and only then the stop callback.      *)
StateOpStart(t) ==
    /\ IsStateOp
    /\ StartOn(t, "gate")
    /\ UNCHANGED <<phase, stateOpVars>>

Gate(t, advertised) ==
    /\ At(t, "gate")
    /\ IF advertised
       THEN /\ Goto(t, "submit")
            /\ hooked' = (kind = "idle")
            /\ UNCHANGED <<delivered, busy>>
       ELSE /\ busy' = FALSE
            /\ Deliver(t, "capability_required")
            /\ Goto(t, "out")
            /\ UNCHANGED hooked
    /\ UNCHANGED <<timer, stopVars, completed, posted, flowVars, cell, reader, nested>>

Submit(t) ==
    /\ At(t, "submit")
    /\ SubmitCell(t, "claim")
    /\ UNCHANGED <<stateOpVars, stopVars, claimVars, flowVars, busy>>

ArmTimer(t) ==
    /\ At(t, "arm_timer")
    /\ timer' = "armed"
    /\ Goto(t, "register")
    /\ UNCHANGED <<hooked, stopVars, claimVars, flowVars, busy, cell, reader, nested>>
-----------------------------------------------------------------------------
(* timer_->cancel(): a wait that has already fired still runs.             *)
CancelTimer == timer' = IF timer = "armed" THEN "cancelled" ELSE timer

(* stop_forwarder: claim, cancel, clean up, post.                          *)
Forward(t) ==
    /\ At(t, "forward")
    /\ ClaimInCallback(t, "forward_cancel")
    /\ UNCHANGED <<stateOpVars, stop_requested, runner, posted, delivered, flowVars,
                   busy, cell>>

ForwardCancel(t) ==
    /\ At(t, "forward_cancel")
    /\ CancelCell
    /\ Goto(t, "forward_cleanup")
    /\ UNCHANGED <<stateOpVars, stopVars, claimVars, flowVars, busy, reader, nested>>

ForwardCleanup(t) ==
    /\ At(t, "forward_cleanup")
    /\ ResetCallback(t)
    /\ CancelTimer
    /\ busy' = FALSE
    /\ Goto(t, "post")
    /\ UNCHANGED <<hooked, stop_requested, runner, claimVars, flowVars, cell, reader, nested>>
-----------------------------------------------------------------------------
(* on_result / on_tagged, and the cleanup every completion makes.          *)
StateOpReply(t) == IsStateOp /\ Reply(t, "claim") /\ UNCHANGED stateOpVars

StateOpFails(t) == IsStateOp /\ FailCell(t, "claim") /\ UNCHANGED stateOpVars

(* Mutant: the reply does not look at the claim.                           *)
OnResultUnclaimed(t) ==
    /\ At(t, "claim")
    /\ completed' = TRUE
    /\ Goto(t, "cleanup")
    /\ UNCHANGED <<stateOpVars, stopVars, posted, delivered, flowVars, busy, cell,
                   reader, nested>>

OnResult(t) ==
    /\ At(t, "claim")
    /\ ClaimOrLeave(t, "cleanup")
    /\ UNCHANGED <<stateOpVars, stop_requested, runner, posted, delivered, flowVars,
                   busy, cell>>

(* Mutant: finish_operation() is forgotten.                                *)
CleanupBusy(t) ==
    /\ At(t, "cleanup")
    /\ ResetCallback(t)
    /\ CancelTimer
    /\ Goto(t, "complete")
    /\ UNCHANGED <<hooked, stop_requested, runner, claimVars, flowVars, busy, cell,
                   reader, nested>>

Cleanup(t) ==
    /\ At(t, "cleanup")
    /\ ResetCallback(t)
    /\ CancelTimer
    /\ busy' = FALSE
    /\ Goto(t, "complete")
    /\ UNCHANGED <<hooked, stop_requested, runner, claimVars, flowVars, cell, reader, nested>>

CompleteWith(t) ==
    /\ At(t, "complete")
    /\ Deliver(t, "value")
    /\ Out(t)
    /\ UNCHANGED <<stateOpVars, stopVars, completed, posted, flowVars, busy, cell>>
-----------------------------------------------------------------------------
(* idle: a push of the server, the heartbeat, and what they wake.          *)

(* The handler is registered as long as the operation state lives.         *)
Push(t) ==
    /\ t \in pool
    /\ At(t, "out")
    /\ reader = "none"
    /\ hooked /\ ~Delivered
    /\ reader' = t
    /\ Goto(t, "push_check")
    /\ UNCHANGED <<stateOpVars, stopVars, claimVars, flowVars, busy, cell, nested>>

(* on_unsolicited(): EXISTS and EXPUNGE wake, other events do not.         *)
OnUnsolicited(t, wakes) ==
    /\ At(t, "push_check")
    /\ IF completed \/ ~wakes
       THEN Out(t)
       ELSE Goto(t, "wake") /\ UNCHANGED <<reader, nested>>
    /\ UNCHANGED <<stateOpVars, stopVars, claimVars, flowVars, busy, cell>>

TimerDue ==
    /\ timer = "armed"
    /\ timer' = "due"
    /\ UNCHANGED <<hooked, opVars>>

TimerRun(t) ==
    /\ t \in pool
    /\ At(t, "out")
    /\ timer = "due"
    /\ timer' = "ran"
    /\ Goto(t, "flag_check")
    /\ UNCHANGED <<hooked, stopVars, claimVars, flowVars, busy, cell, reader, nested>>

(* guarded_timer_receiver::set_value: on_fire only if the flag is clear.   *)
GuardedFire(t) ==
    /\ At(t, "flag_check")
    /\ Goto(t, IF completed THEN "out" ELSE "wake")
    /\ UNCHANGED <<stateOpVars, stopVars, claimVars, flowVars, busy, cell, reader, nested>>

(* wake(): claim, DONE (cancel), clean up, complete.                       *)
Wake(t) ==
    /\ At(t, "wake")
    /\ ClaimOrLeave(t, "wake_cancel")
    /\ UNCHANGED <<stateOpVars, stop_requested, runner, posted, delivered, flowVars,
                   busy, cell>>

WakeCancel(t) ==
    /\ At(t, "wake_cancel")
    /\ CancelCell
    /\ Goto(t, "cleanup")
    /\ UNCHANGED <<stateOpVars, stopVars, claimVars, flowVars, busy, reader, nested>>
-----------------------------------------------------------------------------
(* What thread t does inside the operation, and what brings it there.      *)
StateOpStep(t) ==
    /\ IsStateOp
    /\ \/ \E advertised \in BOOLEAN : Gate(t, advertised)
       \/ Submit(t) \/ ArmTimer(t)
       \/ EmplaceCallback(t) /\ UNCHANGED stateOpVars
       \/ Forward(t) \/ ForwardCancel(t) \/ ForwardCleanup(t)
       \/ PostStoppedDelivery(t) /\ UNCHANGED stateOpVars
       \/ OnResult(t) \/ Cleanup(t) \/ CompleteWith(t)
       \/ \E wakes \in BOOLEAN : OnUnsolicited(t, wakes)
       \/ GuardedFire(t) \/ Wake(t) \/ WakeCancel(t)

StateOpEvent(t) ==
    \/ StateOpStart(t) \/ StateOpReply(t) \/ StateOpFails(t)
    \/ Push(t) \/ TimerRun(t)
=============================================================================
