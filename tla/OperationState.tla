--------------------------- MODULE OperationState ---------------------------
(***************************************************************************)
(* What the Layer-2 operation states share                                 *)
(* (include/bkmail/imap/state/detail/state_op_sender.h): the stop callback *)
(* box, the completed_ claim, the posted delivery of a stop, and the       *)
(* command's cell in Layer 1.                                              *)
(*                                                                         *)
(* Threads run the code of ONE operation state: the workers of the         *)
(* io_context and the user's thread, which requests the stop.  pc[t] is    *)
(* the access thread t makes next; "out" is outside the operation.  One    *)
(* step is one atomic access of the code -- an exchange, a load, a call    *)
(* into the mutex-protected context -- so every interleaving of the        *)
(* accesses is a behaviour.                                                *)
(*                                                                         *)
(* The consumer may destroy the operation state inside its completion, as  *)
(* a chained or a detached operation does: once it has been delivered no   *)
(* thread may still be inside.                                             *)
(***************************************************************************)
EXTENDS Naturals, Sequences, FiniteSets

CONSTANTS
    Kinds,       \* the operation states considered
    Workers,     \* threads that may run the io_context
    Pools,       \* the sets of them that may be running it
    StartsOn,    \* the threads start() may be called on
    BoxFails,    \* whether allocating the posted delivery may fail
    LosesConnection \* whether the connection may be lost

User    == "user"
Threads == Workers \cup {User}

ASSUME OperationAssumption ==
    /\ Kinds \subseteq {"command", "idle", "start_tls", "connect"}
    /\ User \notin Workers /\ "none" \notin Workers /\ StartsOn \subseteq Threads
    /\ Pools \subseteq SUBSET Workers
    /\ BoxFails \in BOOLEAN /\ LosesConnection \in BOOLEAN

VARIABLES
    pool,            \* the threads that run the io_context
    kind,            \* which operation state this is
    pc,              \* thread -> the access it makes next
    stop_requested,  \* the stop source's flag
    callback,        \* stop_callback_: empty, armed, running, inline, fired
    runner,          \* the thread that runs the callback
    completed,       \* *completed_
    posted,          \* a stopped delivery waits in the io_context's queue
    delivered,       \* completions the receiver was given, with their thread
    started,         \* start() was called
    busy,            \* the connection's one-operation slot (busy_)
    open,            \* the Layer-1 context is open: it takes submissions
    cell,            \* the command in Layer 1, see CellStates
    reader,          \* the worker in the read dispatch, or "none"
    nested,          \* the thread whose submit() runs the handler, or "none"
    phase,           \* phase_ of the operations that have one
    latch            \* the recorded stop (stop_latch_, stop_requested_)

stopVars  == <<stop_requested, callback, runner>>
claimVars == <<completed, posted, delivered>>
runVars   == <<pool, kind, started, open>>
flowVars  == <<runVars, phase, latch>>
opVars    == <<pc, stopVars, claimVars, flowVars, busy, cell, reader, nested>>

(* The command's cell.  Its handler has run if it was answered, if it      *)
(* failed with the connection, or if submit() rejected it at once; it will *)
(* not run once the command is withdrawn.  A cancelled cell may be kept:   *)
(* in the write under way, until its DONE is answered, or because the      *)
(* context is no longer open; its handler only runs, late, if the          *)
(* connection is lost.                                                     *)
CellStates == {"none", "pending", "answered", "failed", "rejected", "withdrawn",
               "kept", "late"}

OperationInit ==
    /\ kind \in Kinds
    /\ pool \in Pools
    /\ pc = [t \in Threads |-> "out"]
    /\ stop_requested = FALSE /\ callback = "empty" /\ runner = User
    /\ completed = FALSE /\ posted = FALSE /\ delivered = <<>>
    /\ started = FALSE /\ busy = FALSE /\ open = TRUE
    /\ cell = "none" /\ reader = "none" /\ nested = "none"
    /\ phase = "none" /\ latch = FALSE

At(t, label)    == pc[t] = label
Goto(t, label)  == pc' = [pc EXCEPT ![t] = label]
Delivered       == delivered # <<>>
Deliver(t, how) == delivered' = Append(delivered, [on |-> t, how |-> how])

(* What follows submit() and flush() in the code that called them.         *)
AfterSubmit ==
    [command |-> "register", idle |-> "arm_timer", start_tls |-> "register",
     connect |-> "publish"]

(* A completion returns: to the dispatch, or into the submit() it ran in.  *)
Out(t) ==
    /\ Goto(t, IF nested = t THEN AfterSubmit[kind] ELSE "out")
    /\ nested' = IF nested = t THEN "none" ELSE nested
    /\ reader' = IF reader = t THEN "none" ELSE reader
-----------------------------------------------------------------------------
(* The stop source and stop_callback_box.                                  *)

(* request_stop() runs an armed callback on the requesting thread.         *)
RequestStop ==
    /\ ~stop_requested
    /\ At(User, "out")
    /\ stop_requested' = TRUE
    /\ IF callback = "armed"
       THEN callback' = "running" /\ runner' = User /\ Goto(User, "forward")
       ELSE UNCHANGED <<callback, runner, pc>>
    /\ UNCHANGED <<claimVars, flowVars, busy, cell, reader, nested>>

(* emplace(): a token that is already cancelled fires inline, before the   *)
(* box holds anything; emplace() then still writes the box.                *)
EmplaceCallback(t) ==
    /\ At(t, "register")
    /\ runner' = t
    /\ IF stop_requested
       THEN callback' = "inline" /\ Goto(t, "forward")
       ELSE callback' = "armed" /\ Goto(t, "out")
    /\ UNCHANGED <<stop_requested, claimVars, flowVars, busy, cell, reader, nested>>

EmplaceReturns(t) ==
    /\ At(t, "emplaced")
    /\ callback' = "fired"
    /\ Goto(t, "out")
    /\ UNCHANGED <<stop_requested, runner, claimVars, flowVars, busy, cell, reader, nested>>

(* Mutant: a callback running on another thread is not waited for.         *)
ResetUnwaiting(t) ==
    t \in Threads /\ callback' = IF callback = "inline" THEN "inline" ELSE "empty"

(* Mutant: the box keeps the callback it has deregistered.                 *)
ResetDeregisters(t) ==
    /\ callback = "running" => runner = t
    /\ callback' = IF callback = "inline" THEN "inline" ELSE "deregistered"

(* reset(): waits for a callback that runs on another thread, not for one  *)
(* that runs on this one; a box still being filled has nothing to reset    *)
(* and nothing to wait for.                                                *)
ResetCallback(t) ==
    /\ callback = "running" => runner = t
    /\ callback' = IF callback = "inline" THEN "inline" ELSE "empty"

(* The forwarder returns, to the stop source or into emplace().            *)
LeaveCallback(t) ==
    /\ callback' = IF callback = "running" THEN "fired" ELSE callback
    /\ Goto(t, IF callback = "inline" THEN "emplaced" ELSE "out")
-----------------------------------------------------------------------------
(* The claim and the deliveries.                                           *)

(* completed_->exchange(true), in the forwarder and in a completion.       *)
ClaimInCallback(t, won) ==
    /\ completed' = TRUE
    /\ IF completed THEN LeaveCallback(t) ELSE Goto(t, won) /\ UNCHANGED callback
    /\ UNCHANGED <<reader, nested>>

ClaimOrLeave(t, won) ==
    /\ completed' = TRUE
    /\ IF completed THEN Out(t) ELSE Goto(t, won) /\ UNCHANGED <<reader, nested>>
    /\ UNCHANGED callback

(* Mutant: the stop is delivered where it was requested.                   *)
DeliverStopHere(t) ==
    /\ At(t, "post")
    /\ Deliver(t, "stopped")
    /\ LeaveCallback(t)
    /\ UNCHANGED <<stop_requested, runner, completed, posted, flowVars, busy, cell, reader, nested>>

(* Mutant: a stop that could not be posted is dropped.                     *)
DropStop(t) ==
    /\ At(t, "post")
    /\ LeaveCallback(t)
    /\ UNCHANGED <<stop_requested, runner, claimVars, flowVars, busy, cell, reader, nested>>

(* post_stopped_delivery(): the operation is completed from the            *)
(* io_context's own dispatch; when the box cannot be allocated, inline.    *)
PostStoppedDelivery(t) ==
    /\ At(t, "post")
    /\ \/ posted' = TRUE /\ UNCHANGED delivered
       \/ BoxFails /\ Deliver(t, "stopped_inline") /\ UNCHANGED posted
    /\ LeaveCallback(t)
    /\ UNCHANGED <<stop_requested, runner, completed, flowVars, busy, cell, reader, nested>>

(* stopped_delivery_receiver::set_value                                    *)
RunStoppedDelivery(t) ==
    /\ t \in pool
    /\ At(t, "out")
    /\ posted
    /\ posted' = FALSE
    /\ Deliver(t, "stopped")
    /\ UNCHANGED <<pc, stopVars, completed, flowVars, busy, cell, reader, nested>>

(* imap_context::cancel(tag) of a pending command: an open context either  *)
(* withdraws it or keeps its cell, one that is not open does nothing.      *)
CancelCell ==
    \/ cell # "pending" /\ UNCHANGED cell
    \/ cell = "pending" /\ cell' = "kept"
    \/ cell = "pending" /\ open /\ cell' = "withdrawn"

(* Destroying the connection abandons the context: every cell is retired   *)
(* without a call of its handler.                                          *)
AbandonCell == cell' = IF cell \in {"pending", "kept"} THEN "withdrawn" ELSE cell

(* submit(): the context queues the command; one that is not open fails it *)
(* at once, so that its handler runs inside submit().                      *)
SubmitCell(t, handler) ==
    /\ IF open
       THEN cell' = "pending" /\ Goto(t, AfterSubmit[kind]) /\ UNCHANGED nested
       ELSE cell' = "rejected" /\ Goto(t, handler) /\ nested' = t
    /\ UNCHANGED reader

(* The read pump completes the command, on one worker at a time.           *)
Reply(t, handler) ==
    /\ t \in pool
    /\ At(t, "out")
    /\ reader = "none"
    /\ open /\ cell = "pending"
    /\ cell' = "answered"
    /\ reader' = t
    /\ Goto(t, handler)
    /\ UNCHANGED <<stopVars, claimVars, flowVars, busy, nested>>

(* connection_lost(), on either pump: the context stops taking commands    *)
(* and fails the ones it has, those in the write under way when it ends.   *)
LoseConnection(t) ==
    /\ LosesConnection
    /\ t \in pool
    /\ At(t, "out")
    /\ open
    /\ open' = FALSE
    /\ UNCHANGED <<pc, stopVars, claimVars, pool, kind, started, phase, latch, busy, cell,
                   reader, nested>>

FailCell(t, handler) ==
    /\ t \in pool
    /\ At(t, "out")
    /\ ~open /\ cell \in {"pending", "kept"}
    /\ cell' = IF cell = "kept" THEN "late" ELSE "failed"
    /\ Goto(t, handler)
    /\ UNCHANGED <<stopVars, claimVars, flowVars, busy, reader, nested>>

(* start(): the slot is taken; a token cancelled beforehand completes the  *)
(* operation at once.                                                      *)
StartOn(t, label) ==
    /\ t \in StartsOn
    /\ At(t, "out")
    /\ ~started
    /\ started' = TRUE
    /\ IF stop_requested
       THEN Deliver(t, "stopped") /\ UNCHANGED <<pc, busy>>
       ELSE Goto(t, label) /\ busy' = (kind # "connect") /\ UNCHANGED delivered
    /\ UNCHANGED <<pool, kind, open, latch, stopVars, completed, posted, cell, reader, nested>>
-----------------------------------------------------------------------------
OperationTypeOK ==
    /\ stop_requested \in BOOLEAN /\ completed \in BOOLEAN /\ posted \in BOOLEAN
    /\ started \in BOOLEAN /\ busy \in BOOLEAN /\ latch \in BOOLEAN
    /\ callback \in {"empty", "armed", "running", "inline", "fired"}
    /\ runner \in Threads /\ reader \in Threads \cup {"none"}
    /\ open \in BOOLEAN /\ nested \in Threads \cup {"none"} /\ cell \in CellStates

(* The receiver is completed at most once, whichever of the reply, the     *)
(* push, the heartbeat, the phases and the stop get there together.        *)
OneDelivery == Len(delivered) <= 1

(* architecture.md section 6: a stop that interrupts an operation never    *)
(* completes it on the thread that requested the stop.                     *)
NeverOnRequester ==
    \A i \in DOMAIN delivered :
        delivered[i].how \in {"stopped", "stopped_inline"} => delivered[i].on # User

(* What follows is about an operation whose io_context one thread runs.    *)
OneWorker == \E w \in Workers : pool = {w}

(* The operation state may be destroyed by its completion, so no thread is *)
(* inside it afterwards: reset() waits for a running callback, a posted    *)
(* delivery for the worker ("flag_check" is the heartbeat's receiver,      *)
(* which reads its own copy of the flag).  Two cases are left out, where a *)
(* lost connection makes the code break it: a submission that is rejected  *)
(* at once completes the operation inside start(), which goes on           *)
(* (state_op_sender.h:514-519), and the handler of a command that was      *)
(* cancelled but kept runs late (operation_base.h:449-455).                *)
NoneInsideAfterDelivery ==
    OneWorker /\ Delivered /\ cell \notin {"rejected", "late"}
        => \A t \in Threads : pc[t] \in {"out", "flag_check"}

(* state_op_sender.h:373-375: once the claim is won, "every rival          *)
(* completion point exchange-loses and returns without touching the        *)
(* state".  Nobody is inside a delivered operation, in those cases too.    *)
NoneInsideEver ==
    OneWorker /\ Delivered => \A t \in Threads : pc[t] \in {"out", "flag_check"}

(* The command's handler captures the operation state, so no exit leaves   *)
(* its command as it was: it was answered, failed or cancelled first --    *)
(* for an IDLE that also is "DONE is sent on every exit" (selected.h:207). *)
(* A cancelled command may be kept with its handler; connect, which has    *)
(* met that ("cancel() alone is NOT enough", connect.h:405-409), abandons  *)
(* its session instead and leaves no handler at all.                       *)
DisownedOnEveryExit ==
    OneWorker /\ Delivered =>
        cell # "pending" /\ (kind = "connect" => cell # "kept")

(* known_issues.md #3 admits one lifetime window when several workers run  *)
(* the io_context: a completion "preempted before its guard exchange".     *)
(* Nobody else is inside an operation that was delivered.                  *)
OnlyLosersInside ==
    Delivered => \A t \in Threads :
                    pc[t] \in {"out", "flag_check", "claim", "push_check", "wake"}

(* The completion moves the connection into the successor state, which     *)
(* requires the slot to be free (imap_connection's move constructor).      *)
SlotFreeOnDelivery == Delivered => ~busy
=============================================================================
