------------------------------ MODULE StartTls ------------------------------
(***************************************************************************)
(* start_tls_operation (include/bkmail/imap/state/not_authenticated.h):    *)
(* the STARTTLS command, the handshake on the detached socket, and a new   *)
(* CAPABILITY probe over TLS.  The handshake cannot be cancelled: a stop   *)
(* is recorded in stop_latch_ and looked at by the next completion.        *)
(***************************************************************************)
EXTENDS OperationState

VARIABLES
    handshake,   \* none, pending, done
    stream       \* what the connection holds: plain, detached, tls

startTlsVars == <<handshake, stream>>

StartTlsInit == handshake = "none" /\ stream = "plain"

IsStartTls == kind = "start_tls"
-----------------------------------------------------------------------------
StartTlsStart(t) ==
    /\ IsStartTls
    /\ StartOn(t, "submit")
    /\ phase' = IF stop_requested THEN phase ELSE "starttls"
    /\ UNCHANGED startTlsVars

SubmitStartTls(t) ==
    /\ At(t, "submit")
    /\ SubmitCell(t, "on_starttls")
    /\ UNCHANGED <<startTlsVars, stopVars, claimVars, flowVars, busy>>
-----------------------------------------------------------------------------
(* stop_forwarder: record, look at the phase, cancel, and only then claim. *)
RecordStop(t) ==
    /\ At(t, "forward")
    /\ latch' = TRUE
    /\ Goto(t, "forward_phase")
    /\ UNCHANGED <<startTlsVars, stopVars, claimVars, runVars, phase, busy,
                   cell, reader, nested>>

LookAtPhase(t) ==
    /\ At(t, "forward_phase")
    /\ IF phase = "handshake"
       THEN LeaveCallback(t)
       ELSE Goto(t, "forward_cancel") /\ UNCHANGED callback
    /\ UNCHANGED <<startTlsVars, stop_requested, runner, claimVars, flowVars, busy,
                   cell, reader, nested>>

CancelCommand(t) ==
    /\ At(t, "forward_cancel")
    /\ CancelCell
    /\ Goto(t, "forward_claim")
    /\ UNCHANGED <<startTlsVars, stopVars, claimVars, flowVars, busy, reader, nested>>

ClaimStop(t) ==
    /\ At(t, "forward_claim")
    /\ ClaimInCallback(t, "forward_cleanup")
    /\ UNCHANGED <<startTlsVars, stop_requested, runner, posted, delivered, flowVars,
                   busy, cell>>

StopCleanup(t) ==
    /\ At(t, "forward_cleanup")
    /\ ResetCallback(t)
    /\ busy' = FALSE
    /\ Goto(t, "post")
    /\ UNCHANGED <<startTlsVars, stop_requested, runner, claimVars, flowVars, cell,
                   reader, nested>>
-----------------------------------------------------------------------------
(* The completions.  Each looks at the latch first; a recorded stop and a  *)
(* value both end in reset, release and delivery.                          *)
ReplyHandler == IF phase = "starttls" THEN "on_starttls" ELSE "on_capability"

StartTlsReply(t) == IsStartTls /\ Reply(t, ReplyHandler) /\ UNCHANGED startTlsVars

StartTlsFails(t) == IsStartTls /\ FailCell(t, ReplyHandler) /\ UNCHANGED startTlsVars

OnStartTls(t) ==
    /\ At(t, "on_starttls")
    /\ ClaimOrLeave(t, "starttls_latch")
    /\ UNCHANGED <<startTlsVars, stop_requested, runner, posted, delivered, flowVars,
                   busy, cell>>

HonourOr(t, label) == Goto(t, IF latch THEN "stopped" ELSE label)

StartTlsLatch(t, ok) ==
    /\ At(t, "starttls_latch")
    /\ ok => cell = "answered"
    /\ HonourOr(t, IF ok THEN "enter_handshake" ELSE "value")
    /\ UNCHANGED <<startTlsVars, stopVars, claimVars, flowVars, busy, cell, reader, nested>>

EnterHandshake(t) ==
    /\ At(t, "enter_handshake")
    /\ phase' = "handshake"
    /\ Goto(t, "detach")
    /\ UNCHANGED <<startTlsVars, stopVars, claimVars, runVars, latch, busy,
                   cell, reader, nested>>

(* upgrade_to_tls_stream() and async_handshake().                          *)
DetachStream(t) ==
    /\ At(t, "detach")
    /\ stream' = "detached"
    /\ handshake' = "pending"
    /\ Out(t)
    /\ UNCHANGED <<stopVars, claimVars, flowVars, busy, cell>>

HandshakeDone(t) ==
    /\ t \in pool
    /\ At(t, "out")
    /\ handshake = "pending"
    /\ handshake' = "done"
    /\ Goto(t, "on_handshake")
    /\ UNCHANGED <<stream, stopVars, claimVars, flowVars, busy, cell, reader, nested>>

OnHandshake(t) ==
    /\ At(t, "on_handshake")
    /\ HonourOr(t, "emplace_tls")
    /\ UNCHANGED <<startTlsVars, stopVars, claimVars, flowVars, busy, cell, reader, nested>>

(* emplace_tls_context(), whether or not the handshake succeeded: a new    *)
(* context, open until its read pump finds out that the stream is dead.    *)
EmplaceTls(t, ok) ==
    /\ At(t, "emplace_tls")
    /\ stream' = "tls"
    /\ open' = TRUE
    /\ Goto(t, IF ok THEN "enter_capability" ELSE "value")
    /\ UNCHANGED <<handshake, stopVars, claimVars, pool, kind, started, phase, latch, busy,
                   cell, reader, nested>>

EnterCapability(t) ==
    /\ At(t, "enter_capability")
    /\ phase' = "capability"
    /\ Goto(t, "probe")
    /\ UNCHANGED <<startTlsVars, stopVars, claimVars, runVars, latch, busy,
                   cell, reader, nested>>

(* The probe is the last thing on_handshake() does with the operation.     *)
Probe(t) ==
    /\ At(t, "probe")
    /\ IF open
       THEN cell' = "pending" /\ Out(t)
       ELSE cell' = "rejected" /\ Goto(t, "on_capability") /\ UNCHANGED <<reader, nested>>
    /\ UNCHANGED <<startTlsVars, stopVars, claimVars, flowVars, busy>>

OnCapability(t) ==
    /\ At(t, "on_capability")
    /\ HonourOr(t, "value")
    /\ UNCHANGED <<startTlsVars, stopVars, claimVars, flowVars, busy, cell, reader, nested>>

(* stop_callback_.reset(), finish_operation(), then the receiver.          *)
ReleaseAndDeliver(t, label, how) ==
    /\ At(t, label)
    /\ ResetCallback(t)
    /\ busy' = FALSE
    /\ Deliver(t, how)
    /\ Out(t)
    /\ UNCHANGED <<startTlsVars, stop_requested, runner, completed, posted, flowVars,
                   cell>>
-----------------------------------------------------------------------------
StartTlsStep(t) ==
    /\ IsStartTls
    /\ \/ SubmitStartTls(t)
       \/ EmplaceCallback(t) /\ UNCHANGED startTlsVars
       \/ RecordStop(t) \/ LookAtPhase(t) \/ CancelCommand(t) \/ ClaimStop(t)
       \/ StopCleanup(t)
       \/ PostStoppedDelivery(t) /\ UNCHANGED startTlsVars
       \/ OnStartTls(t) \/ EnterHandshake(t) \/ DetachStream(t)
       \/ \E ok \in BOOLEAN : StartTlsLatch(t, ok) \/ EmplaceTls(t, ok)
       \/ OnHandshake(t) \/ EnterCapability(t) \/ Probe(t) \/ OnCapability(t)
       \/ ReleaseAndDeliver(t, "stopped", "stopped")
       \/ ReleaseAndDeliver(t, "value", "value")

StartTlsEvent(t) ==
    \/ StartTlsStart(t) \/ StartTlsReply(t) \/ StartTlsFails(t)
    \/ HandshakeDone(t)

(* not_authenticated.h:160-162: a stop that loses the claim "is honoured   *)
(* at the next io-thread completion point ... never lost".                 *)
StopNeverLost == (IsStartTls /\ started /\ stop_requested) ~> Delivered

(* not_authenticated.h:209-212: the claim on_starttls() makes "closes the  *)
(* race window against the stop forwarder for the whole reply handling":   *)
(* no cancel() reaches into the connection while its context is replaced.  *)
NoCancelDuringUpgrade ==
    IsStartTls => ~\E t, u \in Threads :
                      At(t, "forward_cancel") /\ pc[u] \in {"detach", "emplace_tls"}
=============================================================================
