------------------------------ MODULE Connect ------------------------------
(***************************************************************************)
(* connect_operation (include/bkmail/imap/connect.h): resolve, connect,    *)
(* [handshake,] then a Layer-1 context that listens for the greeting and   *)
(* probes CAPABILITY.  The network phases take no stop token: a stop that  *)
(* lands there is recorded and looked at by the next completion.           *)
(***************************************************************************)
EXTENDS OperationState

CONSTANT UseTls   \* whether the operation handshakes before the session

ASSUME ConnectAssumption == UseTls \in BOOLEAN

VARIABLES
    work,          \* the network phase under way, or "none"
    connection,    \* connection_: none, live, reset
    listening,     \* the greeting handler is registered
    greeting,      \* greeting_, with "unseen" for ~greeting_seen_
    first          \* the greeting the server sent, "none" before it did

connectVars == <<work, connection, listening, greeting, first>>

ConnectInit ==
    /\ work = "none" /\ connection = "none" /\ listening = FALSE
    /\ greeting = "unseen" /\ first = "none"

IsConnect == kind = "connect"
-----------------------------------------------------------------------------
ConnectStart(t) ==
    /\ IsConnect
    /\ StartOn(t, "register")
    /\ IF stop_requested THEN UNCHANGED <<phase, work>>
       ELSE phase' = "resolve" /\ work' = "resolve"
    /\ UNCHANGED <<connection, listening, greeting, first>>
-----------------------------------------------------------------------------
(* stop_forwarder: before the session it records, in the session it        *)
(* claims, abandons the session and posts.                                 *)
ForwardConnect(t) ==
    /\ At(t, "forward")
    /\ Goto(t, IF phase = "session" THEN "forward_claim" ELSE "forward_latch")
    /\ UNCHANGED <<connectVars, stopVars, claimVars, flowVars, busy, cell, reader, nested>>

LatchStop(t) ==
    /\ At(t, "forward_latch")
    /\ latch' = TRUE
    /\ LeaveCallback(t)
    /\ UNCHANGED <<connectVars, stop_requested, runner, claimVars, runVars,
                   phase, busy, cell, reader, nested>>

ClaimSessionStop(t) ==
    /\ At(t, "forward_claim")
    /\ ClaimInCallback(t, "forward_abandon")
    /\ UNCHANGED <<connectVars, stop_requested, runner, posted, delivered, flowVars,
                   busy, cell>>

(* connection_.reset() abandons the context: every cell is retired.        *)
AbandonSession(t) ==
    /\ At(t, "forward_abandon")
    /\ listening' = FALSE
    /\ connection' = "reset"
    /\ AbandonCell
    /\ Goto(t, "forward_reset")
    /\ UNCHANGED <<work, greeting, first, stopVars, claimVars, flowVars, busy, reader, nested>>

ResetInStop(t) ==
    /\ At(t, "forward_reset")
    /\ ResetCallback(t)
    /\ Goto(t, "post")
    /\ UNCHANGED <<connectVars, stop_requested, runner, claimVars, flowVars, busy,
                   cell, reader, nested>>
-----------------------------------------------------------------------------
(* deliver_latched_stop(), which every completion calls first.             *)
LatchedOr(t, label) == Goto(t, IF latch THEN "latched" ELSE label)

DeliverLatchedStop(t) ==
    /\ At(t, "latched")
    /\ ClaimOrLeave(t, "latched_stop")
    /\ UNCHANGED <<connectVars, stop_requested, runner, posted, delivered, flowVars,
                   busy, cell>>

LatchedStop(t) ==
    /\ At(t, "latched_stop")
    /\ ResetCallback(t)
    /\ connection' = IF connection = "live" THEN "reset" ELSE connection
    /\ AbandonCell
    /\ Deliver(t, "stopped")
    /\ Out(t)
    /\ UNCHANGED <<work, listening, greeting, first, stop_requested, runner, completed,
                   posted, flowVars, busy>>

(* on_resolve, on_tcp_connect, on_handshake (and on_phase_stopped, which   *)
(* is a failure of the phase).                                             *)
PhaseDone(t) ==
    /\ t \in pool
    /\ At(t, "out")
    /\ work # "none"
    /\ work' = "none"
    /\ Goto(t, "phase_latch")
    /\ UNCHANGED <<connection, listening, greeting, first, stopVars, claimVars,
                   flowVars, busy, cell, reader, nested>>

PhaseLatch(t, ok) ==
    /\ At(t, "phase_latch")
    /\ LatchedOr(t, IF ok THEN "next_phase" ELSE "fail")
    /\ UNCHANGED <<connectVars, stopVars, claimVars, flowVars, busy, cell, reader, nested>>

NextPhase(t) ==
    LET next == CASE phase = "resolve"                  -> "tcp_connect"
                  [] phase = "tcp_connect" /\ UseTls    -> "handshake"
                  [] OTHER                              -> "session"
    IN  /\ At(t, "next_phase")
        /\ IF next = "session"
           THEN Goto(t, "begin_session") /\ UNCHANGED <<phase, work>>
           ELSE phase' = next /\ work' = next /\ Goto(t, "out")
        /\ UNCHANGED <<connection, listening, greeting, first, stopVars, claimVars,
                       runVars, latch, busy, cell, reader, nested>>

(* begin_session(): the context (whose read pump is armed), the greeting   *)
(* handler, the probe; the session phase is published last.                *)
BeginSession(t) ==
    /\ At(t, "begin_session")
    /\ connection' = "live"
    /\ open' = TRUE
    /\ Goto(t, "listen")
    /\ UNCHANGED <<work, listening, greeting, first, stopVars, claimVars, pool, kind,
                   started, phase, latch, busy, cell, reader, nested>>

Listen(t) ==
    /\ At(t, "listen")
    /\ listening' = TRUE
    /\ Goto(t, "probe")
    /\ UNCHANGED <<work, connection, greeting, first, stopVars, claimVars, flowVars,
                   busy, cell, reader, nested>>

SubmitProbe(t) ==
    /\ At(t, "probe")
    /\ SubmitCell(t, "on_probe")
    /\ UNCHANGED <<connectVars, stopVars, claimVars, flowVars, busy>>

PublishSession(t) ==
    /\ At(t, "publish")
    /\ phase' = "session"
    /\ Goto(t, "out")
    /\ UNCHANGED <<connectVars, stopVars, claimVars, runVars, latch, busy, cell,
                   reader, nested>>
-----------------------------------------------------------------------------
(* The server's first line is its greeting; later untagged OKs are events  *)
(* of the same type, and a BYE may follow at any time.  An event nobody    *)
(* listens for is gone.                                                    *)
Greetings == {"ok", "preauth", "bye"}

(* The access a thread that was handed the event makes next.               *)
GreetingLabel == [ok |-> "greeting_ok", preauth |-> "greeting_preauth",
                  bye |-> "greeting_bye"]

GreetingEvent(t, event) ==
    /\ t \in pool
    /\ At(t, "out")
    /\ reader = "none"
    /\ connection = "live"
    /\ ~Delivered
    /\ first = "none" \/ event \in {"ok", "bye"}
    /\ first' = IF first = "none" THEN event ELSE first
    /\ IF listening
       THEN Goto(t, GreetingLabel[event]) /\ reader' = t
       ELSE UNCHANGED <<pc, reader>>
    /\ UNCHANGED <<work, connection, listening, greeting, stopVars, claimVars, flowVars,
                   busy, cell, nested>>

(* Mutant: the last greeting decides.                                      *)
OnGreetingLast(t, event) ==
    /\ At(t, GreetingLabel[event])
    /\ IF latch \/ event = "bye"
       THEN LatchedOr(t, "fail") /\ UNCHANGED <<greeting, reader, nested>>
       ELSE greeting' = event /\ Out(t)
    /\ UNCHANGED <<work, connection, listening, first, stopVars, claimVars, flowVars,
                   busy, cell>>

(* on_greeting_event(): BYE is fatal, the first greeting decides.          *)
OnGreeting(t, event) ==
    /\ At(t, GreetingLabel[event])
    /\ IF latch \/ event = "bye"
       THEN LatchedOr(t, "fail") /\ UNCHANGED <<greeting, reader, nested>>
       ELSE /\ greeting' = IF greeting = "unseen" THEN event ELSE greeting
            /\ Out(t)
    /\ UNCHANGED <<work, connection, listening, first, stopVars, claimVars, flowVars,
                   busy, cell>>

(* The server answers in order: the probe's reply follows the greeting;    *)
(* the connection may be lost before it.                                   *)
ConnectReply(t) ==
    /\ IsConnect
    /\ first # "none"
    /\ Reply(t, "on_probe")
    /\ UNCHANGED connectVars

ConnectFails(t) == IsConnect /\ FailCell(t, "on_probe") /\ UNCHANGED connectVars

OnProbe(t, ok) ==
    /\ At(t, "on_probe")
    /\ ok => cell = "answered"
    /\ LatchedOr(t, IF ok THEN "set_capabilities" ELSE "fail")
    /\ UNCHANGED <<connectVars, stopVars, claimVars, flowVars, busy, cell, reader, nested>>

SetCapabilities(t) ==
    /\ At(t, "set_capabilities")
    /\ Goto(t, "succeed")
    /\ UNCHANGED <<connectVars, stopVars, claimVars, flowVars, busy, cell, reader, nested>>

(* complete(): claim, unregister, then the successor state -- or, after a  *)
(* failure, no session at all.                                             *)
CompleteLabel == [succeed |-> "complete_succeed", fail |-> "complete_fail"]

CompleteClaim(t, result) ==
    /\ At(t, result)
    /\ ClaimOrLeave(t, CompleteLabel[result])
    /\ UNCHANGED <<connectVars, stop_requested, runner, posted, delivered, flowVars,
                   busy, cell>>

(* Mutant: a failed connect does not abandon its session.                  *)
CompleteHolding(t, result) ==
    /\ At(t, CompleteLabel[result])
    /\ ResetCallback(t)
    /\ Deliver(t, IF result = "fail" THEN "logout"
                  ELSE IF greeting = "preauth" THEN "authenticated"
                  ELSE "not_authenticated")
    /\ Out(t)
    /\ UNCHANGED <<connectVars, stop_requested, runner, completed, posted, flowVars,
                   busy, cell>>

(* Mutant: a failed connect cancels its probe, which may be kept.          *)
CompleteCancelling(t, result) ==
    /\ At(t, CompleteLabel[result])
    /\ ResetCallback(t)
    /\ IF result = "succeed"
       THEN /\ Deliver(t, IF greeting = "preauth" THEN "authenticated"
                                                  ELSE "not_authenticated")
            /\ UNCHANGED <<connection, cell>>
       ELSE /\ connection' = IF connection = "live" THEN "reset" ELSE connection
            /\ CancelCell
            /\ Deliver(t, "logout")
    /\ Out(t)
    /\ UNCHANGED <<work, listening, greeting, first, stop_requested, runner, completed,
                   posted, flowVars, busy>>

Complete(t, result) ==
    /\ At(t, CompleteLabel[result])
    /\ ResetCallback(t)
    /\ IF result = "succeed"
       THEN /\ Deliver(t, IF greeting = "preauth" THEN "authenticated"
                                                  ELSE "not_authenticated")
            /\ UNCHANGED <<connection, cell>>
       ELSE /\ connection' = IF connection = "live" THEN "reset" ELSE connection
            /\ AbandonCell
            /\ Deliver(t, "logout")
    /\ Out(t)
    /\ UNCHANGED <<work, listening, greeting, first, stop_requested, runner, completed,
                   posted, flowVars, busy>>
-----------------------------------------------------------------------------
ConnectStep(t) ==
    /\ IsConnect
    /\ \/ EmplaceCallback(t) /\ UNCHANGED connectVars
       \/ ForwardConnect(t) \/ LatchStop(t) \/ ClaimSessionStop(t)
       \/ AbandonSession(t) \/ ResetInStop(t)
       \/ PostStoppedDelivery(t) /\ UNCHANGED connectVars
       \/ DeliverLatchedStop(t) \/ LatchedStop(t)
       \/ \E ok \in BOOLEAN : PhaseLatch(t, ok) \/ OnProbe(t, ok)
       \/ NextPhase(t)
       \/ BeginSession(t) \/ Listen(t) \/ SubmitProbe(t) \/ PublishSession(t)
       \/ \E event \in Greetings : OnGreeting(t, event)
       \/ SetCapabilities(t)
       \/ \E result \in {"succeed", "fail"} : CompleteClaim(t, result) \/ Complete(t, result)

ConnectEvent(t) ==
    \/ ConnectStart(t) \/ PhaseDone(t) \/ ConnectReply(t) \/ ConnectFails(t)
    \/ \E event \in Greetings : GreetingEvent(t, event)
-----------------------------------------------------------------------------
(* The state a connection starts in is the one the server's first greeting *)
(* names (connect.h:343-345), whatever follows it and however late the     *)
(* handler runs: a PREAUTH session is never handed out as one to log in.   *)
GreetingDecides ==
    IsConnect => \A i \in DOMAIN delivered :
        /\ delivered[i].how = "authenticated"     => first = "preauth"
        /\ delivered[i].how = "not_authenticated" => first = "ok"
FirstGreetingDecides == OneWorker => GreetingDecides

(* No session outlives a connect that did not hand one out                 *)
(* (connect.h:411-413); the one handed out is live.                        *)
SessionOrNothing ==
    IsConnect /\ Delivered =>
        (connection = "live" <=> delivered[1].how \in {"authenticated",
                                                       "not_authenticated"})

(* connect.h:404-409: abandoning the session means "no handler can ever    *)
(* run again"; the probe's handler is not about to use the connection.     *)
NoUseOfAbandoned ==
    connection = "reset" => \A t \in Threads : ~At(t, "set_capabilities")
=============================================================================
