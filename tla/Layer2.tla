------------------------------- MODULE Layer2 -------------------------------
(***************************************************************************)
(* One Layer-2 operation -- a command, an IDLE cycle, a STARTTLS upgrade   *)
(* or a connect -- between the workers of the io_context and the thread    *)
(* that requests its stop.                                                 *)
(***************************************************************************)
EXTENDS StateOp, StartTls, Connect

vars == <<opVars, stateOpVars, startTlsVars, connectVars>>

Init == OperationInit /\ StateOpInit /\ StartTlsInit /\ ConnectInit

(* A thread inside the operation goes on.                                  *)
Step(t) ==
    \/ StateOpStep(t)  /\ UNCHANGED <<startTlsVars, connectVars>>
    \/ StartTlsStep(t) /\ UNCHANGED <<stateOpVars, connectVars>>
    \/ ConnectStep(t)  /\ UNCHANGED <<stateOpVars, startTlsVars>>
    \/ EmplaceReturns(t) /\ UNCHANGED <<stateOpVars, startTlsVars, connectVars>>

(* Something brings a thread into it.                                      *)
Event(t) ==
    \/ StateOpEvent(t)  /\ UNCHANGED <<startTlsVars, connectVars>>
    \/ StartTlsEvent(t) /\ UNCHANGED <<stateOpVars, connectVars>>
    \/ ConnectEvent(t)  /\ UNCHANGED <<stateOpVars, startTlsVars>>

Others == UNCHANGED <<stateOpVars, startTlsVars, connectVars>>

Next ==
    \/ \E t \in Threads : Step(t) \/ Event(t)
    \/ \E t \in pool : RunStoppedDelivery(t) /\ Others
    \/ \E t \in pool : LoseConnection(t) /\ Others
    \/ RequestStop /\ Others
    \/ TimerDue /\ UNCHANGED <<startTlsVars, connectVars>>

Spec == Init /\ [][Next]_vars
-----------------------------------------------------------------------------
(* Threads are scheduled; the io_context's queue is served in order, so a  *)
(* posted task is not passed over for ever by later reads; the network     *)
(* phases end.                                                             *)
Scheduling ==
    /\ \A t \in Threads : WF_vars(Step(t))
    /\ SF_vars(\E t \in pool : RunStoppedDelivery(t) /\ Others)
    /\ SF_vars(\E t \in pool : PhaseDone(t) /\ UNCHANGED <<stateOpVars, startTlsVars>>)
    /\ SF_vars(\E t \in pool : HandshakeDone(t) /\ UNCHANGED <<stateOpVars, connectVars>>)

(* The server greets and answers what it was sent during connect and       *)
(* STARTTLS; an ordinary command, or an IDLE, may wait for ever.           *)
ServerAnswers ==
    /\ SF_vars(\E t \in pool : StartTlsReply(t) /\ UNCHANGED <<stateOpVars, connectVars>>)
    /\ SF_vars(\E t \in pool : ConnectReply(t) /\ UNCHANGED <<stateOpVars, startTlsVars>>)
    /\ SF_vars(\E t \in pool, e \in Greetings :
                  GreetingEvent(t, e) /\ UNCHANGED <<stateOpVars, startTlsVars>>)

(* A lost connection fails what is in flight: connection_lost() does, or   *)
(* the completion of the write.                                            *)
LossReported ==
    /\ SF_vars(\E t \in pool : StartTlsFails(t) /\ UNCHANGED <<stateOpVars, connectVars>>)
    /\ SF_vars(\E t \in pool : ConnectFails(t) /\ UNCHANGED <<stateOpVars, startTlsVars>>)

FairSpec   == Spec /\ Scheduling /\ ServerAnswers /\ LossReported
SilentSpec == Spec /\ Scheduling

(* A stop requested of a started operation completes it, although neither  *)
(* the command nor the IDLE may ever be answered.  (For the STARTTLS       *)
(* upgrade the same is StopNeverLost, and does not hold.)                  *)
StopCompletes == (started /\ stop_requested /\ ~IsStartTls) ~> Delivered

(* connect.h:104-107: a stop in a network phase is "honoured as soon as    *)
(* the phase completes", which needs nothing of the server.                *)
LatchHonouredAlone == (IsConnect /\ latch) ~> Delivered
=============================================================================
