---------------------------- MODULE Layer2Proofs ----------------------------
(***************************************************************************)
(* Proofs about one Layer-2 operation, for any set of workers and any of   *)
(* the four kinds: it is delivered once, with the connection's slot free,  *)
(* never on the thread that requested the stop, and -- while one thread    *)
(* runs the io_context -- with nobody left inside it.                      *)
(*                                                                         *)
(* The properties are about the end of an operation; what makes them hold  *)
(* is who may still end it.  The right to complete travels: it is taken by *)
(* the exchange of completed_, carried by one thread from label to label,  *)
(* parked in the io_context's queue (posted), in the handshake or in the   *)
(* second probe of STARTTLS, and spent by the delivery.  ClaimInv says     *)
(* there is one such right and where it is; StartInv says that nobody      *)
(* competes with a start() that ends before the claim exists; CallbackInv  *)
(* ties the stop callback's state to the thread inside it.                 *)
(***************************************************************************)
EXTENDS Layer2, TLAPS

(* The labels at which a thread holds the claim, by kind.                  *)
StateOpOwn == {"forward_cancel", "forward_cleanup", "post", "cleanup", "complete",
               "wake_cancel"}
TlsChain   == {"starttls_latch", "enter_handshake", "detach", "on_handshake",
               "emplace_tls", "enter_capability", "probe", "on_capability",
               "stopped", "value"}
TlsTurn    == TlsChain \cup {"on_starttls"}
TlsOwn     == TlsChain \cup {"forward_cleanup", "post"}
ConnectOwn == {"forward_abandon", "forward_reset", "post", "latched_stop",
               "complete_fail", "complete_succeed"}

Owns(t) ==
    \/ IsStateOp  /\ pc[t] \in StateOpOwn
    \/ IsStartTls /\ pc[t] \in TlsOwn
    \/ IsConnect  /\ pc[t] \in ConnectOwn

(* Inside start(), inside the stop callback, and in the network phases.    *)
StartLabels    == {"gate", "submit", "arm_timer", "register"}
CallbackLabels == {"forward", "forward_phase", "forward_cancel", "forward_claim",
                   "forward_cleanup", "forward_latch", "forward_abandon",
                   "forward_reset", "post", "emplaced"}
NetLabels      == {"phase_latch", "next_phase", "begin_session", "listen", "probe",
                   "publish"}

(* connect: where a thread can be while there is no session, and where it  *)
(* can only be once there was one.                                         *)
PhaseLabels   == NetLabels \cup {"latched", "fail", "latched_stop", "complete_fail"}
SessionLabels == {"listen", "probe", "publish", "forward_claim", "forward_abandon",
                  "forward_reset", "post", "greeting_ok", "greeting_preauth",
                  "greeting_bye", "on_probe", "set_capabilities", "succeed",
                  "complete_succeed"}

(* start() and begin_session() are also under way while the submit() they  *)
(* call runs the handler of a rejected command.                            *)
InStart(t) == pc[t] \in StartLabels \/ (~IsConnect /\ nested = t)
InNet(t)   == pc[t] \in NetLabels \/ (IsConnect /\ nested = t)

(* A claim that no thread carries: the handshake, or the probe after it.   *)
ProbePending == IsStartTls /\ phase = "capability" /\ cell \in {"pending", "kept"}
Outstanding  == handshake = "pending" \/ ProbePending

(* start() has done nothing yet that another thread could see.             *)
Untouched ==
    /\ callback = "empty" /\ cell = "none" /\ nested = "none" /\ ~hooked /\ timer = "off"
    /\ handshake = "none" /\ work = "none" /\ connection = "none"
-----------------------------------------------------------------------------
TypeInv ==
    /\ OperationTypeOK
    /\ pc = [t \in Threads |-> pc[t]]
    /\ kind \in {"command", "idle", "start_tls", "connect"}
    /\ pool \in Pools
    /\ connection \in {"none", "live", "reset"}

(* One right to complete, and where it is.                                 *)
ClaimInv ==
    /\ \A t, u \in Threads : Owns(t) /\ Owns(u) => t = u
    /\ \A t \in Threads : Owns(t) => completed /\ ~posted /\ ~Delivered /\ ~Outstanding
    /\ posted => completed /\ ~Delivered /\ ~Outstanding
    /\ Outstanding => completed /\ ~Delivered
    /\ ~(handshake = "pending" /\ ProbePending)
    /\ handshake = "pending" => IsStartTls
    /\ Delivered => Len(delivered) = 1

(* A start() that ends without the claim has no competitor, and start()    *)
(* passes each of its labels once, with the callback not yet registered.   *)
StartInv ==
    /\ ~started => Untouched /\ ~completed /\ ~Delivered /\ ~busy
                   /\ \A t \in Threads : pc[t] = "out"
    /\ Delivered /\ ~completed => Untouched /\ \A t \in Threads : pc[t] = "out"
    /\ \A t \in Threads : pc[t] = "gate" =>
          /\ Untouched /\ IsStateOp /\ ~completed /\ ~Delivered
          /\ \A u \in Threads \ {t} : pc[u] = "out"
    /\ \A t, u \in Threads : InStart(t) =>
          /\ callback = "empty"
          /\ pc[u] \notin CallbackLabels
          /\ InStart(u) => t = u
    /\ \A t \in Threads : pc[t] \in {"gate", "submit"} => cell = "none"
    /\ \A t \in Threads : pc[t] = "submit" => ~IsConnect
    /\ hooked \/ timer # "off" => IsStateOp
    /\ work # "none" \/ connection # "none" => IsConnect

(* The thread inside the callback is the runner, and a callback that is    *)
(* running has its runner inside.                                          *)
CallbackInv ==
    /\ \A t \in Threads : pc[t] \in CallbackLabels =>
          /\ t = runner
          /\ callback \in {"running", "inline", "empty"}
          /\ callback = "empty" => pc[t] = "post"
          /\ pc[t] = "emplaced" => callback = "inline"
    /\ callback \in {"running", "inline"} => pc[runner] \in CallbackLabels
    /\ callback = "running" => runner = User /\ pc[runner] # "post"
    /\ callback = "armed" => ~stop_requested

(* Inside a submit() that rejected its command: the handler, up to the     *)
(* completion it makes.                                                    *)
StateOpNested == {"claim", "cleanup", "complete"}
TlsNested     == {"on_starttls", "starttls_latch", "stopped", "value"}
ConnectNested == {"on_probe", "latched", "latched_stop", "fail", "complete_fail"}

NestedInv == nested # "none" =>
    /\ cell = "rejected"
    /\ IsStateOp  => pc[nested] \in StateOpNested
    /\ IsStartTls => pc[nested] \in TlsNested
    /\ IsConnect  => pc[nested] \in ConnectNested

SlotInv ==
    /\ IsConnect => ~busy
    /\ \A t \in Threads : Owns(t) /\ pc[t] \in {"post", "complete"} => ~busy
    /\ posted \/ Delivered => ~busy

(* STARTTLS: one thread at a time handles its completions, and a command   *)
(* in flight after the claim is the second probe.                          *)
TlsInv == IsStartTls =>
    /\ \A t \in Threads : pc[t] = "submit" =>
          /\ phase = "starttls" /\ ~completed
          /\ \A u \in Threads \ {t} : pc[u] = "out"
    /\ \A t, u \in Threads :
          pc[t] \in TlsTurn /\ pc[u] \in TlsTurn => t = u
    /\ \A t \in Threads : pc[t] = "on_starttls" => phase = "starttls" /\ ~Outstanding
    /\ cell \in {"pending", "kept"} =>
          phase \in {"starttls", "capability"} /\ \A t \in Threads : pc[t] \notin TlsTurn
    /\ handshake = "pending" => phase = "handshake"
    /\ \A t \in Threads : pc[t] = "detach" => phase = "handshake"
    /\ completed /\ cell = "pending" => phase = "capability"
    /\ \A t \in Threads : pc[t] = "probe" => phase = "capability"
    /\ \A t \in Threads : pc[t] = "forward_claim" /\ ~completed => cell # "pending"

(* connect: one network phase at a time; before the session only the       *)
(* phase's own completion can claim, afterwards the session is live until  *)
(* the claim's owner resets it.                                            *)
ConnInv == IsConnect =>
    /\ \A t, u \in Threads : InNet(t) /\ InNet(u) => t = u
    /\ work # "none" \/ phase = "session" => \A t \in Threads : ~InNet(t)
    /\ phase = "session" => work = "none" /\ connection # "none"
    /\ connection = "none" =>
          /\ cell = "none" /\ nested = "none" /\ ~listening
          /\ \A t \in Threads : pc[t] \notin SessionLabels
          /\ \A t, u \in Threads :
                pc[t] \in PhaseLabels /\ pc[u] \in PhaseLabels => t = u
          /\ \A t \in Threads : pc[t] \in PhaseLabels => work = "none"
          /\ completed => work = "none" /\ \A t \in Threads : pc[t] \notin NetLabels
    /\ connection # "none" =>
          /\ work = "none"
          /\ \A t \in Threads : pc[t] \notin {"phase_latch", "next_phase", "begin_session"}
    /\ \A t \in Threads :
          pc[t] \in {"forward_claim", "forward_abandon", "forward_reset", "post"}
            => phase = "session"
    /\ cell \notin {"kept", "late"}
    /\ \A t \in Threads : pc[t] \in {"listen", "probe"} => cell = "none"
    /\ connection = "reset" => completed
    /\ \A t \in Threads : pc[t] = "complete_succeed" => connection = "live"
    /\ \A t \in Threads : pc[t] \in {"forward_reset", "post"} => connection = "reset"
    /\ posted => connection = "reset" /\ phase = "session"
    /\ Delivered => (connection = "live" <=> delivered[1].how \in {"authenticated",
                                                                   "not_authenticated"})

SafeInv ==
    /\ TypeInv /\ ClaimInv /\ StartInv /\ CallbackInv /\ NestedInv
    /\ SlotInv /\ TlsInv /\ ConnInv
-----------------------------------------------------------------------------
(* The requesting thread is only ever inside the callback it runs.         *)
UserLabels == (CallbackLabels \ {"emplaced"}) \cup {"out"}

RequesterInv ==
    /\ pc[User] \in UserLabels
    /\ callback = "inline" => runner # User
    /\ NeverOnRequester

(* What follows holds while w alone runs the io_context.                   *)

(* Nobody but w and the requester is inside, and while w is in start()     *)
(* nobody can have completed the operation, unless submit() did.           *)
PlaceInv(w) ==
    /\ pc[User] \in UserLabels
    /\ callback = "inline" => runner # User
    /\ \A t \in Threads \ {w, User} : pc[t] = "out"
    /\ pc[w] \in StartLabels => IF cell = "rejected" THEN Delivered /\ ~IsConnect
                                                     ELSE ~completed
    /\ nested = w /\ pc[w] \in {"claim", "on_starttls"} => ~completed
    /\ IsConnect /\ pc[w] \in StartLabels => cell = "none"

(* A thread about to complete has its command answered or withdrawn.       *)
ConnectWell == {"set_capabilities", "succeed", "complete_succeed"}
ConnectLeft == ConnectWell \cup {"on_probe"}

AnsweredInv ==
    /\ IsStateOp => \A t \in Threads :
          pc[t] \in {"claim", "forward_cleanup", "cleanup", "complete"} => cell # "pending"
    /\ IsConnect => \A t \in Threads :
          pc[t] \in ConnectLeft \cup {"forward_reset"} => cell # "pending"
    /\ ~IsStartTls => \A t \in Threads : pc[t] = "post" => cell # "pending"
    /\ posted => cell # "pending"

(* Who delivers has waited for the callback, or is it.                     *)
QuietInv(w) == ~BoxFails =>
    /\ pc[w] = "complete" => callback = "empty"
    /\ posted => callback \in {"empty", "fired", "inline"} /\ pc[User] = "out"
    /\ Delivered => cell # "pending"
    /\ Delivered /\ cell \notin {"rejected", "late"} =>
          /\ pc[w] \in {"out", "flag_check"} /\ pc[User] = "out"
          /\ callback \in {"empty", "fired"}

(* connect: while nobody has claimed, the greeting on record is the first  *)
(* one, unless its handler still runs or is about to fail the connect.     *)
InGreeting == {"greeting_ok", "greeting_preauth", "greeting_bye"}

GreetingInv(w) == IsConnect =>
    /\ greeting \in {"unseen", "ok", "preauth"} /\ first \in Greetings \cup {"none"}
    /\ connection = "live" /\ ~listening => pc[w] = "listen"
    /\ first = "none" => /\ greeting = "unseen" /\ cell # "answered"
                         /\ pc[w] \notin ConnectWell \cup InGreeting
    /\ first # "none" /\ ~completed /\ pc[w] \notin InGreeting \cup {"fail", "latched"}
          => greeting = first
    /\ \A e \in Greetings : ~completed /\ pc[w] = GreetingLabel[e] =>
          (greeting = "unseen" /\ first = e) \/ (greeting = first /\ e \in {"ok", "bye"})
    /\ pc[w] = "complete_succeed" => greeting = first
    /\ GreetingDecides

Lone(w) == PlaceInv(w) /\ AnsweredInv /\ QuietInv(w) /\ GreetingInv(w)
LoneInv == \A w \in Workers : pool = {w} => Lone(w)
-----------------------------------------------------------------------------
USE DEF At, Goto, Delivered, User

(* The first completion is the only entry of delivered.                    *)
LEMMA DeliverFirst ==
    ASSUME ~Delivered, NEW t, NEW how, Deliver(t, how)
    PROVE  /\ Delivered' /\ Len(delivered') = 1 /\ DOMAIN delivered' = {1}
           /\ delivered'[1].how = how /\ delivered'[1].on = t
BY DEF Deliver

(* What the two label tables of connect hold.                              *)
LEMMA LabelFacts ==
    /\ GreetingLabel["ok"] = "greeting_ok" /\ GreetingLabel["preauth"] = "greeting_preauth"
    /\ GreetingLabel["bye"] = "greeting_bye"
    /\ CompleteLabel["succeed"] = "complete_succeed" /\ CompleteLabel["fail"] = "complete_fail"
BY DEF GreetingLabel, CompleteLabel

(* "none" stands for no thread.                                            *)
LEMMA NoneIsNoThread == "none" \notin Threads
BY OperationAssumption DEF Threads

(* The types are kept by a step that gives back what it holds.             *)
LEMMA SlotReleased ==
    ASSUME TypeInv,
           pc' = pc \/ \E t, label : pc' = [pc EXCEPT ![t] = label],
           busy' \in BOOLEAN, open' \in BOOLEAN,
           callback' \in {callback, "empty", "inline"},
           reader' \in {reader, "none"}, nested' \in {nested, "none"},
           UNCHANGED <<stop_requested, completed, posted, started, latch, runner,
                       cell, kind, pool, connection>>
    PROVE  TypeInv'
<1>1. OperationTypeOK'
  BY DEF TypeInv, OperationTypeOK
<1>2. (pc = [u \in Threads |-> pc[u]])'
  BY DEF TypeInv
<1> QED BY <1>1, <1>2 DEF TypeInv

(* Where submit() returns to.                                              *)
LEMMA AfterSubmitFacts ==
    /\ kind \in {"command", "idle"} => AfterSubmit[kind] \in {"register", "arm_timer"}
    /\ kind = "start_tls" => AfterSubmit[kind] = "register"
    /\ kind = "connect" => AfterSubmit[kind] = "publish"
BY DEF AfterSubmit

(* Every step inside a command or an IDLE cycle preserves the invariant.   *)
LEMMA StateOpKeeps ==
    ASSUME SafeInv, NEW t \in Threads, StateOpStep(t),
           UNCHANGED <<startTlsVars, connectVars>>
    PROVE  SafeInv'
<1> USE DEF SafeInv, TypeInv, OperationTypeOK, CellStates, ClaimInv, StartInv,
            CallbackInv, NestedInv, StateOpNested, TlsNested, ConnectNested,
            InStart, InNet, runVars, SlotInv, TlsInv, ConnInv, Owns,
            StateOpOwn, Outstanding, ProbePending, IsStateOp, IsStartTls,
            IsConnect, StartLabels, CallbackLabels, Untouched, stopVars,
            claimVars, flowVars, stateOpVars, startTlsVars, connectVars
<1>0. /\ kind \in {"command", "idle"} /\ AfterSubmit[kind] \in {"register", "arm_timer"}
      /\ "none" \notin Threads
  BY AfterSubmitFacts, NoneIsNoThread DEF StateOpStep
<1>1. ASSUME NEW a \in BOOLEAN, Gate(t, a) PROVE SafeInv'
  <2>1. CASE a
    BY <1>0, <1>1, <2>1 DEF Gate
  <2>2. CASE ~a
    <3>1. Deliver(t, "capability_required") /\ ~Delivered
      BY <1>1, <2>2 DEF Gate
    <3>2. Delivered' /\ Len(delivered') = 1
      BY <3>1, DeliverFirst
    <3>3. \A u \in Threads : pc'[u] = "out"
      BY <1>1 , <2>2 DEF Gate
    <3>4. StartInv'
      BY <1>0, <1>1, <2>2, <3>2, <3>3 DEF Gate
    <3>5. ClaimInv' /\ CallbackInv' /\ NestedInv' /\ SlotInv'
      BY <1>0, <1>1, <2>2, <3>1, <3>2, <3>3 DEF Gate
    <3>6. TlsInv' /\ ConnInv'
      BY <1>0, <1>1, <2>2 DEF Gate
    <3>7. TypeInv'
      <4>1. UNCHANGED <<stop_requested, completed, posted, started, latch, open, runner,
                        reader, nested, cell, kind, pool, connection>>
        BY <1>1, <2>2 DEF Gate
      <4>2. busy' = FALSE /\ callback' = callback /\ pc' = [pc EXCEPT ![t] = "out"]
        BY <1>1, <2>2 DEF Gate
      <4> QED BY <4>1, <4>2, SlotReleased
    <3> QED BY <3>4, <3>5, <3>6, <3>7
  <2> QED BY <2>1, <2>2
<1>2. ASSUME Submit(t) PROVE SafeInv'
  BY <1>0, <1>2 DEF Submit, SubmitCell
<1>3. ASSUME ArmTimer(t) PROVE SafeInv'
  BY <1>0, <1>3 DEF ArmTimer
<1>4. ASSUME EmplaceCallback(t), UNCHANGED stateOpVars PROVE SafeInv'
  BY <1>0, <1>4 DEF EmplaceCallback
<1>5. ASSUME Forward(t) PROVE SafeInv'
  BY <1>0, <1>5 DEF Forward, ClaimInCallback, LeaveCallback
<1>6. ASSUME ForwardCancel(t) PROVE SafeInv'
  BY <1>0, <1>6 DEF ForwardCancel, CancelCell
<1>7. ASSUME ForwardCleanup(t) PROVE SafeInv'
  <2>1. callback \in {"running", "inline"} /\ runner = t
    BY <1>7 DEF ForwardCleanup
  <2>2. TypeInv'
    <3>1. UNCHANGED <<stop_requested, completed, posted, started, latch, open, runner,
                      reader, nested, cell, kind, pool, connection>>
      BY <1>7 DEF ForwardCleanup
    <3>2. /\ busy' = FALSE /\ callback' \in {"empty", "inline"}
          /\ pc' = [pc EXCEPT ![t] = "post"]
      BY <1>7 DEF ForwardCleanup, ResetCallback
    <3> QED BY <3>1, <3>2, SlotReleased
  <2>5. CallbackInv' /\ NestedInv'
    BY <1>0, <1>7, <2>1 DEF ForwardCleanup, ResetCallback
  <2>3. ClaimInv' /\ StartInv'
    BY <1>0, <1>7, <2>1 DEF ForwardCleanup, CancelTimer
  <2>4. SlotInv' /\ TlsInv' /\ ConnInv'
    BY <1>0, <1>7, <2>1 DEF ForwardCleanup
  <2> QED BY <2>2, <2>3, <2>4, <2>5
<1>8. ASSUME PostStoppedDelivery(t), UNCHANGED stateOpVars PROVE SafeInv'
  <2>1. /\ runner = t /\ callback \in {"empty", "inline"}
        /\ Owns(t) /\ \A u \in Threads \ {t} : pc[u] \notin CallbackLabels
    BY <1>0, <1>8 DEF PostStoppedDelivery
  <2>2. CASE posted' = TRUE /\ UNCHANGED delivered
    BY <1>0, <1>8, <2>1, <2>2 DEF PostStoppedDelivery, LeaveCallback
  <2>3. CASE Deliver(t, "stopped_inline") /\ UNCHANGED posted
    <3>1. Delivered' /\ Len(delivered') = 1
      BY <2>1, <2>3, DeliverFirst
    <3> QED BY <1>0, <1>8, <2>1, <2>3, <3>1 DEF PostStoppedDelivery, LeaveCallback
  <2> QED BY <1>8, <2>2, <2>3 DEF PostStoppedDelivery
<1>9. ASSUME OnResult(t) PROVE SafeInv'
  BY <1>0, <1>9 DEF OnResult, ClaimOrLeave, Out
<1>10. ASSUME Cleanup(t) PROVE SafeInv'
  <2>3. /\ callback # "running"
        /\ callback' = IF callback = "inline" THEN "inline" ELSE "empty"
    BY <1>0, <1>10 DEF Cleanup, ResetCallback
  <2>4. TypeInv'
    <3>1. UNCHANGED <<stop_requested, completed, posted, started, latch, open, runner,
                      reader, nested, cell, kind, pool, connection>>
      BY <1>10 DEF Cleanup
    <3>2. /\ busy' = FALSE /\ callback' \in {"empty", "inline"}
          /\ pc' = [pc EXCEPT ![t] = "complete"]
      BY <1>10, <2>3 DEF Cleanup
    <3> QED BY <3>1, <3>2, SlotReleased
  <2>7. CallbackInv' /\ NestedInv'
    BY <1>0, <1>10, <2>3 DEF Cleanup
  <2>5. ClaimInv' /\ StartInv'
    BY <1>0, <1>10, <2>3 DEF Cleanup
  <2>6. SlotInv' /\ TlsInv' /\ ConnInv'
    BY <1>0, <1>10 DEF Cleanup
  <2> QED BY <2>4, <2>5, <2>6, <2>7
<1>11. ASSUME CompleteWith(t) PROVE SafeInv'
  <2>1. Deliver(t, "value") /\ ~Delivered
    BY <1>0, <1>11 DEF CompleteWith
  <2>2. Delivered' /\ Len(delivered') = 1
    BY <2>1, DeliverFirst
  <2>3. TypeInv' /\ CallbackInv' /\ NestedInv' /\ SlotInv'
    BY <1>0, <1>11, <2>2 DEF CompleteWith, Out
  <2>4. ClaimInv' /\ StartInv'
    BY <1>0, <1>11, <2>1, <2>2 DEF CompleteWith, Out
  <2>5. TlsInv' /\ ConnInv'
    BY <1>0, <1>11 DEF CompleteWith
  <2> QED BY <2>3, <2>4, <2>5
<1>12. ASSUME NEW w \in BOOLEAN, OnUnsolicited(t, w) PROVE SafeInv'
  BY <1>0, <1>12 DEF OnUnsolicited, Out
<1>13. ASSUME GuardedFire(t) PROVE SafeInv'
  BY <1>0, <1>13 DEF GuardedFire
<1>14. ASSUME Wake(t) PROVE SafeInv'
  BY <1>0, <1>14 DEF Wake, ClaimOrLeave, Out
<1>15. ASSUME WakeCancel(t) PROVE SafeInv'
  BY <1>0, <1>15 DEF WakeCancel, CancelCell
<1> HIDE DEF SafeInv, stateOpVars
<1> QED BY <1>1, <1>2, <1>3, <1>4, <1>5, <1>6, <1>7, <1>8, <1>9, <1>10, <1>11, <1>12, <1>13,
           <1>14, <1>15 DEF StateOpStep

(* So does what brings a thread into one: start, reply, push, heartbeat.   *)
LEMMA StateOpEventKeeps ==
    ASSUME SafeInv, NEW t \in Threads, StateOpEvent(t),
           UNCHANGED <<startTlsVars, connectVars>>
    PROVE  SafeInv'
<1> USE DEF SafeInv, TypeInv, OperationTypeOK, CellStates, ClaimInv, StartInv,
            CallbackInv, NestedInv, StateOpNested, TlsNested, ConnectNested,
            InStart, InNet, runVars, SlotInv, TlsInv, ConnInv, Owns,
            StateOpOwn, Outstanding, ProbePending, IsStateOp, IsStartTls,
            IsConnect, StartLabels, CallbackLabels, Untouched, stopVars,
            claimVars, flowVars, stateOpVars, startTlsVars, connectVars
<1>1. ASSUME StateOpStart(t) PROVE SafeInv'
  <2>1. /\ kind \in {"command", "idle"} /\ ~started /\ \A u \in Threads : pc[u] = "out"
        /\ Untouched /\ ~completed /\ ~Delivered /\ ~busy
    BY <1>1 DEF StateOpStart, StartOn
  <2>2. CASE stop_requested
    <3>1. Delivered' /\ Len(delivered') = 1
      BY <1>1, <2>1, <2>2, DeliverFirst DEF StateOpStart, StartOn
    <3> QED BY <1>1, <2>1, <2>2, <3>1 DEF StateOpStart, StartOn
  <2>3. CASE ~stop_requested
    <3>1. "none" \notin Threads /\ busy' \in BOOLEAN
      BY <1>1, <2>3, NoneIsNoThread DEF StateOpStart, StartOn
    <3>2. TypeInv'
      BY <1>1, <2>1, <2>3, <3>1 DEF StateOpStart, StartOn
    <3>3. ClaimInv' /\ StartInv' /\ CallbackInv' /\ NestedInv'
      BY <1>1, <2>1, <2>3, <3>1 DEF StateOpStart, StartOn
    <3>4. SlotInv' /\ TlsInv' /\ ConnInv'
      BY <1>1, <2>1, <2>3, <3>1 DEF StateOpStart, StartOn
    <3> QED BY <3>2, <3>3, <3>4
  <2> QED BY <2>2, <2>3
<1>2. ASSUME StateOpReply(t) PROVE SafeInv'
  BY <1>2 DEF StateOpReply, Reply
<1>3. ASSUME Push(t) PROVE SafeInv'
  BY <1>3 DEF Push
<1>4. ASSUME TimerRun(t) PROVE SafeInv'
  BY <1>4 DEF TimerRun
<1>5. ASSUME StateOpFails(t) PROVE SafeInv'
  BY <1>5 DEF StateOpFails, FailCell
<1> QED BY <1>1, <1>2, <1>3, <1>4, <1>5 DEF StateOpEvent

(* Every step inside a STARTTLS upgrade.                                   *)
LEMMA StartTlsKeeps ==
    ASSUME SafeInv, NEW t \in Threads, StartTlsStep(t),
           UNCHANGED <<stateOpVars, connectVars>>
    PROVE  SafeInv'
<1> USE DEF SafeInv, TypeInv, OperationTypeOK, CellStates, ClaimInv, StartInv,
            CallbackInv, NestedInv, StateOpNested, TlsNested, ConnectNested,
            InStart, InNet, runVars, SlotInv, TlsInv, ConnInv, Owns, TlsOwn,
            TlsChain, TlsTurn, Outstanding, ProbePending, IsStateOp,
            IsStartTls, IsConnect, StartLabels, CallbackLabels, Untouched,
            stopVars, claimVars, flowVars, stateOpVars, startTlsVars,
            connectVars
<1>0. /\ kind = "start_tls" /\ AfterSubmit[kind] = "register"
      /\ "none" \notin Threads
  BY AfterSubmitFacts, NoneIsNoThread DEF StartTlsStep
<1>1. ASSUME SubmitStartTls(t) PROVE SafeInv'
  BY <1>0, <1>1 DEF SubmitStartTls, SubmitCell
<1>2. ASSUME EmplaceCallback(t), UNCHANGED startTlsVars PROVE SafeInv'
  BY <1>0, <1>2 DEF EmplaceCallback
<1>3. ASSUME RecordStop(t) PROVE SafeInv'
  BY <1>0, <1>3 DEF RecordStop
<1>4. ASSUME LookAtPhase(t) PROVE SafeInv'
  BY <1>0, <1>4 DEF LookAtPhase, LeaveCallback
<1>5. ASSUME CancelCommand(t) PROVE SafeInv'
  BY <1>0, <1>5 DEF CancelCommand, CancelCell
<1>6. ASSUME ClaimStop(t) PROVE SafeInv'
  BY <1>0, <1>6 DEF ClaimStop, ClaimInCallback, LeaveCallback
<1>7. ASSUME StopCleanup(t) PROVE SafeInv'
  <2>1. callback \in {"running", "inline"} /\ runner = t
    BY <1>7 DEF StopCleanup
  <2>2. TypeInv'
    <3>1. UNCHANGED <<stop_requested, completed, posted, started, latch, open, runner,
                      reader, nested, cell, kind, pool, connection>>
      BY <1>7 DEF StopCleanup
    <3>2. /\ busy' = FALSE /\ callback' \in {"empty", "inline"}
          /\ pc' = [pc EXCEPT ![t] = "post"]
      BY <1>7 DEF StopCleanup, ResetCallback
    <3> QED BY <3>1, <3>2, SlotReleased
  <2>5. CallbackInv' /\ NestedInv'
    BY <1>0, <1>7, <2>1 DEF StopCleanup, ResetCallback
  <2>3. ClaimInv' /\ StartInv'
    BY <1>0, <1>7, <2>1 DEF StopCleanup
  <2>4. SlotInv' /\ TlsInv' /\ ConnInv'
    BY <1>0, <1>7, <2>1 DEF StopCleanup
  <2> QED BY <2>2, <2>3, <2>4, <2>5
<1>8. ASSUME PostStoppedDelivery(t), UNCHANGED startTlsVars PROVE SafeInv'
  <2>1. /\ runner = t /\ callback \in {"empty", "inline"}
        /\ Owns(t) /\ \A u \in Threads \ {t} : pc[u] \notin CallbackLabels
    BY <1>0, <1>8 DEF PostStoppedDelivery
  <2>2. CASE posted' = TRUE /\ UNCHANGED delivered
    BY <1>0, <1>8, <2>1, <2>2 DEF PostStoppedDelivery, LeaveCallback
  <2>3. CASE Deliver(t, "stopped_inline") /\ UNCHANGED posted
    <3>1. Delivered' /\ Len(delivered') = 1
      BY <2>1, <2>3, DeliverFirst
    <3> QED BY <1>0, <1>8, <2>1, <2>3, <3>1 DEF PostStoppedDelivery, LeaveCallback
  <2> QED BY <1>8, <2>2, <2>3 DEF PostStoppedDelivery
<1>9. ASSUME OnStartTls(t) PROVE SafeInv'
  BY <1>0, <1>9 DEF OnStartTls, ClaimOrLeave, Out
<1>10. ASSUME NEW ok \in BOOLEAN, StartTlsLatch(t, ok) PROVE SafeInv'
  BY <1>0, <1>10 DEF StartTlsLatch, HonourOr
<1>11. ASSUME EnterHandshake(t) PROVE SafeInv'
  BY <1>0, <1>11 DEF EnterHandshake
<1>12. ASSUME DetachStream(t) PROVE SafeInv'
  BY <1>0, <1>12 DEF DetachStream, Out
<1>13. ASSUME NEW ok \in BOOLEAN, EmplaceTls(t, ok) PROVE SafeInv'
  BY <1>0, <1>13 DEF EmplaceTls
<1>14. ASSUME OnHandshake(t) PROVE SafeInv'
  BY <1>0, <1>14 DEF OnHandshake, HonourOr
<1>15. ASSUME EnterCapability(t) PROVE SafeInv'
  BY <1>0, <1>15 DEF EnterCapability
<1>16. ASSUME Probe(t) PROVE SafeInv'
  <2>1. nested = "none"
    BY <1>0, <1>16 DEF Probe
  <2>2. CASE open
    BY <1>0, <1>16, <2>1, <2>2 DEF Probe, Out
  <2>3. CASE ~open
    BY <1>0, <1>16, <2>1, <2>3 DEF Probe, Out
  <2> QED BY <2>2, <2>3
<1>17. ASSUME OnCapability(t) PROVE SafeInv'
  BY <1>0, <1>17 DEF OnCapability, HonourOr
<1>18. ASSUME NEW how, NEW label \in {"stopped", "value"}, ReleaseAndDeliver(t, label, how)
       PROVE  SafeInv'
  <2>1. Deliver(t, how) /\ ~Delivered
    BY <1>0, <1>18 DEF ReleaseAndDeliver
  <2>2. Delivered' /\ Len(delivered') = 1
    BY <2>1, DeliverFirst
  <2>4. /\ callback # "running"
        /\ callback' = IF callback = "inline" THEN "inline" ELSE "empty"
    BY <1>0, <1>18 DEF ReleaseAndDeliver, ResetCallback
  <2>5. TypeInv'
    <3>1. reader' \in {reader, "none"} /\ nested' \in {nested, "none"} /\ busy' = FALSE
      BY <1>18 DEF ReleaseAndDeliver, Out
    <3>2. UNCHANGED <<stop_requested, completed, posted, started, latch, runner, cell, kind,
                      pool, connection, open>>
      BY <1>18 DEF ReleaseAndDeliver
    <3>3. \E l : pc' = [pc EXCEPT ![t] = l]
      BY <1>18 DEF ReleaseAndDeliver, Out
    <3>4. TypeInv /\ callback' \in {callback, "empty", "inline"}
          /\ busy' \in BOOLEAN /\ open' \in BOOLEAN
      BY <2>4, <3>1, <3>2
    <3> HIDE DEF SafeInv, TypeInv
    <3> QED BY <3>1, <3>2, <3>3, <3>4, SlotReleased
  <2>8. CallbackInv' /\ NestedInv' /\ SlotInv'
    BY <1>0, <1>18, <2>2, <2>4 DEF ReleaseAndDeliver, Out
  <2>6. ClaimInv' /\ StartInv'
    BY <1>0, <1>18, <2>1, <2>2, <2>4 DEF ReleaseAndDeliver, Out
  <2>7. TlsInv' /\ ConnInv'
    BY <1>0, <1>18, <2>1, <2>2 DEF ReleaseAndDeliver, Out
  <2> QED BY <2>5, <2>6, <2>7, <2>8
<1> HIDE DEF SafeInv, startTlsVars
<1> QED BY <1>1, <1>2, <1>3, <1>4, <1>5, <1>6, <1>7, <1>8, <1>9, <1>10, <1>11, <1>12, <1>13,
           <1>14, <1>15, <1>16, <1>17, <1>18 DEF StartTlsStep

(* Its start, the replies, and the end of the handshake.                   *)
LEMMA StartTlsEventKeeps ==
    ASSUME SafeInv, NEW t \in Threads, StartTlsEvent(t),
           UNCHANGED <<stateOpVars, connectVars>>
    PROVE  SafeInv'
<1> USE DEF SafeInv, TypeInv, OperationTypeOK, CellStates, ClaimInv, StartInv,
            CallbackInv, NestedInv, StateOpNested, TlsNested, ConnectNested,
            InStart, InNet, runVars, SlotInv, TlsInv, ConnInv, Owns, TlsOwn,
            TlsChain, TlsTurn, Outstanding, ProbePending, IsStateOp,
            IsStartTls, IsConnect, StartLabels, CallbackLabels, Untouched,
            stopVars, claimVars, flowVars, stateOpVars, startTlsVars,
            connectVars
<1>1. ASSUME StartTlsStart(t) PROVE SafeInv'
  <2>1. /\ kind = "start_tls" /\ ~started /\ \A u \in Threads : pc[u] = "out"
        /\ Untouched /\ ~completed /\ ~Delivered /\ ~busy
    BY <1>1 DEF StartTlsStart, StartOn
  <2>2. CASE stop_requested
    <3>1. Delivered' /\ Len(delivered') = 1
      BY <1>1, <2>1, <2>2, DeliverFirst DEF StartTlsStart, StartOn
    <3> QED BY <1>1, <2>1, <2>2, <3>1 DEF StartTlsStart, StartOn
  <2>3. CASE ~stop_requested
    <3>1. "none" \notin Threads /\ busy' \in BOOLEAN
      BY <1>1, <2>3, NoneIsNoThread DEF StartTlsStart, StartOn
    <3>2. TypeInv'
      BY <1>1, <2>1, <2>3, <3>1 DEF StartTlsStart, StartOn
    <3>3. ClaimInv' /\ StartInv' /\ CallbackInv' /\ NestedInv'
      BY <1>1, <2>1, <2>3, <3>1 DEF StartTlsStart, StartOn
    <3>4. SlotInv' /\ TlsInv' /\ ConnInv'
      BY <1>1, <2>1, <2>3, <3>1 DEF StartTlsStart, StartOn
    <3> QED BY <3>2, <3>3, <3>4
  <2> QED BY <2>2, <2>3
<1>2. ASSUME StartTlsReply(t) PROVE SafeInv'
  BY <1>2 DEF StartTlsReply, Reply, ReplyHandler
<1>3. ASSUME HandshakeDone(t) PROVE SafeInv'
  BY <1>3 DEF HandshakeDone
<1>4. ASSUME StartTlsFails(t) PROVE SafeInv'
  BY <1>4 DEF StartTlsFails, FailCell, ReplyHandler
<1> QED BY <1>1, <1>2, <1>3, <1>4 DEF StartTlsEvent

(* Every step inside a connect.                                            *)
LEMMA ConnectKeeps ==
    ASSUME SafeInv, NEW t \in Threads, ConnectStep(t),
           UNCHANGED <<stateOpVars, startTlsVars>>
    PROVE  SafeInv'
<1> USE DEF SafeInv, TypeInv, OperationTypeOK, CellStates, ClaimInv, StartInv,
            CallbackInv, NestedInv, StateOpNested, TlsNested, ConnectNested,
            InStart, InNet, runVars, SlotInv, TlsInv, ConnInv, Owns,
            ConnectOwn, NetLabels, PhaseLabels, SessionLabels, Outstanding,
            ProbePending, IsStateOp, IsStartTls, IsConnect, StartLabels,
            CallbackLabels, Untouched, stopVars, claimVars, flowVars,
            stateOpVars, startTlsVars, connectVars
<1>0. /\ kind = "connect" /\ AfterSubmit[kind] = "publish"
      /\ "none" \notin Threads
  BY AfterSubmitFacts, NoneIsNoThread DEF ConnectStep
<1>1. ASSUME EmplaceCallback(t), UNCHANGED connectVars PROVE SafeInv'
  BY <1>0, <1>1 DEF EmplaceCallback
<1>2. ASSUME ForwardConnect(t) PROVE SafeInv'
  BY <1>0, <1>2 DEF ForwardConnect
<1>3. ASSUME LatchStop(t) PROVE SafeInv'
  BY <1>0, <1>3 DEF LatchStop, LeaveCallback
<1>4. ASSUME ClaimSessionStop(t) PROVE SafeInv'
  BY <1>0, <1>4 DEF ClaimSessionStop, ClaimInCallback, LeaveCallback
<1>5. ASSUME AbandonSession(t) PROVE SafeInv'
  BY <1>0, <1>5 DEF AbandonSession, AbandonCell
<1>6. ASSUME ResetInStop(t) PROVE SafeInv'
  <2>1. callback \in {"running", "inline"} /\ runner = t
    BY <1>6 DEF ResetInStop
  <2>2. TypeInv'
    BY <1>0, <1>6, <2>1 DEF ResetInStop, ResetCallback
  <2>5. CallbackInv' /\ NestedInv'
    BY <1>0, <1>6, <2>1 DEF ResetInStop, ResetCallback
  <2>3. ClaimInv' /\ StartInv'
    BY <1>0, <1>6, <2>1 DEF ResetInStop
  <2>4. SlotInv' /\ TlsInv' /\ ConnInv'
    BY <1>0, <1>6, <2>1 DEF ResetInStop
  <2> QED BY <2>2, <2>3, <2>4, <2>5
<1>7. ASSUME PostStoppedDelivery(t), UNCHANGED connectVars PROVE SafeInv'
  <2>1. /\ runner = t /\ callback \in {"empty", "inline"}
        /\ Owns(t) /\ \A u \in Threads \ {t} : pc[u] \notin CallbackLabels
    BY <1>0, <1>7 DEF PostStoppedDelivery
  <2>2. CASE posted' = TRUE /\ UNCHANGED delivered
    BY <1>0, <1>7, <2>1, <2>2 DEF PostStoppedDelivery, LeaveCallback
  <2>3. CASE Deliver(t, "stopped_inline") /\ UNCHANGED posted
    <3>1. Delivered' /\ Len(delivered') = 1 /\ delivered'[1].how = "stopped_inline"
      BY <2>1, <2>3, DeliverFirst
    <3> QED BY <1>0, <1>7, <2>1, <2>3, <3>1 DEF PostStoppedDelivery, LeaveCallback
  <2> QED BY <1>7, <2>2, <2>3 DEF PostStoppedDelivery
<1>8. ASSUME DeliverLatchedStop(t) PROVE SafeInv'
  BY <1>0, <1>8 DEF DeliverLatchedStop, ClaimOrLeave, Out
<1>9. ASSUME LatchedStop(t) PROVE SafeInv'
  <2>1. Deliver(t, "stopped") /\ ~Delivered
    BY <1>0, <1>9 DEF LatchedStop
  <2>2. Delivered' /\ Len(delivered') = 1 /\ delivered'[1].how = "stopped"
    BY <2>1, DeliverFirst
  <2>4. /\ callback # "running"
        /\ callback' = IF callback = "inline" THEN "inline" ELSE "empty"
    BY <1>0, <1>9 DEF LatchedStop, ResetCallback
  <2>5. TypeInv' /\ CallbackInv' /\ NestedInv' /\ SlotInv' /\ TlsInv'
    BY <1>0, <1>9, <2>2, <2>4 DEF LatchedStop, Out, AbandonCell
  <2>6. ClaimInv' /\ StartInv'
    BY <1>0, <1>9, <2>1, <2>2, <2>4 DEF LatchedStop, Out, AbandonCell
  <2>7. ConnInv'
    BY <1>0, <1>9, <2>1, <2>2 DEF LatchedStop, Out, AbandonCell
  <2> QED BY <2>5, <2>6, <2>7
<1>10. ASSUME NEW ok \in BOOLEAN, PhaseLatch(t, ok) PROVE SafeInv'
  BY <1>0, <1>10 DEF PhaseLatch, LatchedOr
<1>11. ASSUME NextPhase(t) PROVE SafeInv'
  BY <1>0, <1>11 DEF NextPhase
<1>12. ASSUME BeginSession(t) PROVE SafeInv'
  BY <1>0, <1>12 DEF BeginSession
<1>13. ASSUME Listen(t) PROVE SafeInv'
  BY <1>0, <1>13 DEF Listen
<1>14. ASSUME SubmitProbe(t) PROVE SafeInv'
  BY <1>0, <1>14 DEF SubmitProbe, SubmitCell
<1>15. ASSUME PublishSession(t) PROVE SafeInv'
  BY <1>0, <1>15 DEF PublishSession
<1>16. ASSUME NEW event \in Greetings, OnGreeting(t, event) PROVE SafeInv'
  <2>1. GreetingLabel[event] \in {"greeting_ok", "greeting_preauth", "greeting_bye"}
    BY DEF Greetings, GreetingLabel
  <2> QED BY <1>0, <1>16, <2>1 DEF OnGreeting, LatchedOr, Out
<1>17. ASSUME NEW ok \in BOOLEAN, OnProbe(t, ok) PROVE SafeInv'
  BY <1>0, <1>17 DEF OnProbe, LatchedOr
<1>18. ASSUME SetCapabilities(t) PROVE SafeInv'
  BY <1>0, <1>18 DEF SetCapabilities
<1>19. ASSUME NEW r \in {"succeed", "fail"}, CompleteClaim(t, r) PROVE SafeInv'
  <2>1. \/ r = "succeed" /\ CompleteLabel[r] = "complete_succeed"
        \/ r = "fail" /\ CompleteLabel[r] = "complete_fail"
    <3>1. CompleteLabel["succeed"] = "complete_succeed"
      BY DEF CompleteLabel
    <3>2. CompleteLabel["fail"] = "complete_fail"
      BY DEF CompleteLabel
    <3> QED BY <3>1, <3>2
  <2>2. CASE r = "succeed"
    BY <1>0, <1>19, <2>1, <2>2 DEF CompleteClaim, ClaimOrLeave, Out
  <2>3. CASE r = "fail"
    BY <1>0, <1>19, <2>1, <2>3 DEF CompleteClaim, ClaimOrLeave, Out
  <2> QED BY <2>2, <2>3
<1>20. ASSUME NEW r \in {"succeed", "fail"}, Complete(t, r) PROVE SafeInv'
  <2>0. \/ r = "succeed" /\ CompleteLabel[r] = "complete_succeed"
        \/ r = "fail" /\ CompleteLabel[r] = "complete_fail"
    <3>1. CompleteLabel["succeed"] = "complete_succeed"
      BY DEF CompleteLabel
    <3>2. CompleteLabel["fail"] = "complete_fail"
      BY DEF CompleteLabel
    <3> QED BY <3>1, <3>2
  <2>. PICK how \in {"authenticated", "not_authenticated", "logout"} :
          Deliver(t, how) /\ (r = "fail" <=> how = "logout")
    BY <1>20, <2>0 DEF Complete
  <2>1. ~Delivered
    BY <1>0, <1>20, <2>0 DEF Complete
  <2>2. Delivered' /\ Len(delivered') = 1 /\ delivered'[1].how = how
    BY <2>1, DeliverFirst
  <2>4. /\ callback # "running"
        /\ callback' = IF callback = "inline" THEN "inline" ELSE "empty"
    BY <1>0, <1>20, <2>0 DEF Complete, ResetCallback
  <2>5. TypeInv' /\ CallbackInv' /\ NestedInv' /\ SlotInv' /\ TlsInv'
    BY <1>0, <1>20, <2>0, <2>2, <2>4 DEF Complete, Out, AbandonCell
  <2>6. ClaimInv' /\ StartInv'
    BY <1>0, <1>20, <2>0, <2>1, <2>2, <2>4 DEF Complete, Out, AbandonCell
  <2>7. ConnInv'
    BY <1>0, <1>20, <2>0, <2>1, <2>2 DEF Complete, Out, AbandonCell
  <2> QED BY <2>5, <2>6, <2>7
<1> HIDE DEF SafeInv, connectVars
<1> QED BY <1>1, <1>2, <1>3, <1>4, <1>5, <1>6, <1>7, <1>8, <1>9, <1>10, <1>11, <1>12, <1>13,
           <1>14, <1>15, <1>16, <1>17, <1>18, <1>19, <1>20 DEF ConnectStep

(* Its start, the network phases' ends, the greeting and the reply.        *)
LEMMA ConnectEventKeeps ==
    ASSUME SafeInv, NEW t \in Threads, ConnectEvent(t),
           UNCHANGED <<stateOpVars, startTlsVars>>
    PROVE  SafeInv'
<1> USE DEF SafeInv, TypeInv, OperationTypeOK, CellStates, ClaimInv, StartInv,
            CallbackInv, NestedInv, StateOpNested, TlsNested, ConnectNested,
            InStart, InNet, runVars, SlotInv, TlsInv, ConnInv, Owns,
            ConnectOwn, NetLabels, PhaseLabels, SessionLabels, Outstanding,
            ProbePending, IsStateOp, IsStartTls, IsConnect, StartLabels,
            CallbackLabels, Untouched, stopVars, claimVars, flowVars,
            stateOpVars, startTlsVars, connectVars
<1>1. ASSUME ConnectStart(t) PROVE SafeInv'
  <2>1. /\ kind = "connect" /\ ~started /\ \A u \in Threads : pc[u] = "out"
        /\ Untouched /\ ~completed /\ ~Delivered /\ ~busy
    BY <1>1 DEF ConnectStart, StartOn
  <2>2. CASE stop_requested
    <3>1. Delivered' /\ Len(delivered') = 1 /\ delivered'[1].how = "stopped"
      BY <1>1, <2>1, <2>2, DeliverFirst DEF ConnectStart, StartOn
    <3> QED BY <1>1, <2>1, <2>2, <3>1 DEF ConnectStart, StartOn
  <2>3. CASE ~stop_requested
    <3>1. "none" \notin Threads /\ busy' \in BOOLEAN
      BY <1>1, <2>3, NoneIsNoThread DEF ConnectStart, StartOn
    <3>2. TypeInv'
      BY <1>1, <2>1, <2>3, <3>1 DEF ConnectStart, StartOn
    <3>3. ClaimInv' /\ StartInv' /\ CallbackInv' /\ NestedInv'
      BY <1>1, <2>1, <2>3, <3>1 DEF ConnectStart, StartOn
    <3>4. SlotInv' /\ TlsInv' /\ ConnInv'
      BY <1>1, <2>1, <2>3, <3>1 DEF ConnectStart, StartOn
    <3> QED BY <3>2, <3>3, <3>4
  <2> QED BY <2>2, <2>3
<1>2. ASSUME PhaseDone(t) PROVE SafeInv'
  BY <1>2 DEF PhaseDone
<1>3. ASSUME ConnectReply(t) PROVE SafeInv'
  BY <1>3 DEF ConnectReply, Reply
<1>4. ASSUME NEW event \in Greetings, GreetingEvent(t, event) PROVE SafeInv'
  <2>1. GreetingLabel[event] \in {"greeting_ok", "greeting_preauth", "greeting_bye"}
    BY DEF Greetings, GreetingLabel
  <2> QED BY <1>4, <2>1 DEF GreetingEvent
<1>5. ASSUME ConnectFails(t) PROVE SafeInv'
  BY <1>5 DEF ConnectFails, FailCell
<1> QED BY <1>1, <1>2, <1>3, <1>4, <1>5 DEF ConnectEvent

(* The steps that belong to no kind.                                       *)
LEMMA SharedKeeps ==
    ASSUME SafeInv, NEW t \in Threads,
           \/ EmplaceReturns(t) /\ Others
           \/ RunStoppedDelivery(t) /\ Others
           \/ LoseConnection(t) /\ Others
           \/ RequestStop /\ Others
           \/ TimerDue /\ UNCHANGED <<startTlsVars, connectVars>>
           \/ UNCHANGED vars
    PROVE  SafeInv'
<1> USE DEF SafeInv, TypeInv, OperationTypeOK, CellStates, ClaimInv, StartInv,
            CallbackInv, NestedInv, StateOpNested, TlsNested, ConnectNested,
            InStart, InNet, runVars, SlotInv, TlsInv, ConnInv, Owns,
            StateOpOwn, TlsOwn, TlsChain, TlsTurn, ConnectOwn, NetLabels,
            PhaseLabels, SessionLabels, Outstanding, ProbePending,
            IsStateOp, IsStartTls, IsConnect, StartLabels, CallbackLabels,
            Untouched, stopVars, claimVars, flowVars, stateOpVars,
            startTlsVars, connectVars, Others
<1>1. ASSUME EmplaceReturns(t), Others PROVE SafeInv'
  BY <1>1 DEF EmplaceReturns
<1>2. ASSUME RunStoppedDelivery(t), Others PROVE SafeInv'
  <2>1. Delivered' /\ Len(delivered') = 1 /\ delivered'[1].how = "stopped"
    BY <1>2, DeliverFirst DEF RunStoppedDelivery
  <2>2. UNCHANGED <<pc, callback, runner, stop_requested, completed, kind, cell, busy, nested,
                  open>>
    BY <1>2 DEF RunStoppedDelivery
  <2>3. TypeInv'
    <3>1. OperationTypeOK'
      BY <1>2 DEF RunStoppedDelivery
    <3>2. (pc = [u \in Threads |-> pc[u]])'
      BY <2>2
    <3> QED BY <1>2, <3>1, <3>2 DEF RunStoppedDelivery
  <2>7. CallbackInv' /\ NestedInv'
    BY <2>2
  <2>6. SlotInv'
    BY <1>2, <2>1 DEF RunStoppedDelivery
  <2>4. ClaimInv' /\ StartInv'
    BY <1>2, <2>1 DEF RunStoppedDelivery
  <2>5. TlsInv' /\ ConnInv'
    BY <1>2, <2>1 DEF RunStoppedDelivery
  <2> QED BY <2>3, <2>4, <2>5, <2>6, <2>7
<1>3. ASSUME RequestStop, Others PROVE SafeInv'
  <2>1. User \in Threads
    BY DEF Threads
  <2> QED BY <1>3, <2>1 DEF RequestStop
<1>4. ASSUME TimerDue, UNCHANGED <<startTlsVars, connectVars>> PROVE SafeInv'
  BY <1>4 DEF TimerDue, opVars
<1>5. ASSUME UNCHANGED vars PROVE SafeInv'
  BY <1>5 DEF vars, opVars
<1>6. ASSUME LoseConnection(t), Others PROVE SafeInv'
  <2>1. UNCHANGED <<pc, callback, busy, reader, nested, stop_requested, completed, posted,
                    started, latch, runner, cell, kind, pool, connection>>
    BY <1>6 DEF LoseConnection
  <2>2. TypeInv'
    BY <1>6, <2>1, SlotReleased DEF LoseConnection
  <2> QED BY <1>6, <2>2 DEF LoseConnection
<1> QED BY <1>1, <1>2, <1>3, <1>4, <1>5, <1>6

(* The invariant holds before start().                                     *)
LEMMA SafeInit == Init => SafeInv
<1> SUFFICES ASSUME Init PROVE SafeInv
  OBVIOUS
<1> USE DEF Init, OperationInit, StateOpInit, StartTlsInit, ConnectInit
<1>1. TypeInv
  BY OperationAssumption DEF TypeInv, OperationTypeOK, Threads, CellStates
<1>2. \A t \in Threads : pc[t] = "out" /\ ~Owns(t)
  BY DEF Owns, StateOpOwn, TlsOwn, TlsChain, ConnectOwn, IsStateOp, IsStartTls, IsConnect
<1>3. ClaimInv /\ SlotInv
  BY <1>2 DEF ClaimInv, SlotInv, Outstanding, ProbePending
<1>4. StartInv /\ CallbackInv
  BY <1>2 DEF StartInv, CallbackInv, Untouched, StartLabels, CallbackLabels, InStart, User,
              Threads
<1>7. NestedInv
  BY DEF NestedInv
<1>5. TlsInv
  BY <1>2 DEF TlsInv, TlsTurn, TlsChain
<1>6. ConnInv
  BY <1>2 DEF ConnInv, NetLabels, PhaseLabels, SessionLabels, InNet
<1> QED BY <1>1, <1>3, <1>4, <1>5, <1>6, <1>7 DEF SafeInv

(* For every set of workers, of pools and of starting threads, whether or  *)
(* not the delivery can be allocated: one right to complete, and where it  *)
(* is.                                                                     *)
THEOREM SafeHolds == Spec => []SafeInv
<1>1. SafeInv /\ [Next]_vars => SafeInv'
  <2> SUFFICES ASSUME SafeInv, [Next]_vars PROVE SafeInv'
    OBVIOUS
  <2>0. User \in Threads /\ pool \subseteq Threads
    BY OperationAssumption DEF SafeInv, TypeInv, Threads
  <2>1. ASSUME NEW t \in Threads, Step(t) PROVE SafeInv'
    BY <2>1, StateOpKeeps, StartTlsKeeps, ConnectKeeps, SharedKeeps DEF Step, Others
  <2>2. ASSUME NEW t \in Threads, Event(t) PROVE SafeInv'
    BY <2>2, StateOpEventKeeps, StartTlsEventKeeps, ConnectEventKeeps DEF Event
  <2>3. CASE \E t \in pool : RunStoppedDelivery(t) /\ Others
    BY <2>0, <2>3, SharedKeeps
  <2>7. CASE \E t \in pool : LoseConnection(t) /\ Others
    BY <2>0, <2>7, SharedKeeps
  <2>4. CASE RequestStop /\ Others
    BY <2>0, <2>4, SharedKeeps
  <2>5. CASE TimerDue /\ UNCHANGED <<startTlsVars, connectVars>>
    BY <2>0, <2>5, SharedKeeps
  <2>6. CASE UNCHANGED vars
    BY <2>0, <2>6, SharedKeeps
  <2> QED BY <2>1, <2>2, <2>3, <2>4, <2>5, <2>6, <2>7 DEF Next
<1> QED BY <1>1, SafeInit, PTL DEF Spec

(* Type correctness of the operation state, of all four kinds.             *)
THEOREM OperationTypeHolds == Spec => []OperationTypeOK
<1>1. SafeInv => OperationTypeOK
  BY DEF SafeInv, TypeInv
<1> QED BY <1>1, SafeHolds, PTL

(* The receiver is completed at most once, however many workers race the   *)
(* reply, the push, the heartbeat, the phases and the stop.                *)
THEOREM OneDeliveryHolds == Spec => []OneDelivery
<1>1. SafeInv => OneDelivery
  <2>1. CASE Delivered
    <3>1. SafeInv => Len(delivered) = 1
      BY <2>1 DEF SafeInv, ClaimInv
    <3> QED BY <3>1 DEF OneDelivery
  <2>2. CASE ~Delivered
    BY <2>2 DEF OneDelivery
  <2> QED BY <2>1, <2>2
<1> QED BY <1>1, SafeHolds, PTL

(* finish_operation() has run before any receiver is completed: the        *)
(* successor state finds the one-operation slot free.                      *)
THEOREM SlotFreeOnDeliveryHolds == Spec => []SlotFreeOnDelivery
<1>1. SafeInv => SlotFreeOnDelivery
  BY DEF SafeInv, SlotInv, SlotFreeOnDelivery
<1> QED BY <1>1, SafeHolds, PTL

(* A connect hands out a live session or none is left: whoever wins the    *)
(* claim without success has reset connection_ before it delivers.         *)
THEOREM SessionOrNothingHolds == Spec => []SessionOrNothing
<1>1. SafeInv => SessionOrNothing
  BY DEF SafeInv, ConnInv, SessionOrNothing
<1> QED BY <1>1, SafeHolds, PTL

(* The requester only ever forwards the stop.  Two cases are left out,     *)
(* both visible in the code: a start() called by the requester itself, and *)
(* a delivery that could not be allocated (both complete in place).        *)
LEMMA RequesterInductive ==
    ASSUME ~BoxFails, User \notin StartsOn,
           SafeInv, RequesterInv, [Next]_vars
    PROVE  RequesterInv'
<1> USE DEF SafeInv, TypeInv, RequesterInv, UserLabels, CallbackLabels, stopVars,
            claimVars, flowVars, runVars, Others
<1>0. User \in Threads /\ User \notin pool /\ pool \subseteq Threads
  BY OperationAssumption DEF Threads
<1>1. ASSUME NEW t \in Threads, NEW how, Deliver(t, how), t # User, ~Delivered
      PROVE  NeverOnRequester'
  <2>1. DOMAIN delivered' = {1} /\ delivered'[1].on = t
    BY <1>1, DeliverFirst
  <2> QED BY <1>1, <2>1 DEF NeverOnRequester
<1>2. ASSUME UNCHANGED delivered PROVE NeverOnRequester'
  BY <1>2 DEF NeverOnRequester
<1>3. ASSUME NEW t \in Threads, StateOpStep(t) PROVE RequesterInv'
  <2> USE DEF ClaimInv, Owns, StateOpOwn, IsStateOp
  <2>1. CASE \E a \in BOOLEAN : Gate(t, a)
    BY <1>0, <1>1, <1>2, <2>1 DEF Gate, StartInv
  <2>2. CASE Submit(t) \/ ArmTimer(t)
    BY <1>0, <1>2, <2>2 DEF Submit, SubmitCell, ArmTimer
  <2>3. CASE EmplaceCallback(t) \/ Forward(t)
    BY <1>0, <1>2, <2>3 DEF EmplaceCallback, Forward, ClaimInCallback, LeaveCallback, CallbackInv
  <2>4. CASE ForwardCancel(t) \/ ForwardCleanup(t)
    BY <1>0, <1>2, <2>4 DEF ForwardCancel, ForwardCleanup, ResetCallback
  <2>5. CASE PostStoppedDelivery(t)
    BY <1>0, <1>2, <2>5 DEF PostStoppedDelivery, LeaveCallback, CallbackInv
  <2>6. CASE OnResult(t) \/ Wake(t)
    BY <1>0, <1>2, <2>6 DEF OnResult, Wake, ClaimOrLeave, Out
  <2>7. CASE Cleanup(t) \/ WakeCancel(t)
    BY <1>0, <1>2, <2>7 DEF Cleanup, WakeCancel, ResetCallback
  <2>8. CASE CompleteWith(t)
    BY <1>0, <1>1, <1>3, <2>8 DEF CompleteWith, Out, StateOpStep
  <2>9. CASE \E wakes \in BOOLEAN : OnUnsolicited(t, wakes)
    BY <1>0, <1>2, <2>9 DEF OnUnsolicited, Out
  <2>10. CASE GuardedFire(t)
    BY <1>0, <1>2, <2>10 DEF GuardedFire
  <2> QED BY <1>3, <2>1, <2>2, <2>3, <2>4, <2>5, <2>6, <2>7, <2>8, <2>9, <2>10 DEF StateOpStep
<1>4. ASSUME NEW t \in Threads, StartTlsStep(t) PROVE RequesterInv'
  <2> USE DEF ClaimInv, Owns, TlsOwn, TlsChain, TlsTurn, IsStartTls
  <2>1. CASE SubmitStartTls(t) \/ EmplaceCallback(t)
    BY <1>0, <1>2, <2>1 DEF SubmitStartTls, SubmitCell, EmplaceCallback
  <2>2. CASE RecordStop(t) \/ LookAtPhase(t) \/ CancelCommand(t)
    BY <1>0, <1>2, <2>2 DEF RecordStop, LookAtPhase, CancelCommand, LeaveCallback, CallbackInv
  <2>3. CASE ClaimStop(t) \/ StopCleanup(t)
    BY <1>0, <1>2, <2>3 DEF ClaimStop, StopCleanup, ClaimInCallback, LeaveCallback,
                            ResetCallback, CallbackInv
  <2>4. CASE PostStoppedDelivery(t)
    BY <1>0, <1>2, <2>4 DEF PostStoppedDelivery, LeaveCallback, CallbackInv
  <2>5. CASE OnStartTls(t) \/ EnterHandshake(t) \/ DetachStream(t)
    BY <1>0, <1>2, <2>5 DEF OnStartTls, EnterHandshake, DetachStream, ClaimOrLeave, Out
  <2>6. CASE \E ok \in BOOLEAN : StartTlsLatch(t, ok) \/ EmplaceTls(t, ok)
    BY <1>0, <1>2, <2>6 DEF StartTlsLatch, EmplaceTls, HonourOr
  <2>7. CASE OnHandshake(t) \/ EnterCapability(t) \/ Probe(t) \/ OnCapability(t)
    BY <1>0, <1>2, <2>7 DEF OnHandshake, EnterCapability, Probe, OnCapability, HonourOr, Out
  <2>8. CASE ReleaseAndDeliver(t, "stopped", "stopped") \/ ReleaseAndDeliver(t, "value", "value")
    BY <1>0, <1>1, <1>4, <2>8 DEF ReleaseAndDeliver, ResetCallback, Out, StartTlsStep
  <2> QED BY <1>4, <2>1, <2>2, <2>3, <2>4, <2>5, <2>6, <2>7, <2>8 DEF StartTlsStep
<1>5. ASSUME NEW t \in Threads, ConnectStep(t) PROVE RequesterInv'
  <2> USE DEF ClaimInv, Owns, ConnectOwn, IsConnect
  <2>1. CASE EmplaceCallback(t)
    BY <1>0, <1>2, <2>1 DEF EmplaceCallback
  <2>2. CASE ForwardConnect(t) \/ LatchStop(t)
    BY <1>0, <1>2, <2>2 DEF ForwardConnect, LatchStop, LeaveCallback, CallbackInv
  <2>3. CASE ClaimSessionStop(t) \/ AbandonSession(t) \/ ResetInStop(t)
    BY <1>0, <1>2, <2>3 DEF ClaimSessionStop, AbandonSession, ResetInStop, ClaimInCallback,
                            LeaveCallback, ResetCallback, CallbackInv
  <2>4. CASE PostStoppedDelivery(t)
    BY <1>0, <1>2, <2>4 DEF PostStoppedDelivery, LeaveCallback, CallbackInv
  <2>5. CASE DeliverLatchedStop(t)
    BY <1>0, <1>2, <2>5 DEF DeliverLatchedStop, ClaimOrLeave, Out
  <2>6. CASE LatchedStop(t)
    BY <1>0, <1>1, <1>5, <2>6 DEF LatchedStop, ResetCallback, Out, ConnectStep
  <2>7. CASE \E ok \in BOOLEAN : PhaseLatch(t, ok) \/ OnProbe(t, ok)
    BY <1>0, <1>2, <2>7 DEF PhaseLatch, OnProbe, LatchedOr
  <2>8. CASE NextPhase(t) \/ BeginSession(t) \/ Listen(t)
    BY <1>0, <1>2, <2>8 DEF NextPhase, BeginSession, Listen
  <2>9. CASE SubmitProbe(t) \/ PublishSession(t) \/ SetCapabilities(t)
    BY <1>0, <1>2, <2>9 DEF SubmitProbe, SubmitCell, PublishSession, SetCapabilities
  <2>10. CASE \E event \in Greetings : OnGreeting(t, event)
    BY <1>0, <1>2, <2>10, LabelFacts DEF OnGreeting, Greetings, LatchedOr, Out
  <2>11. CASE \E r \in {"succeed", "fail"} : CompleteClaim(t, r)
    BY <1>0, <1>2, <2>11 DEF CompleteClaim, ClaimOrLeave, Out
  <2>12. CASE \E r \in {"succeed", "fail"} : Complete(t, r)
    <3>1. pc[t] \in {"complete_succeed", "complete_fail"} /\ t # User /\ ~Delivered
      BY <1>5, <2>12, LabelFacts DEF Complete, ConnectStep
    <3>2. \E how : Deliver(t, how)
      BY <2>12 DEF Complete
    <3> QED BY <1>0, <1>1, <2>12, <3>1, <3>2 DEF Complete, ResetCallback, Out
  <2> QED BY <1>5, <2>1, <2>2, <2>3, <2>4, <2>5, <2>6, <2>7, <2>8, <2>9, <2>10, <2>11, <2>12
          DEF ConnectStep
<1>6. ASSUME NEW t \in Threads, Event(t) PROVE RequesterInv'
  <2>1. ASSUME NEW label, StartOn(t, label) PROVE RequesterInv'
    <3>1. ~Delivered /\ t # User
      BY <2>1 DEF StartOn, StartInv
    <3>2. NeverOnRequester'
      BY <1>1, <1>2, <2>1, <3>1 DEF StartOn
    <3> QED BY <1>0, <2>1, <3>1, <3>2 DEF StartOn
  <2>2. ASSUME NEW label, Reply(t, label) PROVE RequesterInv'
    BY <1>0, <1>2, <2>2 DEF Reply
  <2>5. ASSUME NEW label, FailCell(t, label) PROVE RequesterInv'
    BY <1>0, <1>2, <2>5 DEF FailCell
  <2>3. CASE Push(t) \/ TimerRun(t) \/ HandshakeDone(t) \/ PhaseDone(t)
    BY <1>0, <1>2, <2>3 DEF Push, TimerRun, HandshakeDone, PhaseDone
  <2>4. CASE \E event \in Greetings : GreetingEvent(t, event)
    BY <1>0, <1>2, <2>4 DEF GreetingEvent
  <2> QED BY <1>6, <2>1, <2>2, <2>3, <2>4, <2>5
          DEF Event, StateOpEvent, StartTlsEvent, ConnectEvent, StateOpStart, StateOpReply,
              StartTlsStart, StartTlsReply, ConnectStart, ConnectReply, StateOpFails,
              StartTlsFails, ConnectFails
<1>7. ASSUME NEW t \in Threads, EmplaceReturns(t) PROVE RequesterInv'
  BY <1>0, <1>2, <1>7 DEF EmplaceReturns
<1>8. ASSUME NEW t \in pool, RunStoppedDelivery(t) PROVE RequesterInv'
  BY <1>0, <1>1, <1>8 DEF RunStoppedDelivery, ClaimInv
<1>9. ASSUME RequestStop PROVE RequesterInv'
  BY <1>0, <1>2, <1>9 DEF RequestStop
<1>10. ASSUME TimerDue \/ UNCHANGED vars PROVE RequesterInv'
  BY <1>0, <1>2, <1>10 DEF TimerDue, opVars, vars
<1>11. ASSUME NEW t \in pool, LoseConnection(t) PROVE RequesterInv'
  BY <1>0, <1>2, <1>11 DEF LoseConnection
<1> QED BY <1>3, <1>4, <1>5, <1>6, <1>7, <1>8, <1>9, <1>10, <1>11 DEF Next, Step

(* A stop never completes the operation on the thread that requested it:   *)
(* start() is not called there and the posted delivery can be allocated.   *)
THEOREM NeverOnRequesterHolds ==
    ASSUME ~BoxFails, User \notin StartsOn
    PROVE  Spec => []NeverOnRequester
<1>1. Init => RequesterInv
  BY DEF Init, OperationInit, RequesterInv, NeverOnRequester, UserLabels, CallbackLabels, Threads
<1>2. SafeInv /\ RequesterInv /\ [Next]_vars => RequesterInv'
  BY RequesterInductive
<1>3. RequesterInv => NeverOnRequester
  BY DEF RequesterInv
<1> QED BY <1>1, <1>2, <1>3, SafeHolds, PTL DEF Spec

(* Which operation it is and who runs the io_context never change.         *)
LEMMA PoolStable == ASSUME [Next]_vars PROVE UNCHANGED <<pool, kind>>
<1> USE DEF flowVars, runVars
<1>1. ASSUME NEW t \in Threads, StateOpStep(t) PROVE UNCHANGED <<pool, kind>>
  BY <1>1 DEF StateOpStep, Gate, Submit, ArmTimer, EmplaceCallback, Forward, ForwardCancel,
     ForwardCleanup, PostStoppedDelivery, OnResult, Cleanup, CompleteWith, OnUnsolicited,
     GuardedFire, Wake, WakeCancel
<1>2. ASSUME NEW t \in Threads, StartTlsStep(t) PROVE UNCHANGED <<pool, kind>>
  BY <1>2 DEF StartTlsStep, SubmitStartTls, EmplaceCallback, RecordStop, LookAtPhase,
     CancelCommand, ClaimStop, StopCleanup, PostStoppedDelivery, OnStartTls, EnterHandshake,
     DetachStream, StartTlsLatch, EmplaceTls, OnHandshake, EnterCapability, Probe,
     OnCapability, ReleaseAndDeliver
<1>3. ASSUME NEW t \in Threads, ConnectStep(t) PROVE UNCHANGED <<pool, kind>>
  BY <1>3 DEF ConnectStep, EmplaceCallback, ForwardConnect, LatchStop, ClaimSessionStop,
     AbandonSession, ResetInStop, PostStoppedDelivery, DeliverLatchedStop, LatchedStop,
     PhaseLatch, OnProbe, NextPhase, BeginSession, Listen, SubmitProbe, PublishSession,
     OnGreeting, SetCapabilities, CompleteClaim, Complete
<1>4. ASSUME NEW t \in Threads, Event(t) PROVE UNCHANGED <<pool, kind>>
  BY <1>4 DEF Event, StateOpEvent, StartTlsEvent, ConnectEvent, StateOpStart, StartTlsStart,
     ConnectStart, StartOn, StateOpReply, StartTlsReply, ConnectReply, Reply, Push, TimerRun,
     HandshakeDone, PhaseDone, GreetingEvent, StateOpFails, StartTlsFails, ConnectFails, FailCell
<1>5. ASSUME NEW t \in Threads \cup pool,
             EmplaceReturns(t) \/ RunStoppedDelivery(t) \/ LoseConnection(t)
      PROVE  UNCHANGED <<pool, kind>>
  BY <1>5 DEF EmplaceReturns, RunStoppedDelivery, LoseConnection
<1>6. CASE RequestStop \/ TimerDue \/ UNCHANGED vars
  BY <1>6 DEF RequestStop, TimerDue, vars, opVars
<1> QED BY <1>1, <1>2, <1>3, <1>4, <1>5, <1>6 DEF Next, Step

(* With one worker, on which start() is called too: who is inside, what is *)
(* still in flight and which greeting is on record.                        *)
LEMMA LoneInductive ==
    ASSUME \A p \in Pools : StartsOn \subseteq p,
           SafeInv, SafeInv', LoneInv, [Next]_vars
    PROVE  LoneInv'
<1> SUFFICES ASSUME NEW w \in Workers, pool' = {w}
             PROVE  Lone(w)'
  BY DEF LoneInv
<1>0. /\ pool = {w} /\ w # User /\ w \in Threads /\ User \in Threads /\ kind' = kind
      /\ StartsOn \subseteq {w} /\ Lone(w) /\ "none" \notin Threads
  BY PoolStable, NoneIsNoThread, OperationAssumption DEF LoneInv, SafeInv, TypeInv, Threads
<1> USE DEF SafeInv, TypeInv, OperationTypeOK, CellStates, ClaimInv, StartInv,
            CallbackInv, NestedInv, StateOpNested, TlsNested, ConnectNested,
            InStart, InNet, runVars, Owns, TlsInv, ConnInv, StateOpOwn,
            Outstanding, ProbePending, IsStateOp, IsStartTls, IsConnect,
            StartLabels, CallbackLabels, Untouched, stopVars, claimVars,
            flowVars, stateOpVars, startTlsVars, connectVars, Others, Lone,
            PlaceInv, AnsweredInv, QuietInv, UserLabels, ConnectLeft,
            ConnectWell, InGreeting
<1>1. ASSUME NEW t \in Threads, StateOpStep(t), UNCHANGED <<startTlsVars, connectVars>>
      PROVE  Lone(w)'
  <2>0. /\ kind \in {"command", "idle"} /\ GreetingInv(w)'
        /\ AfterSubmit[kind] \in {"register", "arm_timer"}
    BY <1>0, <1>1, AfterSubmitFacts DEF StateOpStep, GreetingInv
  <2>1. ASSUME NEW a \in BOOLEAN, Gate(t, a) PROVE Lone(w)'
    BY <1>0, <2>0, <2>1 DEF Gate
  <2>2. CASE Submit(t)
    BY <1>0, <2>0, <2>2 DEF Submit, SubmitCell
  <2>3. CASE ArmTimer(t)
    BY <1>0, <2>0, <2>3 DEF ArmTimer
  <2>4. CASE EmplaceCallback(t)
    BY <1>0, <2>0, <2>4 DEF EmplaceCallback
  <2>5. CASE Forward(t)
    BY <1>0, <2>0, <2>5 DEF Forward, ClaimInCallback, LeaveCallback
  <2>6. CASE ForwardCancel(t)
    BY <1>0, <2>0, <2>6 DEF ForwardCancel, CancelCell
  <2>7. CASE ForwardCleanup(t)
    BY <1>0, <2>0, <2>7 DEF ForwardCleanup, ResetCallback
  <2>8. CASE PostStoppedDelivery(t)
    BY <1>0, <2>0, <2>8 DEF PostStoppedDelivery, LeaveCallback
  <2>9. CASE OnResult(t)
    BY <1>0, <2>0, <2>9 DEF OnResult, ClaimOrLeave, Out
  <2>10. CASE Cleanup(t)
    BY <1>0, <2>0, <2>10 DEF Cleanup, ResetCallback
  <2>11. CASE CompleteWith(t)
    <3>1. Delivered'
      BY <1>0, <2>0, <2>11, DeliverFirst DEF CompleteWith
    <3> QED BY <1>0, <2>0, <2>11, <3>1 DEF CompleteWith, Out
  <2>12. ASSUME NEW wakes \in BOOLEAN, OnUnsolicited(t, wakes) PROVE Lone(w)'
    BY <1>0, <2>0, <2>12 DEF OnUnsolicited, Out
  <2>13. CASE GuardedFire(t)
    BY <1>0, <2>0, <2>13 DEF GuardedFire
  <2>14. CASE Wake(t)
    BY <1>0, <2>0, <2>14 DEF Wake, ClaimOrLeave, Out
  <2>15. CASE WakeCancel(t)
    BY <1>0, <2>0, <2>15 DEF WakeCancel, CancelCell
  <2> QED BY <1>1, <2>1, <2>2, <2>3, <2>4, <2>5, <2>6, <2>7, <2>8, <2>9, <2>10, <2>11, <2>12,
             <2>13, <2>14, <2>15 DEF StateOpStep
<1>2. ASSUME NEW t \in Threads, StartTlsStep(t), UNCHANGED <<stateOpVars, connectVars>>
      PROVE  Lone(w)'
  <2> USE DEF TlsOwn, TlsChain, TlsTurn
  <2>0. kind = "start_tls" /\ GreetingInv(w)' /\ AfterSubmit[kind] = "register"
    BY <1>0, <1>2, AfterSubmitFacts DEF StartTlsStep, GreetingInv
  <2>1. CASE SubmitStartTls(t)
    BY <1>0, <2>0, <2>1 DEF SubmitStartTls, SubmitCell
  <2>2. CASE EmplaceCallback(t)
    BY <1>0, <2>0, <2>2 DEF EmplaceCallback
  <2>3. CASE RecordStop(t)
    BY <1>0, <2>0, <2>3 DEF RecordStop
  <2>4. CASE LookAtPhase(t)
    BY <1>0, <2>0, <2>4 DEF LookAtPhase, LeaveCallback
  <2>5. CASE CancelCommand(t)
    BY <1>0, <2>0, <2>5 DEF CancelCommand, CancelCell
  <2>6. CASE ClaimStop(t)
    BY <1>0, <2>0, <2>6 DEF ClaimStop, ClaimInCallback, LeaveCallback
  <2>7. CASE StopCleanup(t)
    BY <1>0, <2>0, <2>7 DEF StopCleanup, ResetCallback
  <2>8. CASE PostStoppedDelivery(t)
    BY <1>0, <2>0, <2>8 DEF PostStoppedDelivery, LeaveCallback
  <2>9. CASE OnStartTls(t)
    BY <1>0, <2>0, <2>9 DEF OnStartTls, ClaimOrLeave, Out
  <2>10. ASSUME NEW ok \in BOOLEAN, StartTlsLatch(t, ok) \/ EmplaceTls(t, ok) PROVE Lone(w)'
    BY <1>0, <2>0, <2>10 DEF StartTlsLatch, EmplaceTls, HonourOr
  <2>11. CASE EnterHandshake(t) \/ DetachStream(t)
    BY <1>0, <2>0, <2>11 DEF EnterHandshake, DetachStream, Out
  <2>12. CASE OnHandshake(t) \/ EnterCapability(t)
    BY <1>0, <2>0, <2>12 DEF OnHandshake, EnterCapability, HonourOr
  <2>13. CASE Probe(t)
    BY <1>0, <2>0, <2>13 DEF Probe, Out
  <2>14. CASE OnCapability(t)
    BY <1>0, <2>0, <2>14 DEF OnCapability, HonourOr
  <2>15. ASSUME NEW how, NEW label \in {"stopped", "value"}, ReleaseAndDeliver(t, label, how)
         PROVE  Lone(w)'
    <3>1. Delivered' /\ ~Delivered
      BY <1>0, <2>0, <2>15, DeliverFirst DEF ReleaseAndDeliver
    <3>2. PlaceInv(w)' /\ AnsweredInv'
      BY <1>0, <2>0, <2>15, <3>1 DEF ReleaseAndDeliver, ResetCallback, Out
    <3>3. QuietInv(w)'
      BY <1>0, <2>0, <2>15, <3>1 DEF ReleaseAndDeliver, ResetCallback, Out
    <3> QED BY <2>0, <3>2, <3>3
  <2> QED BY <1>2, <2>1, <2>2, <2>3, <2>4, <2>5, <2>6, <2>7, <2>8, <2>9, <2>10, <2>11, <2>12,
             <2>13, <2>14, <2>15 DEF StartTlsStep
<1>3. ASSUME NEW t \in Threads, ConnectStep(t), UNCHANGED <<stateOpVars, startTlsVars>>
      PROVE  Lone(w)'
  <2> USE DEF ConnectOwn, NetLabels, PhaseLabels, SessionLabels, GreetingInv,
              GreetingDecides
  <2>0. kind = "connect" /\ AfterSubmit[kind] = "publish"
    BY <1>3, AfterSubmitFacts DEF ConnectStep
  <2>d. ASSUME UNCHANGED <<delivered, first>> PROVE GreetingDecides'
    BY <1>0, <2>0, <2>d
  <2>1. CASE EmplaceCallback(t) /\ UNCHANGED connectVars
    BY <1>0, <2>0, <2>1, LabelFacts DEF EmplaceCallback, Greetings
  <2>2. CASE ForwardConnect(t)
    BY <1>0, <2>0, <2>2, LabelFacts DEF ForwardConnect, Greetings
  <2>3. CASE LatchStop(t)
    BY <1>0, <2>0, <2>3, LabelFacts DEF LatchStop, LeaveCallback, Greetings
  <2>4. CASE ClaimSessionStop(t)
    BY <1>0, <2>0, <2>4, LabelFacts DEF ClaimSessionStop, ClaimInCallback, LeaveCallback, Greetings
  <2>5. CASE AbandonSession(t)
    BY <1>0, <2>0, <2>5, LabelFacts DEF AbandonSession, AbandonCell, Greetings
  <2>6. CASE ResetInStop(t)
    BY <1>0, <2>0, <2>6, LabelFacts DEF ResetInStop, ResetCallback, Greetings
  <2>7. CASE PostStoppedDelivery(t) /\ UNCHANGED connectVars
    BY <1>0, <2>0, <2>7, LabelFacts DEF PostStoppedDelivery, LeaveCallback, Greetings
  <2>8. CASE DeliverLatchedStop(t)
    BY <1>0, <2>0, <2>8, LabelFacts DEF DeliverLatchedStop, ClaimOrLeave, Out, Greetings
  <2>9. CASE LatchedStop(t)
    BY <1>0, <2>0, <2>9, LabelFacts DEF LatchedStop, ResetCallback, AbandonCell, Out, Greetings
  <2>10. ASSUME NEW ok \in BOOLEAN, PhaseLatch(t, ok) PROVE Lone(w)'
    BY <1>0, <2>0, <2>10, LabelFacts DEF PhaseLatch, LatchedOr, Greetings
  <2>11. ASSUME NEW ok \in BOOLEAN, OnProbe(t, ok) PROVE Lone(w)'
    BY <1>0, <2>0, <2>11, LabelFacts DEF OnProbe, LatchedOr, Greetings
  <2>12. CASE NextPhase(t)
    BY <1>0, <2>0, <2>12, LabelFacts DEF NextPhase, Greetings
  <2>13. CASE BeginSession(t)
    BY <1>0, <2>0, <2>13, LabelFacts DEF BeginSession, Greetings
  <2>14. CASE Listen(t)
    BY <1>0, <2>0, <2>14, LabelFacts DEF Listen, Greetings
  <2>15. CASE SubmitProbe(t)
    <3>1. GreetingInv(w)'
      BY <1>0, <2>0, <2>15, LabelFacts DEF SubmitProbe, SubmitCell, Greetings
    <3>2. PlaceInv(w)' /\ AnsweredInv' /\ QuietInv(w)'
      BY <1>0, <2>0, <2>15 DEF SubmitProbe, SubmitCell
    <3> QED BY <3>1, <3>2
  <2>16. CASE PublishSession(t)
    BY <1>0, <2>0, <2>16, LabelFacts DEF PublishSession, Greetings
  <2>17. ASSUME NEW event \in Greetings, OnGreeting(t, event) PROVE Lone(w)'
    BY <1>0, <2>0, <2>17, LabelFacts DEF OnGreeting, LatchedOr, Out, Greetings
  <2>18. CASE SetCapabilities(t)
    BY <1>0, <2>0, <2>18, LabelFacts DEF SetCapabilities, Greetings
  <2>19. ASSUME NEW r \in {"succeed", "fail"}, CompleteClaim(t, r) PROVE Lone(w)'
    BY <1>0, <2>0, <2>19, LabelFacts DEF CompleteClaim, ClaimOrLeave, Out, Greetings
  <2>20. ASSUME NEW r \in {"succeed", "fail"}, Complete(t, r) PROVE Lone(w)'
    <3>0. pc[t] = CompleteLabel[r] /\ (r = "succeed" \/ r = "fail")
      BY <2>20 DEF Complete
    <3>1. pc[t] \in {"complete_succeed", "complete_fail"} /\ t = w /\ ~Delivered
      BY <1>0, <2>0, <3>0, LabelFacts
    <3>p. PICK how : /\ Deliver(t, how)
                     /\ how \in {"authenticated", "not_authenticated", "logout"}
                     /\ how = "authenticated" => r = "succeed" /\ greeting = "preauth"
                     /\ how = "not_authenticated" => r = "succeed" /\ greeting # "preauth"
      BY <2>20, <3>0 DEF Complete
    <3>2. DOMAIN delivered' = {1} /\ delivered'[1].how = how
      <4>1. Deliver(t, how) /\ ~Delivered
        BY <3>1, <3>p
      <4>2. delivered'[1].how = how
        BY <4>1, DeliverFirst
      <4>3. DOMAIN delivered' = {1}
        BY <4>1, DeliverFirst
      <4> QED BY <4>2, <4>3
    <3>3. r = "succeed" => greeting = first /\ first # "none"
      BY <1>0, <2>0, <3>0, <3>1, LabelFacts
    <3>4. GreetingDecides'
      BY <1>0, <2>0, <2>20, <3>p, <3>2, <3>3 DEF Complete, Greetings
    <3>5. GreetingInv(w)'
      BY <1>0, <2>0, <2>20, <3>0, <3>1, <3>4, LabelFacts DEF Complete, AbandonCell, Out, Greetings
    <3>6. PlaceInv(w)' /\ AnsweredInv'
      BY <1>0, <2>0, <2>20, <3>0, <3>1, LabelFacts DEF Complete, ResetCallback, AbandonCell, Out
    <3>7. QuietInv(w)'
      BY <1>0, <2>0, <2>20, <3>0, <3>1, LabelFacts DEF Complete, ResetCallback, AbandonCell, Out
    <3> QED BY <3>5, <3>6, <3>7
  <2> HIDE DEF Lone, SafeInv, connectVars
  <2> QED BY <1>3, <2>1, <2>2, <2>3, <2>4, <2>5, <2>6, <2>7, <2>8, <2>9, <2>10, <2>11, <2>12,
             <2>13, <2>14, <2>15, <2>16, <2>17, <2>18, <2>19, <2>20 DEF ConnectStep
<1>4. ASSUME NEW t \in Threads, Event(t) PROVE Lone(w)'
  <2> USE DEF Event, NetLabels, PhaseLabels, SessionLabels, Greetings,
              GreetingDecides
  <2>1. CASE StateOpStart(t)
    BY <1>0, <1>4, <2>1 DEF StateOpStart, StartOn, GreetingInv
  <2>2. CASE StartTlsStart(t)
    BY <1>0, <1>4, <2>2 DEF StartTlsStart, StartOn, GreetingInv
  <2>3. CASE ConnectStart(t)
    <3>1. ~Delivered /\ \A u \in Threads : pc[u] = "out"
      BY <2>3 DEF ConnectStart, StartOn
    <3>2. GreetingDecides'
      <4>1. CASE stop_requested
        <5>1. DOMAIN delivered' = {1} /\ delivered'[1].how = "stopped"
          BY <2>3, <3>1, <4>1, DeliverFirst DEF ConnectStart, StartOn
        <5> QED BY <5>1
      <4>2. CASE ~stop_requested
        BY <2>3, <3>1, <4>2 DEF ConnectStart, StartOn
      <4> QED BY <4>1, <4>2
    <3>3. GreetingInv(w)'
      BY <1>0, <1>4, <2>3, <3>1, <3>2, LabelFacts DEF ConnectStart, StartOn, GreetingInv
    <3>4. PlaceInv(w)' /\ AnsweredInv'
      BY <1>0, <1>4, <2>3, <3>1 DEF ConnectStart, StartOn
    <3>5. QuietInv(w)'
      BY <1>0, <1>4, <2>3, <3>1 DEF ConnectStart, StartOn
    <3> QED BY <3>3, <3>4, <3>5
  <2>4. CASE StateOpReply(t)
    BY <1>0, <1>4, <2>4 DEF StateOpReply, Reply, GreetingInv
  <2>5. CASE StartTlsReply(t)
    BY <1>0, <1>4, <2>5 DEF StartTlsReply, Reply, ReplyHandler, GreetingInv
  <2>11. CASE StateOpFails(t)
    BY <1>0, <1>4, <2>11 DEF StateOpFails, FailCell, GreetingInv
  <2>12. CASE StartTlsFails(t)
    BY <1>0, <1>4, <2>12 DEF StartTlsFails, FailCell, ReplyHandler, GreetingInv
  <2>13. CASE ConnectFails(t)
    <3>1. GreetingInv(w)'
      BY <1>0, <1>4, <2>13, LabelFacts DEF ConnectFails, FailCell, GreetingInv
    <3>2. PlaceInv(w)' /\ AnsweredInv' /\ QuietInv(w)'
      BY <1>0, <1>4, <2>13 DEF ConnectFails, FailCell
    <3> QED BY <3>1, <3>2
  <2>6. CASE ConnectReply(t)
    <3>1. GreetingInv(w)'
      BY <1>0, <1>4, <2>6, LabelFacts DEF ConnectReply, Reply, GreetingInv
    <3>2. PlaceInv(w)' /\ AnsweredInv' /\ QuietInv(w)'
      BY <1>0, <1>4, <2>6 DEF ConnectReply, Reply
    <3> QED BY <3>1, <3>2
  <2>7. CASE Push(t) \/ TimerRun(t)
    BY <1>0, <1>4, <2>7 DEF Push, TimerRun, GreetingInv
  <2>8. CASE HandshakeDone(t)
    BY <1>0, <1>4, <2>8 DEF HandshakeDone, GreetingInv
  <2>9. CASE PhaseDone(t)
    <3>1. GreetingInv(w)'
      BY <1>0, <1>4, <2>9, LabelFacts DEF PhaseDone, GreetingInv
    <3>2. PlaceInv(w)' /\ AnsweredInv' /\ QuietInv(w)'
      BY <1>0, <1>4, <2>9 DEF PhaseDone
    <3> QED BY <3>1, <3>2
  <2>10. ASSUME NEW event \in Greetings, GreetingEvent(t, event) PROVE Lone(w)'
    <3>1. kind = "connect" /\ t = w /\ listening
      BY <1>0, <2>10 DEF GreetingEvent, GreetingInv
    <3>2. GreetingDecides'
      BY <1>0, <2>10, <3>1 DEF GreetingEvent, GreetingInv
    <3>3. GreetingInv(w)'
      BY <1>0, <2>10, <3>1, <3>2, LabelFacts DEF GreetingEvent, GreetingInv
    <3>4. PlaceInv(w)' /\ AnsweredInv' /\ QuietInv(w)'
      BY <1>0, <2>10, <3>1, LabelFacts DEF GreetingEvent
    <3> QED BY <3>3, <3>4
  <2> QED BY <1>4, <2>1, <2>2, <2>3, <2>4, <2>5, <2>6, <2>7, <2>8, <2>9, <2>10, <2>11, <2>12,
             <2>13
          DEF StateOpEvent, StartTlsEvent, ConnectEvent
<1>5. ASSUME NEW t \in Threads, EmplaceReturns(t), Others PROVE Lone(w)'
  <2>1. GreetingInv(w)'
    BY <1>0, <1>5, LabelFacts DEF EmplaceReturns, GreetingInv, GreetingDecides, Greetings
  <2>2. PlaceInv(w)' /\ AnsweredInv' /\ QuietInv(w)'
    BY <1>0, <1>5 DEF EmplaceReturns
  <2> QED BY <2>1, <2>2
<1>6. ASSUME NEW t \in pool, RunStoppedDelivery(t), Others PROVE Lone(w)'
  <2>0. DOMAIN delivered' = {1} /\ delivered'[1].how = "stopped"
    BY <1>6, DeliverFirst DEF RunStoppedDelivery
  <2>1. GreetingInv(w)'
    BY <1>0, <1>6, <2>0, LabelFacts DEF RunStoppedDelivery, GreetingInv, GreetingDecides, Greetings
  <2>2. PlaceInv(w)' /\ AnsweredInv' /\ QuietInv(w)'
    BY <1>0, <1>6 DEF RunStoppedDelivery
  <2> QED BY <2>1, <2>2
<1>7. ASSUME RequestStop, Others PROVE Lone(w)'
  <2>1. GreetingInv(w)'
    BY <1>0, <1>7, LabelFacts DEF RequestStop, GreetingInv, GreetingDecides, Greetings
  <2>2. PlaceInv(w)' /\ AnsweredInv' /\ QuietInv(w)'
    BY <1>0, <1>7 DEF RequestStop
  <2> QED BY <2>1, <2>2
<1>8. ASSUME TimerDue, UNCHANGED <<startTlsVars, connectVars>> PROVE Lone(w)'
  <2>1. GreetingInv(w)'
    BY <1>0, <1>8, LabelFacts DEF TimerDue, opVars, GreetingInv, GreetingDecides, Greetings
  <2>2. PlaceInv(w)' /\ AnsweredInv' /\ QuietInv(w)'
    BY <1>0, <1>8 DEF TimerDue, opVars
  <2> QED BY <2>1, <2>2
<1>9. ASSUME UNCHANGED vars PROVE Lone(w)'
  <2>1. GreetingInv(w)'
    BY <1>0, <1>9, LabelFacts DEF vars, opVars, GreetingInv, GreetingDecides, Greetings
  <2>2. PlaceInv(w)' /\ AnsweredInv' /\ QuietInv(w)'
    BY <1>0, <1>9 DEF vars, opVars
  <2> QED BY <2>1, <2>2
<1>10. ASSUME NEW t \in pool, LoseConnection(t), Others PROVE Lone(w)'
  <2>1. GreetingInv(w)'
    BY <1>0, <1>10, LabelFacts DEF LoseConnection, GreetingInv, GreetingDecides, Greetings
  <2>2. PlaceInv(w)' /\ AnsweredInv' /\ QuietInv(w)'
    BY <1>0, <1>10 DEF LoseConnection
  <2> QED BY <2>1, <2>2
<1> QED BY <1>1, <1>2, <1>3, <1>4, <1>5, <1>6, <1>7, <1>8, <1>9, <1>10 DEF Next, Step

(* ... in every reachable state.                                           *)
LEMMA LoneHolds ==
    ASSUME \A p \in Pools : StartsOn \subseteq p
    PROVE  Spec => [](SafeInv /\ LoneInv)
<1>1. Init => LoneInv
  BY OperationAssumption
  DEF Init, OperationInit, StateOpInit, StartTlsInit, ConnectInit, LoneInv, Lone, PlaceInv,
      AnsweredInv, QuietInv, GreetingInv, GreetingDecides, UserLabels, CallbackLabels,
      StartLabels, ConnectLeft, ConnectWell, InGreeting, Greetings, GreetingLabel, Threads
<1>2. SafeInv /\ SafeInv' /\ LoneInv /\ [Next]_vars => LoneInv'
  BY LoneInductive
<1> QED BY <1>1, <1>2, SafeHolds, PTL DEF Spec

(* With one worker the receiver may destroy the operation state in its     *)
(* completion: no thread is inside it, but for a command rejected inside   *)
(* start() and the late handler of a kept cell.  (A delivery that is made  *)
(* inside the callback, because it could not be allocated, is the other    *)
(* exception.)                                                             *)
THEOREM NoneInsideAfterDeliveryHolds ==
    ASSUME ~BoxFails, \A p \in Pools : StartsOn \subseteq p
    PROVE  Spec => []NoneInsideAfterDelivery
<1>1. SafeInv /\ LoneInv => NoneInsideAfterDelivery
  BY DEF LoneInv, Lone, PlaceInv, QuietInv, NoneInsideAfterDelivery, OneWorker
<1> QED BY <1>1, LoneHolds, PTL

(* With one worker no exit leaves its command pending, and a connect       *)
(* leaves no handler at all.                                               *)
THEOREM DisownedOnEveryExitHolds ==
    ASSUME ~BoxFails, \A p \in Pools : StartsOn \subseteq p
    PROVE  Spec => []DisownedOnEveryExit
<1>1. SafeInv /\ LoneInv => DisownedOnEveryExit
  <2>1. IsConnect /\ SafeInv => cell # "kept"
    BY DEF SafeInv, ConnInv
  <2>2. LoneInv /\ OneWorker /\ Delivered => cell # "pending"
    BY DEF LoneInv, Lone, QuietInv, OneWorker
  <2> QED BY <2>1, <2>2 DEF DisownedOnEveryExit, IsConnect
<1> QED BY <1>1, LoneHolds, PTL

(* With one worker the state a connect hands out is the one the server's   *)
(* first greeting names, whatever follows it.                              *)
THEOREM FirstGreetingDecidesHolds ==
    ASSUME \A p \in Pools : StartsOn \subseteq p
    PROVE  Spec => []FirstGreetingDecides
<1>0. ~IsConnect => GreetingDecides
  BY DEF GreetingDecides
<1>1. SafeInv /\ LoneInv => FirstGreetingDecides
  BY <1>0 DEF LoneInv, Lone, GreetingInv, FirstGreetingDecides, OneWorker
<1> QED BY <1>1, LoneHolds, PTL
=============================================================================
