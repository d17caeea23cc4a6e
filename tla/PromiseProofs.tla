--------------------------- MODULE PromiseProofs ---------------------------
(***************************************************************************)
(* ImapContext implements OperationPromise, for every number of operations *)
(* and every choice of command kinds, calls and faults.                    *)
(***************************************************************************)
EXTENDS ImapContextProofs

-----------------------------------------------------------------------------
(* What the caller may rely on follows from four facts about the cells: a  *)
(* cell has delivered exactly when it is gone, only a submitted operation  *)
(* was withdrawn, a withdrawn one that a tagged reply can still reach is   *)
(* marked stopped, and a withdrawn one was not answered.                   *)
DeliveredWhenFreed ==
    \A o \in Ops : own[o] = "freed" <=> outcome[o] # "none"

WithdrawnMarked ==
    /\ \A o \in withdrawn : own[o] # "none"
    /\ withdrawn \cap registry \subseteq stopped

PromiseInv == DeliveredWhenFreed /\ WithdrawnMarked /\ WithdrawnNeverAnswered

(* Retiring cells that have not delivered keeps delivery and destruction   *)
(* together.                                                               *)
LEMMA RetireDelivers ==
    ASSUME own \in [Ops -> OwnType], outcome \in [Ops -> OutcomeType],
           DeliveredWhenFreed, NEW S, NEW r, r # "none", Retire(S, r)
    PROVE  /\ DeliveredWhenFreed'
           /\ \A o \in Ops : own[o] # "none" => own'[o] # "none"
           /\ \A o \in Ops : outcome'[o] = outcome[o] \/ (outcome'[o] = r /\ o \in S)
BY DEF Retire, Move, Deliver, DeliveredWhenFreed, OwnType

(* Moving cells between owners, short of freeing them, delivers nothing.   *)
LEMMA MoveDelivers ==
    ASSUME own \in [Ops -> OwnType], DeliveredWhenFreed,
           NEW S, NEW pl \in {"queued", "posted", "held"}, Move(S, pl),
           \A o \in S \cap Ops : own[o] # "freed", UNCHANGED outcome
    PROVE  /\ DeliveredWhenFreed'
           /\ \A o \in Ops : own[o] # "none" => own'[o] # "none"
BY DEF Move, DeliveredWhenFreed, OwnType

(* Every step keeps these facts.                                           *)
LEMMA PromiseInductive ==
    ASSUME TypeOK, RegistryInv, PromiseInv, [Next]_vars
    PROVE  PromiseInv'
<1> USE DEF PromiseInv, WithdrawnMarked, WithdrawnNeverAnswered, cellVars,
            coreVars, writeVars, readVars, owedVars, wireVars, histVars
<1>0. /\ own \in [Ops -> OwnType] /\ outcome \in [Ops -> OutcomeType]
      /\ registry \subseteq Ops /\ withdrawn \subseteq Ops
      /\ stopped \subseteq Ops
  BY DEF TypeOK, CellsTyped, CoreTyped, WireTyped
<1>1. CASE UNCHANGED vars
  BY <1>1 DEF vars, DeliveredWhenFreed
<1>stay. ASSUME UNCHANGED <<own, outcome, withdrawn, stopped>>,
             registry' \subseteq registry
      PROVE  PromiseInv'
  BY <1>0, <1>stay DEF DeliveredWhenFreed
<1>move. ASSUME UNCHANGED <<outcome, withdrawn, stopped, registry>>,
             NEW S, NEW pl \in {"posted", "held"}, Move(S, pl),
             \A o \in S \cap Ops : own[o] = "queued"
      PROVE  PromiseInv'
  BY <1>0, <1>move, MoveDelivers
<1>retire. ASSUME UNCHANGED <<withdrawn, stopped>>, registry' \subseteq registry,
             NEW S, NEW r, r \notin {"none", "reply"}, Retire(S, r)
      PROVE  PromiseInv'
  <2>1. /\ DeliveredWhenFreed'
        /\ \A o \in Ops : own[o] # "none" => own'[o] # "none"
        /\ \A o \in Ops : outcome'[o] = outcome[o] \/ outcome'[o] = r
    BY <1>0, <1>retire, RetireDelivers
  <2>2. WithdrawnMarked'
    BY <1>0, <1>retire, <2>1
  <2>3. WithdrawnNeverAnswered'
    BY <1>0, <1>retire, <2>1
  <2>4. QED
    BY <2>1, <2>2, <2>3
<1>2. ASSUME NEW o \in Ops, NEW k \in Kinds, NEW p \in Paths, Submit(o, k, p)
      PROVE  PromiseInv'
  <2>1. own[o] = "none" /\ registry' = registry \cup {o}
        /\ UNCHANGED <<outcome, stopped, withdrawn>> /\ Move({o}, "queued")
    BY <1>2 DEF Submit, NewCell, NextTag
  <2>2. DeliveredWhenFreed'
    BY <1>0, <2>1, MoveDelivers
  <2>3. QED
    BY <1>0, <2>1, <2>2, MoveDelivers
<1>3. ASSUME NEW o \in Ops, NEW k \in Kinds, SubmitStopped(o, k)
      PROVE  PromiseInv'
  <2>1. own[o] = "none" /\ UNCHANGED <<outcome, stopped, withdrawn, registry>>
        /\ Move({o}, "posted")
    BY <1>3 DEF SubmitStopped, NewCell, NextTag
  <2>2. QED
    BY <1>0, <2>1, MoveDelivers
<1>4. ASSUME NEW o \in Ops, NEW k \in Kinds, NEW p \in Paths,
             SubmitRejected(o, k, p)
      PROVE  PromiseInv'
  BY <1>4, <1>retire DEF SubmitRejected, NewCell
<1>5. ASSUME NEW o \in Ops,
             CancelExtract(o) \/ CancelIdle(o) \/ CancelDetach(o)
      PROVE  PromiseInv'
  <2>1. /\ own[o] \in {"queued", "held"} /\ UNCHANGED outcome
        /\ withdrawn' = withdrawn \cup {o}
    BY <1>5 DEF CancelExtract, CancelIdle, CancelDetach, CancelCall,
                RegistryInv, RegistryMatchesCells, Live
  <2>2. outcome[o] = "none"
    BY <1>0, <2>1 DEF DeliveredWhenFreed
  <2>3. DeliveredWhenFreed' /\ \A q \in Ops : own[q] # "none" => own'[q] # "none"
    <3>1. CASE CancelExtract(o)
      BY <1>0, <2>1, <3>1, MoveDelivers DEF CancelExtract
    <3>2. CASE CancelIdle(o) \/ CancelDetach(o)
      BY <2>1, <3>2 DEF CancelIdle, CancelDetach, DeliveredWhenFreed
    <3>3. QED
      BY <1>5, <3>1, <3>2
  <2>4. withdrawn' \cap registry' \subseteq stopped'
    <3>1. CASE CancelIdle(o)
      BY <2>1, <3>1 DEF CancelIdle, CancelNoted
    <3>2. CASE CancelExtract(o) \/ CancelDetach(o)
      BY <2>1, <3>2 DEF CancelExtract, CancelDetach, Unregister
    <3>3. QED
      BY <1>5, <3>1, <3>2
  <2>5. QED
    BY <1>0, <2>1, <2>2, <2>3, <2>4
<1>6. CASE Close \/ Abandon
  BY <1>6, <1>retire DEF Close, Abandon
<1>7. CASE Flush \/ KickReceiver
  BY <1>7, <1>stay DEF Flush, KickReceiver
<1>8. ASSUME NEW src \in {"user", "read", "flush"}, PostKick(src) \/ PostKickFails(src)
      PROVE  PromiseInv'
  BY <1>8, <1>stay DEF PostKick, PostKickFails
<1>9. ASSUME NEW src \in {"posted", "chained"}, Kick(src) \/ KickIdle(src)
      PROVE  PromiseInv'
  BY <1>9, <1>stay DEF Kick, KickIdle
<1>10. CASE WriteArm \/ WriteArmFails
  BY <1>10, <1>stay DEF WriteArm, WriteArmFails
<1>11. CASE WriteArmTeardown \/ WriteDoneTeardown
  BY <1>11, <1>retire DEF WriteArmTeardown, WriteDoneTeardown, WriteCompletes
<1>12. CASE WriteDone \/ WriteError
  <2>1. UNCHANGED <<outcome, withdrawn, stopped, registry>>
    BY <1>12 DEF WriteDone, WriteError, WriteCompletes
  <2>2. CASE WriteDone
    <3> DEFINE done == {o \in StillQueued : /\ o \in detached
                                           /\ ~AwaitsContinuation(cmd'[o])
                                           /\ ~HasSegment(cmd'[o])}
    <3>1. Move(done, "posted")
      BY <2>2 DEF WriteDone
    <3>2. \A o \in done \cap Ops : own[o] = "queued"
      BY DEF StillQueued, Queue
    <3>3. QED
      BY <2>1, <3>1, <3>2, <1>move
  <2>3. CASE WriteError
    <3>1. Move(StillQueued, "held")
      BY <2>3 DEF WriteError
    <3>2. \A o \in StillQueued \cap Ops : own[o] = "queued"
      BY DEF StillQueued, Queue
    <3>3. QED
      BY <2>1, <3>1, <3>2, <1>move
  <2>4. QED
    BY <1>12, <2>2, <2>3
<1>13. CASE WriteErrorDropped \/ WriteErrorTail
  BY <1>13, <1>retire DEF WriteErrorDropped, WriteErrorTail
<1>14. ASSUME NEW ec \in LossType, ConnectionLost(ec) \/ ConnectionLostLate(ec)
       PROVE  PromiseInv'
  <2>1. ec \notin {"none", "reply"}
    BY DEF LossType
  <2>2. CASE ConnectionLost(ec)
    BY <2>1, <2>2, <1>retire DEF ConnectionLost
  <2>3. CASE ConnectionLostLate(ec)
    BY <2>3, <1>stay DEF ConnectionLostLate
  <2>4. QED
    BY <1>14, <2>2, <2>3
<1>15. CASE MaybeFinishClose
  BY <1>15, <1>stay DEF MaybeFinishClose
<1>16. ASSUME NEW o \in Ops, CompleteStopped(o)
       PROVE  PromiseInv'
  BY <1>16, <1>retire DEF CompleteStopped
<1>17. CASE ReadSteps \/ ReadArmFails
  <2>1. UNCHANGED <<own, outcome, withdrawn, stopped, registry>>
    BY <1>17 DEF ReadSteps, ReadVarsOnly, ReadStops, ReadQuiet, ReadData,
                 ReadFails, ReadErrorMapped, ReadFatalTail, ReadBatchDone,
                 ReadBatchDoneClosing, ReadArm, ReadArmTeardown, ReadArmFails
  <2>2. QED
    BY <2>1, <1>stay
<1>18. CASE DispatchTagged
  <2> DEFINE o == Head(inbox).op
             r == IF o \in stopped THEN "stopped" ELSE "reply"
  <2>1. /\ o \in registry /\ own[o] = "queued"
        /\ Retire({o}, r) /\ registry' = registry \ {o}
        /\ UNCHANGED <<withdrawn, stopped>>
    BY <1>18 DEF DispatchTagged, Dispatching, Queue, Unregister
  <2>2. /\ DeliveredWhenFreed'
        /\ \A q \in Ops : own[q] # "none" => own'[q] # "none"
        /\ \A q \in Ops : outcome'[q] = outcome[q] \/ (outcome'[q] = r /\ q \in {o})
    BY <1>0, <2>1, RetireDelivers
  <2>3. QED
    BY <1>0, <2>1, <2>2
<1>19. CASE Dispatch /\ ~DispatchTagged
  <2>1. /\ UNCHANGED <<own, outcome, withdrawn, stopped>>
        /\ registry' \subseteq registry
    BY <1>19 DEF Dispatch, DispatchDropped, DispatchDiverged, DispatchBye,
                 DispatchContinuation, DispatchUnexpected, Dispatching,
                 Unregister
  <2>2. QED
    BY <2>1, <1>stay
<1>20. CASE Server
  <2>1. UNCHANGED <<cellVars, coreVars, histVars>>
    BY <1>20 DEF Server, ServerContinues, ServerAnswers, ServerBye,
                 ServerGarbage, Hangup, ServerSends
  <2>2. QED
    BY <2>1, <1>stay
<1>21. QED
  <2>1. CASE User
    BY <2>1, <1>2, <1>3, <1>4, <1>5, <1>6, <1>7 DEF User
  <2>2. CASE WritePump
    BY <2>2, <1>7, <1>8, <1>9, <1>10, <1>11, <1>12, <1>13 DEF WritePump
  <2>3. CASE ReadPump
    BY <2>3, <1>17, <1>18, <1>19 DEF ReadPump, ReadSteps, Dispatch
  <2>4. CASE Teardown
    BY <2>4, <1>14, <1>15, <1>16 DEF Teardown
  <2>5. QED
    BY <1>1, <1>20, <2>1, <2>2, <2>3, <2>4 DEF Next

(* After cancel(tag) took effect the handler never sees the server's       *)
(* reply, in whatever state the operation was and in whatever order reply  *)
(* and write completion arrive (find_and_detach_locked, dispatch_tagged).  *)
THEOREM WithdrawnNeverAnsweredHolds == Spec => []WithdrawnNeverAnswered
<1>1. Init => RegistryInv /\ PromiseInv
  BY DEF Init, InitRead, RegistryInv, RegistryMatchesCells, Live, Queue,
         PromiseInv, DeliveredWhenFreed, WithdrawnMarked, WithdrawnNeverAnswered
<1>2. TypeOK /\ RegistryInv /\ PromiseInv /\ [Next]_vars
        => RegistryInv' /\ PromiseInv'
  BY RegistryInductive, PromiseInductive
<1>3. PromiseInv => WithdrawnNeverAnswered
  BY DEF PromiseInv
<1>4. QED
  BY <1>1, <1>2, <1>3, TypeCorrect, PTL DEF Spec

-----------------------------------------------------------------------------
(* The refinement.  The link is phase_; an operation's result is read off  *)
(* its cell (PromisedResult).                                              *)

(* A step that leaves owners, outcomes and the withdrawn set alone does    *)
(* not change what the caller sees.                                        *)
LEMMA SameView ==
    ASSUME \A o \in Ops : own[o] = "none" <=> own'[o] = "none",
           UNCHANGED <<outcome, withdrawn>>
    PROVE  PromisedResult' = PromisedResult
BY DEF PromisedResult

(* Cells that are destroyed with an error while the link goes down, or is  *)
(* down already, are one Lose step for the caller.                         *)
LEMMA RetireIsLose ==
    ASSUME own \in [Ops -> OwnType], outcome \in [Ops -> OutcomeType],
           DeliveredWhenFreed, UNCHANGED withdrawn,
           NEW S \in SUBSET Live, NEW r \in LossType \cup {"canceled", "dropped"},
           Retire(S, r), phase' \in Promise!Later(phase)
    PROVE  Promise!Lose
<1>1. r # "none" /\ S \subseteq Ops
  BY DEF LossType, Live
<1>2. \A o \in S : PromisedResult[o] \in Promise!Waiting
  BY <1>1 DEF PromisedResult, Promise!Waiting, DeliveredWhenFreed, Live
<1>3. PromisedResult' = [o \in Ops |-> IF o \in S THEN r ELSE PromisedResult[o]]
  <2>1. \A o \in S : own'[o] = "freed" /\ outcome'[o] = r
    BY <1>1 DEF Retire, Move, Deliver, DeliveredWhenFreed, Live
  <2>2. \A o \in Ops \ S : own'[o] = own[o] /\ outcome'[o] = outcome[o]
    BY DEF Retire, Move, Deliver
  <2>3. QED
    BY <1>1, <2>1, <2>2 DEF PromisedResult
<1>4. QED
  BY <1>1, <1>2, <1>3 DEF Promise!Lose

(* Every step of the context is a step of the promise or leaves the        *)
(* caller's view alone.                                                    *)
LEMMA StepKeepsPromise ==
    ASSUME TypeOK, PumpsLatched, RegistryInv, PromiseInv, [Next]_vars
    PROVE  [Promise!PromiseNext]_(Promise!promiseVars)
<1> USE DEF cellVars, coreVars, writeVars, readVars, owedVars, wireVars,
            histVars
<1> DEFINE Step == Promise!PromiseNext \/ UNCHANGED <<phase, PromisedResult>>
<1> SUFFICES Step
  BY DEF Promise!promiseVars
<1> HIDE DEF Step
<1>0. /\ own \in [Ops -> OwnType] /\ outcome \in [Ops -> OutcomeType]
      /\ withdrawn \subseteq Ops /\ registry \subseteq Ops
      /\ phase \in {"open", "draining", "closed"}
      /\ DeliveredWhenFreed
  BY DEF TypeOK, CellsTyped, CoreTyped, WireTyped, PromiseInv
<1>stay. ASSUME UNCHANGED <<own, outcome, withdrawn, phase>>
         PROVE  Step
  BY <1>stay, SameView DEF Step
<1>lose. ASSUME UNCHANGED withdrawn, NEW S \in SUBSET Live,
                NEW r \in LossType \cup {"canceled", "dropped"}, Retire(S, r),
                phase' # "open", phase = "closed" => phase' = "closed",
                phase' \in {"draining", "closed"}
         PROVE  Step
  <2>1. phase' \in Promise!Later(phase)
    BY <1>0, <1>lose DEF Promise!Later
  <2>2. QED
    BY <1>0, <1>lose, <2>1, RetireIsLose DEF Step, Promise!PromiseNext
<1>close. ASSUME UNCHANGED <<own, outcome, withdrawn>>, phase' = "closed",
                 phase = "draining"
          PROVE  Step
  <2>1. PromisedResult' = PromisedResult
    BY <1>close, SameView
  <2>2. /\ phase' \in Promise!Later(phase)
        /\ PromisedResult' = [o \in Ops |->
              IF o \in {} THEN "canceled" ELSE PromisedResult[o]]
    BY <1>close, <2>1 DEF Promise!Later, PromisedResult
  <2>3. Promise!Lose
    <3>1. /\ {} \in SUBSET Ops /\ "canceled" \in LossType \cup {"canceled", "dropped"}
          /\ \A o \in {} : PromisedResult[o] \in Promise!Waiting
      OBVIOUS
    <3>2. QED
      BY <2>2, <3>1, Zenon DEF Promise!Lose
  <2>4. QED
    BY <2>3 DEF Step, Promise!PromiseNext
<1>1. CASE UNCHANGED vars
  BY <1>1, <1>stay DEF vars
<1>2. ASSUME NEW o \in Ops, NEW k \in Kinds, NEW p \in Paths,
             Submit(o, k, p) \/ SubmitStopped(o, k)
      PROVE  Step
  <2>1. /\ own[o] = "none" /\ phase = "open"
        /\ UNCHANGED <<outcome, withdrawn, phase>>
        /\ \E pl \in {"queued", "posted"} : Move({o}, pl)
    BY <1>2 DEF Submit, SubmitStopped, NewCell, NextTag
  <2>2. outcome[o] = "none" /\ o \notin withdrawn
    BY <1>0, <2>1 DEF DeliveredWhenFreed, PromiseInv, WithdrawnMarked
  <2>3. PromisedResult' = [PromisedResult EXCEPT ![o] = "pending"]
    BY <1>0, <2>1, <2>2 DEF PromisedResult, Move
  <2>4. Promise!Accept(o)
    BY <2>1, <2>3 DEF Promise!Accept, Promise!Becomes, PromisedResult
  <2>5. QED
    BY <2>4 DEF Step, Promise!PromiseNext
<1>3. ASSUME NEW o \in Ops, NEW k \in Kinds, NEW p \in Paths,
             SubmitRejected(o, k, p)
      PROVE  Step
  <2> DEFINE r == IF byeReceived THEN "bye" ELSE "canceled"
  <2>1. /\ own[o] = "none" /\ phase # "open" /\ Retire({o}, r)
        /\ UNCHANGED <<withdrawn, phase>>
    BY <1>3 DEF SubmitRejected, NewCell, NextTag
  <2>2. r \in LossType \cup {"canceled"} /\ r # "none"
    BY DEF LossType
  <2>3. outcome[o] = "none"
    BY <1>0, <2>1 DEF DeliveredWhenFreed
  <2> HIDE DEF r
  <2>4. PromisedResult' = [PromisedResult EXCEPT ![o] = r]
    BY <1>0, <2>1, <2>2, <2>3 DEF PromisedResult, Retire, Move, Deliver
  <2>5. Promise!Refuse(o)
    BY <2>1, <2>2, <2>4 DEF Promise!Refuse, Promise!Becomes, PromisedResult
  <2>6. QED
    BY <2>5 DEF Step, Promise!PromiseNext
<1>4. ASSUME NEW o \in Ops,
             CancelExtract(o) \/ CancelIdle(o) \/ CancelDetach(o)
      PROVE  Step
  <2>1. /\ own[o] \in {"queued", "held"} /\ phase = "open"
        /\ UNCHANGED <<outcome, phase>> /\ withdrawn' = withdrawn \cup {o}
    BY <1>4 DEF CancelExtract, CancelIdle, CancelDetach, CancelCall,
                RegistryInv, RegistryMatchesCells, Live
  <2>2. outcome[o] = "none"
    BY <1>0, <2>1 DEF DeliveredWhenFreed
  <2>3. \A q \in Ops : own[q] = "none" <=> own'[q] = "none"
    <3>1. CASE CancelExtract(o)
      BY <1>0, <2>1, <3>1 DEF CancelExtract, Move
    <3>2. CASE CancelIdle(o) \/ CancelDetach(o)
      BY <3>2 DEF CancelIdle, CancelDetach
    <3>3. QED
      BY <1>4, <3>1, <3>2
  <2>4. CASE o \in withdrawn
    BY <2>1, <2>3, <2>4, SameView DEF Step
  <2>5. CASE o \notin withdrawn
    <3>1. PromisedResult' = [PromisedResult EXCEPT ![o] = "withdrawn"]
      BY <2>1, <2>2, <2>3 DEF PromisedResult
    <3>2. Promise!Withdraw(o)
      BY <2>1, <2>2, <2>5, <3>1
         DEF Promise!Withdraw, Promise!Becomes, PromisedResult
    <3>3. QED
      BY <3>2 DEF Step, Promise!PromiseNext
  <2>6. QED
    BY <2>4, <2>5
<1>5. CASE Close
  <2> DEFINE pending == {o \in Queue : ~IsWritten(o) /\ o \notin staged}
  <2>1. /\ Retire(pending, "canceled") /\ phase = "open" /\ phase' = "draining"
        /\ UNCHANGED withdrawn
    BY <1>5 DEF Close
  <2>2. pending \in SUBSET Live
    BY DEF Queue, Live
  <2>3. QED
    BY <2>1, <2>2, <1>lose
<1>6. CASE Abandon
  BY <1>6, <1>lose DEF Abandon, Losable, Queue, Live
<1>7. CASE Flush \/ KickReceiver
  BY <1>7, <1>stay DEF Flush, KickReceiver
<1>8. ASSUME NEW src \in {"user", "read", "flush"}, PostKick(src) \/ PostKickFails(src)
      PROVE  Step
  BY <1>8, <1>stay DEF PostKick, PostKickFails
<1>9. ASSUME NEW src \in {"posted", "chained"}, Kick(src) \/ KickIdle(src)
      PROVE  Step
  BY <1>9, <1>stay DEF Kick, KickIdle
<1>10. CASE WriteArm \/ WriteArmFails
  BY <1>10, <1>stay DEF WriteArm, WriteArmFails
<1>11. CASE WriteArmTeardown \/ WriteDoneTeardown
  <2>1. \E r \in {"dropped", "canceled"} : Retire(StillQueued, r)
    BY <1>11 DEF WriteArmTeardown, WriteDoneTeardown, ArmedCells
  <2>2. phase # "open" /\ UNCHANGED <<phase, withdrawn>>
    BY <1>11 DEF WriteArmTeardown, WriteDoneTeardown, WriteCompletes,
                 RegistryInv, TypeOK, CoreTyped
  <2>3. StillQueued \in SUBSET Live
    BY DEF StillQueued, Queue, Live
  <2>4. QED
    BY <1>0, <2>1, <2>2, <2>3, <1>lose
<1>12. CASE WriteDone \/ WriteError
  <2>1. UNCHANGED <<outcome, withdrawn, phase>>
    BY <1>12 DEF WriteDone, WriteError, WriteCompletes
  <2>2. \A o \in Ops : own'[o] = own[o] \/ (own[o] = "queued" /\ own'[o] # "none")
    BY <1>12 DEF WriteDone, WriteError, Move, StillQueued, Queue
  <2>3. QED
    BY <2>1, <2>2, SameView DEF Step
<1>13. CASE WriteErrorDropped \/ WriteErrorTail
  <2> DEFINE held == {o \in Ops : own[o] = "held"}
  <2>1. \E r \in {"dropped", "write"} : Retire(held, r)
    BY <1>13 DEF WriteErrorDropped, WriteErrorTail
  <2>2. phase # "open" /\ UNCHANGED <<phase, withdrawn>>
    BY <1>0, <1>13 DEF WriteErrorDropped, WriteErrorTail, RegistryInv
  <2>3. held \in SUBSET Live
    BY DEF Live
  <2>4. {"dropped", "write"} \subseteq LossType \cup {"canceled", "dropped"}
    BY DEF LossType
  <2>5. QED
    BY <1>0, <2>1, <2>2, <2>3, <2>4, <1>lose
<1>14. ASSUME NEW ec \in LossType, ConnectionLost(ec) \/ ConnectionLostLate(ec)
       PROVE  Step
  <2>1. CASE ConnectionLost(ec)
    BY <1>0, <2>1, <1>lose DEF ConnectionLost, Losable, Queue, Live
  <2>2. CASE ConnectionLostLate(ec)
    BY <2>2, <1>stay DEF ConnectionLostLate
  <2>3. QED
    BY <1>14, <2>1, <2>2
<1>15. CASE MaybeFinishClose
  BY <1>15, <1>stay, <1>close DEF MaybeFinishClose, CanClose
<1>16. ASSUME NEW o \in Ops, CompleteStopped(o)
       PROVE  Step
  <2>1. /\ own[o] = "posted" /\ Retire({o}, "stopped")
        /\ UNCHANGED <<withdrawn, phase>>
    BY <1>16 DEF CompleteStopped
  <2>2. outcome[o] = "none"
    BY <1>0, <2>1 DEF DeliveredWhenFreed
  <2>3. PromisedResult' = [PromisedResult EXCEPT ![o] = "stopped"]
    BY <2>1, <2>2 DEF PromisedResult, Retire, Move, Deliver
  <2>4. Promise!StopDelivered(o)
    BY <2>1, <2>2, <2>3 DEF Promise!StopDelivered, Promise!Becomes,
                            Promise!Waiting, PromisedResult
  <2>5. QED
    BY <2>4 DEF Step, Promise!PromiseNext
<1>17. CASE ReadSteps \/ ReadArmFails
  <2>1. CASE ReadArmTeardown
    BY <2>1, <1>stay, <1>close DEF ReadArmTeardown
  <2>2. CASE ~ReadArmTeardown
    BY <1>17, <2>2, <1>stay DEF ReadSteps, ReadVarsOnly, ReadStops, ReadQuiet,
             ReadData, ReadFails, ReadErrorMapped, ReadFatalTail, ReadBatchDone,
             ReadBatchDoneClosing, ReadArm, ReadArmFails
  <2>3. QED
    BY <2>1, <2>2
<1>18. CASE DispatchTagged
  <2> DEFINE o == Head(inbox).op
             r == IF o \in stopped THEN "stopped" ELSE "reply"
  <2>1. /\ o \in registry /\ own[o] = "queued" /\ Retire({o}, r)
        /\ UNCHANGED <<withdrawn, phase>> /\ readPc = "dispatching"
    BY <1>18 DEF DispatchTagged, Dispatching, Queue
  <2>2. outcome[o] = "none" /\ o \in Ops /\ phase # "closed"
    BY <1>0, <2>1 DEF DeliveredWhenFreed, PumpsLatched
  <2>3. o \in withdrawn => o \in stopped
    BY <2>1 DEF PromiseInv, WithdrawnMarked
  <2>4. r \in {"stopped", "reply"} /\ r # "none"
    OBVIOUS
  <2>5. PromisedResult' = [PromisedResult EXCEPT ![o] = r]
    <3> HIDE DEF o, r
    <3> QED
      BY <2>1, <2>2, <2>4 DEF PromisedResult, Retire, Move, Deliver
  <2>6. CASE o \in stopped
    <3>1. Promise!StopDelivered(o)
      BY <2>1, <2>2, <2>5, <2>6 DEF Promise!StopDelivered, Promise!Becomes,
                                    Promise!Waiting, PromisedResult
    <3>2. QED
      BY <2>2, <3>1 DEF Step, Promise!PromiseNext
  <2>7. CASE o \notin stopped
    <3>1. Promise!Answer(o)
      BY <2>1, <2>2, <2>3, <2>5, <2>7 DEF Promise!Answer, Promise!Becomes,
                                          PromisedResult
    <3>2. QED
      BY <2>2, <3>1 DEF Step, Promise!PromiseNext
  <2>8. QED
    BY <2>6, <2>7
<1>19. CASE Dispatch /\ ~DispatchTagged
  BY <1>19, <1>stay DEF Dispatch, DispatchDropped, DispatchDiverged,
           DispatchBye, DispatchContinuation, DispatchUnexpected, Dispatching
<1>20. CASE Server
  <2>1. UNCHANGED <<cellVars, coreVars, histVars>>
    BY <1>20 DEF Server, ServerContinues, ServerAnswers, ServerBye,
                 ServerGarbage, Hangup, ServerSends
  <2>2. QED
    BY <2>1, <1>stay
<1>21. QED
  <2>1. CASE User
    BY <2>1, <1>2, <1>3, <1>4, <1>5, <1>6, <1>7, ContextAssumption DEF User, SubmitStopped
  <2>2. CASE WritePump
    BY <2>2, <1>7, <1>8, <1>9, <1>10, <1>11, <1>12, <1>13 DEF WritePump
  <2>3. CASE ReadPump
    BY <2>3, <1>17, <1>18, <1>19 DEF ReadPump, ReadSteps, Dispatch
  <2>4. CASE Teardown
    BY <2>4, <1>14, <1>15, <1>16 DEF Teardown
  <2>5. QED
    BY <1>1, <1>20, <2>1, <2>2, <2>3, <2>4 DEF Next

(* The context implements OperationPromise: whatever the pumps, the user,  *)
(* the server and the failures do, the caller sees one completion per      *)
(* operation, a reply only before the descriptor is closed and only where  *)
(* nothing was withdrawn, and errors only once the connection goes down.   *)
THEOREM ImplementsPromise == Spec => KeepsPromise
<1>1. Init => Promise!PromiseInit
  BY DEF Init, InitRead, Promise!PromiseInit, PromisedResult
<1>2. Init => PumpsLatched /\ RegistryInv /\ PromiseInv
  BY DEF Init, InitRead, PumpsLatched, RegistryInv, RegistryMatchesCells, Live,
         Queue, PromiseInv, DeliveredWhenFreed, WithdrawnMarked,
         WithdrawnNeverAnswered
<1>3. TypeOK /\ PumpsLatched /\ RegistryInv /\ PromiseInv /\ [Next]_vars
        => PumpsLatched' /\ RegistryInv' /\ PromiseInv'
  BY PumpsLatchedInductive, RegistryInductive, PromiseInductive
<1>4. TypeOK /\ PumpsLatched /\ RegistryInv /\ PromiseInv /\ [Next]_vars
        => [Promise!PromiseNext]_(Promise!promiseVars)
  BY StepKeepsPromise
<1>5. QED
  BY <1>1, <1>2, <1>3, <1>4, TypeCorrect, PTL
     DEF Spec, KeepsPromise, Promise!PromiseSpec

-----------------------------------------------------------------------------
(* The reason reported for the end of the connection.  An unannounced end  *)
(* is only owed by a read pump that has stopped for good, and it stopped   *)
(* without a recorded BYE: none can be recorded after that.                *)
EofUnannounced == "eof" \in losing => readPc = "off" /\ byeReceived = FALSE

(* Every step keeps it.                                                    *)
LEMMA EofInductive ==
    ASSUME TypeOK, EofUnannounced, [Next]_vars
    PROVE  EofUnannounced'
<1> USE DEF EofUnannounced, cellVars, coreVars, writeVars, readVars, owedVars,
            wireVars, histVars
<1>0. byeReceived \in BOOLEAN
  BY DEF TypeOK, CoreTyped
<1>1. CASE UNCHANGED vars
  BY <1>1 DEF vars
<1>2. CASE User
  <2>1. UNCHANGED <<losing, readPc, byeReceived>>
    BY <1>2 DEF User, Submit, SubmitRejected, SubmitStopped, Flush,
                CancelExtract, CancelIdle, CancelDetach, CancelCall, Close,
                Abandon
  <2>2. QED
    BY <2>1
<1>3. CASE WritePump
  <2>1. /\ UNCHANGED <<readPc, byeReceived>>
        /\ losing' \subseteq losing \cup {"memory", "write"}
    BY <1>3 DEF WritePump, PostKick, PostKickFails, KickReceiver, Kick,
                KickIdle, WriteArm, WriteArmTeardown, WriteArmFails,
                WriteCompletes, WriteDone, WriteDoneTeardown, WriteError,
                WriteErrorDropped, WriteErrorTail
  <2>2. QED
    BY <2>1
<1>4. CASE ReadPump
  BY <1>0, <1>4 DEF ReadPump, ReadVarsOnly, ReadStops, ReadQuiet, ReadData,
              ReadFails, ReadErrorMapped, ReadLoss, Dispatching, Fatal,
              DispatchDropped, DispatchTagged, DispatchDiverged, DispatchBye,
              DispatchContinuation, DispatchUnexpected, ReadFatalTail,
              ReadBatchDone, ReadBatchDoneClosing, ReadArm, ReadArmTeardown,
              ReadArmFails
<1>5. CASE Teardown
  <2>1. UNCHANGED <<readPc, byeReceived>> /\ losing' \subseteq losing
    BY <1>5 DEF Teardown, ConnectionLost, ConnectionLostLate, MaybeFinishClose,
                CompleteStopped
  <2>2. QED
    BY <2>1
<1>6. CASE Server
  <2>1. UNCHANGED <<losing, readPc, byeReceived>>
    BY <1>6 DEF Server, ServerContinues, ServerAnswers, ServerBye,
                ServerGarbage, Hangup, ServerSends
  <2>2. QED
    BY <2>1
<1>7. QED
  BY <1>1, <1>2, <1>3, <1>4, <1>5, <1>6 DEF Next

(* The only step that delivers "eof" is connection_lost() with that        *)
(* reason.                                                                 *)
LEMMA OnlyLossDeliversEof ==
    ASSUME TypeOK, Next, NEW o \in Ops, outcome'[o] # outcome[o],
           outcome'[o] = "eof"
    PROVE  "eof" \in losing
<1> USE DEF cellVars, coreVars, writeVars, readVars, owedVars, wireVars,
            histVars
<1>retire. ASSUME NEW S, NEW r, Retire(S, r)
           PROVE  r = "eof"
  BY <1>retire DEF Retire, Deliver
<1>1. CASE User
  <2>1. ASSUME NEW q \in Ops, NEW k \in Kinds, NEW p \in Paths,
               SubmitRejected(q, k, p)
        PROVE  FALSE
    BY <2>1, <1>retire DEF SubmitRejected
  <2>2. CASE Close \/ Abandon
    BY <2>2, <1>retire DEF Close, Abandon
  <2>3. QED
    BY <1>1, <2>1, <2>2 DEF User, Submit, SubmitStopped, Flush, CancelExtract,
                            CancelIdle, CancelDetach, CancelCall
<1>2. CASE WritePump
  <2>1. CASE WriteArmTeardown \/ WriteDoneTeardown
    BY <2>1, <1>retire DEF WriteArmTeardown, WriteDoneTeardown
  <2>2. CASE WriteErrorDropped \/ WriteErrorTail
    BY <2>2, <1>retire DEF WriteErrorDropped, WriteErrorTail
  <2>3. QED
    BY <1>2, <2>1, <2>2 DEF WritePump, PostKick, PostKickFails, KickReceiver,
            Kick, KickIdle, WriteArm, WriteArmFails, WriteDone, WriteError
<1>3. CASE ReadPump
  <2>1. CASE DispatchTagged
    BY <2>1, <1>retire DEF DispatchTagged
  <2>2. QED
    BY <1>3, <2>1 DEF ReadPump, ReadVarsOnly, ReadStops, ReadQuiet, ReadData,
              ReadFails, ReadErrorMapped, DispatchDropped, DispatchDiverged,
              DispatchBye, DispatchContinuation, DispatchUnexpected,
              ReadFatalTail, ReadBatchDone, ReadBatchDoneClosing, ReadArm,
              ReadArmTeardown, ReadArmFails
<1>4. CASE Teardown
  <2>1. ASSUME NEW ec \in LossType, ConnectionLost(ec)
        PROVE  "eof" \in losing
    <3>1. ec \in losing /\ Retire(Losable, ec)
      BY <2>1 DEF ConnectionLost
    <3>2. QED
      BY <3>1, <1>retire
  <2>2. ASSUME NEW q \in Ops, CompleteStopped(q)
        PROVE  FALSE
    BY <2>2, <1>retire DEF CompleteStopped
  <2>3. QED
    BY <1>4, <2>1, <2>2 DEF Teardown, ConnectionLostLate, MaybeFinishClose
<1>5. CASE Server
  BY <1>5 DEF Server, ServerContinues, ServerAnswers, ServerBye,
              ServerGarbage, Hangup, ServerSends
<1>6. QED
  BY <1>1, <1>2, <1>3, <1>4, <1>5 DEF Next

(* Once a BYE is recorded no operation fails with an unannounced end of    *)
(* file: on_read maps the cause in the critical section in which it marks  *)
(* the pump dead, so a BYE cannot slip in between (read_pump.h).           *)
THEOREM ByeWinsOnReadHolds == Spec => ByeWinsOnRead
<1>1. Init => EofUnannounced
  BY DEF Init, EofUnannounced
<1>2. TypeOK /\ EofUnannounced /\ [Next]_vars => EofUnannounced'
  BY EofInductive
<1>3. TypeOK /\ EofUnannounced /\ [Next]_vars =>
         [byeReceived => \A o \in Ops :
             outcome'[o] # outcome[o] => outcome'[o] # "eof"]_vars
  BY OnlyLossDeliversEof DEF EofUnannounced
<1>4. QED
  BY <1>1, <1>2, <1>3, TypeCorrect, PTL DEF Spec, ByeWinsOnRead
=============================================================================
