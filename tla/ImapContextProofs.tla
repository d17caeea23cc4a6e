------------------------- MODULE ImapContextProofs -------------------------
(***************************************************************************)
(* Theorems about ImapContext, for every number of operations, every inbox *)
(* bound and every choice of command kinds, calls and faults.              *)
(***************************************************************************)
EXTENDS ImapContext, TLAPS

-----------------------------------------------------------------------------
(* Both pumps keep their latch up as long as they have an operation armed  *)
(* or about to be armed, and a closed context has both latches down.       *)
PumpsLatched ==
    /\ readPc # "off" => readRunning = TRUE
    /\ writePc # "idle" => writeInFlight = TRUE
    /\ phase = "closed" => readRunning = FALSE /\ writeInFlight = FALSE

(* The latches are inductive: every action that arms or advances a pump    *)
(* finds its latch up or raises it while open, and the only actions that   *)
(* close (maybe_finish_close, the losing read arm) test both.              *)
LEMMA PumpsLatchedInductive ==
    ASSUME PumpsLatched, [Next]_vars
    PROVE  PumpsLatched'
<1> USE DEF PumpsLatched, cellVars, coreVars, writeVars, readVars, owedVars,
            wireVars, histVars
<1>1. CASE UNCHANGED vars
  BY <1>1 DEF vars
<1>2. CASE User
  <2>1. ASSUME NEW o \in Ops, NEW k \in Kinds, NEW p \in Paths,
               Submit(o, k, p) \/ SubmitRejected(o, k, p)
        PROVE  PumpsLatched'
    BY <2>1 DEF Submit, SubmitRejected, NewCell
  <2>2. ASSUME NEW o \in Ops, NEW k \in Kinds, SubmitStopped(o, k)
        PROVE  PumpsLatched'
    BY <2>2 DEF SubmitStopped, NewCell
  <2>3. CASE Flush
    BY <2>3 DEF Flush
  <2>4. ASSUME NEW o \in Ops,
               CancelExtract(o) \/ CancelIdle(o) \/ CancelDetach(o)
        PROVE  PumpsLatched'
    BY <2>4 DEF CancelExtract, CancelIdle, CancelDetach, CancelCall
  <2>5. CASE Close \/ Abandon
    BY <2>5 DEF Close, Abandon
  <2>6. QED
    BY <1>2, <2>1, <2>2, <2>3, <2>4, <2>5 DEF User
<1>3. CASE WritePump
  BY <1>3 DEF WritePump, PostKick, PostKickFails, PostKickBody, KickReceiver,
              Kick, KickIdle, CanKick, WriteArm, WriteArmTeardown,
              WriteArmFails, WriteCompletes, WriteDone, WriteDoneTeardown,
              WriteError, WriteErrorDropped, WriteErrorTail
<1>4. CASE ReadPump
  BY <1>4 DEF ReadPump, ReadVarsOnly, ReadStops, ReadQuiet, ReadData,
              ReadFails, ReadErrorMapped, Dispatching, Fatal, DispatchDropped,
              DispatchTagged, DispatchDiverged, DispatchBye,
              DispatchContinuation, DispatchUnexpected, ReadFatalTail,
              ReadBatchDone, ReadBatchDoneClosing, ReadArm, ReadArmTeardown,
              ReadArmFails
<1>5. CASE Teardown
  <2>1. ASSUME NEW ec \in LossType, ConnectionLost(ec) \/ ConnectionLostLate(ec)
        PROVE  PumpsLatched'
    BY <2>1 DEF ConnectionLost, ConnectionLostLate
  <2>2. CASE MaybeFinishClose
    BY <2>2 DEF MaybeFinishClose, CanClose
  <2>3. ASSUME NEW o \in Ops, CompleteStopped(o)
        PROVE  PumpsLatched'
    BY <2>3 DEF CompleteStopped
  <2>4. QED
    BY <1>5, <2>1, <2>2, <2>3 DEF Teardown
<1>6. CASE Server
  BY <1>6 DEF Server, ServerContinues, ServerAnswers, ServerBye,
              ServerGarbage, Hangup, ServerSends
<1>7. QED
  BY <1>1, <1>2, <1>3, <1>4, <1>5, <1>6 DEF Next

(* The descriptor is never closed under an armed kernel operation, for     *)
(* every interleaving of close(), abandon(), failures and the two pumps    *)
(* (maybe_finish_close, imap_context.h).                                   *)
THEOREM DescriptorQuietHolds == Spec => []DescriptorQuiet
<1>1. Init => PumpsLatched
  BY DEF Init, InitRead, PumpsLatched
<1>2. PumpsLatched /\ [Next]_vars => PumpsLatched'
  BY PumpsLatchedInductive
<1>3. PumpsLatched => DescriptorQuiet
  BY DEF PumpsLatched, DescriptorQuiet
<1>4. QED
  BY <1>1, <1>2, <1>3, PTL DEF Spec

-----------------------------------------------------------------------------
(* What the command state machines return is a command again.              *)

LEMMA CommandOps ==
    /\ \A k \in AllKinds : Render(k) \in CommandType
    /\ \A c \in CommandType : /\ OnSegmentFlushed(c) \in CommandType
                              /\ Done(c) \in CommandType
                              /\ OnContinuation(c) \in CommandType
<1>1. \A k \in AllKinds : Render(k) \in CommandType
  BY DEF AllKinds, Render, RenderIdle, RenderSegments, SegCount, Walled,
         CommandType, IdlePhases
<1>2. ASSUME NEW c \in CommandType
      PROVE  OnSegmentFlushed(c) \in CommandType
  <2>1. FlushIdle(c) \in CommandType
    BY DEF FlushIdle, CommandType, IdlePhases
  <2>2. FlushSegments(c) \in CommandType
    BY DEF FlushSegments, CommandType
  <2>3. QED
    BY <2>1, <2>2 DEF OnSegmentFlushed
<1>3. \A c \in CommandType : QueueDone(c) \in CommandType
  BY DEF QueueDone, CommandType, IdlePhases
<1>4. ASSUME NEW c \in CommandType
      PROVE  Done(c) \in CommandType
  <2>1. [c EXCEPT !.done_requested = TRUE] \in CommandType
    BY DEF CommandType
  <2>2. QED
    BY <2>1, <1>3 DEF Done
<1>5. \A c \in CommandType : ContinueIdle(c) \in CommandType
  BY <1>3 DEF ContinueIdle, CommandType, IdlePhases
<1>6. \A c \in CommandType : ContinueSegments(c) \in CommandType
  BY DEF ContinueSegments, CommandType
<1>7. ASSUME NEW c \in CommandType
      PROVE  ContinueSasl(c) \in CommandType
  <2>1. [c EXCEPT !.unlocked = @ + 1] \in CommandType
    BY DEF CommandType
  <2>2. ASSUME c.segs < 4
        PROVE  [c EXCEPT !.segs = @ + 1, !.unlocked = @ + 1] \in CommandType
    <3>1. c.segs + 1 \in 1..4 /\ c.unlocked + 1 \in Nat
      BY <2>2 DEF CommandType
    <3>2. QED
      BY <3>1 DEF CommandType
  <2>3. c.segs \in 1..4
    BY DEF CommandType
  <2>4. QED
    BY <2>1, <2>2, <2>3 DEF ContinueSasl
<1>8. QED
  BY <1>1, <1>2, <1>4, <1>5, <1>6, <1>7 DEF OnContinuation

-----------------------------------------------------------------------------
(* Moving cells and delivering outcomes keep the cells well typed.         *)

LEMMA MoveTyped ==
    ASSUME own \in [Ops -> OwnType], NEW S, NEW pl \in OwnType, Move(S, pl)
    PROVE  own' \in [Ops -> OwnType]
BY DEF Move

LEMMA RetireTyped ==
    ASSUME own \in [Ops -> OwnType], outcome \in [Ops -> OutcomeType],
           NEW S, NEW r \in OutcomeType, Retire(S, r)
    PROVE  /\ own' \in [Ops -> OwnType]
           /\ outcome' \in [Ops -> OutcomeType]
BY DEF Retire, Move, Deliver, OwnType

(* Every step keeps the type invariant: one case per action.               *)
LEMMA TypeInductive ==
    ASSUME TypeOK, [Next]_vars
    PROVE  TypeOK'
<1> USE ContextAssumption DEF TypeOK, CellsTyped, CoreTyped, PumpsTyped,
            WireTyped, cellVars, coreVars, writeVars, readVars,
            owedVars, wireVars, histVars
<1>0. /\ \A r \in LossType \cup {"reply", "canceled", "stopped", "dropped"} : r \in OutcomeType
      /\ \A pl \in {"queued", "posted", "held", "freed"} : pl \in OwnType
      /\ Ops \subseteq Nat /\ NoOp \notin Ops
  BY DEF OutcomeType, ValueType, LossType, OwnType, Ops, NoOp
<1>1. CASE UNCHANGED vars
  BY <1>1 DEF vars
<1>2. ASSUME NEW o \in Ops, NEW k \in Kinds, NEW p \in Paths,
             Submit(o, k, p)
      PROVE  TypeOK'
  <2>1. k \in AllKinds /\ p \in {"callback", "sender"}
    OBVIOUS
  <2>2. cmd' \in [Ops -> CommandType] /\ path' \in [Ops -> {"callback", "sender"}]
    BY <1>2, <2>1, CommandOps DEF Submit, NewCell
  <2>3. own' \in [Ops -> OwnType]
    BY <1>0, <1>2, MoveTyped DEF Submit
  <2>4. QED
    BY <1>2, <2>2, <2>3 DEF Submit, NewCell, PlaceCell
<1>3. ASSUME NEW o \in Ops, NEW k \in Kinds, SubmitStopped(o, k)
      PROVE  TypeOK'
  <2>1. cmd' \in [Ops -> CommandType] /\ path' \in [Ops -> {"callback", "sender"}]
    BY <1>3, CommandOps DEF SubmitStopped, NewCell
  <2>2. own' \in [Ops -> OwnType]
    BY <1>0, <1>3, MoveTyped DEF SubmitStopped
  <2>3. QED
    BY <1>3, <2>1, <2>2 DEF SubmitStopped, NewCell
<1>4. ASSUME NEW o \in Ops, NEW k \in Kinds, NEW p \in Paths,
             SubmitRejected(o, k, p)
      PROVE  TypeOK'
  <2>1. cmd' \in [Ops -> CommandType] /\ path' \in [Ops -> {"callback", "sender"}]
    BY <1>4, CommandOps DEF SubmitRejected, NewCell
  <2>2. (IF byeReceived THEN "bye" ELSE "canceled") \in OutcomeType
    BY DEF OutcomeType, ValueType, LossType
  <2>3. own' \in [Ops -> OwnType] /\ outcome' \in [Ops -> OutcomeType]
    BY <1>4, <2>2, RetireTyped DEF SubmitRejected
  <2>4. QED
    BY <1>4, <2>1, <2>3 DEF SubmitRejected, NewCell
<1>5. ASSUME NEW o \in Ops, CancelExtract(o)
      PROVE  TypeOK'
  <2>1. own' \in [Ops -> OwnType]
    BY <1>0, <1>5, MoveTyped DEF CancelExtract
  <2>2. QED
    BY <1>5, <2>1 DEF CancelExtract, CancelCall, Unregister
<1>6. ASSUME NEW o \in Ops, CancelIdle(o)
      PROVE  TypeOK'
  <2>1. cmd' \in [Ops -> CommandType]
    BY <1>6, CommandOps DEF CancelIdle
  <2>2. QED
    BY <1>6, <2>1 DEF CancelIdle, CancelCall, CancelNoted
<1>7. ASSUME NEW o \in Ops, CancelDetach(o)
      PROVE  TypeOK'
  BY <1>7 DEF CancelDetach, CancelCall, Unregister
<1>8. CASE Flush
  <2>1. CellsTyped'
    BY <1>8 DEF Flush, PostKickBody
  <2>2. CoreTyped'
    BY <1>8 DEF Flush, PostKickBody
  <2>3. PumpsTyped'
    BY <1>8 DEF Flush, PostKickBody
  <2>4. WireTyped'
    BY <1>8 DEF Flush, PostKickBody
  <2>5. QED
    BY <2>1, <2>2, <2>3, <2>4
<1>9. ASSUME NEW src \in {"user", "read", "flush"}, PostKick(src) \/ PostKickFails(src)
      PROVE  TypeOK'
  <2>1. CellsTyped'
    BY <1>9 DEF PostKick, PostKickFails, PostKickBody, LossType
  <2>2. CoreTyped'
    BY <1>9 DEF PostKick, PostKickFails, PostKickBody, LossType
  <2>3. PumpsTyped'
    BY <1>9 DEF PostKick, PostKickFails, PostKickBody, LossType
  <2>4. WireTyped'
    BY <1>9 DEF PostKick, PostKickFails, PostKickBody, LossType
  <2>5. QED
    BY <2>1, <2>2, <2>3, <2>4
<1>10. CASE KickReceiver
  <2>1. PumpsTyped'
    BY <1>10 DEF KickReceiver
  <2>2. CellsTyped' /\ CoreTyped'
    BY <1>10 DEF KickReceiver
  <2>3. WireTyped'
    BY <1>10 DEF KickReceiver
  <2>4. QED
    BY <2>1, <2>2, <2>3
<1>11. ASSUME NEW src \in {"posted", "chained"}, Kick(src)
       PROVE  TypeOK'
  <2>1. StageSet \subseteq Ops
    BY DEF StageSet, Queue
  <2>2. StagedRoute \in Ops \cup {NoOp}
    BY <2>1 DEF StagedRoute
  <2>3. QED
    BY <1>11, <2>1, <2>2 DEF Kick
<1>12. ASSUME NEW src \in {"posted", "chained"}, KickIdle(src)
       PROVE  TypeOK'
  BY <1>12 DEF KickIdle
<1>13. CASE WriteArm
  <2>1. sent' \in [Ops -> Nat]
    BY <1>13 DEF WriteArm
  <2>2. lastSent' \in Ops \cup {NoOp}
    BY <1>13 DEF WriteArm
  <2>3. QED
    BY <1>13, <2>1, <2>2 DEF WriteArm
<1>14. CASE WriteArmTeardown
  <2>1. (IF abandoned THEN "dropped" ELSE "canceled") \in OutcomeType
    BY DEF OutcomeType, ValueType
  <2>2. own' \in [Ops -> OwnType] /\ outcome' \in [Ops -> OutcomeType]
    BY <1>14, <2>1, RetireTyped DEF WriteArmTeardown
  <2>3. CellsTyped'
    BY <1>14, <2>2 DEF WriteArmTeardown
  <2>4. CoreTyped'
    BY <1>14, <2>2 DEF WriteArmTeardown
  <2>5. PumpsTyped'
    BY <1>14, <2>2 DEF WriteArmTeardown
  <2>6. WireTyped'
    BY <1>14, <2>2 DEF WriteArmTeardown
  <2>7. QED
    BY <2>3, <2>4, <2>5, <2>6
<1>15. CASE WriteArmFails
  BY <1>15 DEF WriteArmFails, LossType
<1>16. CASE WriteDone
  <2>1. StillQueued \subseteq Ops
    BY DEF StillQueued, Queue
  <2>2. cmd' \in [Ops -> CommandType]
    BY <1>16, CommandOps DEF WriteDone
  <2>3. own' \in [Ops -> OwnType]
    BY <1>0, <1>16, MoveTyped DEF WriteDone
  <2>4. target' \in Ops \cup {NoOp}
    BY <1>16, <2>1 DEF WriteDone
  <2>5. QED
    BY <1>16, <2>1, <2>2, <2>3, <2>4 DEF WriteDone, WriteCompletes, ChainKick
<1>17. CASE WriteDoneTeardown
  <2>1. own' \in [Ops -> OwnType] /\ outcome' \in [Ops -> OutcomeType]
    BY <1>0, <1>17, RetireTyped DEF WriteDoneTeardown
  <2>2. CellsTyped'
    BY <1>17, <2>1 DEF WriteDoneTeardown, WriteCompletes
  <2>3. CoreTyped'
    BY <1>17, <2>1 DEF WriteDoneTeardown, WriteCompletes
  <2>4. PumpsTyped'
    BY <1>17, <2>1 DEF WriteDoneTeardown, WriteCompletes
  <2>5. WireTyped'
    BY <1>17, <2>1 DEF WriteDoneTeardown, WriteCompletes
  <2>6. QED
    BY <2>2, <2>3, <2>4, <2>5
<1>18. CASE WriteError
  <2>1. own' \in [Ops -> OwnType]
    BY <1>0, <1>18, MoveTyped DEF WriteError
  <2>2. CellsTyped'
    BY <1>18, <2>1 DEF WriteError, WriteCompletes, LossType
  <2>3. CoreTyped'
    BY <1>18, <2>1 DEF WriteError, WriteCompletes, LossType
  <2>4. PumpsTyped'
    BY <1>18, <2>1 DEF WriteError, WriteCompletes, LossType
  <2>5. WireTyped'
    BY <1>18, <2>1 DEF WriteError, WriteCompletes, LossType
  <2>6. QED
    BY <2>2, <2>3, <2>4, <2>5
<1>19. CASE WriteErrorDropped \/ WriteErrorTail
  <2>1. own' \in [Ops -> OwnType] /\ outcome' \in [Ops -> OutcomeType]
    BY <1>0, <1>19, RetireTyped DEF WriteErrorDropped, WriteErrorTail, LossType
  <2>2. CellsTyped'
    BY <1>19, <2>1 DEF WriteErrorDropped, WriteErrorTail
  <2>3. CoreTyped'
    BY <1>19, <2>1 DEF WriteErrorDropped, WriteErrorTail
  <2>4. PumpsTyped'
    BY <1>19, <2>1 DEF WriteErrorDropped, WriteErrorTail
  <2>5. WireTyped'
    BY <1>19, <2>1 DEF WriteErrorDropped, WriteErrorTail
  <2>6. QED
    BY <2>2, <2>3, <2>4, <2>5
<1>20. ASSUME NEW ec \in LossType, ConnectionLost(ec) \/ ConnectionLostLate(ec)
       PROVE  TypeOK'
  <2>1. CASE ConnectionLost(ec)
    <3>1. own' \in [Ops -> OwnType] /\ outcome' \in [Ops -> OutcomeType]
      BY <1>0, <2>1, RetireTyped DEF ConnectionLost
    <3>2. CellsTyped'
      BY <2>1, <3>1 DEF ConnectionLost
    <3>3. CoreTyped'
      BY <2>1 DEF ConnectionLost
    <3>4. PumpsTyped'
      BY <2>1 DEF ConnectionLost
    <3>5. WireTyped'
      BY <2>1 DEF ConnectionLost
    <3>6. QED
      BY <3>2, <3>3, <3>4, <3>5
  <2>2. CASE ConnectionLostLate(ec)
    BY <2>2 DEF ConnectionLostLate
  <2>3. QED
    BY <1>20, <2>1, <2>2
<1>21. CASE MaybeFinishClose
  <2>1. CellsTyped'
    BY <1>21 DEF MaybeFinishClose
  <2>2. CoreTyped'
    BY <1>21 DEF MaybeFinishClose
  <2>3. PumpsTyped'
    BY <1>21 DEF MaybeFinishClose
  <2>4. WireTyped'
    BY <1>21 DEF MaybeFinishClose
  <2>5. QED
    BY <2>1, <2>2, <2>3, <2>4
<1>22. CASE Close \/ Abandon
  <2>1. own' \in [Ops -> OwnType] /\ outcome' \in [Ops -> OutcomeType]
    BY <1>0, <1>22, RetireTyped DEF Close, Abandon
  <2>2. CellsTyped'
    BY <1>22, <2>1 DEF Close, Abandon
  <2>3. CoreTyped'
    BY <1>22, <2>1 DEF Close, Abandon
  <2>4. PumpsTyped'
    BY <1>22, <2>1 DEF Close, Abandon
  <2>5. WireTyped'
    BY <1>22, <2>1 DEF Close, Abandon
  <2>6. QED
    BY <2>2, <2>3, <2>4, <2>5
<1>23. ASSUME NEW o \in Ops, CompleteStopped(o)
       PROVE  TypeOK'
  <2>1. own' \in [Ops -> OwnType] /\ outcome' \in [Ops -> OutcomeType]
    BY <1>0, <1>23, RetireTyped DEF CompleteStopped
  <2>2. QED
    BY <1>23, <2>1 DEF CompleteStopped
<1>24. CASE ReadSteps \/ ReadArmFails
  <2>1. CellsTyped'
    BY <1>24 DEF ReadSteps, ReadVarsOnly, ReadStops, ReadQuiet, ReadData,
                 ReadFails, ReadErrorMapped, ReadLoss, ReadFatalTail,
                 ReadBatchDone, ReadBatchDoneClosing, ReadArm, ReadArmTeardown,
                 ReadArmFails, LossType
  <2>2. CoreTyped'
    BY <1>24 DEF ReadSteps, ReadVarsOnly, ReadStops, ReadQuiet, ReadData,
                 ReadFails, ReadErrorMapped, ReadLoss, ReadFatalTail,
                 ReadBatchDone, ReadBatchDoneClosing, ReadArm, ReadArmTeardown,
                 ReadArmFails, LossType
  <2>3. PumpsTyped'
    BY <1>24 DEF ReadSteps, ReadVarsOnly, ReadStops, ReadQuiet, ReadData,
                 ReadFails, ReadErrorMapped, ReadLoss, ReadFatalTail,
                 ReadBatchDone, ReadBatchDoneClosing, ReadArm, ReadArmTeardown,
                 ReadArmFails, LossType
  <2>4. WireTyped'
    BY <1>24 DEF ReadSteps, ReadVarsOnly, ReadStops, ReadQuiet, ReadData,
                 ReadFails, ReadErrorMapped, ReadLoss, ReadFatalTail,
                 ReadBatchDone, ReadBatchDoneClosing, ReadArm, ReadArmTeardown,
                 ReadArmFails, LossType
  <2>5. QED
    BY <2>1, <2>2, <2>3, <2>4
<1>25. ASSUME NEW type, Dispatching(type)
       PROVE  /\ inbox' \in Seq(ResponseType)
              /\ type = "tagged" => Head(inbox).op \in Ops
  <2>1. Head(inbox) \in ResponseType /\ inbox' \in Seq(ResponseType)
    BY <1>25 DEF Dispatching
  <2>2. type = "tagged" => Head(inbox).op \in Ops
    BY <1>25, <2>1 DEF Dispatching, ResponseType
  <2>3. QED
    BY <2>1, <2>2
<1>26. CASE DispatchDropped \/ DispatchBye \/ DispatchUnexpected
  <2>1. inbox' \in Seq(ResponseType)
    BY <1>25, <1>26 DEF DispatchDropped, DispatchBye, DispatchUnexpected
  <2>2. CellsTyped'
    BY <1>26, <2>1 DEF DispatchDropped, DispatchBye, DispatchUnexpected,
                       Dispatching, Fatal, LossType
  <2>3. CoreTyped'
    BY <1>26, <2>1 DEF DispatchDropped, DispatchBye, DispatchUnexpected,
                       Dispatching, Fatal, LossType
  <2>4. PumpsTyped'
    BY <1>26, <2>1 DEF DispatchDropped, DispatchBye, DispatchUnexpected,
                       Dispatching, Fatal, LossType
  <2>5. WireTyped'
    BY <1>26, <2>1 DEF DispatchDropped, DispatchBye, DispatchUnexpected,
                       Dispatching, Fatal, LossType
  <2>6. QED
    BY <2>2, <2>3, <2>4, <2>5
<1>27. CASE DispatchTagged
  <2>1. inbox' \in Seq(ResponseType)
    BY <1>25, <1>27 DEF DispatchTagged
  <2>2. own' \in [Ops -> OwnType] /\ outcome' \in [Ops -> OutcomeType]
    <3>1. \A o \in Ops : (IF o \in stopped THEN "stopped" ELSE "reply") \in OutcomeType
      BY DEF OutcomeType, ValueType
    <3>2. Head(inbox).op \in Ops
      BY <1>25, <1>27 DEF DispatchTagged
    <3>3. QED
      BY <1>27, <3>1, <3>2, RetireTyped DEF DispatchTagged
  <2>3. QED
    BY <1>27, <2>1, <2>2 DEF DispatchTagged, Dispatching, Unregister, RouteWithout
<1>28. CASE DispatchDiverged
  <2>1. inbox' \in Seq(ResponseType)
    BY <1>25, <1>28 DEF DispatchDiverged
  <2>2. QED
    BY <1>28, <2>1 DEF DispatchDiverged, Dispatching, Fatal, Unregister,
                       RouteWithout, LossType
<1>29. CASE DispatchContinuation
  <2>1. inbox' \in Seq(ResponseType)
    BY <1>25, <1>29 DEF DispatchContinuation
  <2>2. cmd' \in [Ops -> CommandType]
    BY <1>29, CommandOps DEF DispatchContinuation
  <2>3. QED
    BY <1>29, <2>1, <2>2 DEF DispatchContinuation, Dispatching, KickFromRead
<1>30. ASSUME NEW r \in ResponseType, ServerSends(r)
       PROVE  inbox' \in Seq(ResponseType)
  BY <1>30 DEF ServerSends
<1>31. ASSUME NEW o \in Ops, ServerContinues(o) \/ ServerAnswers(o)
       PROVE  TypeOK'
  <2>1. /\ [type |-> "plus", op |-> o] \in ResponseType
        /\ [type |-> "tagged", op |-> o] \in ResponseType
    BY DEF ResponseType
  <2>2. inbox' \in Seq(ResponseType)
    BY <1>30, <1>31, <2>1 DEF ServerContinues, ServerAnswers
  <2>3. granted' \in [Ops -> Nat]
    <3>1. CASE ServerContinues(o)
      BY <3>1 DEF ServerContinues
    <3>2. CASE ServerAnswers(o)
      BY <3>2 DEF ServerAnswers
    <3>3. QED
      BY <1>31, <3>1, <3>2
  <2>4. CellsTyped'
    BY <1>31, <2>2, <2>3 DEF ServerContinues, ServerAnswers, ServerSends
  <2>5. CoreTyped'
    BY <1>31, <2>2, <2>3 DEF ServerContinues, ServerAnswers, ServerSends
  <2>6. PumpsTyped'
    BY <1>31, <2>2, <2>3 DEF ServerContinues, ServerAnswers, ServerSends
  <2>7. WireTyped'
    BY <1>31, <2>2, <2>3 DEF ServerContinues, ServerAnswers, ServerSends
  <2>8. QED
    BY <2>4, <2>5, <2>6, <2>7
<1>32. CASE ServerBye \/ ServerGarbage
  <2>1. /\ [type |-> "bye", op |-> NoOp] \in ResponseType
        /\ [type |-> "garbage", op |-> NoOp] \in ResponseType
    BY DEF ResponseType
  <2>2. inbox' \in Seq(ResponseType)
    BY <1>30, <1>32, <2>1 DEF ServerBye, ServerGarbage
  <2>3. CellsTyped'
    BY <1>32, <2>2 DEF ServerBye, ServerGarbage, ServerSends
  <2>4. CoreTyped'
    BY <1>32, <2>2 DEF ServerBye, ServerGarbage, ServerSends
  <2>5. PumpsTyped'
    BY <1>32, <2>2 DEF ServerBye, ServerGarbage, ServerSends
  <2>6. WireTyped'
    BY <1>32, <2>2 DEF ServerBye, ServerGarbage, ServerSends
  <2>7. QED
    BY <2>3, <2>4, <2>5, <2>6
<1>33. CASE Hangup
  BY <1>33 DEF Hangup
<1>34. QED
  <2>1. CASE User
    BY <2>1, <1>2, <1>3, <1>4, <1>5, <1>6, <1>7, <1>8, <1>22 DEF User
  <2>2. CASE WritePump
    BY <2>2, <1>9, <1>10, <1>11, <1>12, <1>13, <1>14, <1>15, <1>16, <1>17,
       <1>18, <1>19 DEF WritePump
  <2>3. CASE ReadPump
    BY <2>3, <1>24, <1>26, <1>27, <1>28, <1>29 DEF ReadPump, ReadSteps
  <2>4. CASE Teardown
    BY <2>4, <1>20, <1>21, <1>23 DEF Teardown
  <2>5. CASE Server
    BY <2>5, <1>31, <1>32, <1>33 DEF Server
  <2>6. QED
    BY <1>1, <2>1, <2>2, <2>3, <2>4, <2>5 DEF Next

(* Every variable keeps its type in every behaviour; the continuation      *)
(* route and the last sender are operations or nobody.                     *)
THEOREM TypeCorrect == Spec => []TypeOK
<1>1. Init => TypeOK
  <2> SUFFICES ASSUME Init PROVE TypeOK
    OBVIOUS
  <2>1. Render("simple") \in CommandType
    BY CommandOps DEF AllKinds
  <2>2. CellsTyped
    BY <2>1 DEF Init, CellsTyped, OwnType, OutcomeType
  <2>3. CoreTyped
    BY DEF Init, InitRead, CoreTyped
  <2>4. PumpsTyped
    BY DEF Init, InitRead, PumpsTyped
  <2>5. WireTyped
    <3>1. inbox \in Seq(ResponseType)
      BY DEF Init
    <3>2. sent \in [Ops -> Nat] /\ granted \in [Ops -> Nat]
      BY DEF Init
    <3>3. QED
      BY <3>1, <3>2 DEF Init, WireTyped
  <2>6. QED
    BY <2>2, <2>3, <2>4, <2>5 DEF TypeOK
<1>2. TypeOK /\ [Next]_vars => TypeOK'
  BY TypeInductive
<1>3. QED
  BY <1>1, <1>2, PTL DEF Spec

-----------------------------------------------------------------------------
(* Registry and cells.  RegistryMatchesCells is not inductive alone: a     *)
(* cell held by a failed write is only excused while that write's loss is  *)
(* still to be reported, an abandoned context must be known to be past     *)
(* open, and a fresh tag must not be detached yet.                         *)
RegistryInv ==
    /\ RegistryMatchesCells
    /\ abandoned => phase # "open"
    /\ phase = "open" => \A o \in Ops : own[o] = "held" => "write" \in losing
    /\ \A o \in detached : own[o] # "none"

(* Every step keeps it.  Once the context has left open the claim is void  *)
(* and no step returns there, so only steps taken while open matter.       *)
LEMMA RegistryInductive ==
    ASSUME TypeOK, RegistryInv, [Next]_vars
    PROVE  RegistryInv'
<1> USE DEF RegistryInv, RegistryMatchesCells, Live, Queue, cellVars, coreVars,
            writeVars, readVars, owedVars, wireVars, histVars
<1>0. /\ own \in [Ops -> OwnType] /\ registry \subseteq Ops /\ detached \subseteq Ops
      /\ abandoned \in BOOLEAN
  BY DEF TypeOK, CellsTyped, CoreTyped
<1>1. CASE UNCHANGED vars
  BY <1>1 DEF vars
<1>2. ASSUME NEW o \in Ops, NEW k \in Kinds, NEW p \in Paths,
             Submit(o, k, p)
      PROVE  RegistryInv'
  BY <1>0, <1>2 DEF Submit, NewCell, NextTag, Move
<1>3. ASSUME NEW o \in Ops, NEW k \in Kinds, SubmitStopped(o, k)
      PROVE  RegistryInv'
  BY <1>0, <1>3 DEF SubmitStopped, NewCell, NextTag, Move
<1>4. ASSUME NEW o \in Ops, NEW k \in Kinds, NEW p \in Paths,
             SubmitRejected(o, k, p)
      PROVE  RegistryInv'
  BY <1>0, <1>4 DEF SubmitRejected, NewCell, Retire, Move
<1>5. ASSUME NEW o \in Ops, CancelExtract(o)
      PROVE  RegistryInv'
  BY <1>0, <1>5 DEF CancelExtract, CancelCall, Unregister, Move
<1>6. ASSUME NEW o \in Ops, CancelIdle(o)
      PROVE  RegistryInv'
  BY <1>0, <1>6 DEF CancelIdle, CancelCall
<1>7. ASSUME NEW o \in Ops, CancelDetach(o)
      PROVE  RegistryInv'
  BY <1>0, <1>7 DEF CancelDetach, CancelCall, Unregister
<1>8. CASE Close \/ Abandon
  BY <1>0, <1>8 DEF Close, Abandon, Retire, Move
<1>9. CASE Flush \/ KickReceiver
  BY <1>0, <1>9 DEF Flush, KickReceiver
<1>10. ASSUME NEW src \in {"user", "read", "flush"}, PostKick(src) \/ PostKickFails(src)
       PROVE  RegistryInv'
  BY <1>0, <1>10 DEF PostKick, PostKickFails
<1>11. ASSUME NEW src \in {"posted", "chained"}, Kick(src) \/ KickIdle(src)
       PROVE  RegistryInv'
  BY <1>0, <1>11 DEF Kick, KickIdle
<1>12. CASE WriteArm \/ WriteArmFails
  BY <1>0, <1>12 DEF WriteArm, WriteArmFails
<1>13. CASE WriteArmTeardown \/ WriteDoneTeardown
  <2>1. phase # "open" /\ UNCHANGED <<phase, abandoned, detached>>
    BY <1>0, <1>13 DEF WriteArmTeardown, WriteDoneTeardown
  <2>2. \A o \in Ops : own'[o] = own[o] \/ own'[o] = "freed"
    BY <1>13 DEF WriteArmTeardown, WriteDoneTeardown, Retire, Move
  <2>3. QED
    BY <1>0, <2>1, <2>2
<1>14. CASE WriteDone
  BY <1>0, <1>14 DEF WriteDone, WriteCompletes, StillQueued, Move
<1>15. CASE WriteError
  BY <1>0, <1>15 DEF WriteError, WriteCompletes, StillQueued, Move
<1>16. CASE WriteErrorDropped \/ WriteErrorTail
  <2>1. phase # "open" /\ UNCHANGED <<phase, abandoned, detached>>
    BY <1>0, <1>16 DEF WriteErrorDropped, WriteErrorTail
  <2>2. \A o \in Ops : own'[o] = own[o] \/ own'[o] = "freed"
    BY <1>16 DEF WriteErrorDropped, WriteErrorTail, Retire, Move
  <2>3. QED
    BY <1>0, <2>1, <2>2
<1>17. ASSUME NEW ec \in LossType, ConnectionLost(ec) \/ ConnectionLostLate(ec)
       PROVE  RegistryInv'
  BY <1>0, <1>17 DEF ConnectionLost, ConnectionLostLate, Retire, Move
<1>18. CASE MaybeFinishClose
  BY <1>0, <1>18 DEF MaybeFinishClose
<1>19. ASSUME NEW o \in Ops, CompleteStopped(o)
       PROVE  RegistryInv'
  BY <1>0, <1>19 DEF CompleteStopped, Retire, Move
<1>20. CASE ReadSteps \/ ReadArmFails
  <2>1. /\ UNCHANGED <<own, registry, detached, abandoned>>
        /\ losing \subseteq losing'
        /\ losing' = {} => losing = {}
        /\ phase' = "open" => phase = "open"
        /\ phase = "open" => phase' \in {"open", "draining", "closed"}
    BY <1>20 DEF ReadSteps, ReadVarsOnly, ReadStops, ReadQuiet, ReadData,
                 ReadFails, ReadErrorMapped, ReadFatalTail, ReadBatchDone,
                 ReadBatchDoneClosing, ReadArm, ReadArmTeardown, ReadArmFails
  <2>2. QED
    BY <1>0, <2>1
<1>21. CASE DispatchDropped \/ DispatchBye \/ DispatchUnexpected \/ DispatchContinuation
  BY <1>0, <1>21 DEF DispatchDropped, DispatchBye, DispatchUnexpected,
                     DispatchContinuation, Dispatching, Fatal
<1>22. CASE DispatchTagged
  BY <1>0, <1>22 DEF DispatchTagged, Dispatching, Unregister, Retire, Move
<1>23. CASE DispatchDiverged
  BY <1>0, <1>23 DEF DispatchDiverged, Dispatching, Unregister, Fatal
<1>24. CASE Server
  <2>1. UNCHANGED <<cellVars, coreVars, owedVars>>
    BY <1>24 DEF Server, ServerContinues, ServerAnswers, ServerBye,
                 ServerGarbage, Hangup, ServerSends
  <2>2. QED
    BY <2>1
<1>25. QED
  <2>1. CASE User
    BY <2>1, <1>2, <1>3, <1>4, <1>5, <1>6, <1>7, <1>8, <1>9 DEF User
  <2>2. CASE WritePump
    BY <2>2, <1>9, <1>10, <1>11, <1>12, <1>13, <1>14, <1>15, <1>16 DEF WritePump
  <2>3. CASE ReadPump
    BY <2>3, <1>20, <1>21, <1>22, <1>23 DEF ReadPump, ReadSteps
  <2>4. CASE Teardown
    BY <2>4, <1>17, <1>18, <1>19 DEF Teardown
  <2>5. QED
    BY <1>1, <1>24, <2>1, <2>2, <2>3, <2>4 DEF Next

(* While the context is open a tag in the registry always leads to a cell  *)
(* that exists and was not detached, and, unless a loss is being reported, *)
(* every queued cell can be found by its tag: no reply, cancel or          *)
(* broadcast reaches freed memory and no operation misses its reply.       *)
THEOREM RegistryMatchesCellsHolds == Spec => []RegistryMatchesCells
<1>1. Init => RegistryInv
  BY DEF Init, InitRead, RegistryInv, RegistryMatchesCells, Live, Queue
<1>2. TypeOK /\ RegistryInv /\ [Next]_vars => RegistryInv'
  BY RegistryInductive
<1>3. RegistryInv => RegistryMatchesCells
  BY DEF RegistryInv
<1>4. QED
  BY <1>1, <1>2, <1>3, TypeCorrect, PTL DEF Spec

-----------------------------------------------------------------------------
(* The continuation route.                                                 *)

(* A flush notification never changes whether a command waits for the      *)
(* server, and asking an IDLE to end does not make it stop waiting.        *)
LEMMA AwaitsStable ==
    ASSUME NEW c \in CommandType
    PROVE  /\ AwaitsContinuation(OnSegmentFlushed(c)) <=> AwaitsContinuation(c)
           /\ AwaitsContinuation(c) => AwaitsContinuation(Done(c))
<1>1. CASE c.kind = "idle"
  BY <1>1 DEF AwaitsContinuation, OnSegmentFlushed, FlushIdle, Done, QueueDone,
              CommandType
<1>2. CASE c.kind # "idle"
  BY <1>2 DEF AwaitsContinuation, OnSegmentFlushed, FlushSegments, Done,
              QueueDone, CommandType
<1>3. QED
  BY <1>1, <1>2

(* The route is dropped by every way out of open.                          *)
RouteInv ==
    /\ TargetWaits
    /\ phase # "open" => target = NoOp

(* Every step keeps it: a cell that waits is never extracted by a cancel   *)
(* or a flush, a tagged reply and a teardown take the route with them.     *)
LEMMA RouteInductive ==
    ASSUME TypeOK, RegistryInv, RouteInv, [Next]_vars
    PROVE  RouteInv'
<1> USE DEF RouteInv, TargetWaits, Live, Awaits, cellVars, coreVars,
            writeVars, readVars, owedVars, wireVars, histVars
<1>0. /\ own \in [Ops -> OwnType] /\ cmd \in [Ops -> CommandType]
      /\ abandoned \in BOOLEAN
  BY DEF TypeOK, CellsTyped, CoreTyped
<1>1. CASE UNCHANGED vars
  BY <1>1 DEF vars
<1>2. ASSUME NEW o \in Ops, NEW k \in Kinds, NEW p \in Paths,
             Submit(o, k, p) \/ SubmitRejected(o, k, p)
      PROVE  RouteInv'
  BY <1>0, <1>2 DEF Submit, SubmitRejected, NewCell, NextTag, Retire, Move
<1>3. ASSUME NEW o \in Ops, NEW k \in Kinds, SubmitStopped(o, k)
      PROVE  RouteInv'
  BY <1>0, <1>3 DEF SubmitStopped, NewCell, NextTag, Move
<1>4. ASSUME NEW o \in Ops, CancelExtract(o)
      PROVE  RouteInv'
  <2>1. ~Awaits(o)
    BY <1>4 DEF CancelExtract, NeverStaged, IsWritten
  <2>2. QED
    BY <1>0, <1>4, <2>1 DEF CancelExtract, CancelCall, Move
<1>5. ASSUME NEW o \in Ops, CancelIdle(o)
      PROVE  RouteInv'
  BY <1>0, <1>5, AwaitsStable DEF CancelIdle, CancelCall
<1>6. ASSUME NEW o \in Ops, CancelDetach(o)
      PROVE  RouteInv'
  BY <1>0, <1>6 DEF CancelDetach, CancelCall
<1>7. CASE Close \/ Abandon
  BY <1>7 DEF Close, Abandon
<1>8. CASE Flush \/ KickReceiver
  BY <1>8 DEF Flush, KickReceiver
<1>9. ASSUME NEW src \in {"user", "read", "flush"}, PostKick(src) \/ PostKickFails(src)
      PROVE  RouteInv'
  BY <1>9 DEF PostKick, PostKickFails
<1>10. ASSUME NEW src \in {"posted", "chained"}, Kick(src) \/ KickIdle(src)
       PROVE  RouteInv'
  <2>1. StagedRoute = target \/ (StagedRoute \in Live /\ Awaits(StagedRoute))
    BY DEF StagedRoute, StageSet, Queue
  <2>2. QED
    BY <1>10, <2>1 DEF Kick, KickIdle, CanKick
<1>11. CASE WriteArm \/ WriteArmFails
  BY <1>11 DEF WriteArm, WriteArmFails
<1>12. CASE WriteArmTeardown \/ WriteDoneTeardown \/ WriteErrorDropped \/ WriteErrorTail
  <2>1. phase # "open"
    BY <1>0, <1>12 DEF WriteArmTeardown, WriteDoneTeardown, WriteErrorDropped,
                       WriteErrorTail, RegistryInv
  <2>2. UNCHANGED <<phase, target>>
    BY <1>12 DEF WriteArmTeardown, WriteDoneTeardown, WriteErrorDropped,
                 WriteErrorTail
  <2>3. QED
    BY <2>1, <2>2
<1>13. CASE WriteDone
  <2>1. StillQueued \subseteq Live /\ Live \subseteq Ops
    BY DEF StillQueued, Queue
  <2>2. \A o \in Ops : AwaitsContinuation(cmd'[o]) <=> AwaitsContinuation(cmd[o])
    BY <1>0, <1>13, AwaitsStable DEF WriteDone
  <2>3. \A o \in Live : AwaitsContinuation(cmd'[o]) => o \in Live'
    BY <1>0, <1>13, <2>1 DEF WriteDone, Move
  <2>4. target' = target \/ (target' \in StillQueued /\ AwaitsContinuation(cmd'[target']))
    BY <1>13 DEF WriteDone
  <2>5. phase' = "open"
    BY <1>13 DEF WriteDone
  <2>6. QED
    BY <2>1, <2>2, <2>3, <2>4, <2>5
<1>14. CASE WriteError
  BY <1>0, <1>14 DEF WriteError, WriteCompletes, StillQueued, Move
<1>15. ASSUME NEW ec \in LossType, ConnectionLost(ec) \/ ConnectionLostLate(ec)
       PROVE  RouteInv'
  BY <1>15 DEF ConnectionLost, ConnectionLostLate
<1>16. CASE MaybeFinishClose
  BY <1>16 DEF MaybeFinishClose, CanClose
<1>17. ASSUME NEW o \in Ops, CompleteStopped(o)
       PROVE  RouteInv'
  BY <1>0, <1>17 DEF CompleteStopped, Retire, Move
<1>18. CASE ReadSteps \/ ReadArmFails
  <2>1. /\ UNCHANGED <<own, cmd, target>>
        /\ phase' # "open" => phase # "open"
    BY <1>18 DEF ReadSteps, ReadVarsOnly, ReadStops, ReadQuiet, ReadData,
                 ReadFails, ReadErrorMapped, ReadFatalTail, ReadBatchDone,
                 ReadBatchDoneClosing, ReadArm, ReadArmTeardown, ReadArmFails
  <2>2. QED
    BY <2>1
<1>19. CASE DispatchDropped \/ DispatchBye \/ DispatchUnexpected
  BY <1>19 DEF DispatchDropped, DispatchBye, DispatchUnexpected, Dispatching
<1>20. CASE DispatchContinuation
  BY <1>20 DEF DispatchContinuation, Dispatching
<1>21. CASE DispatchTagged \/ DispatchDiverged
  BY <1>0, <1>21 DEF DispatchTagged, DispatchDiverged, Dispatching,
                     RouteWithout, Retire, Move
<1>22. CASE Server
  <2>1. UNCHANGED <<cellVars, coreVars, owedVars>>
    BY <1>22 DEF Server, ServerContinues, ServerAnswers, ServerBye,
                 ServerGarbage, Hangup, ServerSends
  <2>2. QED
    BY <2>1
<1>23. QED
  <2>1. CASE User
    BY <2>1, <1>2, <1>3, <1>4, <1>5, <1>6, <1>7, <1>8 DEF User
  <2>2. CASE WritePump
    BY <2>2, <1>8, <1>9, <1>10, <1>11, <1>12, <1>13, <1>14 DEF WritePump
  <2>3. CASE ReadPump
    BY <2>3, <1>18, <1>19, <1>20, <1>21 DEF ReadPump, ReadSteps
  <2>4. CASE Teardown
    BY <2>4, <1>15, <1>16, <1>17 DEF Teardown
  <2>5. QED
    BY <1>1, <1>22, <2>1, <2>2, <2>3, <2>4 DEF Next

(* continuation_target_ never dangles and never names an operation that is *)
(* not waiting for the server, in any phase and under every fault.         *)
THEOREM TargetWaitsHolds == Spec => []TargetWaits
<1>1. Init => RegistryInv /\ RouteInv
  BY DEF Init, InitRead, RegistryInv, RegistryMatchesCells, Live, Queue,
         RouteInv, TargetWaits
<1>2. TypeOK /\ RegistryInv /\ RouteInv /\ [Next]_vars => RegistryInv' /\ RouteInv'
  BY RegistryInductive, RouteInductive
<1>3. RouteInv => TargetWaits
  BY DEF RouteInv
<1>4. QED
  BY <1>1, <1>2, <1>3, TypeCorrect, PTL DEF Spec

-----------------------------------------------------------------------------
(* The write's list of raw pointers, when no freed cell's address is given *)
(* to a new cell while the list still names it ("reuse" is not a fault of  *)
(* the instance; flush_hits_reused_cell shows that the claim needs this).  *)
ListedCell(o) ==
    \/ own[o] = "queued" /\ o \in staged
    \/ outcome[o] \in {"reply", "stopped"}

BatchInv ==
    /\ \A o \in batch : ListedCell(o)
    /\ \A o \in Ops : own[o] # "freed" => outcome[o] = "none"

(* Every step keeps it: teardown and cancellation pass over staged cells,  *)
(* so only a tagged reply takes a listed cell away.                        *)
LEMMA BatchInductive ==
    ASSUME "reuse" \notin Faults, TypeOK, RegistryInv, BatchInv, [Next]_vars
    PROVE  BatchInv'
<1> USE DEF BatchInv, ListedCell, Queue, cellVars, coreVars, writeVars,
            readVars, owedVars, wireVars, histVars
<1>0. /\ own \in [Ops -> OwnType] /\ outcome \in [Ops -> OutcomeType]
      /\ batch \subseteq Ops /\ staged \subseteq Ops
  BY DEF TypeOK, CellsTyped, PumpsTyped
<1>1. CASE UNCHANGED vars
  BY <1>1 DEF vars
<1>2. ASSUME NEW o \in Ops, NEW k \in Kinds, NEW p \in Paths, Submit(o, k, p)
      PROVE  BatchInv'
  BY <1>0, <1>2 DEF Submit, NewCell, NextTag, PlaceCell, Move
<1>3. ASSUME NEW o \in Ops, NEW k \in Kinds, SubmitStopped(o, k)
      PROVE  BatchInv'
  BY <1>0, <1>3 DEF SubmitStopped, NewCell, NextTag, Move
<1>4. ASSUME NEW o \in Ops, NEW k \in Kinds, NEW p \in Paths,
             SubmitRejected(o, k, p)
      PROVE  BatchInv'
  BY <1>0, <1>4 DEF SubmitRejected, NewCell, NextTag, Retire, Move, Deliver
<1>5. ASSUME NEW o \in Ops, CancelExtract(o)
      PROVE  BatchInv'
  <2>1. o \notin staged
    BY <1>5 DEF CancelExtract, NeverStaged, IsWritten
  <2>2. own[o] # "freed"
    BY <1>5 DEF CancelExtract, CancelCall, RegistryInv, RegistryMatchesCells, Live
  <2>3. QED
    BY <1>0, <1>5, <2>1, <2>2 DEF CancelExtract, CancelCall, Move
<1>6. ASSUME NEW o \in Ops, CancelIdle(o) \/ CancelDetach(o)
      PROVE  BatchInv'
  BY <1>0, <1>6 DEF CancelIdle, CancelDetach, CancelCall
<1>7. CASE Close \/ Abandon
  BY <1>0, <1>7 DEF Close, Abandon, Losable, Retire, Move, Deliver
<1>8. CASE Flush \/ KickReceiver
  BY <1>0, <1>8 DEF Flush, KickReceiver
<1>9. ASSUME NEW src \in {"user", "read", "flush"}, PostKick(src) \/ PostKickFails(src)
      PROVE  BatchInv'
  BY <1>0, <1>9 DEF PostKick, PostKickFails
<1>10. ASSUME NEW src \in {"posted", "chained"}, Kick(src) \/ KickIdle(src)
       PROVE  BatchInv'
  BY <1>0, <1>10 DEF Kick, KickIdle, StageSet
<1>11. CASE WriteArm \/ WriteArmFails
  BY <1>0, <1>11 DEF WriteArm, WriteArmFails
<1>12. CASE WriteArmTeardown \/ WriteDoneTeardown
  <2>1. batch' = {}
    BY <1>12 DEF WriteArmTeardown, WriteDoneTeardown, WriteCompletes
  <2>2. \E S, r : Retire(S, r)
    BY <1>12 DEF WriteArmTeardown, WriteDoneTeardown
  <2>3. QED
    BY <1>0, <2>1, <2>2 DEF Retire, Move, Deliver
<1>13. CASE WriteDone \/ WriteError
  <2>1. batch' = {} /\ UNCHANGED outcome
    BY <1>13 DEF WriteDone, WriteError, WriteCompletes
  <2>3. \A o \in Ops : own[o] = "freed" \/ outcome[o] = "none"
    OBVIOUS
  <2>4. \A o \in StillQueued : outcome[o] = "none"
    BY DEF StillQueued
  <2>5. \A o \in Ops : own'[o] = own[o] \/ o \in StillQueued
    BY <1>13 DEF WriteDone, WriteError, Move
  <2>6. QED
    BY <1>0, <2>1, <2>3, <2>4, <2>5
<1>14. CASE WriteErrorDropped \/ WriteErrorTail
  BY <1>0, <1>14 DEF WriteErrorDropped, WriteErrorTail, Retire, Move, Deliver
<1>15. ASSUME NEW ec \in LossType, ConnectionLost(ec) \/ ConnectionLostLate(ec)
       PROVE  BatchInv'
  BY <1>0, <1>15 DEF ConnectionLost, ConnectionLostLate, Losable, Retire, Move,
                     Deliver
<1>16. CASE MaybeFinishClose
  BY <1>16 DEF MaybeFinishClose
<1>17. ASSUME NEW o \in Ops, CompleteStopped(o)
       PROVE  BatchInv'
  BY <1>0, <1>17 DEF CompleteStopped, Retire, Move, Deliver
<1>18. CASE ReadSteps \/ ReadArmFails
  <2>1. UNCHANGED <<own, outcome, staged, batch>>
    BY <1>18 DEF ReadSteps, ReadVarsOnly, ReadStops, ReadQuiet, ReadData,
                 ReadFails, ReadErrorMapped, ReadFatalTail, ReadBatchDone,
                 ReadBatchDoneClosing, ReadArm, ReadArmTeardown, ReadArmFails
  <2>2. QED
    BY <2>1
<1>19. CASE Dispatch
  <2>1. CASE DispatchTagged
    BY <1>0, <2>1 DEF DispatchTagged, Dispatching, Retire, Move, Deliver
  <2>2. CASE ~DispatchTagged
    BY <1>19, <2>2 DEF Dispatch, DispatchDropped, DispatchDiverged,
                       DispatchBye, DispatchContinuation, DispatchUnexpected,
                       Dispatching
  <2>3. QED
    BY <2>1, <2>2
<1>20. CASE Server
  <2>1. UNCHANGED <<cellVars, writeVars>>
    BY <1>20 DEF Server, ServerContinues, ServerAnswers, ServerBye,
                 ServerGarbage, Hangup, ServerSends
  <2>2. QED
    BY <2>1
<1>21. QED
  <2>1. CASE User
    BY <2>1, <1>2, <1>3, <1>4, <1>5, <1>6, <1>7, <1>8 DEF User
  <2>2. CASE WritePump
    BY <2>2, <1>8, <1>9, <1>10, <1>11, <1>12, <1>13, <1>14 DEF WritePump
  <2>3. CASE ReadPump
    BY <2>3, <1>18, <1>19 DEF ReadPump, ReadSteps, Dispatch
  <2>4. CASE Teardown
    BY <2>4, <1>15, <1>16, <1>17 DEF Teardown
  <2>5. QED
    BY <1>1, <1>20, <2>1, <2>2, <2>3, <2>4 DEF Next

(* Without address reuse, close(), abandon() and connection_lost() never   *)
(* destroy a cell that an armed or arming write still points to.           *)
THEOREM StagedOutliveTeardownHolds ==
    ASSUME "reuse" \notin Faults
    PROVE  Spec => []StagedOutliveTeardown
<1>1. Init => RegistryInv /\ BatchInv
  BY DEF Init, InitRead, RegistryInv, RegistryMatchesCells, Live, Queue,
         BatchInv
<1>2. TypeOK /\ RegistryInv /\ BatchInv /\ [Next]_vars
        => RegistryInv' /\ BatchInv'
  BY RegistryInductive, BatchInductive
<1>3. BatchInv => StagedOutliveTeardown
  BY DEF BatchInv, ListedCell, StagedOutliveTeardown
<1>4. QED
  BY <1>1, <1>2, <1>3, TypeCorrect, PTL DEF Spec

(* Without address reuse, a pointer that on_write_done finds in the queue  *)
(* again is a cell whose bytes were in that write.                         *)
THEOREM FlushHitsStagedHolds ==
    ASSUME "reuse" \notin Faults
    PROVE  Spec => []FlushHitsStaged
<1>1. Init => RegistryInv /\ BatchInv
  BY DEF Init, InitRead, RegistryInv, RegistryMatchesCells, Live, Queue,
         BatchInv
<1>2. TypeOK /\ RegistryInv /\ BatchInv /\ [Next]_vars
        => RegistryInv' /\ BatchInv'
  BY RegistryInductive, BatchInductive
<1>3. TypeOK /\ BatchInv => FlushHitsStaged
  BY DEF BatchInv, ListedCell, FlushHitsStaged, StillQueued, Queue
<1>4. QED
  BY <1>1, <1>2, <1>3, TypeCorrect, PTL DEF Spec

=============================================================================
