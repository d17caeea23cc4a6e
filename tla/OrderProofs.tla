---------------------------- MODULE OrderProofs ----------------------------
(***************************************************************************)
(* What the write pump owes the queue: no drain is forgotten, and the      *)
(* segments of a command are not interleaved with another command's.       *)
(***************************************************************************)
EXTENDS RoutingProofs, WellFoundedInduction

-----------------------------------------------------------------------------
(* A set of naturals that is not empty has a least element.                *)
LEMMA LeastElement ==
    ASSUME NEW S, S \subseteq Nat, S # {}
    PROVE  \E x \in S : \A y \in S : x <= y
<1> DEFINE Less == OpToRel(<, Nat)
<1>1. IsWellFoundedOn(Less, Nat)
  BY NatLessThanWellFounded, Zenon
<1>2. PICK x \in S : \A y \in S : ~(<<y, x>> \in Less)
  <2> HIDE DEF Less
  <2>1. QED
    BY <1>1, WFMin
<1>3. \A y \in S : ~(y < x)
  BY <1>2 DEF OpToRel
<1>4. QED
  BY <1>3

-----------------------------------------------------------------------------
(* A command keeps its kind, and a cell gets its kind from the caller.     *)
LEMMA KindsStable ==
    ASSUME TypeOK, CoreInv, [Next]_vars
    PROVE  \A o \in Ops :
              /\ own[o] # "none" => cmd'[o].kind = cmd[o].kind
              /\ cmd'[o].kind \in Kinds \/ cmd'[o].kind = cmd[o].kind
<1> USE DEF cellVars, coreVars, writeVars, readVars, owedVars, wireVars,
            histVars
<1>0. cmd \in [Ops -> CommandType] /\ staged \subseteq Ops /\ Queue \subseteq Ops
  BY DEF TypeOK, CellsTyped, Queue
<1>i. RegistryInv /\ RouteInv /\ BatchInv /\ SegInv
  BY DEF CoreInv
<1>c. \A o \in Ops : /\ Flushed(cmd[o]) \in Nat /\ Unlocked(cmd[o]) \in Nat
                     /\ Sane(cmd[o]) /\ cmd[o] \in CommandType
                     /\ Flushed(cmd[o]) + InFlight(o) <= Unlocked(cmd[o])
  BY <1>0, <1>i, CounterTypes DEF SegInv, SegmentsWithin
<1>1. CASE UNCHANGED cmd
  BY <1>1
<1>2. CASE UNCHANGED vars
  BY <1>1, <1>2 DEF vars
<1>3. CASE User
  <2>1. ASSUME NEW o \in Ops, NEW k \in Kinds, NEW p, NewCell(o, k, p)
        PROVE  \A q \in Ops :
                  /\ own[q] # "none" => cmd'[q].kind = cmd[q].kind
                  /\ cmd'[q].kind \in Kinds \/ cmd'[q].kind = cmd[q].kind
    <3>1. own[o] = "none" /\ cmd' = [cmd EXCEPT ![o] = Render(k)]
      BY <2>1 DEF NewCell, NextTag
    <3>2. Render(k).kind = k
      BY RenderFacts, ContextAssumption
    <3>3. QED
      BY <1>0, <3>1, <3>2
  <2>2. ASSUME NEW o \in Ops, CancelIdle(o)
        PROVE  \A q \in Ops : cmd'[q].kind = cmd[q].kind
    <3>1. cmd' = [cmd EXCEPT ![o] = Done(cmd[o])] /\ cmd[o].kind = "idle"
      BY <2>2 DEF CancelIdle, HandlesCancel
    <3>2. Done(cmd[o]).kind = cmd[o].kind
      BY <1>c, <3>1, DoneFacts
    <3>3. QED
      BY <1>0, <3>1, <3>2
  <2>3. CASE Flush \/ Close \/ Abandon
    BY <1>1, <2>3 DEF Flush, Close, Abandon
  <2>4. ASSUME NEW o \in Ops, CancelExtract(o) \/ CancelDetach(o)
        PROVE  UNCHANGED cmd
    BY <2>4 DEF CancelExtract, CancelDetach
  <2>5. ASSUME NEW o \in Ops, NEW k \in Kinds, NEW p \in Paths,
               Submit(o, k, p) \/ SubmitRejected(o, k, p)
        PROVE  NewCell(o, k, p)
    BY <2>5 DEF Submit, SubmitRejected
  <2>6. ASSUME NEW o \in Ops, NEW k \in Kinds, SubmitStopped(o, k)
        PROVE  NewCell(o, k, "sender")
    BY <2>6 DEF SubmitStopped
  <2>7. QED
    BY <1>1, <1>3, <2>1, <2>2, <2>3, <2>4, <2>5, <2>6 DEF User
<1>4. CASE WriteDone
  <2>1. cmd' = [o \in Ops |-> IF o \in StillQueued THEN OnSegmentFlushed(cmd[o])
                                                   ELSE cmd[o]]
    BY <1>4 DEF WriteDone
  <2>2. \A o \in StillQueued : o \in staged
    BY <1>i DEF BatchInv, ListedCell, StillQueued, Queue
  <2>3. \A o \in StillQueued : Flushed(cmd[o]) + 1 <= Unlocked(cmd[o]) /\ o \in Ops
    BY <1>0, <1>c, <2>2 DEF InFlight, StillQueued
  <2>4. \A o \in StillQueued : OnSegmentFlushed(cmd[o]).kind = cmd[o].kind
    BY <1>c, <2>3, FlushFacts
  <2>5. QED
    BY <2>1, <2>4
<1>5. CASE WritePump
  <2>1. CASE ~WriteDone
    BY <1>1, <1>5, <2>1
       DEF WritePump, PostKick, PostKickFails, KickReceiver, Kick, KickIdle,
           WriteArm, WriteArmTeardown, WriteArmFails, WriteDoneTeardown,
           WriteError, WriteErrorDropped, WriteErrorTail
  <2>2. QED
    BY <2>1, <1>4
<1>6. CASE DispatchContinuation
  <2>1. /\ target \in Ops /\ AwaitsContinuation(cmd[target])
        /\ cmd' = [cmd EXCEPT ![target] = OnContinuation(cmd[target])]
    BY <1>i, <1>6 DEF DispatchContinuation, RouteInv, TargetWaits, Live, Awaits
  <2>2. OnContinuation(cmd[target]).kind = cmd[target].kind
    BY <1>c, <2>1, ContinueFacts
  <2>3. QED
    BY <1>0, <2>1, <2>2
<1>7. CASE ReadPump
  <2>1. CASE ~DispatchContinuation
    BY <1>1, <1>7, <2>1
       DEF ReadPump, ReadVarsOnly, ReadStops, ReadQuiet, ReadData, ReadFails,
           ReadErrorMapped, DispatchDropped, DispatchTagged, DispatchDiverged,
           DispatchBye, DispatchUnexpected, ReadFatalTail, ReadBatchDone,
           ReadBatchDoneClosing, ReadArm, ReadArmTeardown, ReadArmFails
  <2>2. QED
    BY <2>1, <1>6
<1>8. CASE Teardown \/ Server
  BY <1>1, <1>8 DEF Teardown, ConnectionLost, ConnectionLostLate,
         MaybeFinishClose, CompleteStopped, Server, ServerContinues,
         ServerAnswers, ServerBye, ServerGarbage, Hangup, ServerSends
<1>9. QED
  BY <1>2, <1>3, <1>5, <1>7, <1>8 DEF Next

(* Only an armed write puts bytes on the wire, only the server answers,    *)
(* and a connection that has ended stays ended.                            *)
LEMMA WireSteps ==
    ASSUME [Next]_vars
    PROVE  /\ UNCHANGED <<sent, lastSent>> \/ WriteArm
           /\ UNCHANGED answered \/ \E o \in Ops : ServerAnswers(o)
           /\ eof' = eof \/ Hangup
<1> USE DEF cellVars, coreVars, writeVars, readVars, owedVars, wireVars,
            histVars
<1>1. CASE UNCHANGED wireVars
  BY <1>1
<1>2. CASE UNCHANGED vars
  BY <1>1, <1>2 DEF vars
<1>3. CASE User
  BY <1>1, <1>3 DEF User, Submit, SubmitRejected, SubmitStopped, Flush,
         CancelExtract, CancelIdle, CancelDetach, CancelCall, Close, Abandon
<1>4. CASE WritePump
  <2>1. CASE WriteArm
    BY <2>1 DEF WriteArm
  <2>2. CASE ~WriteArm
    BY <1>1, <1>4, <2>2
       DEF WritePump, PostKick, PostKickFails, KickReceiver, Kick, KickIdle,
           WriteArmTeardown, WriteArmFails, WriteDone, WriteDoneTeardown,
           WriteError, WriteErrorDropped, WriteErrorTail, WriteCompletes
  <2>3. QED
    BY <2>1, <2>2
<1>5. CASE ReadPump
  BY <1>5 DEF ReadPump, ReadVarsOnly, ReadStops, ReadQuiet, ReadData, ReadFails,
         ReadErrorMapped, Dispatching, DispatchDropped, DispatchTagged,
         DispatchDiverged, DispatchBye, DispatchContinuation,
         DispatchUnexpected, ReadFatalTail, ReadBatchDone,
         ReadBatchDoneClosing, ReadArm, ReadArmTeardown, ReadArmFails
<1>6. CASE Teardown
  BY <1>1, <1>6 DEF Teardown, ConnectionLost, ConnectionLostLate,
         MaybeFinishClose, CompleteStopped
<1>7. CASE Server
  <2>1. UNCHANGED <<sent, lastSent>>
    BY <1>7 DEF Server, ServerContinues, ServerAnswers, ServerBye,
                ServerGarbage, Hangup, ServerSends
  <2>2. UNCHANGED answered \/ \E o \in Ops : ServerAnswers(o)
    BY <1>7 DEF Server, ServerContinues, ServerBye, ServerGarbage, Hangup
  <2>3. eof' = eof \/ Hangup
    BY <1>7 DEF Server, ServerContinues, ServerAnswers, ServerBye,
                ServerGarbage, ServerSends
  <2>4. QED
    BY <2>1, <2>2, <2>3
<1>8. QED
  BY <1>2, <1>3, <1>4, <1>5, <1>6, <1>7 DEF Next

-----------------------------------------------------------------------------
(* Without a refusal the server answers a command it has seen completely.  *)
AnswersFull == \A o \in answered : FullCount(o) <= sent[o]

(* An operation with something to send that nothing in front of it blocks  *)
(* for good, and that has asked for a drain.                               *)
Ready(o) ==
    /\ Available(o)
    /\ path[o] = "sender" \/ o \in hasWritten
    /\ \A p \in Queue : p < o => ~Awaits(p)

WakeInv ==
    /\ AnswersFull
    /\ phase = "open" => \A o \in Queue : Ready(o) => WakeOwed

(* A ready operation makes the drain find something to stage: it, or an    *)
(* operation in front of it.                                               *)
LEMMA ReadyIsStaged ==
    ASSUME NEW o \in Queue, Ready(o)
    PROVE  StageSet # {}
<1> DEFINE S == {p \in Queue : Available(p)}
<1>1. o \in S /\ S \subseteq Nat
  BY DEF Ready, Queue, Ops
<1>2. PICK x \in S : \A y \in S : x <= y
  <2> HIDE DEF S
  <2>1. QED
    BY <1>1, LeastElement
<1>3. x \in Queue /\ Available(x) /\ x <= o /\ Queue \subseteq Nat
  BY <1>1, <1>2 DEF Queue, Ops
<1>4. ASSUME NEW p \in Queue, p < x
      PROVE  ~Wall(p)
  <2>1. p < o
    BY <1>3, <1>4
  <2>2. ~Awaits(p)
    BY <2>1 DEF Ready
  <2>3. ~Available(p)
    BY <1>2, <1>3, <1>4
  <2>4. QED
    BY <2>2, <2>3 DEF Wall
<1>5. x \in StageSet
  BY <1>3, <1>4 DEF StageSet
<1>6. QED
  BY <1>5

(* Every step keeps it: what makes an operation ready also kicks, and a    *)
(* kick returns early only on a write in flight or with nothing to stage.  *)
LEMMA WakeInductive ==
    ASSUME "reuse" \notin Faults, "refuse" \notin Faults, TypeOK, CoreInv,
           WakeInv, [Next]_vars
    PROVE  WakeInv'
<1> USE DEF cellVars, coreVars, writeVars, readVars, owedVars, wireVars,
            histVars
<1>0. /\ own \in [Ops -> OwnType] /\ cmd \in [Ops -> CommandType]
      /\ path \in [Ops -> {"callback", "sender"}]
      /\ staged \subseteq Ops /\ batch \subseteq Ops /\ Ops \subseteq Nat
      /\ sent \in [Ops -> Nat] /\ answered \subseteq Ops
      /\ abandoned \in BOOLEAN /\ inbox \in Seq(ResponseType)
      /\ Queue \subseteq Ops
  BY DEF TypeOK, CellsTyped, CoreTyped, PumpsTyped, WireTyped, Ops, Queue
<1>i. PumpsLatched /\ RegistryInv /\ RouteInv /\ BatchInv /\ SegInv /\ StagingInv
  BY DEF CoreInv
<1>c. \A o \in Ops : /\ Flushed(cmd[o]) \in Nat /\ Unlocked(cmd[o]) \in Nat
                     /\ Sane(cmd[o]) /\ cmd[o] \in CommandType
                     /\ Flushed(cmd[o]) + InFlight(o) <= Unlocked(cmd[o])
                     /\ FullCount(o) = Full(cmd[o]) /\ FullCount(o) \in Nat
                     /\ Awaits(o) => Unlocked(cmd[o]) < FullCount(o)
  BY <1>0, <1>i, CounterTypes DEF SegInv, SegmentsWithin, FullCount, Full, Awaits
<1>full. AnswersFull'
  <2>1. \A o \in Ops : sent'[o] \in Nat /\ sent[o] <= sent'[o]
    BY <1>0, WireSteps DEF WriteArm
  <2>2. \A o \in answered : FullCount(o)' = FullCount(o)
    BY <1>0, <1>i, KindsStable DEF FullCount, SegInv, TagsInOrder, Fresh
  <2>3. ASSUME NEW o \in answered
        PROVE  FullCount(o)' <= sent'[o]
    <3>1. FullCount(o) <= sent[o] /\ o \in Ops
      BY <1>0 DEF WakeInv, AnswersFull
    <3>2. QED
      BY <1>0, <1>c, <2>1, <2>2, <3>1
  <2>4. ASSUME NEW o \in Ops, ServerAnswers(o)
        PROVE  answered' = answered \cup {o} /\ FullCount(o)' <= sent'[o]
    <3>1. /\ answered' = answered \cup {o} /\ UNCHANGED <<cmd, sent>>
          /\ sent[o] = FullCount(o)
      BY <2>4 DEF ServerAnswers, ServerSends
    <3>2. QED
      BY <1>0, <1>c, <3>1 DEF FullCount
  <2>5. QED
    BY <2>3, <2>4, WireSteps DEF AnswersFull
<1> DEFINE Woken == \A o \in Queue : Ready(o) => WakeOwed
<1>goal. SUFFICES ASSUME phase' = "open", losing' = {} PROVE Woken'
  BY <1>full DEF WakeInv, WakeOwed
<1>s. /\ Sound /\ phase = "open" /\ ~abandoned
      /\ "write" \notin losing' /\ "memory" \notin losing' /\ Sound'
  BY <1>0, <1>i, <1>goal, SoundStable DEF Sound, RegistryInv
<1>w. Woken
  BY <1>s DEF WakeInv
<1> HIDE DEF Woken
<1>owed. ASSUME WakeOwed' PROVE Woken'
  BY <1>owed DEF Woken
<1>fewer. ASSUME UNCHANGED <<cmd, path, staged, hasWritten>>,
                 Queue' \subseteq Queue,
                 \A p \in Queue : p \notin Queue' => ~Awaits(p),
                 WakeOwed => WakeOwed'
          PROVE  Woken'
  <2>1. ASSUME NEW o \in Queue', Ready(o)'
        PROVE  Ready(o)
    BY <1>fewer, <2>1 DEF Ready, Available, Awaits
  <2>2. QED
    BY <1>w, <1>fewer, <2>1 DEF Woken
<1>quiet. ASSUME UNCHANGED <<own, cmd, path, staged, hasWritten>>,
                 WakeOwed => WakeOwed'
          PROVE  Woken'
  <2>1. Queue' = Queue
    BY <1>quiet DEF Queue
  <2>2. QED
    BY <1>fewer, <1>quiet, <2>1
<1>1. CASE UNCHANGED vars
  <2>1. UNCHANGED <<own, cmd, path, staged, hasWritten>> /\ (WakeOwed => WakeOwed')
    BY <1>1 DEF vars, WakeOwed
  <2>2. QED
    BY <2>1, <1>quiet
<1>2. ASSUME NEW o \in Ops, NEW k \in Kinds, NEW p \in {"callback", "sender"},
             Submit(o, k, p)
      PROVE  Woken'
  <2>1. /\ own[o] = "none" /\ cmd' = [cmd EXCEPT ![o] = Render(k)]
        /\ path' = [path EXCEPT ![o] = p] /\ Move({o}, "queued")
        /\ UNCHANGED <<staged, hasWritten, kickPosted, drain, writeInFlight, losing>>
        /\ posting' = IF p = "sender" THEN posting \cup {"user"} ELSE posting
    BY <1>2 DEF Submit, NewCell, NextTag
  <2>2. CASE p = "sender"
    BY <2>1, <2>2, <1>owed DEF WakeOwed
  <2>3. CASE p = "callback"
    <3>1. WakeOwed' <=> WakeOwed
      BY <2>1, <2>3 DEF WakeOwed
    <3>2. \A q \in Ops : /\ q # o => own'[q] = own[q] /\ cmd'[q] = cmd[q] /\ path'[q] = path[q]
                         /\ q = o => path'[q] = "callback"
      BY <1>0, <2>1, <2>3 DEF Move
    <3>3. o \notin hasWritten /\ Queue \subseteq Queue' /\ o \notin Queue
      BY <1>i, <2>1, <3>2 DEF SegInv, TagsInOrder, Fresh, Queue
    <3>4. ASSUME NEW q \in Queue', Ready(q)'
          PROVE  q \in Queue /\ Ready(q)
      <4>1. q \in Ops /\ own'[q] = "queued"
        BY DEF Queue
      <4>2. q # o
        BY <2>1, <3>2, <3>3, <3>4 DEF Ready
      <4>3. q \in Queue
        BY <3>2, <4>1, <4>2 DEF Queue
      <4>4. Available(q) /\ (path[q] = "sender" \/ q \in hasWritten)
        BY <2>1, <3>2, <3>4, <4>1, <4>2 DEF Ready, Available
      <4>5. ASSUME NEW r \in Queue, r < q PROVE ~Awaits(r)
        <5>1. r \in Queue' /\ r \in Ops /\ r # o
          BY <1>0, <3>3
        <5>2. ~Awaits(r)'
          BY <3>4, <4>5, <5>1 DEF Ready
        <5>3. QED
          BY <3>2, <5>1, <5>2 DEF Awaits
      <4>6. QED
        BY <4>3, <4>4, <4>5 DEF Ready
    <3>5. QED
      BY <1>w, <3>1, <3>4 DEF Woken
  <2>4. QED
    BY <2>2, <2>3
<1>3. ASSUME NEW o \in Ops, NEW k \in Kinds, SubmitStopped(o, k)
      PROVE  Woken'
  <2>1. /\ own[o] = "none" /\ cmd' = [cmd EXCEPT ![o] = Render(k)]
        /\ path' = [path EXCEPT ![o] = "sender"] /\ Move({o}, "posted")
        /\ UNCHANGED <<staged, hasWritten, kickPosted, drain, writeInFlight, losing, posting>>
    BY <1>3 DEF SubmitStopped, NewCell, NextTag
  <2>2. Queue' = Queue /\ o \notin Queue
    BY <1>0, <2>1 DEF Move, Queue
  <2>3. \A q \in Queue : cmd'[q] = cmd[q] /\ path'[q] = path[q]
    BY <1>0, <2>1, <2>2
  <2>4. ASSUME NEW q \in Queue, Ready(q)' PROVE Ready(q)
    BY <2>1, <2>2, <2>3, <2>4 DEF Ready, Available, Awaits
  <2>5. QED
    BY <1>w, <2>1, <2>2, <2>4 DEF Woken, WakeOwed
<1>4. ASSUME NEW o \in Ops, CancelExtract(o)
      PROVE  Woken'
  <2>1. /\ UNCHANGED <<cmd, path, staged, hasWritten, posting, kickPosted, drain, writeInFlight, losing>>
        /\ ~Awaits(o) /\ Move({o}, "posted")
    BY <1>4 DEF CancelExtract, CancelCall, NeverStaged, IsWritten
  <2>2. Queue' \subseteq Queue /\ \A q \in Queue : q \notin Queue' => q = o
    BY <1>0, <2>1 DEF Move, Queue
  <2>3. WakeOwed => WakeOwed'
    BY <2>1 DEF WakeOwed
  <2>4. QED
    BY <2>1, <2>2, <2>3, <1>fewer
<1>5. ASSUME NEW o \in Ops, CancelIdle(o)
      PROVE  Woken'
  BY <1>5, <1>owed DEF CancelIdle, WakeOwed
<1>6. ASSUME NEW o \in Ops, CancelDetach(o)
      PROVE  Woken'
  <2>1. UNCHANGED <<own, cmd, path, staged, hasWritten>> /\ (WakeOwed => WakeOwed')
    BY <1>6 DEF CancelDetach, CancelCall, WakeOwed
  <2>2. QED
    BY <2>1, <1>quiet
<1>7. CASE Flush
  <2>1. UNCHANGED <<own, cmd, path, staged, hasWritten>> /\ (WakeOwed => WakeOwed')
    BY <1>7 DEF Flush, PostKickBody, WakeOwed
  <2>2. QED
    BY <2>1, <1>quiet
<1>8. CASE Close \/ Abandon
  BY <1>8, <1>goal DEF Close, Abandon
<1>9. ASSUME NEW src \in {"user", "read", "flush"}, PostKick(src)
      PROVE  Woken'
  <2>1. CASE Queue = {}
    <3>1. Queue' = {}
      BY <1>9, <2>1 DEF PostKick, Queue
    <3>2. QED
      BY <3>1 DEF Woken
  <2>2. CASE Queue # {}
    <3>1. writeInFlight' \/ kickPosted'
      BY <1>9, <1>s, <2>2 DEF PostKick, PostKickBody
    <3>2. QED
      BY <3>1, <1>owed DEF WakeOwed
  <2>3. QED
    BY <2>1, <2>2
<1>10. ASSUME NEW src \in {"user", "read", "flush"}, PostKickFails(src)
       PROVE  Woken'
  BY <1>10, <1>s DEF PostKickFails
<1>11. CASE KickReceiver
  BY <1>11, <1>s, <1>owed DEF KickReceiver, WakeOwed
<1>12. ASSUME NEW src \in {"posted", "chained"}, Kick(src)
       PROVE  Woken'
  BY <1>12, <1>owed DEF Kick, WakeOwed
<1>13. ASSUME NEW src \in {"posted", "chained"}, KickIdle(src)
       PROVE  Woken'
  <2>1. CASE writeInFlight
    BY <1>13, <2>1, <1>owed DEF KickIdle, WakeOwed
  <2>2. CASE ~writeInFlight
    <3>1. StageSet = {} /\ UNCHANGED <<own, cmd, path, staged, hasWritten>>
      BY <1>13, <1>s, <2>2 DEF KickIdle, CanKick
    <3>2. \A o \in Queue : ~Ready(o)
      BY <3>1, ReadyIsStaged
    <3>3. Queue' = Queue /\ \A o \in Queue : Ready(o)' => Ready(o)
      BY <3>1 DEF Queue, Ready, Available, Awaits
    <3>4. QED
      BY <3>2, <3>3 DEF Woken
  <2>3. QED
    BY <2>1, <2>2
<1>14. CASE WriteArm
  BY <1>14, <1>i, <1>owed DEF WriteArm, WakeOwed, PumpsLatched
<1>15. CASE WriteArmTeardown \/ WriteDoneTeardown
  BY <1>15, <1>s DEF WriteArmTeardown, WriteDoneTeardown
<1>16. CASE WriteArmFails \/ WriteError
  BY <1>16, <1>s DEF WriteArmFails, WriteError
<1>17. CASE WriteDone
  BY <1>17, <1>owed DEF WriteDone, ChainKick, WakeOwed
<1>18. CASE WriteErrorDropped \/ WriteErrorTail
  BY <1>18, <1>i, <1>s DEF WriteErrorDropped, WriteErrorTail, RegistryInv
<1>19. ASSUME NEW ec \in LossType, ConnectionLost(ec) \/ ConnectionLostLate(ec)
       PROVE  Woken'
  BY <1>19, <1>s, <1>goal DEF ConnectionLost, ConnectionLostLate
<1>20. CASE MaybeFinishClose
  <2>1. UNCHANGED <<own, cmd, path, staged, hasWritten>> /\ (WakeOwed => WakeOwed')
    BY <1>20 DEF MaybeFinishClose, WakeOwed
  <2>2. QED
    BY <2>1, <1>quiet
<1>21. ASSUME NEW o \in Ops, CompleteStopped(o)
       PROVE  Woken'
  <2>1. /\ UNCHANGED <<cmd, path, staged, hasWritten, posting, kickPosted, drain, writeInFlight, losing>>
        /\ own[o] = "posted" /\ Move({o}, "freed")
    BY <1>21 DEF CompleteStopped, Retire
  <2>2. Queue' = Queue
    BY <1>0, <2>1 DEF Move, Queue
  <2>3. WakeOwed => WakeOwed'
    BY <2>1 DEF WakeOwed
  <2>4. QED
    BY <2>1, <2>2, <2>3, <1>fewer
<1>22. CASE ReadSteps \/ ReadArmFails
  <2>1. UNCHANGED <<own, cmd, path, staged, hasWritten, posting, kickPosted, drain, writeInFlight>>
        /\ losing \subseteq losing'
    BY <1>22 DEF ReadSteps, ReadVarsOnly, ReadStops, ReadQuiet, ReadData,
                 ReadFails, ReadErrorMapped, ReadFatalTail, ReadBatchDone,
                 ReadBatchDoneClosing, ReadArm, ReadArmTeardown, ReadArmFails
  <2>2. WakeOwed => WakeOwed'
    BY <2>1 DEF WakeOwed
  <2>3. QED
    BY <2>1, <2>2, <1>quiet
<1>23. CASE DispatchDropped \/ DispatchBye
  <2>1. UNCHANGED <<own, cmd, path, staged, hasWritten, posting, kickPosted, drain, writeInFlight, losing>>
    BY <1>23 DEF DispatchDropped, DispatchBye, Dispatching
  <2>2. WakeOwed => WakeOwed'
    BY <2>1 DEF WakeOwed
  <2>3. QED
    BY <2>1, <2>2, <1>quiet
<1>24. CASE DispatchDiverged \/ DispatchUnexpected
  BY <1>24, <1>goal DEF DispatchDiverged, DispatchUnexpected, Fatal
<1>25. CASE DispatchContinuation
  BY <1>25, <1>owed DEF DispatchContinuation, KickFromRead, WakeOwed
<1>26. CASE DispatchTagged
  <2> DEFINE o == Head(inbox).op
  <2>1. /\ UNCHANGED <<cmd, path, staged, hasWritten, posting, kickPosted, drain, writeInFlight, losing>>
        /\ inbox # << >> /\ Head(inbox).type = "tagged" /\ o \in Queue
        /\ Move({o}, "freed")
    BY <1>26 DEF DispatchTagged, Dispatching, Retire
  <2>2. o \in answered
    BY <1>0, <1>i, <2>1, InboxFacts DEF SegInv, AnswersRecorded
  <2> HIDE DEF o
  <2>3. o \in Ops /\ FullCount(o) <= sent[o]
    BY <1>0, <2>1, <2>2 DEF WakeInv, AnswersFull
  <2>4. Awaits(o) => sent[o] <= Flushed(cmd[o]) + InFlight(o)
    BY <1>i, <1>s, <2>1 DEF StagingInv, SentWithin
  <2>5. ~Awaits(o)
    <3>1. sent[o] \in Nat /\ InFlight(o) \in {0, 1}
      BY <1>0, <2>3 DEF InFlight
    <3>2. QED
      BY <1>c, <2>3, <2>4, <3>1
  <2>6. Queue' \subseteq Queue /\ \A q \in Queue : q \notin Queue' => q = o
    BY <1>0, <2>1 DEF Move, Queue
  <2>7. WakeOwed => WakeOwed'
    BY <2>1 DEF WakeOwed
  <2>8. QED
    BY <2>1, <2>5, <2>6, <2>7, <1>fewer
<1>27. CASE Server
  <2>1. UNCHANGED <<own, cmd, path, staged, hasWritten, posting, kickPosted, drain, writeInFlight, losing>>
    BY <1>27 DEF Server, ServerContinues, ServerAnswers, ServerBye,
                 ServerGarbage, Hangup, ServerSends
  <2>2. WakeOwed => WakeOwed'
    BY <2>1 DEF WakeOwed
  <2>3. QED
    BY <2>1, <2>2, <1>quiet
<1>28. ASSUME NEW o \in Ops, NEW k \in Kinds, NEW p \in Paths,
              SubmitRejected(o, k, p)
       PROVE  Woken'
  BY <1>28, <1>s DEF SubmitRejected
<1>29. QED
  <2>1. CASE User
    BY <2>1, <1>2, <1>3, <1>4, <1>5, <1>6, <1>7, <1>8, <1>28, ContextAssumption
       DEF User
  <2>2. CASE WritePump
    BY <2>2, <1>9, <1>10, <1>11, <1>12, <1>13, <1>14, <1>15, <1>16, <1>17, <1>18
       DEF WritePump
  <2>3. CASE ReadPump
    BY <2>3, <1>22, <1>23, <1>24, <1>25, <1>26 DEF ReadPump, ReadSteps
  <2>4. CASE Teardown
    BY <2>4, <1>19, <1>20, <1>21 DEF Teardown
  <2>5. QED
    BY <1>1, <1>27, <2>1, <2>2, <2>3, <2>4 DEF Next

(* No lost wake-up (post_kick's early returns, on_write_done's chained     *)
(* kick): for any number of operations, in any interleaving of the pumps   *)
(* with submissions and cancellations, an operation that a drain would     *)
(* stage and that asked for one has a drain under way.  A server that      *)
(* refuses a literal or a SASL exchange removes a wall without a kick and  *)
(* is excluded.                                                            *)
THEOREM NoLostWakeupHolds ==
    ASSUME "reuse" \notin Faults, "refuse" \notin Faults
    PROVE  Spec => []NoLostWakeup
<1>1. Init => WakeInv
  BY DEF Init, WakeInv, AnswersFull, Queue
<1>2. TypeOK /\ CoreInv /\ WakeInv /\ [Next]_vars => WakeInv'
  BY WakeInductive
<1>3. WakeInv => NoLostWakeup
  BY DEF WakeInv, NoLostWakeup, StageSet, Ready, Wall
<1>4. QED
  BY <1>1, <1>2, <1>3, TypeCorrect, CoreHolds, PTL DEF Spec
-----------------------------------------------------------------------------
(* A command in the middle of its exchange.                                *)
Mid(o) ==
    /\ cmd[o].kind # "idle" /\ o \notin answered
    /\ 0 < sent[o] /\ sent[o] < FullCount(o)

(* A command of which everything is out or in the write's list.            *)
Spent(o) ==
    IF cmd[o].kind = "idle"
    THEN /\ cmd[o].phase \in {"done_pending", "done_sent"}
         /\ cmd[o].pending => o \in staged
    ELSE Flushed(cmd[o]) + InFlight(o) = Full(cmd[o])

Arming(o) == writePc = "arming" /\ o \in batch

(* Only the write that fails reports a write error.                        *)
LossTracked ==
    /\ "write" \in losing => eof
    /\ "memory" \notin losing
    /\ \A o \in Ops : cmd[o].kind # "litplus"

(* An IDLE with something behind it was asked to end.                      *)
IdleStopped ==
    /\ \A o, p \in Ops :
          own[o] # "none" /\ p < o /\ own[p] = "queued" /\ cmd[p].kind = "idle"
             => p \in stopped
    /\ \A o \in stopped : /\ cmd[o].kind = "idle" /\ cmd[o].done_requested
                          /\ cmd[o].phase # "idling"

(* The wire has what was flushed and what the armed write carries, and the *)
(* server grants nothing it has not been asked for.                        *)
SentExact ==
    /\ \A o \in Queue : cmd[o].kind # "idle" =>
          sent[o] = Flushed(cmd[o])
                     + (IF o \in batch /\ writePc = "armed" THEN 1 ELSE 0)
    /\ \A o \in Ops : granted[o] <= sent[o]

(* A command that the write leaves unfinished ends the write's list.       *)
Unfinished(o) == cmd[o].kind # "idle" /\ Flushed(cmd[o]) + 1 < Full(cmd[o])
BatchWalls == writePc = "arming" =>
    \A o, p \in batch : Unfinished(o) => p <= o

(* A command in the middle of its exchange is still queued, the next write *)
(* carries it, and what is queued in front of it has nothing left to send. *)
MidCarried ==
    \A o \in Ops : Mid(o) => /\ own[o] = "queued"
                             /\ writePc = "arming" => o \in batch

BeforeSpent ==
    \A o \in Ops, p \in Queue :
        (Mid(o) \/ Arming(o)) /\ p < o => ~Awaits(p) /\ Spent(p)

OrderInv ==
    /\ LossTracked /\ WireOrder
    /\ Sound /\ ~eof => /\ IdleStopped /\ SentExact /\ BatchWalls
                        /\ MidCarried /\ BeforeSpent

(* A command with walls is unlocked by at most one segment beyond those    *)
(* that are out or staged.                                                 *)
OneAhead ==
    \A o \in Queue : Walled(cmd[o].kind) =>
        Unlocked(cmd[o]) <= Flushed(cmd[o]) + InFlight(o) + 1

(* A command of which nothing was staged has no route, so that no          *)
(* continuation request, be it another command's, unlocks it.              *)
Started(o) == Flushed(cmd[o]) + InFlight(o) >= 1
StartInv ==
    \A o \in Queue : Walled(cmd[o].kind) /\ ~Started(o) =>
        Unlocked(cmd[o]) = 1 /\ target # o

(* Where the server grants what it is asked for, the grants say it; where  *)
(* it may send a further challenge, to whichever command has the route, it *)
(* still holds of commands with one wall.                                  *)
AheadInv ==
    /\ "challenge" \notin Faults => GrantInv
    /\ "login" \notin Kinds => StartInv /\ \A o \in Ops : cmd[o].kind # "login"

(* Every step keeps what StartInv says.                                    *)
LEMMA StartInductive ==
    ASSUME "reuse" \notin Faults, TypeOK, CoreInv, StartInv, [Next]_vars
    PROVE  StartInv'
<1> USE DEF cellVars, coreVars, writeVars, readVars, owedVars, wireVars,
            histVars
<1>0. /\ own \in [Ops -> OwnType] /\ cmd \in [Ops -> CommandType]
      /\ staged \subseteq Ops /\ batch \subseteq Ops /\ Queue \subseteq Ops
      /\ target \in Ops \cup {NoOp} /\ NoOp \notin Ops
  BY DEF TypeOK, CellsTyped, CoreTyped, PumpsTyped, Queue, NoOp, Ops
<1>i. RouteInv /\ BatchInv /\ SegInv
  BY DEF CoreInv
<1>c. \A o \in Ops : /\ Flushed(cmd[o]) \in Nat /\ Unlocked(cmd[o]) \in Nat
                     /\ Sane(cmd[o]) /\ cmd[o] \in CommandType
                     /\ InFlight(o) \in {0, 1}
                     /\ Flushed(cmd[o]) + InFlight(o) <= Unlocked(cmd[o])
  BY <1>0, <1>i, CounterTypes DEF SegInv, SegmentsWithin, InFlight
<1>quiet. ASSUME UNCHANGED <<cmd, staged>>, target' = target \/ target' = NoOp,
                 \A o \in Ops : own'[o] = "queued" => own[o] = "queued"
          PROVE  StartInv'
  BY <1>0, <1>quiet DEF StartInv, Started, InFlight, Queue
<1>1. CASE UNCHANGED vars
  BY <1>1, <1>quiet DEF vars
<1>2. ASSUME NEW o \in Ops, NEW k \in Kinds, NEW p \in Paths, Submit(o, k, p)
      PROVE  StartInv'
  <2>1. /\ own[o] = "none" /\ cmd' = [cmd EXCEPT ![o] = Render(k)]
        /\ UNCHANGED <<staged, target>> /\ Move({o}, "queued")
    BY <1>2 DEF Submit, NewCell, NextTag
  <2>2. target # o
    BY <1>i, <2>1, <1>0 DEF RouteInv, TargetWaits, Live
  <2>3. Walled(k) => Unlocked(Render(k)) = 1
    BY RenderFacts, ContextAssumption
  <2>4. Render(k).kind = k
    BY RenderFacts, ContextAssumption
  <2>5. \A q \in Ops : /\ q # o => own'[q] = own[q] /\ cmd'[q] = cmd[q]
                       /\ q = o => cmd'[q] = Render(k)
    BY <1>0, <2>1 DEF Move
  <2>6. QED
    BY <1>0, <2>1, <2>2, <2>3, <2>4, <2>5 DEF StartInv, Started, InFlight, Queue
<1>3. ASSUME NEW o \in Ops, NEW k \in Kinds, NEW p,
             SubmitStopped(o, k) \/ SubmitRejected(o, k, p)
      PROVE  StartInv'
  <2>1. /\ own[o] = "none" /\ cmd' = [cmd EXCEPT ![o] = Render(k)]
        /\ UNCHANGED <<staged, target>>
        /\ Move({o}, "posted") \/ Move({o}, "freed")
    BY <1>3 DEF SubmitStopped, SubmitRejected, NewCell, NextTag, Retire
  <2>2. \A q \in Ops : /\ q # o => own'[q] = own[q] /\ cmd'[q] = cmd[q]
                       /\ q = o => own'[q] # "queued"
    BY <1>0, <2>1 DEF Move
  <2>3. QED
    BY <1>0, <2>1, <2>2 DEF StartInv, Started, InFlight, Queue
<1>4. ASSUME NEW o \in Ops, CancelIdle(o)
      PROVE  StartInv'
  <2>1. /\ cmd' = [cmd EXCEPT ![o] = Done(cmd[o])] /\ cmd[o].kind = "idle"
        /\ UNCHANGED <<own, staged, target>>
    BY <1>4 DEF CancelIdle, CancelCall, HandlesCancel
  <2>2. Done(cmd[o]).kind = "idle"
    BY <1>c, <2>1, DoneFacts
  <2>3. \A q \in Ops : /\ q # o => cmd'[q] = cmd[q]
                       /\ q = o => ~Walled(cmd'[q].kind)
    BY <1>0, <2>1, <2>2 DEF Walled
  <2>4. QED
    BY <1>0, <2>1, <2>3 DEF StartInv, Started, InFlight, Queue
<1>5. ASSUME NEW o \in Ops, CancelExtract(o) \/ CancelDetach(o) \/ CompleteStopped(o)
      PROVE  StartInv'
  <2>1. UNCHANGED <<cmd, staged, target>>
    BY <1>5 DEF CancelExtract, CancelDetach, CancelCall, CompleteStopped
  <2>2. \A q \in Ops : own'[q] = "queued" => own[q] = "queued"
    BY <1>0, <1>5 DEF CancelExtract, CancelDetach, CompleteStopped, Retire, Move
  <2>3. QED
    BY <2>1, <2>2, <1>quiet
<1>6. CASE Close \/ Abandon
  <2>1. UNCHANGED <<cmd, staged>> /\ target' = NoOp
    BY <1>6 DEF Close, Abandon
  <2>2. \A q \in Ops : own'[q] = "queued" => own[q] = "queued"
    BY <1>0, <1>6 DEF Close, Abandon, Retire, Move
  <2>3. QED
    BY <2>1, <2>2, <1>quiet
<1>7. ASSUME NEW src \in {"posted", "chained"}, Kick(src)
      PROVE  StartInv'
  <2>1. /\ staged' = staged \cup StageSet /\ UNCHANGED <<own, cmd>>
        /\ target' = StagedRoute
    BY <1>7 DEF Kick
  <2>2. target' = target \/ target' \in StageSet
    BY <2>1 DEF StagedRoute
  <2>3. \A o \in Ops : Started(o) => Started(o)'
    BY <1>c, <2>1 DEF Started, InFlight
  <2>4. \A o \in StageSet : Started(o)'
    <3>1. \A o \in StageSet : o \in Ops /\ o \in staged'
      BY <1>0, <2>1 DEF StageSet
    <3>2. QED
      BY <1>c, <2>1, <3>1 DEF Started, InFlight
  <2>5. QED
    BY <1>0, <2>1, <2>2, <2>3, <2>4 DEF StartInv, Queue
<1>8. CASE WriteDone
  <2>1. /\ cmd' = [o \in Ops |-> IF o \in StillQueued THEN OnSegmentFlushed(cmd[o])
                                                      ELSE cmd[o]]
        /\ staged' = staged \ StillQueued
        /\ target' = target \/ target' \in StillQueued
    BY <1>8 DEF WriteDone
  <2>2. \A o \in StillQueued : o \in Ops /\ o \in staged
    BY <1>0, <1>i DEF BatchInv, ListedCell, StillQueued, Queue
  <2>3. \A o \in Ops : own'[o] = "queued" => own[o] = "queued"
    BY <1>0, <1>8 DEF WriteDone, Move
  <2>4. ASSUME NEW o \in StillQueued, Walled(cmd[o].kind) PROVE Started(o)'
    <3>1. Flushed(cmd[o]) + 1 <= Unlocked(cmd[o]) /\ cmd[o].kind # "idle" /\ o \in Ops
      BY <1>c, <2>2, <2>4 DEF InFlight, Walled
    <3>2. Flushed(OnSegmentFlushed(cmd[o])) = Flushed(cmd[o]) + 1
      BY <1>c, <3>1, FlushFacts
    <3>3. Flushed(cmd'[o]) = Flushed(cmd[o]) + 1 /\ o \notin staged'
      BY <2>1, <3>1, <3>2
    <3>4. QED
      BY <1>c, <3>1, <3>3 DEF Started, InFlight
  <2>5. \A o \in StillQueued : cmd'[o].kind = cmd[o].kind
    <3>1. \A o \in StillQueued : o \in Ops /\ Flushed(cmd[o]) + 1 <= Unlocked(cmd[o])
      BY <1>c, <2>2 DEF InFlight
    <3>2. QED
      BY <1>c, <2>1, <3>1, FlushFacts
  <2>6. \A o \in Ops : o \notin StillQueued =>
           cmd'[o] = cmd[o] /\ (o \in staged' <=> o \in staged)
    BY <2>1
  <2>7. QED
    BY <1>0, <2>1, <2>3, <2>4, <2>5, <2>6 DEF StartInv, Started, InFlight, Queue
<1>9. CASE WritePump
  <2>1. CASE WriteDone \/ \E src \in {"posted", "chained"} : Kick(src)
    BY <1>7, <1>8, <2>1
  <2>2. CASE ~(WriteDone \/ \E src \in {"posted", "chained"} : Kick(src))
    <3>1. UNCHANGED <<cmd, staged, target>>
      BY <1>9, <2>2
         DEF WritePump, PostKick, PostKickFails, KickReceiver, KickIdle,
             WriteArm, WriteArmTeardown, WriteArmFails, WriteDoneTeardown,
             WriteError, WriteErrorDropped, WriteErrorTail
    <3>2. \A q \in Ops : own'[q] = "queued" => own[q] = "queued"
      BY <1>0, <1>9, <2>2
         DEF WritePump, PostKick, PostKickFails, KickReceiver, KickIdle,
             WriteArm, WriteArmTeardown, WriteArmFails, WriteDoneTeardown,
             WriteError, WriteErrorDropped, WriteErrorTail, Retire, Move
    <3>3. QED
      BY <3>1, <3>2, <1>quiet
  <2>3. QED
    BY <2>1, <2>2
<1>10. CASE DispatchContinuation
  (* The command the request is routed to. *)
  <2>1. PICK t \in Ops : /\ t = target /\ AwaitsContinuation(cmd[t]) /\ target' = NoOp
                         /\ cmd' = [cmd EXCEPT ![t] = OnContinuation(cmd[t])]
                         /\ UNCHANGED <<own, staged>>
    BY <1>0, <1>i, <1>10 DEF DispatchContinuation, Dispatching, RouteInv, TargetWaits,
                       Live, Awaits
  <2>2. /\ OnContinuation(cmd[t]).kind = cmd[t].kind
        /\ cmd[t].kind # "idle" =>
              Flushed(OnContinuation(cmd[t])) = Flushed(cmd[t])
    BY <1>c, <2>1, ContinueFacts
  <2>3. /\ cmd'[t] = OnContinuation(cmd[t])
        /\ \A q \in Ops : q # t => cmd'[q] = cmd[q]
    BY <1>0, <2>1
  <2>4. t \in Queue /\ Walled(cmd'[t].kind) => Started(t)'
    <3>1. SUFFICES ASSUME t \in Queue, Walled(cmd[t].kind)
                   PROVE  Started(t)'
      BY <2>2, <2>3
    <3>2. Started(t)
      BY <2>1, <3>1 DEF StartInv
    <3>3. cmd[t].kind # "idle"
      BY <3>1 DEF Walled
    <3>4. Flushed(cmd'[t]) = Flushed(cmd[t]) /\ InFlight(t)' = InFlight(t)
      BY <2>1, <2>2, <2>3, <3>3 DEF InFlight
    <3>5. QED
      BY <3>2, <3>4 DEF Started
  <2>5. SUFFICES ASSUME NEW q \in Queue', Walled(cmd'[q].kind), ~Started(q)'
                 PROVE  Unlocked(cmd'[q]) = 1 /\ target' # q
    BY DEF StartInv
  <2>6. q \in Queue /\ q \in Ops
    BY <2>1 DEF Queue
  <2>7. q # t
    BY <2>4, <2>5, <2>6
  <2>8. cmd'[q] = cmd[q] /\ ~Started(q)
    BY <2>1, <2>3, <2>5, <2>6, <2>7 DEF Started, InFlight
  <2>9. QED
    BY <1>0, <2>1, <2>5, <2>6, <2>8 DEF StartInv
<1>11. CASE ReadPump
  <2>1. CASE DispatchContinuation
    BY <1>10, <2>1
  <2>2. CASE ~DispatchContinuation
    <3>1. UNCHANGED <<cmd, staged>> /\ (target' = target \/ target' = NoOp)
      BY <1>11, <2>2
         DEF ReadPump, ReadVarsOnly, ReadStops, ReadQuiet, ReadData, ReadFails,
             ReadErrorMapped, Dispatching, DispatchDropped, DispatchTagged,
             DispatchDiverged, DispatchBye, DispatchUnexpected, ReadFatalTail,
             ReadBatchDone, ReadBatchDoneClosing, ReadArm, ReadArmTeardown,
             ReadArmFails, RouteWithout
    <3>2. \A q \in Ops : own'[q] = "queued" => own[q] = "queued"
      BY <1>0, <1>11, <2>2
         DEF ReadPump, ReadVarsOnly, ReadStops, ReadQuiet, ReadData, ReadFails,
             ReadErrorMapped, Dispatching, DispatchDropped, DispatchTagged,
             DispatchDiverged, DispatchBye, DispatchUnexpected, ReadFatalTail,
             ReadBatchDone, ReadBatchDoneClosing, ReadArm, ReadArmTeardown,
             ReadArmFails, Retire, Move
    <3>3. QED
      BY <3>1, <3>2, <1>quiet
  <2>3. QED
    BY <2>1, <2>2
<1>12. CASE Teardown
  <2>1. UNCHANGED <<cmd, staged>> /\ (target' = target \/ target' = NoOp)
    BY <1>12 DEF Teardown, ConnectionLost, ConnectionLostLate, MaybeFinishClose,
           CompleteStopped
  <2>2. \A q \in Ops : own'[q] = "queued" => own[q] = "queued"
    BY <1>0, <1>12 DEF Teardown, ConnectionLost, ConnectionLostLate,
           MaybeFinishClose, CompleteStopped, Retire, Move
  <2>3. QED
    BY <2>1, <2>2, <1>quiet
<1>13. CASE Server \/ Flush
  BY <1>13, <1>quiet DEF Server, ServerContinues, ServerAnswers, ServerBye,
         ServerGarbage, Hangup, ServerSends, Flush
<1>14. CASE User
  BY <1>14, <1>2, <1>3, <1>4, <1>5, <1>6, <1>13 DEF User
<1>15. QED
  BY <1>1, <1>9, <1>11, <1>12, <1>13, <1>14 DEF Next

(* Every step keeps the reason for OneAhead.                               *)
LEMMA AheadInductive ==
    ASSUME "reuse" \notin Faults, TypeOK, CoreInv, AheadInv, [Next]_vars
    PROVE  AheadInv'
<1>1. "challenge" \notin Faults => GrantInv'
  BY GrantInductive DEF CoreInv, AheadInv
<1>2. "login" \notin Kinds => StartInv' /\ \A o \in Ops : cmd'[o].kind # "login"
  BY StartInductive, KindsStable DEF AheadInv
<1>3. QED
  BY <1>1, <1>2 DEF AheadInv

(* Either reason gives it.                                                 *)
LEMMA AheadFollows ==
    ASSUME "challenge" \notin Faults \/ "login" \notin Kinds,
           TypeOK, CoreInv, AheadInv, OrderInv, Sound, ~eof
    PROVE  OneAhead
<1>0. /\ cmd \in [Ops -> CommandType] /\ Queue \subseteq Ops
      /\ granted \in [Ops -> Nat] /\ sent \in [Ops -> Nat]
  BY DEF TypeOK, CellsTyped, WireTyped, Queue
<1>c. \A o \in Ops : /\ Flushed(cmd[o]) \in Nat /\ Unlocked(cmd[o]) \in Nat
                     /\ Sane(cmd[o]) /\ InFlight(o) \in {0, 1}
  BY <1>0, CounterTypes DEF CoreInv, SegInv, SegmentsWithin, InFlight
<1> SUFFICES ASSUME NEW o \in Queue, Walled(cmd[o].kind)
             PROVE  Unlocked(cmd[o]) <= Flushed(cmd[o]) + InFlight(o) + 1
  BY DEF OneAhead
<1>1. CASE "challenge" \notin Faults
  <2>1. RouteExact /\ PlusRouted /\ GrantsCounted /\ SentExact /\ ListExact
    BY <1>1 DEF AheadInv, GrantInv, OrderInv, CoreInv, StagingInv
  <2>2. Unlocked(cmd[o]) <= granted[o] + 1
    <3>1. CASE NoPlus(o)
      BY <1>0, <1>c, <2>1, <3>1 DEF GrantsCounted, Queue
    <3>2. CASE ~NoPlus(o)
      BY <1>0, <1>c, <2>1, <3>2 DEF NoPlus, PlusRouted
    <3>3. QED
      BY <3>1, <3>2
  <2>3. sent[o] <= Flushed(cmd[o]) + InFlight(o)
    <3>1. cmd[o].kind # "idle"
      BY DEF Walled
    <3>2. o \in batch => o \in staged
      BY <2>1 DEF ListExact
    <3>3. QED
      BY <1>0, <1>c, <2>1, <3>1, <3>2 DEF SentExact, InFlight
  <2>4. granted[o] <= sent[o]
    BY <1>0, <2>1 DEF SentExact
  <2>5. QED
    BY <1>0, <1>c, <2>2, <2>3, <2>4
<1>2. CASE "login" \notin Kinds
  <2>1. StartInv /\ cmd[o].kind \in {"literal", "sasl"}
    BY <1>0, <1>2 DEF AheadInv, Walled
  <2>2. Unlocked(cmd[o]) <= 2
    <3>1. cmd[o].segs = 2 /\ cmd[o].unlocked <= cmd[o].segs /\ cmd[o].kind # "idle"
      BY <1>0, <1>c, <2>1 DEF Sane, SegCount
    <3>2. QED
      BY <3>1 DEF Unlocked
  <2>3. CASE Started(o)
    BY <1>0, <1>c, <2>2, <2>3 DEF Started
  <2>4. CASE ~Started(o)
    BY <1>0, <1>c, <2>1, <2>4 DEF StartInv
  <2>5. QED
    BY <2>3, <2>4
<1>3. QED
  BY <1>1, <1>2

(* No allocation fails, so only a write over an ended connection loses the *)
(* bookkeeping; and no command is rendered with a non-synchronizing        *)
(* literal.                                                                *)
LEMMA LossInductive ==
    ASSUME "memory" \notin Faults, "litplus" \notin Kinds, TypeOK, CoreInv,
           LossTracked, [Next]_vars
    PROVE  LossTracked'
<1> USE DEF LossTracked, cellVars, coreVars, writeVars, readVars, owedVars,
            wireVars, histVars
<1>1. \A o \in Ops : cmd'[o].kind # "litplus"
  BY KindsStable
<1>2. eof => eof'
  BY WireSteps DEF Hangup
<1>3. "memory" \notin losing' /\ ("write" \in losing' => "write" \in losing \/ eof)
  <2>1. CASE UNCHANGED vars
    BY <2>1 DEF vars
  <2>2. CASE User
    BY <2>2 DEF User, Submit, SubmitRejected, SubmitStopped, Flush,
           CancelExtract, CancelIdle, CancelDetach, CancelCall, Close, Abandon
  <2>3. CASE WritePump
    BY <2>3 DEF WritePump, PostKick, PostKickFails, KickReceiver, Kick, KickIdle,
           WriteArm, WriteArmTeardown, WriteArmFails, WriteDone,
           WriteDoneTeardown, WriteError, WriteErrorDropped, WriteErrorTail,
           WriteCompletes
  <2>4. CASE ReadPump
    BY <2>4 DEF ReadPump, ReadVarsOnly, ReadStops, ReadQuiet, ReadData,
           ReadFails, ReadErrorMapped, ReadLoss, Fatal, DispatchDropped,
           DispatchTagged, DispatchDiverged, DispatchBye, DispatchContinuation,
           DispatchUnexpected, ReadFatalTail, ReadBatchDone,
           ReadBatchDoneClosing, ReadArm, ReadArmTeardown, ReadArmFails
  <2>5. CASE Teardown \/ Server
    BY <2>5 DEF Teardown, ConnectionLost, ConnectionLostLate, MaybeFinishClose,
           CompleteStopped, Server, ServerContinues, ServerAnswers, ServerBye,
           ServerGarbage, Hangup, ServerSends
  <2>6. QED
    BY <2>1, <2>2, <2>3, <2>4, <2>5 DEF Next
<1>4. QED
  BY <1>1, <1>2, <1>3

(* Every step keeps the order on the wire.                                 *)
LEMMA OrderInductive ==
    ASSUME "reuse" \notin Faults, "memory" \notin Faults,
           "litplus" \notin Kinds, TypeOK, CoreInv, OrderInv,
           Sound /\ ~eof => OneAhead, [Next]_vars
    PROVE  OrderInv'
<1> USE DEF cellVars, coreVars, writeVars, readVars, owedVars, wireVars,
            histVars
<1>0. /\ own \in [Ops -> OwnType] /\ cmd \in [Ops -> CommandType]
      /\ staged \subseteq Ops /\ batch \subseteq Ops /\ Ops \subseteq Nat
      /\ stopped \subseteq Ops /\ granted \in [Ops -> Nat]
      /\ sent \in [Ops -> Nat] /\ answered \subseteq Ops
      /\ abandoned \in BOOLEAN /\ inbox \in Seq(ResponseType)
      /\ eof \in BOOLEAN /\ Queue \subseteq Ops
  BY DEF TypeOK, CellsTyped, CoreTyped, PumpsTyped, WireTyped, Ops, Queue
<1>i. /\ PumpsLatched /\ RegistryInv /\ RouteInv /\ BatchInv /\ SegInv
      /\ StagingInv /\ LossTracked /\ WireOrder
  BY DEF CoreInv, OrderInv
<1>c. \A o \in Ops : /\ Flushed(cmd[o]) \in Nat /\ Unlocked(cmd[o]) \in Nat
                     /\ Sane(cmd[o]) /\ cmd[o] \in CommandType
                     /\ InFlight(o) \in {0, 1} /\ Full(cmd[o]) \in {1, 2, 3}
                     /\ Flushed(cmd[o]) + InFlight(o) <= Unlocked(cmd[o])
                     /\ FullCount(o) = Full(cmd[o])
                     /\ Awaits(o) <=> Unlocked(cmd[o]) < Full(cmd[o])
                     /\ HasSegment(cmd[o]) => Flushed(cmd[o]) < Unlocked(cmd[o])
  BY <1>0, <1>i, CounterTypes
     DEF SegInv, SegmentsWithin, FullCount, Full, Awaits, InFlight
<1>full. \A o \in Ops : cmd[o].kind # "idle" =>
            /\ Unlocked(cmd[o]) <= Full(cmd[o])
            /\ ~Awaits(o) => Unlocked(cmd[o]) = Full(cmd[o])
            /\ Flushed(cmd[o]) < Unlocked(cmd[o]) => HasSegment(cmd[o])
            /\ Full(cmd[o]) > 1 => Walled(cmd[o].kind)
  <2>1. SUFFICES ASSUME NEW o \in Ops, cmd[o].kind # "idle"
                 PROVE  /\ Unlocked(cmd[o]) <= Full(cmd[o])
                        /\ ~Awaits(o) => Unlocked(cmd[o]) = Full(cmd[o])
                        /\ Flushed(cmd[o]) < Unlocked(cmd[o]) => HasSegment(cmd[o])
                        /\ Full(cmd[o]) > 1 => Walled(cmd[o].kind)
    OBVIOUS
  <2>2. /\ cmd[o].segs = Full(cmd[o]) /\ cmd[o].unlocked <= cmd[o].segs
        /\ cmd[o].unlocked \in Nat /\ cmd[o].emitted \in Nat
    BY <1>c, <2>1 DEF Sane, Full, CommandType
  <2>3. cmd[o].kind \in AllKinds /\ cmd[o].kind # "litplus"
    BY <1>c, <1>i DEF LossTracked, CommandType
  <2>4. Full(cmd[o]) > 1 => Walled(cmd[o].kind)
    BY <2>1, <2>3 DEF Full, SegCount, Walled, AllKinds
  <2>5. QED
    BY <1>c, <2>1, <2>2, <2>4 DEF Unlocked, Flushed, HasSegment
<1>live. Sound' /\ ~eof' => Sound /\ ~eof
  BY <1>0, <1>i, SoundStable, WireSteps DEF Hangup
<1>loss. LossTracked'
  BY <1>i, LossInductive
<1>p. Sound /\ ~eof => /\ ListExact /\ WallsHold /\ SentWithin /\ GoneIsSettled
                       /\ OneAhead /\ IdleStopped /\ SentExact /\ BatchWalls
                       /\ MidCarried /\ BeforeSpent
  BY <1>i DEF StagingInv, OrderInv
<1>mid. ASSUME UNCHANGED sent
        PROVE  \A o \in Ops : Mid(o)' => Mid(o)
  <2>1. SUFFICES ASSUME NEW o \in Ops, Mid(o)' PROVE Mid(o)
    OBVIOUS
  <2>2. 0 < sent[o]
    BY <1>mid, <2>1 DEF Mid
  <2>3. own[o] # "none"
    BY <1>0, <1>i, <2>2 DEF SegInv, TagsInOrder, Fresh
  <2>4. cmd'[o].kind = cmd[o].kind
    BY <2>3, KindsStable
  <2>5. answered \subseteq answered'
    BY WireSteps DEF ServerAnswers
  <2>6. QED
    BY <1>mid, <2>1, <2>4, <2>5 DEF Mid, FullCount
<1>arm. ASSUME WriteArm, Sound, ~eof
        PROVE  \A o \in Ops : Mid(o)' =>
                  o \in batch /\ own[o] = "queued" /\ \A p \in batch : p <= o
  <2>1. SUFFICES ASSUME NEW o \in Ops, Mid(o)'
                 PROVE  o \in batch /\ own[o] = "queued" /\ \A p \in batch : p <= o
    OBVIOUS
  <2>2. /\ sent'[o] = IF o \in batch THEN sent[o] + 1 ELSE sent[o]
        /\ UNCHANGED <<cmd, answered>> /\ writePc = "arming"
    BY <1>arm DEF WriteArm
  <2>3. o \in batch
    <3>1. CASE o \notin batch
      <4>1. Mid(o)
        BY <2>1, <2>2, <3>1 DEF Mid, FullCount
      <4>2. QED
        BY <1>p, <1>arm, <2>2, <4>1 DEF MidCarried
    <3>2. QED
      BY <3>1
  <2>4. o \in Queue
    BY <1>p, <1>arm, <2>1, <2>2, <2>3 DEF ListExact, Mid, Queue
  <2>5. cmd[o].kind # "idle" /\ sent[o] + 1 < Full(cmd[o])
    BY <1>c, <2>1, <2>2, <2>3 DEF Mid, FullCount
  <2>6. Unfinished(o)
    <3>1. sent[o] = Flushed(cmd[o])
      BY <1>0, <1>c, <1>p, <1>arm, <2>2, <2>4, <2>5 DEF SentExact
    <3>2. QED
      BY <2>5, <3>1 DEF Unfinished
  <2>7. QED
    BY <1>p, <1>arm, <2>2, <2>3, <2>4, <2>6 DEF BatchWalls, Queue
<1>wire. WireOrder'
  <2>1. CASE UNCHANGED <<sent, lastSent>>
    BY <1>i, <1>mid, <2>1 DEF WireOrder, Mid
  <2>2. CASE WriteArm
    <3>1. CASE eof
      <4>1. UNCHANGED lastSent /\ \A o \in Ops : sent'[o] = sent[o]
        BY <2>2, <3>1 DEF WriteArm
      <4>2. sent' = sent
        BY <1>0, <2>2, <3>1 DEF WriteArm
      <4>3. QED
        BY <2>1, <4>1, <4>2
    <3>2. CASE ~eof
      <4>1. Sound
        BY <1>i, <2>2, <3>2 DEF WriteArm, Sound, LossTracked
      <4>2. PICK x \in batch : (\A p \in batch : p <= x) /\ lastSent' = x
        BY <2>2, <3>2 DEF WriteArm
      <4>3. \A o \in Ops : Mid(o)' => lastSent' = o
        BY <1>0, <1>arm, <2>2, <3>2, <4>1, <4>2
      <4>4. QED
        BY <4>3 DEF WireOrder, Mid
    <3>3. QED
      BY <1>0, <3>1, <3>2
  <2>3. QED
    BY <2>1, <2>2, WireSteps
<1> DEFINE Parts == /\ IdleStopped /\ SentExact /\ BatchWalls
                    /\ MidCarried /\ BeforeSpent
<1>goal. SUFFICES ASSUME Sound', ~eof' PROVE Parts'
  BY <1>loss, <1>wire DEF OrderInv
<1>s. /\ Sound /\ ~eof /\ phase = "open" /\ phase' = "open" /\ ~abandoned
      /\ "write" \notin losing' /\ "memory" \notin losing'
  BY <1>0, <1>i, <1>goal, <1>live DEF Sound, RegistryInv
<1>q. /\ ListExact /\ WallsHold /\ SentWithin /\ OneAhead
      /\ IdleStopped /\ SentExact /\ BatchWalls /\ MidCarried /\ BeforeSpent
  BY <1>p, <1>s
<1> HIDE DEF Parts
<1>quiet. ASSUME UNCHANGED <<own, cmd, staged, batch, writePc, sent, stopped>>,
                 \A o \in Ops : granted'[o] <= sent[o]
          PROVE  Parts'
  <2>1. \A o \in Ops : Mid(o)' => Mid(o)
    BY <1>quiet, <1>mid
  <2>2. IdleStopped' /\ SentExact' /\ BatchWalls'
    BY <1>q, <1>quiet DEF IdleStopped, SentExact, BatchWalls, Unfinished, Queue
  <2>3. MidCarried'
    BY <1>q, <1>quiet, <2>1 DEF MidCarried
  <2>4. BeforeSpent'
    BY <1>q, <1>quiet, <2>1
       DEF BeforeSpent, Queue, Awaits, Spent, InFlight, Arming
  <2>5. QED
    BY <2>2, <2>3, <2>4 DEF Parts
<1>gr. \A o \in Ops : granted[o] <= sent[o]
  BY <1>q DEF SentExact
<1>1. CASE UNCHANGED vars
  BY <1>1, <1>gr, <1>quiet DEF vars
<1>2. ASSUME NEW o \in Ops, NEW k \in Kinds, NEW p \in Paths,
             Submit(o, k, p) \/ SubmitStopped(o, k)
      PROVE  Parts'
  <2>1. /\ own[o] = "none" /\ cmd' = [cmd EXCEPT ![o] = Render(k)] /\ IdleExclusive
        /\ UNCHANGED <<staged, batch, writePc, sent, granted, stopped>>
    BY <1>2 DEF Submit, SubmitStopped, NewCell, NextTag, PlaceCell
  <2>2. PICK pl \in {"queued", "posted"} : Move({o}, pl)
    BY <1>2 DEF Submit, SubmitStopped
  <2>3. \A q \in Ops : /\ q # o => own'[q] = own[q] /\ cmd'[q] = cmd[q]
                       /\ q = o => own'[q] = pl /\ cmd'[q] = Render(k)
    BY <1>0, <2>1, <2>2 DEF Move
  <2>4. Fresh(o) /\ \A q \in Ops : own[q] # "none" => ~(o < q)
    BY <1>i, <2>1 DEF SegInv, TagsInOrder
  <2>5. \A q \in Ops : /\ Mid(q)' => Mid(q) /\ q # o /\ own[q] # "none"
                       /\ q \in batch => q # o /\ own[q] # "none"
    <3>1. \A q \in Ops : Mid(q)' => 0 < sent[q]
      BY <2>1 DEF Mid
    <3>2. \A q \in Ops : own[q] = "none" => sent[q] = 0 /\ q \notin batch
      BY <1>i DEF SegInv, TagsInOrder, Fresh
    <3>3. QED
      BY <1>mid, <2>1, <3>1, <3>2
  <2>6. IdleStopped'
    <3>1. \A q \in stopped : q # o /\ q \in Ops
      BY <1>0, <2>4 DEF Fresh
    <3>2. \A q \in Ops : own[q] = "queued" /\ cmd[q].kind = "idle" => q \in stopped
      BY <2>1 DEF IdleExclusive
    <3>3. \A q, r \in Ops : own'[q] # "none" /\ r < q /\ own'[r] = "queued"
                              /\ cmd'[r].kind = "idle" => r \in stopped
      <4>1. SUFFICES ASSUME NEW q \in Ops, NEW r \in Ops, own'[q] # "none", r < q,
                            own'[r] = "queued", cmd'[r].kind = "idle"
                     PROVE  r \in stopped
        OBVIOUS
      <4>2. r # o
        BY <1>0, <2>3, <2>4, <4>1
      <4>3. QED
        BY <2>3, <3>2, <4>1, <4>2
    <3>4. QED
      BY <1>q, <2>1, <2>3, <3>1, <3>3 DEF IdleStopped
  <2>7. SentExact'
    <3>1. sent[o] = 0 /\ o \notin batch /\ Flushed(Render(k)) = 0
      BY <2>4, RenderFacts, ContextAssumption DEF Fresh
    <3>2. QED
      BY <1>q, <2>1, <2>3, <3>1 DEF SentExact, Queue
  <2>8. BatchWalls'
    BY <1>0, <1>q, <2>1, <2>3, <2>5 DEF BatchWalls, Unfinished
  <2>9. MidCarried'
    BY <1>q, <2>1, <2>3, <2>5 DEF MidCarried
  <2>10. BeforeSpent'
    <3>1. SUFFICES ASSUME NEW q \in Ops, NEW r \in Queue', Mid(q)' \/ Arming(q)', r < q
                   PROVE  ~Awaits(r)' /\ Spent(r)'
      BY DEF BeforeSpent
    <3>2. own[q] # "none" /\ (Mid(q) \/ Arming(q))
      BY <2>1, <2>5, <3>1 DEF Arming
    <3>3. r \in Ops /\ r # o /\ r \in Queue
      BY <2>3, <2>4, <3>1, <3>2 DEF Queue
    <3>4. ~Awaits(r) /\ Spent(r)
      BY <1>q, <3>1, <3>2, <3>3 DEF BeforeSpent
    <3>5. QED
      BY <2>1, <2>3, <3>3, <3>4 DEF Awaits, Spent, InFlight
  <2>11. QED
    BY <2>6, <2>7, <2>8, <2>9, <2>10 DEF Parts
<1>leave. ASSUME NEW o \in Ops, ~Mid(o), own[o] # "none",
                 UNCHANGED <<cmd, staged, batch, writePc, sent, granted, stopped>>,
                 \A q \in Ops : /\ q # o => own'[q] = own[q]
                                /\ q = o => own'[q] \in {"posted", "freed"}
          PROVE  Parts'
  <2>1. \A q \in Ops : Mid(q)' => Mid(q) /\ q # o
    BY <1>mid, <1>leave
  <2>2. Queue' \subseteq Queue
    BY <1>leave DEF Queue
  <2>3. IdleStopped'
    BY <1>q, <1>leave DEF IdleStopped
  <2>4. SentExact' /\ BatchWalls'
    BY <1>q, <1>leave, <2>2 DEF SentExact, BatchWalls, Unfinished
  <2>5. MidCarried'
    BY <1>q, <1>leave, <2>1 DEF MidCarried
  <2>6. BeforeSpent'
    BY <1>q, <1>leave, <2>1, <2>2 DEF BeforeSpent, Awaits, Spent, InFlight, Arming
  <2>7. QED
    BY <2>3, <2>4, <2>5, <2>6 DEF Parts
<1>3. ASSUME NEW o \in Ops, CancelExtract(o)
      PROVE  Parts'
  <2>1. /\ UNCHANGED <<cmd, staged, batch, writePc, sent, granted, stopped>>
        /\ NeverStaged(o) \/ (IsWritten(o) /\ o \notin staged)
    BY <1>3 DEF CancelExtract, CancelCall, NeverStaged, IsWritten
  <2>2. \A q \in Ops : /\ q # o => own'[q] = own[q]
                       /\ q = o => own'[q] \in {"posted", "freed"}
    BY <1>0, <1>3 DEF CancelExtract, Move
  <2>3. own[o] = "queued" /\ o \in Queue
    BY <1>i, <1>3, <1>s DEF CancelExtract, CancelCall, RegistryInv,
                      RegistryMatchesCells, Live, Sound, Queue
  <2>4. ~Mid(o)
    <3>1. CASE NeverStaged(o)
      BY <1>0, <1>q, <2>3, <3>1 DEF NeverStaged, SentWithin, EverStaged, Mid
    <3>2. CASE IsWritten(o) /\ o \notin staged /\ cmd[o].kind # "idle"
      <4>1. ~(Flushed(cmd[o]) < Unlocked(cmd[o])) /\ Unlocked(cmd[o]) = Full(cmd[o])
        BY <1>full, <3>2 DEF IsWritten
      <4>2. o \notin batch
        BY <1>q, <2>3, <3>2 DEF ListExact
      <4>3. sent[o] = Flushed(cmd[o])
        BY <1>c, <1>q, <2>3, <3>2, <4>2 DEF SentExact
      <4>4. QED
        BY <1>c, <4>1, <4>3 DEF Mid
    <3>3. QED
      BY <2>1, <3>1, <3>2 DEF Mid
  <2>5. QED
    BY <2>1, <2>2, <2>3, <2>4, <1>leave
<1>4. ASSUME NEW o \in Ops, CancelIdle(o)
      PROVE  Parts'
  <2>1. /\ UNCHANGED <<own, staged, batch, writePc, sent, granted>>
        /\ cmd' = [cmd EXCEPT ![o] = Done(cmd[o])] /\ cmd[o].kind = "idle"
        /\ stopped' = stopped \cup {o}
    BY <1>4 DEF CancelIdle, CancelCall, HandlesCancel, CancelNoted
  <2>2. /\ Done(cmd[o]).kind = "idle" /\ Done(cmd[o]).done_requested
        /\ Done(cmd[o]).phase # "idling"
        /\ cmd[o].phase # "idling" => /\ Done(cmd[o]).phase = cmd[o].phase
                                      /\ Done(cmd[o]).pending = cmd[o].pending
        /\ AwaitsContinuation(Done(cmd[o])) <=> AwaitsContinuation(cmd[o])
    BY <1>c, <2>1, DoneFacts
  <2>3. \A q \in Ops : /\ q # o => cmd'[q] = cmd[q]
                       /\ q = o => cmd'[q] = Done(cmd[o])
    BY <1>0, <2>1
  <2>4. \A q \in Ops : Mid(q)' => Mid(q)
    BY <1>mid, <2>1
  <2>5. IdleStopped'
    BY <1>0, <1>q, <2>1, <2>2, <2>3 DEF IdleStopped
  <2>6. SentExact'
    BY <1>0, <1>q, <2>1, <2>2, <2>3 DEF SentExact, Queue
  <2>7. \A q \in Ops : Awaits(q)' <=> Awaits(q)
    BY <2>2, <2>3 DEF Awaits
  <2>8. BatchWalls' /\ MidCarried'
    <3>1. \A q \in Ops : Unfinished(q)' => Unfinished(q)
      BY <2>2, <2>3 DEF Unfinished
    <3>2. QED
      BY <1>0, <1>q, <2>1, <2>4, <3>1 DEF BatchWalls, MidCarried
  <2>9. \A q \in Ops : Spent(q) => Spent(q)'
    BY <2>1, <2>2, <2>3 DEF Spent, InFlight
  <2>10. BeforeSpent'
    BY <1>0, <1>q, <2>1, <2>4, <2>7, <2>9 DEF BeforeSpent, Queue, Arming
  <2>11. QED
    BY <2>5, <2>6, <2>8, <2>10 DEF Parts
<1>5. ASSUME NEW o \in Ops, CancelDetach(o)
      PROVE  Parts'
  BY <1>5, <1>gr, <1>quiet DEF CancelDetach, CancelCall
<1>6. CASE Close \/ Abandon
  BY <1>6, <1>s DEF Close, Abandon
<1>7. CASE Flush \/ KickReceiver
  BY <1>7, <1>gr, <1>quiet DEF Flush, KickReceiver
<1>8. ASSUME NEW src \in {"user", "read", "flush"}, PostKick(src) \/ PostKickFails(src)
      PROVE  Parts'
  BY <1>8, <1>gr, <1>quiet DEF PostKick, PostKickFails
<1>9. ASSUME NEW src \in {"posted", "chained"}, Kick(src)
      PROVE  Parts'
  <2>1. /\ staged' = staged \cup StageSet /\ batch' = StageSet /\ writePc' = "arming"
        /\ UNCHANGED <<own, cmd, sent, granted, stopped>> /\ ~writeInFlight
        /\ StageSet # {}
    BY <1>9 DEF Kick, CanKick
  <2>2. writePc = "idle" /\ batch = {} /\ \A o \in Queue : o \notin staged
    BY <1>i, <1>q, <2>1 DEF PumpsLatched, SegInv, ListExact
  <2>3. \A o \in StageSet : /\ o \in Queue /\ Available(o)
                            /\ \A p \in Queue : p < o => ~Wall(p)
    BY DEF StageSet
  <2>4. \A o \in Ops : Mid(o)' => Mid(o)
    BY <1>mid, <2>1
  <2>5. \A o \in Queue : InFlight(o) = 0 /\ InFlight(o)' = IF o \in StageSet THEN 1 ELSE 0
    BY <2>1, <2>2 DEF InFlight
  <2>6. \A o \in Queue : cmd[o].kind # "idle" => sent[o] = Flushed(cmd[o])
    BY <1>0, <1>c, <1>q, <2>2 DEF SentExact
  (* What a new segment leaves behind it. *)
  <2>7. ASSUME NEW o \in Queue, cmd[o].kind # "idle", ~Awaits(o), o \in StageSet
        PROVE  Flushed(cmd[o]) + 1 = Full(cmd[o])
    <3>1. /\ Flushed(cmd[o]) < Unlocked(cmd[o]) /\ Unlocked(cmd[o]) = Full(cmd[o])
          /\ Flushed(cmd[o]) \in Nat /\ Full(cmd[o]) \in {1, 2, 3} /\ o \in Ops
      BY <1>0, <1>c, <1>full, <2>3, <2>7 DEF Available
    <3>2. CASE Full(cmd[o]) = 1
      BY <3>1, <3>2
    <3>3. CASE Full(cmd[o]) > 1
      <4>1. Unlocked(cmd[o]) <= Flushed(cmd[o]) + InFlight(o) + 1
        BY <1>full, <1>q, <2>7, <3>1, <3>3 DEF OneAhead
      <4>2. QED
        BY <2>5, <2>7, <3>1, <4>1
    <3>4. QED
      BY <3>1, <3>2, <3>3
  <2>8. ASSUME NEW o \in Queue, NEW q \in StageSet, o < q
        PROVE  ~Awaits(o) /\ Spent(o)'
    <3>1. ~Awaits(o) /\ o \in Ops /\ q \in Ops /\ own[q] # "none"
      BY <1>0, <2>3, <2>8 DEF Wall, Queue
    <3>2. Available(o) => o \in StageSet
      <4>1. ASSUME NEW r \in Queue, r < o PROVE ~Wall(r)
        BY <1>0, <2>3, <2>8, <3>1, <4>1
      <4>2. QED
        BY <4>1 DEF StageSet
    <3>3. CASE cmd[o].kind = "idle"
      <4>1. o \in stopped
        BY <1>q, <2>8, <3>1, <3>3 DEF IdleStopped, Queue
      <4>2. cmd[o].phase \in {"done_pending", "done_sent"}
        BY <1>c, <1>q, <3>1, <3>3, <4>1
           DEF IdleStopped, Awaits, AwaitsContinuation, Sane, CommandType, IdlePhases
      <4>3. cmd[o].pending => o \in StageSet
        BY <2>2, <3>2, <3>3 DEF Available, HasSegment
      <4>4. QED
        BY <2>1, <3>1, <3>3, <4>2, <4>3 DEF Spent
    <3>4. CASE cmd[o].kind # "idle"
      <4>1. CASE o \in StageSet
        BY <2>1, <2>5, <2>7, <3>1, <3>4, <4>1 DEF Spent, Full
      <4>2. CASE o \notin StageSet
        <5>1. ~HasSegment(cmd[o])
          BY <2>2, <3>2, <4>2 DEF Available
        <5>2. Flushed(cmd[o]) = Full(cmd[o])
          BY <1>c, <1>full, <2>5, <3>1, <3>4, <5>1
        <5>3. QED
          BY <1>c, <2>1, <2>5, <3>1, <3>4, <4>2, <5>2 DEF Spent, Full
      <4>3. QED
        BY <4>1, <4>2
    <3>5. QED
      BY <3>1, <3>3, <3>4
  (* In front of a command in the middle of its exchange nothing is staged. *)
  <2>9. ASSUME NEW o \in Queue, Spent(o), ~Awaits(o)
        PROVE  ~Available(o) /\ ~Wall(o) /\ Spent(o)'
    <3>1. ~HasSegment(cmd[o])
      <4>1. CASE cmd[o].kind = "idle"
        BY <2>2, <2>9, <4>1 DEF Spent, HasSegment
      <4>2. CASE cmd[o].kind # "idle"
        <5>1. Flushed(cmd[o]) = Full(cmd[o]) /\ Unlocked(cmd[o]) = Full(cmd[o])
          BY <1>0, <1>c, <1>full, <2>5, <2>9, <4>2 DEF Spent
        <5>2. QED
          BY <1>0, <1>c, <5>1
      <4>3. QED
        BY <4>1, <4>2
    <3>2. ~Available(o) /\ ~Wall(o)
      BY <2>9, <3>1 DEF Available, Wall
    <3>3. o \notin StageSet
      BY <2>3, <3>2
    <3>4. QED
      BY <2>1, <2>5, <2>9, <3>2, <3>3 DEF Spent, Full
  <2>10. IdleStopped' /\ SentExact'
    BY <1>q, <2>1, <2>2 DEF IdleStopped, SentExact, Queue
  <2>11. BatchWalls'
    <3>1. ASSUME NEW o \in StageSet, NEW p \in StageSet, Unfinished(o) PROVE p <= o
      <4>0. o \in Queue /\ p \in Queue /\ o \in Ops /\ p \in Ops
        BY <1>0, <2>3
      <4>a. Awaits(o)
        <5>1. SUFFICES ASSUME ~Awaits(o) PROVE FALSE
          OBVIOUS
        <5>2. Flushed(cmd[o]) + 1 = Full(cmd[o])
          BY <2>7, <3>1, <4>0, <5>1 DEF Unfinished
        <5>3. Flushed(cmd[o]) \in Nat /\ Flushed(cmd[o]) + 1 < Full(cmd[o])
          BY <1>c, <3>1, <4>0 DEF Unfinished
        <5>4. QED
          BY <5>2, <5>3
      <4>1. o \in Queue /\ p \in Queue /\ Wall(o)
        BY <4>0, <4>a DEF Wall
      <4>2. ~(o < p)
        BY <2>3, <4>1
      <4>3. QED
        BY <1>0, <4>1, <4>2
    <3>2. QED
      BY <2>1, <3>1 DEF BatchWalls, Unfinished
  <2>12. MidCarried'
    <3>1. SUFFICES ASSUME NEW o \in Ops, Mid(o) PROVE own[o] = "queued" /\ o \in StageSet
      BY <2>1, <2>4 DEF MidCarried
    <3>2. o \in Queue
      BY <1>q, <3>1 DEF MidCarried, Queue
    <3>3. \A p \in Queue : p < o => ~Available(p) /\ ~Wall(p)
      BY <1>q, <2>9, <3>1 DEF BeforeSpent
    <3>4. CASE Available(o)
      BY <3>2, <3>3, <3>4 DEF StageSet, Queue
    <3>5. CASE ~Available(o)
      <4>1. ~HasSegment(cmd[o]) /\ cmd[o].kind # "idle"
        BY <2>2, <3>1, <3>2, <3>5 DEF Available, Mid
      <4>2. sent[o] = Flushed(cmd[o]) /\ sent[o] < Full(cmd[o])
        BY <1>c, <2>6, <3>1, <3>2, <4>1 DEF Mid
      <4>3. Awaits(o)
        BY <1>c, <1>full, <4>1, <4>2
      <4>4. PICK x \in StageSet : TRUE
        BY <2>1
      <4>5. x \in Queue /\ Available(x) /\ x # o
        BY <2>3, <3>5
      <4>6. ~(x < o)
        BY <3>3, <4>5
      <4>7. o < x
        BY <1>0, <4>5, <4>6
      <4>8. QED
        BY <2>3, <3>2, <4>3, <4>7 DEF Wall
    <3>6. QED
      BY <3>4, <3>5
  <2>13. BeforeSpent'
    <3>1. SUFFICES ASSUME NEW o \in Ops, NEW p \in Queue, Mid(o) \/ o \in StageSet, p < o
                   PROVE  ~Awaits(p) /\ Spent(p)'
      BY <2>1, <2>4 DEF BeforeSpent, Queue, Arming, Awaits
    <3>2. CASE o \in StageSet
      BY <2>8, <3>1, <3>2
    <3>3. CASE Mid(o)
      BY <1>q, <2>9, <3>1, <3>3 DEF BeforeSpent
    <3>4. QED
      BY <3>1, <3>2, <3>3
  <2>14. QED
    BY <2>10, <2>11, <2>12, <2>13 DEF Parts
<1>10. ASSUME NEW src \in {"posted", "chained"}, KickIdle(src)
       PROVE  Parts'
  BY <1>10, <1>gr, <1>quiet DEF KickIdle
<1>11. CASE WriteArm
  <2>1. /\ writePc = "arming" /\ writePc' = "armed"
        /\ sent' = [o \in Ops |-> IF o \in batch THEN sent[o] + 1 ELSE sent[o]]
        /\ UNCHANGED <<own, cmd, staged, batch, granted, stopped>>
    BY <1>11, <1>s DEF WriteArm
  <2>2. \A o \in Ops : Mid(o)' => o \in batch /\ own[o] = "queued"
    BY <1>11, <1>arm, <1>s
  <2>3. IdleStopped' /\ BatchWalls'
    BY <1>q, <2>1 DEF IdleStopped, BatchWalls
  <2>4. SentExact'
    <3>1. \A o \in Ops : granted'[o] <= sent'[o]
      BY <1>0, <1>gr, <2>1
    <3>2. \A o \in Queue : cmd[o].kind # "idle" => sent[o] = Flushed(cmd[o])
      BY <1>0, <1>c, <1>q, <2>1 DEF SentExact
    <3>3. QED
      BY <1>0, <1>c, <2>1, <3>1, <3>2 DEF SentExact, Queue
  <2>5. MidCarried'
    BY <2>1, <2>2 DEF MidCarried
  <2>6. BeforeSpent'
    BY <1>q, <2>1, <2>2 DEF BeforeSpent, Queue, Awaits, Spent, InFlight, Arming
  <2>7. QED
    BY <2>3, <2>4, <2>5, <2>6 DEF Parts
<1>12. CASE WriteArmTeardown \/ WriteDoneTeardown
  BY <1>12, <1>s DEF WriteArmTeardown, WriteDoneTeardown
<1>13. CASE WriteArmFails \/ WriteError
  BY <1>13, <1>s DEF WriteArmFails, WriteError
<1>14. CASE WriteDone
  <2> DEFINE done == {o \in StillQueued : /\ o \in detached
                                         /\ ~AwaitsContinuation(cmd'[o])
                                         /\ ~HasSegment(cmd'[o])}
  <2>1. /\ cmd' = [o \in Ops |-> IF o \in StillQueued THEN OnSegmentFlushed(cmd[o])
                                                      ELSE cmd[o]]
        /\ staged' = staged \ StillQueued /\ writePc = "armed" /\ writePc' = "idle"
        /\ UNCHANGED <<sent, granted, stopped>> /\ Move(done, "posted")
    BY <1>14 DEF WriteDone, WriteCompletes
  <2>2. \A o \in StillQueued : o \in Ops /\ o \in Queue /\ o \in batch
                               /\ InFlight(o) = 1 /\ InFlight(o)' = 0
    BY <1>0, <1>q, <2>1 DEF StillQueued, ListExact, InFlight
  <2>3. \A o \in Queue : o \notin StillQueued => o \notin batch /\ InFlight(o)' = InFlight(o)
    BY <2>1 DEF StillQueued, InFlight
  <2>4. \A o \in Ops : own'[o] = own[o] \/ (own'[o] = "posted" /\ o \in done)
    BY <1>0, <2>1 DEF Move
  <2>5. \A o \in StillQueued :
           /\ cmd'[o] = OnSegmentFlushed(cmd[o]) /\ cmd'[o].kind = cmd[o].kind
           /\ cmd'[o] \in CommandType
           /\ AwaitsContinuation(cmd'[o]) <=> AwaitsContinuation(cmd[o])
           /\ Unlocked(cmd'[o]) = Unlocked(cmd[o])
           /\ cmd[o].kind # "idle" => Flushed(cmd'[o]) = Flushed(cmd[o]) + 1
    <3>1. \A o \in StillQueued : Flushed(cmd[o]) + 1 <= Unlocked(cmd[o])
      BY <1>c, <2>2
    <3>2. QED
      BY <1>c, <2>1, <2>2, <3>1, FlushFacts
  <2>6. \A o \in StillQueued : cmd[o].kind = "idle" =>
           /\ cmd'[o].pending = FALSE /\ cmd'[o].done_requested = cmd[o].done_requested
           /\ cmd'[o].phase = IF cmd[o].phase = "done_pending" THEN "done_sent"
                                                              ELSE cmd[o].phase
    <3>1. SUFFICES ASSUME NEW o \in StillQueued, cmd[o].kind = "idle"
                   PROVE  /\ FlushIdle(cmd[o]).pending = FALSE
                          /\ FlushIdle(cmd[o]).done_requested = cmd[o].done_requested
                          /\ FlushIdle(cmd[o]).phase =
                                IF cmd[o].phase = "done_pending" THEN "done_sent"
                                                                 ELSE cmd[o].phase
      BY <2>5 DEF OnSegmentFlushed
    <3>2. cmd[o] \in CommandType
      BY <1>c, <2>2
    <3>3. QED
      BY <3>2 DEF FlushIdle, CommandType
  <2>7. \A o \in Ops : o \notin StillQueued => cmd'[o] = cmd[o]
    BY <2>1
  <2>8. \A o \in Ops : Mid(o)' => Mid(o)
    BY <1>mid, <2>1
  <2>9. \A o \in StillQueued : cmd[o].kind # "idle" => sent[o] = Flushed(cmd[o]) + 1
    BY <1>q, <2>1, <2>2 DEF SentExact
  <2>10. \A o \in done : ~Mid(o)
    <3>1. SUFFICES ASSUME NEW o \in done, cmd[o].kind # "idle" PROVE ~Mid(o)
      BY DEF Mid
    <3>2. o \in StillQueued /\ ~Awaits(o) /\ ~HasSegment(cmd'[o])
      BY <2>5, <3>1 DEF Awaits
    <3>3. /\ cmd'[o].kind # "idle" /\ Flushed(cmd'[o]) = Flushed(cmd[o]) + 1
          /\ Unlocked(cmd[o]) = Full(cmd[o]) /\ Unlocked(cmd'[o]) = Full(cmd[o])
      BY <1>full, <2>2, <2>5, <3>1, <3>2
    <3>4. cmd'[o].segs = Full(cmd[o])
      <4>1. Flushed(cmd[o]) + 1 <= Unlocked(cmd[o])
        BY <1>c, <2>2, <3>2
      <4>2. Sane(cmd'[o])
        BY <1>c, <2>2, <2>5, <3>2, <4>1, FlushFacts
      <4>3. QED
        BY <2>5, <3>1, <3>2, <4>2 DEF Sane, Full
    <3>5. ~(Flushed(cmd'[o]) < Unlocked(cmd'[o]))
      BY <3>2, <3>3, <3>4 DEF HasSegment, Flushed, Unlocked
    <3>6. QED
      BY <1>c, <2>2, <2>9, <3>1, <3>2, <3>3, <3>5 DEF Mid
  <2> HIDE DEF done
  <2>11. Queue' \subseteq Queue
    BY <2>4 DEF Queue
  <2>12. \A o \in Ops : own'[o] # "none" => own[o] # "none"
    <3>1. \A o \in done : o \in StillQueued
      BY DEF done
    <3>2. QED
      BY <2>2, <2>4, <3>1 DEF Queue
  <2>13. \A o \in Ops : cmd'[o].kind = cmd[o].kind
    BY <2>5, <2>7
  <2>14. IdleStopped'
    <3>1. \A o, p \in Ops :
             own'[o] # "none" /\ p < o /\ own'[p] = "queued" /\ cmd'[p].kind = "idle"
                => p \in stopped
      BY <1>q, <2>4, <2>12, <2>13 DEF IdleStopped
    <3>2. \A o \in stopped : /\ cmd'[o].kind = "idle" /\ cmd'[o].done_requested
                             /\ cmd'[o].phase # "idling"
      BY <1>0, <1>q, <2>6, <2>7, <2>13 DEF IdleStopped
    <3>3. QED
      BY <2>1, <3>1, <3>2 DEF IdleStopped
  <2>15. SentExact'
    <3>1. \A o \in Queue : cmd[o].kind # "idle" => sent[o] = Flushed(cmd'[o])
      <4>1. SUFFICES ASSUME NEW o \in Queue, cmd[o].kind # "idle"
                     PROVE  sent[o] = Flushed(cmd'[o])
        OBVIOUS
      <4>2. CASE o \in StillQueued
        BY <2>5, <2>9, <4>1, <4>2
      <4>3. CASE o \notin StillQueued
        <5>1. sent[o] = Flushed(cmd[o]) + 0 /\ Flushed(cmd[o]) \in Nat
          BY <1>0, <1>c, <1>q, <2>3, <4>1, <4>3 DEF SentExact
        <5>2. QED
          BY <1>0, <2>7, <4>3, <5>1
      <4>4. QED
        BY <4>2, <4>3
    <3>2. ASSUME NEW o \in Queue', cmd'[o].kind # "idle"
          PROVE  /\ sent'[o] = Flushed(cmd'[o]) + 0 /\ o \in Queue
      <4>1. o \in Queue /\ o \in Ops
        BY <1>0, <2>11
      <4>2. sent[o] = Flushed(cmd'[o]) /\ sent[o] \in Nat
        BY <1>0, <2>13, <3>1, <3>2, <4>1
      <4>3. QED
        BY <2>1, <4>1, <4>2
    <3>3. QED
      BY <1>gr, <2>1, <3>2 DEF SentExact
  <2>16. BatchWalls'
    BY <2>1 DEF BatchWalls
  <2>17. MidCarried'
    BY <1>q, <2>1, <2>4, <2>8, <2>10 DEF MidCarried
  <2>18. ASSUME NEW p \in Queue, ~Awaits(p), Spent(p)
         PROVE  ~Awaits(p)' /\ Spent(p)'
    <3>1. CASE p \notin StillQueued
      BY <1>0, <2>1, <2>3, <2>7, <2>18, <3>1 DEF Awaits, Spent
    <3>2. CASE p \in StillQueued /\ cmd[p].kind = "idle"
      BY <2>5, <2>6, <2>18, <3>2 DEF Awaits, Spent
    <3>3. CASE p \in StillQueued /\ cmd[p].kind # "idle"
      BY <1>c, <2>2, <2>5, <2>18, <3>3 DEF Awaits, Spent, Full
    <3>4. QED
      BY <3>1, <3>2, <3>3
  <2>19. BeforeSpent'
    BY <1>q, <2>1, <2>8, <2>11, <2>18 DEF BeforeSpent, Arming
  <2>20. QED
    BY <2>14, <2>15, <2>16, <2>17, <2>19 DEF Parts
<1>15. CASE WriteErrorDropped \/ WriteErrorTail
  BY <1>15, <1>i, <1>s DEF WriteErrorDropped, WriteErrorTail, RegistryInv
<1>16. ASSUME NEW ec \in LossType, ConnectionLost(ec) \/ ConnectionLostLate(ec)
       PROVE  Parts'
  BY <1>16, <1>s DEF ConnectionLost, ConnectionLostLate
<1>17. CASE MaybeFinishClose
  BY <1>17, <1>gr, <1>quiet DEF MaybeFinishClose
<1>18. ASSUME NEW o \in Ops, CompleteStopped(o)
       PROVE  Parts'
  <2>1. /\ UNCHANGED <<cmd, staged, batch, writePc, sent, granted, stopped>>
        /\ own[o] = "posted"
    BY <1>18 DEF CompleteStopped
  <2>2. \A q \in Ops : /\ q # o => own'[q] = own[q]
                       /\ q = o => own'[q] \in {"posted", "freed"}
    BY <1>0, <1>18 DEF CompleteStopped, Retire, Move
  <2>3. ~Mid(o)
    BY <1>q, <2>1 DEF MidCarried
  <2>4. QED
    BY <2>1, <2>2, <2>3, <1>leave
<1>19. CASE ReadSteps \/ ReadArmFails
  <2>1. UNCHANGED <<cellVars, writeVars, wireVars>>
    BY <1>19 DEF ReadSteps, ReadVarsOnly, ReadStops, ReadQuiet, ReadData,
                 ReadFails, ReadErrorMapped, ReadFatalTail, ReadBatchDone,
                 ReadBatchDoneClosing, ReadArm, ReadArmTeardown, ReadArmFails
  <2>2. QED
    BY <2>1, <1>gr, <1>quiet
<1>20. CASE DispatchDropped \/ DispatchBye \/ DispatchUnexpected \/ DispatchDiverged
  <2>1. UNCHANGED <<own, cmd, staged, batch, writePc, sent, granted, stopped>>
    BY <1>20 DEF DispatchDropped, DispatchBye, DispatchUnexpected,
                 DispatchDiverged, Dispatching
  <2>2. QED
    BY <2>1, <1>gr, <1>quiet
<1>21. CASE DispatchTagged
  <2> DEFINE o == Head(inbox).op
  <2>1. /\ UNCHANGED <<cmd, staged, batch, writePc, sent, granted, stopped>>
        /\ inbox # << >> /\ Head(inbox).type = "tagged" /\ own[o] = "queued"
        /\ o \in Queue
    BY <1>21 DEF DispatchTagged, Dispatching, Queue
  <2>2. \A q \in Ops : /\ q # o => own'[q] = own[q]
                       /\ q = o => own'[q] \in {"posted", "freed"}
    BY <1>0, <1>21 DEF DispatchTagged, Retire, Move
  <2>3. o \in answered
    BY <1>0, <1>i, <2>1, InboxFacts DEF SegInv, AnswersRecorded
  <2> HIDE DEF o
  <2>4. ~Mid(o) /\ o \in Ops
    BY <1>0, <2>1, <2>3 DEF Mid
  <2>5. QED
    BY <2>1, <2>2, <2>4, <1>leave
<1>22. CASE DispatchContinuation
  <2> DEFINE t == target
  <2>1. /\ t \in Ops /\ AwaitsContinuation(cmd[t])
        /\ cmd' = [cmd EXCEPT ![t] = OnContinuation(cmd[t])]
        /\ UNCHANGED <<own, staged, sent, batch, writePc, granted, stopped>>
    BY <1>i, <1>22 DEF DispatchContinuation, Dispatching, RouteInv, TargetWaits,
                 Live, Awaits
  <2>2. /\ OnContinuation(cmd[t]).kind = cmd[t].kind
        /\ cmd[t].kind # "idle" => Flushed(OnContinuation(cmd[t])) = Flushed(cmd[t])
    BY <1>c, <2>1, ContinueFacts
  <2>3. \A q \in Ops : /\ q # t => cmd'[q] = cmd[q]
                       /\ q = t => cmd'[q] = OnContinuation(cmd[t])
    BY <1>0, <2>1
  <2>4. cmd[t].kind = "idle" /\ cmd[t].done_requested =>
           /\ OnContinuation(cmd[t]).done_requested
           /\ OnContinuation(cmd[t]).phase # "idling"
    <3>1. SUFFICES ASSUME cmd[t].kind = "idle", cmd[t].done_requested
                   PROVE  /\ ContinueIdle(cmd[t]).done_requested
                          /\ ContinueIdle(cmd[t]).phase # "idling"
      BY DEF OnContinuation
    <3>2. cmd[t].phase = "idle_sent" /\ cmd[t] \in CommandType
      BY <1>c, <2>1, <3>1 DEF AwaitsContinuation
    <3>3. QED
      BY <3>1, <3>2 DEF ContinueIdle, QueueDone, CommandType
  <2> HIDE DEF t
  <2>5. \A q \in Ops : Mid(q)' => Mid(q)
    BY <1>mid, <2>1
  <2>6. IdleStopped'
    BY <1>0, <1>q, <2>1, <2>2, <2>3, <2>4 DEF IdleStopped
  <2>7. SentExact'
    BY <1>0, <1>q, <2>1, <2>2, <2>3 DEF SentExact, Queue
  <2>8. \A q \in Ops : Awaits(q)' => Awaits(q)
    BY <2>1, <2>3 DEF Awaits
  <2>9. BatchWalls' /\ MidCarried'
    <3>1. \A q \in Ops : Unfinished(q)' => Unfinished(q)
      BY <2>2, <2>3 DEF Unfinished, Full
    <3>2. QED
      BY <1>0, <1>q, <2>1, <2>5, <3>1 DEF BatchWalls, MidCarried
  <2>10. BeforeSpent'
    <3>1. SUFFICES ASSUME NEW o \in Ops, NEW p \in Queue, Mid(o) \/ Arming(o), p < o
                   PROVE  ~Awaits(p)' /\ Spent(p)'
      BY <2>1, <2>5 DEF BeforeSpent, Queue, Arming
    <3>2. ~Awaits(p) /\ Spent(p) /\ p \in Ops
      BY <1>0, <1>q, <3>1 DEF BeforeSpent
    <3>3. p # t
      BY <2>1, <3>2 DEF Awaits
    <3>4. QED
      BY <2>1, <2>3, <3>2, <3>3 DEF Awaits, Spent, InFlight
  <2>11. QED
    BY <2>6, <2>7, <2>9, <2>10 DEF Parts
<1>23. CASE Server
  <2>1. UNCHANGED <<cellVars, writeVars, sent>>
    BY <1>23 DEF Server, ServerContinues, ServerAnswers, ServerBye,
                 ServerGarbage, Hangup, ServerSends
  <2>2. \A o \in Ops : granted'[o] <= sent[o]
    <3>1. ASSUME NEW o \in Ops, ServerContinues(o)
          PROVE  granted' = [granted EXCEPT ![o] = @ + 1] /\ granted[o] < sent[o]
      BY <1>0, <3>1 DEF ServerContinues, AtWall
    <3>2. CASE \E o \in Ops : ServerContinues(o)
      <4>1. PICK o \in Ops : granted' = [granted EXCEPT ![o] = @ + 1]
                             /\ granted[o] < sent[o]
        BY <3>1, <3>2
      <4>2. \A q \in Ops : granted[q] \in Nat /\ sent[q] \in Nat
                            /\ granted'[q] = IF q = o THEN granted[q] + 1 ELSE granted[q]
        BY <1>0, <4>1
      <4>3. QED
        BY <1>gr, <4>1, <4>2
    <3>3. CASE ~\E o \in Ops : ServerContinues(o)
      BY <1>23, <1>gr, <3>3 DEF Server, ServerAnswers, ServerBye, ServerGarbage,
                                Hangup
    <3>4. QED
      BY <3>2, <3>3
  <2>3. QED
    BY <2>1, <2>2, <1>quiet
<1>24. ASSUME NEW o \in Ops, NEW k \in Kinds, NEW p \in Paths,
              SubmitRejected(o, k, p)
       PROVE  Parts'
  BY <1>24, <1>s DEF SubmitRejected
<1>25. QED
  <2>1. CASE User
    BY <2>1, <1>2, <1>3, <1>4, <1>5, <1>6, <1>7, <1>24, ContextAssumption
       DEF User, SubmitStopped
  <2>2. CASE WritePump
    BY <2>2, <1>7, <1>8, <1>9, <1>10, <1>11, <1>12, <1>13, <1>14, <1>15
       DEF WritePump
  <2>3. CASE ReadPump
    BY <2>3, <1>19, <1>20, <1>21, <1>22 DEF ReadPump, ReadSteps
  <2>4. CASE Teardown
    BY <2>4, <1>16, <1>17, <1>18 DEF Teardown
  <2>5. QED
    BY <1>1, <1>23, <2>1, <2>2, <2>3, <2>4 DEF Next

(* Wire order (RFC 3501 section 5.5), for any number of operations and any *)
(* interleaving of staging, continuation, cancellation and teardown: once  *)
(* the first segment of a command is written, kick() writes no other       *)
(* command's bytes until its last.  It needs the walls: a command rendered *)
(* with non-synchronizing literals has none (literal_plus_interleaved).    *)
(* And it needs them to count: a further SASL challenge unlocks a wall of  *)
(* whichever command has the route, and a LOGIN with two of them then      *)
(* loses one while its first segment is still under way.                   *)
THEOREM WireOrderHolds ==
    ASSUME "reuse" \notin Faults, "memory" \notin Faults,
           "litplus" \notin Kinds,
           "challenge" \notin Faults \/ "login" \notin Kinds
    PROVE  Spec => []WireOrder
<1>1. Init => AheadInv /\ OrderInv
  <2>1. SUFFICES ASSUME Init PROVE AheadInv /\ OrderInv
    OBVIOUS
  <2>2. /\ \A o \in Ops : own[o] = "none" /\ cmd[o] = Render("simple")
                          /\ sent[o] = 0 /\ granted[o] = 0
        /\ stopped = {} /\ batch = {} /\ losing = {} /\ Queue = {}
        /\ writePc = "idle"
    BY <2>1 DEF Init, Queue
  <2>3. Render("simple").kind = "simple"
    BY RenderFacts DEF AllKinds
  <2>4. LossTracked /\ WireOrder
    BY <2>2, <2>3 DEF LossTracked, WireOrder
  <2>5. IdleStopped /\ SentExact /\ BatchWalls /\ MidCarried /\ BeforeSpent
    BY <2>2 DEF IdleStopped, SentExact, BatchWalls, MidCarried, BeforeSpent, Mid
  <2>6. AheadInv
    BY <2>1, <2>2, <2>3, CoreInit DEF AheadInv, StartInv
  <2>7. QED
    BY <2>4, <2>5, <2>6 DEF OrderInv
<1>2. TypeOK /\ CoreInv /\ AheadInv /\ OrderInv /\ [Next]_vars
        => AheadInv' /\ OrderInv'
  BY AheadInductive, AheadFollows, OrderInductive
<1>3. OrderInv => WireOrder
  BY DEF OrderInv
<1>4. QED
  BY <1>1, <1>2, <1>3, TypeCorrect, CoreHolds, PTL DEF Spec
=============================================================================
