--------------------------- MODULE RoutingProofs ---------------------------
(***************************************************************************)
(* What is on the wire and where the server's answers go: the segment      *)
(* counters of the cells, of the write pump and of the server agree, so    *)
(* that a continuation request finds the operation it answers, commands    *)
(* are not interleaved and no drain is forgotten.                          *)
(***************************************************************************)
EXTENDS ImapContextProofs

-----------------------------------------------------------------------------
(* A command as a counter: the segments the server has unlocked, and those *)
(* whose write has completed.                                              *)
Unlocked(c) == IF c.kind = "idle" THEN IF c.phase = "idle_sent" THEN 1 ELSE 2
                                  ELSE c.unlocked

Flushed(c) == IF c.kind = "idle" THEN IF c.pending THEN 0 ELSE 1
                                 ELSE c.emitted

(* Segments of the complete command.                                       *)
Full(c) == IF c.kind = "idle" THEN 2 ELSE SegCount(c.kind)

(* What every command keeps as long as no SASL challenge outgrows it.      *)
Sane(c) ==
    IF c.kind = "idle"
    THEN c.phase # "initial"
    ELSE /\ c.segs = SegCount(c.kind)
         /\ c.emitted <= c.unlocked /\ c.unlocked <= c.segs /\ 1 <= c.unlocked
         /\ ~Walled(c.kind) => c.unlocked = c.segs

(* The counters of a command that is rendered, flushed, asked to end or    *)
(* unlocked.                                                               *)
LEMMA RenderFacts ==
    ASSUME NEW k \in AllKinds
    PROVE  /\ Render(k) \in CommandType /\ Render(k).kind = k /\ Sane(Render(k))
           /\ Flushed(Render(k)) = 0 /\ Unlocked(Render(k)) >= 1
           /\ k = "idle" \/ Walled(k) => Unlocked(Render(k)) = 1
<1>1. CASE k = "idle"
  BY <1>1, CommandOps DEF AllKinds, Render, RenderIdle, Sane, Flushed, Unlocked
<1>2. CASE k # "idle"
  <2>1. /\ Render(k).kind = k /\ Render(k).segs = SegCount(k)
        /\ Render(k).emitted = 0
        /\ Render(k).unlocked = IF Walled(k) THEN 1 ELSE SegCount(k)
    BY <1>2 DEF Render, RenderSegments
  <2>2. SegCount(k) \in {1, 2, 3}
    BY DEF SegCount
  <2>3. QED
    BY <1>2, <2>1, <2>2, CommandOps DEF Sane, Flushed, Unlocked
<1>3. QED
  BY <1>1, <1>2

LEMMA CounterTypes ==
    ASSUME NEW c \in CommandType
    PROVE  /\ Unlocked(c) \in Nat /\ Flushed(c) \in Nat
           /\ Full(c) \in {1, 2, 3}
           /\ Sane(c) => (AwaitsContinuation(c) <=> Unlocked(c) < Full(c))
           /\ Sane(c) /\ AwaitsContinuation(c) =>
                 (HasSegment(c) <=> Flushed(c) < Unlocked(c))
           /\ Sane(c) => (HasSegment(c) => Flushed(c) < Unlocked(c))
<1>1. CASE c.kind = "idle"
  BY <1>1 DEF CommandType, IdlePhases, Unlocked, Flushed, Full, Sane,
              AwaitsContinuation, HasSegment
<1>2. CASE c.kind # "idle"
  <2>1. SegCount(c.kind) \in {1, 2, 3}
    BY DEF SegCount
  <2>2. /\ c.unlocked \in Nat /\ c.emitted \in Nat /\ c.segs \in 1..4
    BY DEF CommandType
  <2>3. QED
    BY <1>2, <2>1, <2>2 DEF Unlocked, Flushed, Full, Sane, AwaitsContinuation,
                            HasSegment
<1>3. QED
  BY <1>1, <1>2

LEMMA FlushFacts ==
    ASSUME NEW c \in CommandType, Sane(c), Flushed(c) + 1 <= Unlocked(c)
    PROVE  /\ OnSegmentFlushed(c) \in CommandType /\ Sane(OnSegmentFlushed(c))
           /\ OnSegmentFlushed(c).kind = c.kind
           /\ Unlocked(OnSegmentFlushed(c)) = Unlocked(c)
           /\ Flushed(OnSegmentFlushed(c)) <= Unlocked(c)
           /\ AwaitsContinuation(c) \/ c.kind # "idle" =>
                 Flushed(OnSegmentFlushed(c)) = Flushed(c) + 1
           /\ AwaitsContinuation(OnSegmentFlushed(c)) <=> AwaitsContinuation(c)
<1>1. CASE c.kind = "idle"
  <2>1. OnSegmentFlushed(c) = FlushIdle(c)
    BY <1>1 DEF OnSegmentFlushed
  <2>2. /\ FlushIdle(c).kind = "idle" /\ FlushIdle(c).pending = FALSE
        /\ FlushIdle(c).phase = IF c.phase = "done_pending" THEN "done_sent"
                                                            ELSE c.phase
    BY <1>1 DEF FlushIdle, CommandType
  <2>3. QED
    BY <1>1, <2>1, <2>2, CommandOps, AwaitsStable DEF Unlocked, Flushed, Sane,
       AwaitsContinuation
<1>2. CASE c.kind # "idle"
  <2>1. /\ c.unlocked \in Nat /\ c.emitted \in Nat /\ c.segs \in 1..4
    BY DEF CommandType
  <2>2. c.emitted < c.segs
    BY <1>2, <2>1 DEF Sane, Flushed, Unlocked
  <2>3. OnSegmentFlushed(c) = [c EXCEPT !.emitted = @ + 1]
    BY <1>2, <2>2 DEF OnSegmentFlushed, FlushSegments
  <2>4. /\ OnSegmentFlushed(c).kind = c.kind /\ OnSegmentFlushed(c).segs = c.segs
        /\ OnSegmentFlushed(c).unlocked = c.unlocked
        /\ OnSegmentFlushed(c).emitted = c.emitted + 1
    BY <2>3 DEF CommandType
  <2>5. QED
    BY <1>2, <2>1, <2>4, CommandOps, AwaitsStable DEF Unlocked, Flushed, Sane
<1>3. QED
  BY <1>1, <1>2

LEMMA DoneFacts ==
    ASSUME NEW c \in CommandType, Sane(c), c.kind = "idle"
    PROVE  /\ Done(c) \in CommandType /\ Sane(Done(c)) /\ Done(c).kind = c.kind
           /\ Unlocked(Done(c)) = Unlocked(c) /\ Flushed(Done(c)) <= Flushed(c)
           /\ AwaitsContinuation(Done(c)) <=> AwaitsContinuation(c)
           /\ AwaitsContinuation(c) => Flushed(Done(c)) = Flushed(c)
           /\ c.phase # "idling" => /\ Done(c).phase = c.phase
                                    /\ Done(c).pending = c.pending
           /\ Done(c).done_requested /\ Done(c).phase # "idling"
<1>1. Done(c) \in CommandType
  BY CommandOps
<1>2. CASE c.phase = "idling"
  <2>1. /\ Done(c).kind = c.kind /\ Done(c).phase = "done_pending"
        /\ Done(c).pending = TRUE /\ Done(c).done_requested = TRUE
    BY <1>2 DEF Done, QueueDone, CommandType
  <2>2. QED
    BY <1>1, <1>2, <2>1 DEF Unlocked, Flushed, Sane, AwaitsContinuation
<1>3. CASE c.phase # "idling"
  <2>1. /\ Done(c).kind = c.kind /\ Done(c).phase = c.phase
        /\ Done(c).pending = c.pending /\ Done(c).done_requested = TRUE
    BY <1>3 DEF Done, CommandType
  <2>2. QED
    BY <1>1, <1>3, <2>1 DEF Unlocked, Flushed, Sane, AwaitsContinuation
<1>4. QED
  BY <1>2, <1>3

LEMMA ContinueFacts ==
    ASSUME NEW c \in CommandType, Sane(c), AwaitsContinuation(c)
    PROVE  /\ OnContinuation(c) \in CommandType /\ Sane(OnContinuation(c))
           /\ OnContinuation(c).kind = c.kind
           /\ Unlocked(OnContinuation(c)) = Unlocked(c) + 1
           /\ Flushed(OnContinuation(c)) <= Flushed(c)
           /\ AwaitsContinuation(OnContinuation(c)) \/ c.kind # "idle" =>
                 Flushed(OnContinuation(c)) = Flushed(c)
<1>1. CASE c.kind = "idle"
  <2>1. c.phase = "idle_sent"
    BY <1>1 DEF AwaitsContinuation
  <2>2. OnContinuation(c) = ContinueIdle(c)
    BY <1>1 DEF OnContinuation
  <2>3. CASE c.done_requested
    <3>1. /\ ContinueIdle(c).kind = "idle" /\ ContinueIdle(c).phase = "done_pending"
          /\ ContinueIdle(c).pending = TRUE
      BY <1>1, <2>1, <2>3 DEF ContinueIdle, QueueDone, CommandType
    <3>2. QED
      BY <1>1, <2>1, <2>2, <3>1, CommandOps
         DEF Unlocked, Flushed, Sane, AwaitsContinuation
  <2>4. CASE ~c.done_requested
    <3>1. /\ ContinueIdle(c).kind = "idle" /\ ContinueIdle(c).phase = "idling"
          /\ ContinueIdle(c).pending = c.pending
      BY <1>1, <2>1, <2>4 DEF ContinueIdle, CommandType
    <3>2. QED
      BY <1>1, <2>1, <2>2, <3>1, CommandOps
         DEF Unlocked, Flushed, Sane, AwaitsContinuation
  <2>5. QED
    BY <2>3, <2>4
<1>2. CASE c.kind # "idle"
  <2>1. /\ c.unlocked \in Nat /\ c.emitted \in Nat /\ c.segs \in 1..4
    BY DEF CommandType
  <2>2. c.unlocked < c.segs
    BY <1>2 DEF AwaitsContinuation
  <2>3. OnContinuation(c) = [c EXCEPT !.unlocked = @ + 1]
    BY <1>2, <2>2 DEF OnContinuation, ContinueSegments, ContinueSasl
  <2>4. /\ OnContinuation(c).kind = c.kind /\ OnContinuation(c).segs = c.segs
        /\ OnContinuation(c).unlocked = c.unlocked + 1
        /\ OnContinuation(c).emitted = c.emitted
    BY <2>3 DEF CommandType
  <2>5. QED
    BY <1>2, <2>1, <2>2, <2>4, CommandOps DEF Unlocked, Flushed, Sane
<1>3. QED
  BY <1>1, <1>2

-----------------------------------------------------------------------------
(* The sequence of responses under way after one was sent or dispatched.   *)
LEMMA InboxFacts ==
    ASSUME NEW s \in Seq(ResponseType), NEW r \in ResponseType
    PROVE  /\ \A i \in DOMAIN Append(s, r) :
                 \/ i \in DOMAIN s /\ Append(s, r)[i] = s[i]
                 \/ i = Len(s) + 1 /\ Append(s, r)[i] = r
           /\ \A i \in DOMAIN s : i \in DOMAIN Append(s, r) /\ Append(s, r)[i] = s[i]
           /\ Len(s) + 1 \in DOMAIN Append(s, r) /\ Append(s, r)[Len(s) + 1] = r
           /\ Len(s) + 1 \notin DOMAIN s
           /\ s # << >> => /\ 1 \in DOMAIN s /\ s[1] = Head(s)
                           /\ \A i \in DOMAIN Tail(s) :
                                 i \in Nat /\ i + 1 # 1
                                 /\ i + 1 \in DOMAIN s /\ Tail(s)[i] = s[i + 1]
                           /\ \A i \in DOMAIN s : i # 1 =>
                                 i \in Nat /\ i - 1 \in DOMAIN Tail(s)
                                 /\ Tail(s)[i - 1] = s[i]
OBVIOUS

-----------------------------------------------------------------------------
(* The cells' counters, in every phase and under every fault but the reuse *)
(* of a freed address: a command is never ahead of what was unlocked, tags *)
(* are given in order and a fresh one has done nothing, what the server    *)
(* has answered is recorded.                                               *)
InFlight(o) == IF o \in staged THEN 1 ELSE 0

Fresh(o) ==
    /\ sent[o] = 0 /\ granted[o] = 0
    /\ o \notin staged /\ o \notin hasWritten /\ o \notin batch
    /\ o \notin answered /\ o \notin stopped

TagsInOrder ==
    \A o \in Ops : /\ own[o] = "none" => Fresh(o)
                   /\ own[o] # "none" => \A p \in Ops : p < o => own[p] # "none"

SegmentsWithin ==
    \A o \in Ops : /\ Sane(cmd[o])
                   /\ Flushed(cmd[o]) + InFlight(o) <= Unlocked(cmd[o])

AnswersRecorded ==
    \A i \in DOMAIN inbox : inbox[i].type = "tagged" => inbox[i].op \in answered

SegInv ==
    /\ SegmentsWithin /\ TagsInOrder /\ AnswersRecorded
    /\ writePc = "idle" => batch = {}

(* Every step keeps it.                                                    *)
LEMMA SegInductive ==
    ASSUME "reuse" \notin Faults, TypeOK, PumpsLatched, RegistryInv, RouteInv,
           BatchInv, SegInv, [Next]_vars
    PROVE  SegInv'
<1> USE DEF cellVars, coreVars, writeVars, readVars, owedVars, wireVars,
            histVars
<1>0. /\ own \in [Ops -> OwnType] /\ cmd \in [Ops -> CommandType]
      /\ staged \subseteq Ops /\ batch \subseteq Ops /\ Ops \subseteq Nat
      /\ sent \in [Ops -> Nat] /\ granted \in [Ops -> Nat]
      /\ inbox \in Seq(ResponseType)
  BY DEF TypeOK, CellsTyped, PumpsTyped, WireTyped, Ops
<1>quiet. ASSUME UNCHANGED <<cmd, staged, hasWritten, sent, granted, answered, stopped>>,
                 \A o \in Ops : own[o] = "none" <=> own'[o] = "none",
                 inbox' = inbox \/ (inbox # << >> /\ inbox' = Tail(inbox)),
                 UNCHANGED <<batch, writePc>> \/ batch' = {}
          PROVE  SegInv'
  <2>1. SegmentsWithin'
    BY <1>quiet DEF SegInv, SegmentsWithin, InFlight
  <2>2. TagsInOrder'
    BY <1>quiet DEF SegInv, TagsInOrder, Fresh
  <2>3. AnswersRecorded'
    <3>1. CASE inbox' = inbox
      BY <1>quiet, <3>1 DEF SegInv, AnswersRecorded
    <3>2. CASE inbox # << >> /\ inbox' = Tail(inbox)
      BY <1>0, <1>quiet, <3>2, InboxFacts DEF SegInv, AnswersRecorded
    <3>3. QED
      BY <1>quiet, <3>1, <3>2
  <2>4. QED
    BY <1>quiet, <2>1, <2>2, <2>3 DEF SegInv
<1>1. CASE UNCHANGED vars
  BY <1>1, <1>quiet DEF vars
<1>2. ASSUME NEW o \in Ops, NEW k \in Kinds, NewCell(o, k, "sender") \/ NewCell(o, k, "callback"),
             UNCHANGED <<batch, writePc, sent, granted, answered, inbox>>,
             \E pl \in {"queued", "posted", "freed"} : Move({o}, pl)
      PROVE  SegInv'
  <2>1. /\ own[o] = "none" /\ \A p \in Ops : p < o => own[p] # "none"
        /\ cmd' = [cmd EXCEPT ![o] = Render(k)]
        /\ UNCHANGED <<staged, hasWritten, stopped>>
    BY <1>2 DEF NewCell, NextTag
  <2>2. \A q \in Ops : /\ q # o => own'[q] = own[q] /\ cmd'[q] = cmd[q]
                       /\ q = o => own'[q] # "none" /\ cmd'[q] = Render(k)
    BY <1>0, <1>2, <2>1 DEF Move
  <2>3. Sane(Render(k)) /\ Flushed(Render(k)) = 0 /\ Unlocked(Render(k)) >= 1
    BY RenderFacts, ContextAssumption
  <2>4. SegmentsWithin'
    <3>1. o \notin staged
      BY <2>1 DEF SegInv, TagsInOrder, Fresh
    <3>2. Render(k) \in CommandType
      BY RenderFacts, ContextAssumption
    <3>3. QED
      BY <2>1, <2>2, <2>3, <3>1, <3>2, CounterTypes
         DEF SegInv, SegmentsWithin, InFlight
  <2>5. TagsInOrder'
    BY <1>0, <1>2, <2>1, <2>2 DEF SegInv, TagsInOrder, Fresh
  <2>6. QED
    BY <1>2, <2>4, <2>5 DEF SegInv, AnswersRecorded
<1>3. ASSUME NEW o \in Ops, NEW k \in Kinds, NEW p \in Paths,
             Submit(o, k, p) \/ SubmitRejected(o, k, p) \/ SubmitStopped(o, k)
      PROVE  SegInv'
  <2>1. NewCell(o, k, "sender") \/ NewCell(o, k, "callback")
    BY <1>3, ContextAssumption DEF Submit, SubmitRejected, SubmitStopped
  <2>2. UNCHANGED <<batch, writePc, sent, granted, answered, inbox>>
    BY <1>3 DEF Submit, SubmitRejected, SubmitStopped, PlaceCell
  <2>3. \E pl \in {"queued", "posted", "freed"} : Move({o}, pl)
    BY <1>3 DEF Submit, SubmitRejected, SubmitStopped, Retire
  <2>4. QED
    BY <1>2, <2>1, <2>2, <2>3
<1>4. ASSUME NEW o \in Ops, CancelExtract(o) \/ CancelDetach(o)
      PROVE  SegInv'
  <2>1. own[o] # "none"
    BY <1>4 DEF CancelExtract, CancelDetach, CancelCall, RegistryInv,
                RegistryMatchesCells, Live
  <2>2. \A q \in Ops : own[q] = "none" <=> own'[q] = "none"
    <3>1. CASE CancelExtract(o)
      BY <1>0, <2>1, <3>1 DEF CancelExtract, Move
    <3>2. CASE CancelDetach(o)
      BY <3>2 DEF CancelDetach
    <3>3. QED
      BY <1>4, <3>1, <3>2
  <2>3. QED
    BY <1>4, <2>2, <1>quiet DEF CancelExtract, CancelDetach, CancelCall
<1>5. ASSUME NEW o \in Ops, CancelIdle(o)
      PROVE  SegInv'
  <2>1. /\ own[o] # "none" /\ cmd[o].kind = "idle"
        /\ cmd' = [cmd EXCEPT ![o] = Done(cmd[o])]
        /\ stopped' = stopped \cup {o}
        /\ UNCHANGED <<own, staged, hasWritten, batch, writePc, sent, granted, answered, inbox>>
    BY <1>5 DEF CancelIdle, CancelCall, CancelNoted, HandlesCancel, RegistryInv,
                RegistryMatchesCells, Live
  <2>2. SegmentsWithin'
    BY <1>0, <2>1, DoneFacts, CounterTypes DEF SegInv, SegmentsWithin, InFlight
  <2>3. QED
    BY <1>0, <2>1, <2>2 DEF SegInv, TagsInOrder, Fresh, AnswersRecorded
<1>retire. ASSUME NEW S, NEW r, Retire(S, r), \A o \in S \cap Ops : own[o] # "none"
           PROVE  \A o \in Ops : own[o] = "none" <=> own'[o] = "none"
  BY <1>0, <1>retire DEF Retire, Move
<1>6. CASE Close
  <2> DEFINE pending == {o \in Queue : ~IsWritten(o) /\ o \notin staged}
  <2>1. Retire(pending, "canceled") /\ \A o \in pending \cap Ops : own[o] # "none"
    BY <1>6 DEF Close, Queue
  <2>2. QED
    BY <1>6, <2>1, <1>retire, <1>quiet DEF Close
<1>7. CASE Abandon
  <2>1. Retire(Losable, "dropped") /\ \A o \in Losable \cap Ops : own[o] # "none"
    BY <1>7 DEF Abandon, Losable, Queue
  <2>2. QED
    BY <1>7, <2>1, <1>retire, <1>quiet DEF Abandon
<1>8. CASE Flush \/ KickReceiver
  BY <1>8, <1>quiet DEF Flush, KickReceiver
<1>9. ASSUME NEW src \in {"user", "read", "flush"}, PostKick(src) \/ PostKickFails(src)
      PROVE  SegInv'
  BY <1>9, <1>quiet DEF PostKick, PostKickFails
<1>10. ASSUME NEW src \in {"posted", "chained"}, Kick(src)
       PROVE  SegInv'
  <2>1. /\ staged' = staged \cup StageSet /\ batch' = StageSet /\ writePc' = "arming"
        /\ UNCHANGED <<own, cmd, hasWritten, stopped, sent, granted, answered, inbox>>
    BY <1>10 DEF Kick
  <2>2. \A o \in StageSet : o \in Ops /\ own[o] = "queued" /\ HasSegment(cmd[o])
    BY DEF StageSet, Queue, Available
  <2>3. SegmentsWithin'
    BY <1>0, <2>1, <2>2, CounterTypes DEF SegInv, SegmentsWithin, InFlight
  <2>4. TagsInOrder'
    BY <2>1, <2>2 DEF SegInv, TagsInOrder, Fresh
  <2>5. QED
    BY <2>1, <2>3, <2>4 DEF SegInv, AnswersRecorded
<1>11. ASSUME NEW src \in {"posted", "chained"}, KickIdle(src)
       PROVE  SegInv'
  BY <1>11, <1>quiet DEF KickIdle
<1>12. CASE WriteArm
  <2>1. /\ writePc' = "armed"
        /\ sent' = [o \in Ops |-> IF o \in batch /\ ~eof THEN sent[o] + 1 ELSE sent[o]]
        /\ UNCHANGED <<own, cmd, staged, hasWritten, batch, stopped, granted, answered, inbox>>
    BY <1>12 DEF WriteArm
  <2>2. TagsInOrder'
    BY <1>0, <2>1 DEF SegInv, TagsInOrder, Fresh
  <2>3. QED
    BY <2>1, <2>2 DEF SegInv, SegmentsWithin, InFlight, AnswersRecorded
<1>13. CASE WriteArmTeardown \/ WriteDoneTeardown
  <2>1. \E r : Retire(StillQueued, r)
    BY <1>13 DEF WriteArmTeardown, WriteDoneTeardown, ArmedCells
  <2>2. \A o \in StillQueued \cap Ops : own[o] # "none"
    BY DEF StillQueued, Queue
  <2>3. QED
    BY <1>13, <2>1, <2>2, <1>retire, <1>quiet
       DEF WriteArmTeardown, WriteDoneTeardown, WriteCompletes
<1>14. CASE WriteArmFails
  BY <1>14, <1>quiet DEF WriteArmFails
<1>15. CASE WriteDone
  <2>1. /\ cmd' = [o \in Ops |-> IF o \in StillQueued THEN OnSegmentFlushed(cmd[o])
                                                      ELSE cmd[o]]
        /\ staged' = staged \ StillQueued /\ batch' = {}
        /\ hasWritten' = hasWritten \cup StillQueued
        /\ UNCHANGED <<sent, granted, answered, stopped, inbox>>
    BY <1>15 DEF WriteDone, WriteCompletes
  <2>2. \A o \in Ops : own[o] = "none" <=> own'[o] = "none"
    BY <1>0, <1>15 DEF WriteDone, Move, StillQueued, Queue
  <2>3. \A o \in StillQueued : o \in Ops /\ o \in staged /\ own[o] = "queued"
    BY DEF StillQueued, Queue, BatchInv, ListedCell
  <2>4. SegmentsWithin'
    <3> SUFFICES ASSUME NEW o \in Ops
                 PROVE  Sane(cmd'[o]) /\ Flushed(cmd'[o]) + InFlight(o)' <= Unlocked(cmd'[o])
      BY DEF SegmentsWithin
    <3>1. cmd[o] \in CommandType /\ Sane(cmd[o])
          /\ Flushed(cmd[o]) + InFlight(o) <= Unlocked(cmd[o])
      BY <1>0 DEF SegInv, SegmentsWithin
    <3>2. CASE o \in StillQueued
      <4>1. InFlight(o) = 1 /\ InFlight(o)' = 0 /\ cmd'[o] = OnSegmentFlushed(cmd[o])
        BY <2>1, <2>3, <3>2 DEF InFlight
      <4>2. QED
        BY <3>1, <4>1, FlushFacts, CounterTypes
    <3>3. CASE o \notin StillQueued
      BY <2>1, <3>1, <3>3 DEF InFlight
    <3>4. QED
      BY <3>2, <3>3
  <2>5. TagsInOrder'
    BY <1>0, <2>1, <2>2, <2>3 DEF SegInv, TagsInOrder, Fresh
  <2>6. QED
    BY <2>1, <2>4, <2>5 DEF SegInv, AnswersRecorded
<1>16. CASE WriteError
  <2>1. \A o \in Ops : own[o] = "none" <=> own'[o] = "none"
    BY <1>0, <1>16 DEF WriteError, Move, StillQueued, Queue
  <2>2. QED
    BY <1>16, <2>1, <1>quiet DEF WriteError, WriteCompletes
<1>17. CASE WriteErrorDropped \/ WriteErrorTail
  <2> DEFINE held == {o \in Ops : own[o] = "held"}
  <2>1. \E r : Retire(held, r)
    BY <1>17 DEF WriteErrorDropped, WriteErrorTail
  <2>2. QED
    BY <1>17, <2>1, <1>retire, <1>quiet DEF WriteErrorDropped, WriteErrorTail
<1>18. ASSUME NEW ec \in LossType, ConnectionLost(ec) \/ ConnectionLostLate(ec)
       PROVE  SegInv'
  <2>1. CASE ConnectionLost(ec)
    <3>1. Retire(Losable, ec) /\ \A o \in Losable \cap Ops : own[o] # "none"
      BY <2>1 DEF ConnectionLost, Losable, Queue
    <3>2. QED
      BY <2>1, <3>1, <1>retire, <1>quiet DEF ConnectionLost
  <2>2. CASE ConnectionLostLate(ec)
    BY <2>2, <1>quiet DEF ConnectionLostLate
  <2>3. QED
    BY <1>18, <2>1, <2>2
<1>19. CASE MaybeFinishClose
  BY <1>19, <1>quiet DEF MaybeFinishClose
<1>20. ASSUME NEW o \in Ops, CompleteStopped(o)
       PROVE  SegInv'
  <2>1. Retire({o}, "stopped") /\ own[o] # "none"
    BY <1>20 DEF CompleteStopped
  <2>2. QED
    BY <1>20, <2>1, <1>retire, <1>quiet DEF CompleteStopped
<1>21. CASE ReadSteps \/ ReadArmFails
  <2>1. UNCHANGED <<cellVars, writeVars, wireVars>>
    BY <1>21 DEF ReadSteps, ReadVarsOnly, ReadStops, ReadQuiet, ReadData,
                 ReadFails, ReadErrorMapped, ReadFatalTail, ReadBatchDone,
                 ReadBatchDoneClosing, ReadArm, ReadArmTeardown, ReadArmFails
  <2>2. QED
    BY <2>1, <1>quiet
<1>22. CASE DispatchDropped \/ DispatchBye \/ DispatchUnexpected \/ DispatchDiverged
  <2>1. /\ UNCHANGED <<own, cmd, staged, hasWritten, sent, granted, answered, stopped, batch, writePc>>
        /\ inbox # << >> /\ inbox' = Tail(inbox)
    BY <1>22 DEF DispatchDropped, DispatchBye, DispatchUnexpected,
                 DispatchDiverged, Dispatching
  <2>2. QED
    BY <2>1, <1>quiet
<1>23. CASE DispatchTagged
  <2> DEFINE o == Head(inbox).op
  <2>1. /\ UNCHANGED <<cmd, staged, hasWritten, sent, granted, answered, stopped, batch, writePc>>
        /\ inbox # << >> /\ inbox' = Tail(inbox)
    BY <1>23 DEF DispatchTagged, Dispatching
  <2>2. \E r : Retire({o}, r)
    BY <1>23 DEF DispatchTagged
  <2>3. own[o] = "queued"
    BY <1>23 DEF DispatchTagged, Queue
  <2>4. QED
    BY <2>1, <2>2, <2>3, <1>retire, <1>quiet
<1>24. CASE DispatchContinuation
  <2>1. /\ target \in Ops /\ own[target] # "none" /\ AwaitsContinuation(cmd[target])
        /\ cmd' = [cmd EXCEPT ![target] = OnContinuation(cmd[target])]
        /\ UNCHANGED <<own, staged, hasWritten, sent, granted, answered, stopped, batch, writePc>>
        /\ inbox # << >> /\ inbox' = Tail(inbox)
    BY <1>24 DEF DispatchContinuation, Dispatching, RouteInv, TargetWaits, Live,
                 Awaits
  <2>2. SegmentsWithin'
    BY <1>0, <2>1, ContinueFacts, CounterTypes DEF SegInv, SegmentsWithin, InFlight
  <2>3. AnswersRecorded'
    BY <1>0, <2>1, InboxFacts DEF SegInv, AnswersRecorded
  <2>4. TagsInOrder'
    BY <2>1 DEF SegInv, TagsInOrder, Fresh
  <2>5. QED
    BY <2>1, <2>2, <2>3, <2>4 DEF SegInv
<1>25. ASSUME NEW o \in Ops, ServerContinues(o) \/ ServerAnswers(o)
       PROVE  SegInv'
  <2> DEFINE type == IF ServerContinues(o) THEN "plus" ELSE "tagged"
  <2>1. UNCHANGED <<cellVars, writeVars, sent>>
    BY <1>25 DEF ServerContinues, ServerAnswers, ServerSends
  <2>2. own[o] # "none"
    <3>1. sent[o] # 0
      <4>1. AtWall(o) => sent[o] # 0
        BY <1>0 DEF AtWall
      <4>2. FullCount(o) # 0
        BY DEF FullCount, SegCount
      <4>3. QED
        BY <1>25, <4>1, <4>2 DEF ServerContinues, ServerAnswers
    <3>2. QED
      BY <3>1 DEF SegInv, TagsInOrder, Fresh
  <2>3. TagsInOrder'
    <3>1. \A q \in Ops : q # o => granted'[q] = granted[q] /\ (q \in answered' <=> q \in answered)
      BY <1>0, <1>25 DEF ServerContinues, ServerAnswers
    <3>2. QED
      BY <2>1, <2>2, <3>1 DEF SegInv, TagsInOrder, Fresh
  <2>4. AnswersRecorded'
    <3>1. CASE ServerContinues(o)
      <4> DEFINE r == [type |-> "plus", op |-> o]
      <4>1. r \in ResponseType /\ inbox' = Append(inbox, r) /\ UNCHANGED answered /\ r.type # "tagged"
        BY <3>1 DEF ServerContinues, ServerSends, ResponseType
      <4> HIDE DEF r
      <4>2. QED
        BY <1>0, <4>1, InboxFacts DEF SegInv, AnswersRecorded
    <3>2. CASE ServerAnswers(o)
      <4> DEFINE r == [type |-> "tagged", op |-> o]
      <4>1. r \in ResponseType /\ inbox' = Append(inbox, r) /\ answered' = answered \cup {o} /\ r.op = o
        BY <3>2 DEF ServerAnswers, ServerSends, ResponseType
      <4> HIDE DEF r
      <4>2. QED
        BY <1>0, <4>1, InboxFacts DEF SegInv, AnswersRecorded
    <3>3. QED
      BY <1>25, <3>1, <3>2
  <2>5. QED
    BY <2>1, <2>3, <2>4 DEF SegInv, SegmentsWithin, InFlight
<1>26. CASE ServerBye \/ ServerGarbage
  <2>1. UNCHANGED <<cellVars, writeVars, sent, granted, answered>>
    BY <1>26 DEF ServerBye, ServerGarbage, ServerSends
  <2>2. PICK r \in ResponseType : inbox' = Append(inbox, r) /\ r.type # "tagged"
    <3>1. /\ [type |-> "bye", op |-> NoOp] \in ResponseType
          /\ [type |-> "garbage", op |-> NoOp] \in ResponseType
      BY DEF ResponseType
    <3>2. QED
      BY <1>26, <3>1 DEF ServerBye, ServerGarbage, ServerSends
  <2>3. AnswersRecorded'
    BY <1>0, <2>1, <2>2, InboxFacts DEF SegInv, AnswersRecorded
  <2>4. QED
    BY <2>1, <2>3 DEF SegInv, SegmentsWithin, InFlight, TagsInOrder, Fresh
<1>27. CASE Hangup
  BY <1>27, <1>quiet DEF Hangup
<1>28. QED
  <2>1. CASE User
    BY <2>1, <1>3, <1>4, <1>5, <1>6, <1>7, <1>8, ContextAssumption DEF User, SubmitStopped
  <2>2. CASE WritePump
    BY <2>2, <1>8, <1>9, <1>10, <1>11, <1>12, <1>13, <1>14, <1>15, <1>16, <1>17
       DEF WritePump
  <2>3. CASE ReadPump
    BY <2>3, <1>21, <1>22, <1>23, <1>24 DEF ReadPump, ReadSteps
  <2>4. CASE Teardown
    BY <2>4, <1>18, <1>19, <1>20 DEF Teardown
  <2>5. CASE Server
    BY <2>5, <1>25, <1>26, <1>27 DEF Server
  <2>6. QED
    BY <1>1, <2>1, <2>2, <2>3, <2>4, <2>5 DEF Next

-----------------------------------------------------------------------------
(* The write pump's bookkeeping, as long as no write was lost: the staged  *)
(* flags are those of the write's list, what was staged is not preceded by *)
(* an operation that waits, an operation that waits has not sent more than *)
(* it was allowed to, and the server waits for no cell that has left.      *)
Sound == phase = "open" /\ "write" \notin losing /\ "memory" \notin losing

EverStaged(o) == o \in staged \/ o \in hasWritten

ListExact ==
    /\ \A o \in Queue : o \in staged <=> o \in batch
    /\ \A o \in batch : own[o] = "queued" \/ o \in answered

WallsHold == \A o, p \in Queue : EverStaged(o) /\ p < o => ~Awaits(p)

SentWithin ==
    \A o \in Queue :
        /\ sent[o] > 0 => EverStaged(o)
        /\ Awaits(o) => /\ sent[o] <= Flushed(cmd[o]) + InFlight(o)
                        /\ writePc = "arming" /\ o \in batch =>
                              sent[o] <= Flushed(cmd[o])

GoneIsSettled ==
    \A o \in Ops : own[o] \in {"posted", "freed"} =>
                      ~Awaits(o) \/ sent[o] = 0 \/ o \in answered

StagingInv == Sound => ListExact /\ WallsHold /\ SentWithin /\ GoneIsSettled

(* Bookkeeping that was lost is not regained: a loss is only taken off the *)
(* list by connection_lost(), which leaves open.                           *)
LEMMA SoundStable ==
    ASSUME TypeOK, RegistryInv, [Next]_vars, Sound'
    PROVE  Sound
<1> USE DEF Sound, cellVars, coreVars, writeVars, readVars, owedVars, wireVars,
            histVars
<1>0. abandoned \in BOOLEAN
  BY DEF TypeOK, CoreTyped
<1>1. CASE UNCHANGED vars
  BY <1>1 DEF vars
<1>2. CASE User
  BY <1>2 DEF User, Submit, SubmitRejected, SubmitStopped, Flush, CancelExtract,
              CancelIdle, CancelDetach, CancelCall, Close, Abandon
<1>3. CASE WritePump
  BY <1>0, <1>3 DEF WritePump, PostKick, PostKickFails, KickReceiver, Kick,
              KickIdle, WriteArm, WriteArmTeardown, WriteArmFails,
              WriteCompletes, WriteDone, WriteDoneTeardown, WriteError,
              WriteErrorDropped, WriteErrorTail, RegistryInv
<1>4. CASE ReadPump
  BY <1>4 DEF ReadPump, ReadVarsOnly, ReadStops, ReadQuiet, ReadData,
              ReadFails, ReadErrorMapped, Dispatching, Fatal,
              DispatchDropped, DispatchTagged, DispatchDiverged, DispatchBye,
              DispatchContinuation, DispatchUnexpected, ReadFatalTail,
              ReadBatchDone, ReadBatchDoneClosing, ReadArm, ReadArmTeardown,
              ReadArmFails
<1>5. CASE Teardown
  BY <1>5 DEF Teardown, ConnectionLost, ConnectionLostLate, MaybeFinishClose,
              CompleteStopped
<1>6. CASE Server
  BY <1>6 DEF Server, ServerContinues, ServerAnswers, ServerBye,
              ServerGarbage, Hangup, ServerSends
<1>7. QED
  BY <1>1, <1>2, <1>3, <1>4, <1>5, <1>6 DEF Next

(* Every step keeps the bookkeeping.                                       *)
LEMMA StagingInductive ==
    ASSUME "reuse" \notin Faults, TypeOK, PumpsLatched, RegistryInv, RouteInv,
           BatchInv, SegInv, StagingInv, [Next]_vars
    PROVE  StagingInv'
<1> USE DEF cellVars, coreVars, writeVars, readVars, owedVars, wireVars,
            histVars
<1> DEFINE Parts == ListExact /\ WallsHold /\ SentWithin /\ GoneIsSettled
<1> SUFFICES ASSUME Sound' PROVE Parts'
  BY DEF StagingInv
<1>0. /\ own \in [Ops -> OwnType] /\ cmd \in [Ops -> CommandType]
      /\ staged \subseteq Ops /\ batch \subseteq Ops /\ Ops \subseteq Nat
      /\ sent \in [Ops -> Nat] /\ abandoned \in BOOLEAN
      /\ inbox \in Seq(ResponseType)
  BY DEF TypeOK, CellsTyped, CoreTyped, PumpsTyped, WireTyped, Ops
<1>s. Sound /\ phase' = "open" /\ ~abandoned
      /\ "write" \notin losing' /\ "memory" \notin losing'
  BY <1>0, SoundStable DEF Sound, RegistryInv
<1>p. ListExact /\ WallsHold /\ SentWithin /\ GoneIsSettled
  BY <1>s DEF StagingInv
<1>c. \A o \in Ops : /\ Flushed(cmd[o]) \in Nat /\ Unlocked(cmd[o]) \in Nat
                     /\ Sane(cmd[o]) /\ cmd[o] \in CommandType
                     /\ Flushed(cmd[o]) + InFlight(o) <= Unlocked(cmd[o])
  BY <1>0, CounterTypes DEF SegInv, SegmentsWithin
<1> HIDE DEF Parts
<1>quiet. ASSUME UNCHANGED <<own, cmd, staged, hasWritten, batch, writePc, sent>>,
                 answered \subseteq answered'
          PROVE  Parts'
  BY <1>p, <1>quiet DEF Parts, ListExact, WallsHold, SentWithin, GoneIsSettled,
                        Queue, Awaits, EverStaged, InFlight
<1>1. CASE UNCHANGED vars
  BY <1>1, <1>quiet DEF vars
<1>2. ASSUME NEW o \in Ops, NEW k \in Kinds, NEW p \in Paths,
             Submit(o, k, p) \/ SubmitStopped(o, k)
      PROVE  Parts'
  <2>1. /\ own[o] = "none" /\ cmd' = [cmd EXCEPT ![o] = Render(k)]
        /\ UNCHANGED <<staged, hasWritten, writePc, batch, sent, answered>>
    BY <1>2 DEF Submit, SubmitStopped, NewCell, NextTag, PlaceCell
  <2>2. PICK pl \in {"queued", "posted"} : Move({o}, pl)
    BY <1>2 DEF Submit, SubmitStopped
  <2>3. \A q \in Ops : /\ q # o => own'[q] = own[q] /\ cmd'[q] = cmd[q]
                       /\ q = o => own'[q] = pl
    BY <1>0, <2>1, <2>2 DEF Move
  <2>4. Fresh(o) /\ \A q \in Ops : own[q] # "none" => ~(o < q)
    BY <2>1 DEF SegInv, TagsInOrder
  <2>5. ListExact'
    BY <1>0, <1>p, <2>1, <2>3, <2>4 DEF ListExact, Queue, Fresh
  <2>6. WallsHold'
    BY <1>p, <2>1, <2>3, <2>4 DEF WallsHold, Queue, Fresh, EverStaged, Awaits
  <2>7. SentWithin'
    <3>1. InFlight(o)' = 0 /\ sent'[o] = 0 /\ Flushed(cmd'[o]) = 0
      BY <1>0, <2>1, <2>4, RenderFacts, ContextAssumption DEF Fresh, InFlight
    <3>2. QED
      BY <1>p, <2>1, <2>3, <2>4, <3>1
         DEF SentWithin, Queue, Fresh, EverStaged, Awaits, InFlight
  <2>8. GoneIsSettled'
    BY <1>p, <2>1, <2>3, <2>4 DEF GoneIsSettled, Fresh, Awaits
  <2>9. QED
    BY <2>5, <2>6, <2>7, <2>8 DEF Parts
<1>3. ASSUME NEW o \in Ops, CancelExtract(o)
      PROVE  Parts'
  <2>1. /\ UNCHANGED <<cmd, staged, hasWritten, writePc, batch, sent, answered>>
        /\ ~Awaits(o) /\ o \notin staged
    BY <1>3 DEF CancelExtract, CancelCall, NeverStaged, IsWritten
  <2>2. \A q \in Ops : /\ q # o => own'[q] = own[q]
                       /\ q = o => own'[q] = "posted"
    BY <1>0, <1>3 DEF CancelExtract, Move
  <2>3. own[o] = "queued"
    BY <1>3, <1>s DEF CancelExtract, CancelCall, RegistryInv,
                      RegistryMatchesCells, Live, Sound
  <2>4. ListExact'
    BY <1>0, <1>p, <2>1, <2>2, <2>3 DEF ListExact, Queue
  <2>5. WallsHold' /\ SentWithin'
    BY <1>p, <2>1, <2>2 DEF WallsHold, SentWithin, Queue, EverStaged, Awaits,
                            InFlight
  <2>6. GoneIsSettled'
    BY <1>p, <2>1, <2>2 DEF GoneIsSettled, Awaits
  <2>7. QED
    BY <2>4, <2>5, <2>6 DEF Parts
<1>4. ASSUME NEW o \in Ops, CancelIdle(o)
      PROVE  Parts'
  <2>1. /\ UNCHANGED <<own, staged, hasWritten, writePc, batch, sent, answered>>
        /\ cmd' = [cmd EXCEPT ![o] = Done(cmd[o])] /\ cmd[o].kind = "idle"
    BY <1>4 DEF CancelIdle, CancelCall, HandlesCancel
  <2>2. \A q \in Ops : /\ AwaitsContinuation(cmd'[q]) <=> AwaitsContinuation(cmd[q])
                       /\ AwaitsContinuation(cmd[q]) => Flushed(cmd'[q]) = Flushed(cmd[q])
    BY <1>0, <1>c, <2>1, DoneFacts
  <2>3. ListExact' /\ WallsHold'
    BY <1>p, <2>1, <2>2 DEF ListExact, WallsHold, Queue, EverStaged, Awaits
  <2>4. SentWithin'
    BY <1>p, <2>1, <2>2 DEF SentWithin, Queue, EverStaged, Awaits, InFlight
  <2>5. GoneIsSettled'
    BY <1>p, <2>1, <2>2 DEF GoneIsSettled, Awaits
  <2>6. QED
    BY <2>3, <2>4, <2>5 DEF Parts
<1>5. ASSUME NEW o \in Ops, CancelDetach(o)
      PROVE  Parts'
  BY <1>5, <1>quiet DEF CancelDetach, CancelCall
<1>6. CASE Close \/ Abandon
  BY <1>6, <1>s DEF Close, Abandon
<1>7. CASE Flush \/ KickReceiver
  BY <1>7, <1>quiet DEF Flush, KickReceiver
<1>8. ASSUME NEW src \in {"user", "read", "flush"}, PostKick(src) \/ PostKickFails(src)
      PROVE  Parts'
  BY <1>8, <1>quiet DEF PostKick, PostKickFails
<1>9. ASSUME NEW src \in {"posted", "chained"}, Kick(src)
      PROVE  Parts'
  <2>1. /\ staged' = staged \cup StageSet /\ batch' = StageSet /\ writePc' = "arming"
        /\ UNCHANGED <<own, cmd, hasWritten, sent, answered>> /\ ~writeInFlight
    BY <1>9 DEF Kick, CanKick
  <2>2. batch = {} /\ \A o \in Queue : o \notin staged
    BY <1>p, <2>1 DEF PumpsLatched, SegInv, ListExact
  <2>3. /\ StageSet \subseteq Queue /\ Queue \subseteq Ops
        /\ \A o \in StageSet, p \in Queue : p < o => ~Awaits(p)
    BY DEF StageSet, Queue, Wall
  <2>4. ListExact'
    BY <2>1, <2>2, <2>3 DEF ListExact, Queue
  <2>5. WallsHold'
    <3>1. \A o \in Queue : EverStaged(o)' => EverStaged(o) \/ o \in StageSet
      BY <2>1 DEF EverStaged
    <3>2. Queue' = Queue /\ \A o \in Queue : Awaits(o)' <=> Awaits(o)
      BY <2>1 DEF Queue, Awaits
    <3>3. QED
      BY <1>p, <2>3, <3>1, <3>2 DEF WallsHold
  <2>6. SentWithin'
    <3>1. \A o \in Queue : InFlight(o) = 0 /\ InFlight(o)' \in {0, 1}
      BY <2>2 DEF InFlight
    <3>2. QED
      BY <1>0, <1>p, <1>c, <2>1, <2>3, <3>1
         DEF SentWithin, Queue, EverStaged, Awaits
  <2>7. GoneIsSettled'
    BY <1>p, <2>1 DEF GoneIsSettled, Awaits
  <2>8. QED
    BY <2>4, <2>5, <2>6, <2>7 DEF Parts
<1>10. ASSUME NEW src \in {"posted", "chained"}, KickIdle(src)
       PROVE  Parts'
  BY <1>10, <1>quiet DEF KickIdle
<1>11. CASE WriteArm
  <2>1. /\ writePc = "arming" /\ writePc' = "armed"
        /\ sent' = [o \in Ops |-> IF o \in batch /\ ~eof THEN sent[o] + 1 ELSE sent[o]]
        /\ UNCHANGED <<own, cmd, staged, hasWritten, batch, answered>>
    BY <1>11 DEF WriteArm
  <2>2. ListExact' /\ WallsHold'
    BY <1>p, <2>1 DEF ListExact, WallsHold, Queue, EverStaged, Awaits
  <2>3. SentWithin'
    <3>1. \A o \in Queue \cap batch : InFlight(o) = 1 /\ EverStaged(o)
      BY <1>p DEF ListExact, InFlight, EverStaged
    <3>2. QED
      BY <1>0, <1>p, <1>c, <2>1, <3>1
         DEF SentWithin, Queue, EverStaged, Awaits, InFlight
  <2>4. GoneIsSettled'
    BY <1>0, <1>p, <2>1 DEF GoneIsSettled, ListExact, Awaits
  <2>5. QED
    BY <2>2, <2>3, <2>4 DEF Parts
<1>12. CASE WriteArmTeardown \/ WriteDoneTeardown
  BY <1>12, <1>s DEF WriteArmTeardown, WriteDoneTeardown, Sound
<1>13. CASE WriteArmFails \/ WriteError
  BY <1>13, <1>s DEF WriteArmFails, WriteError
<1>14. CASE WriteDone
  <2> DEFINE done == {o \in StillQueued : /\ o \in detached
                                         /\ ~AwaitsContinuation(cmd'[o])
                                         /\ ~HasSegment(cmd'[o])}
  <2>1. /\ cmd' = [o \in Ops |-> IF o \in StillQueued THEN OnSegmentFlushed(cmd[o])
                                                      ELSE cmd[o]]
        /\ staged' = staged \ StillQueued /\ batch' = {} /\ writePc' = "idle"
        /\ hasWritten' = hasWritten \cup StillQueued
        /\ UNCHANGED <<sent, answered>> /\ Move(done, "posted")
    BY <1>14 DEF WriteDone, WriteCompletes
  <2>2. \A o \in StillQueued : o \in Ops /\ o \in staged /\ own[o] = "queued"
    BY <1>p DEF StillQueued, Queue, ListExact
  <2>3. \A o \in Queue : o \in staged => o \in StillQueued
    BY <1>p DEF StillQueued, ListExact
  <2>4. \A o \in Ops : /\ own'[o] = own[o] \/ (own'[o] = "posted" /\ o \in done)
    BY <1>0, <2>1 DEF Move
  <2>5. \A o \in Ops : /\ AwaitsContinuation(cmd'[o]) <=> AwaitsContinuation(cmd[o])
                       /\ o \in StillQueued /\ AwaitsContinuation(cmd[o]) =>
                             Flushed(cmd'[o]) = Flushed(cmd[o]) + 1
                       /\ o \notin StillQueued => cmd'[o] = cmd[o]
    <3>1. \A o \in StillQueued : Flushed(cmd[o]) + 1 <= Unlocked(cmd[o])
      BY <1>c, <2>2 DEF InFlight
    <3>2. QED
      BY <1>0, <1>c, <2>1, <2>2, <3>1, FlushFacts
  <2> HIDE DEF done
  <2>6. ListExact'
    BY <2>1, <2>3, <2>4 DEF ListExact, Queue
  <2>7. WallsHold'
    BY <1>p, <2>1, <2>2, <2>4, <2>5 DEF WallsHold, Queue, EverStaged, Awaits
  <2>8. SentWithin'
    <3>1. \A o \in Queue : InFlight(o) = (IF o \in StillQueued THEN 1 ELSE 0)
      BY <2>2, <2>3 DEF InFlight
    <3>2. \A o \in Queue : InFlight(o)' = 0
      BY <2>1, <2>3 DEF InFlight
    <3>3. Queue' \subseteq Queue
      BY <2>4 DEF Queue
    <3>4. \A o \in Queue : EverStaged(o) => EverStaged(o)'
      BY <2>1 DEF EverStaged
    <3>5. QED
      BY <1>0, <1>p, <1>c, <2>1, <2>5, <3>1, <3>2, <3>3, <3>4
         DEF SentWithin, Queue, Awaits
  <2>9. GoneIsSettled'
    BY <1>p, <2>1, <2>4, <2>5 DEF GoneIsSettled, Awaits, done
  <2>10. QED
    BY <2>6, <2>7, <2>8, <2>9 DEF Parts
<1>15. CASE WriteErrorDropped \/ WriteErrorTail
  BY <1>15, <1>s DEF WriteErrorDropped, WriteErrorTail, RegistryInv, Sound
<1>16. ASSUME NEW ec \in LossType, ConnectionLost(ec) \/ ConnectionLostLate(ec)
       PROVE  Parts'
  BY <1>16, <1>s DEF ConnectionLost, ConnectionLostLate, Sound
<1>17. CASE MaybeFinishClose
  BY <1>17, <1>quiet DEF MaybeFinishClose
<1>18. ASSUME NEW o \in Ops, CompleteStopped(o)
       PROVE  Parts'
  <2>1. UNCHANGED <<cmd, staged, hasWritten, writePc, batch, sent, answered>>
        /\ own[o] = "posted"
    BY <1>18 DEF CompleteStopped
  <2>2. \A q \in Ops : /\ q # o => own'[q] = own[q]
                       /\ q = o => own'[q] = "freed"
    BY <1>0, <1>18 DEF CompleteStopped, Retire, Move
  <2>3. ListExact'
    BY <1>0, <1>p, <2>1, <2>2 DEF ListExact, Queue
  <2>4. WallsHold' /\ SentWithin'
    BY <1>p, <2>1, <2>2 DEF WallsHold, SentWithin, Queue, EverStaged, Awaits,
                            InFlight
  <2>5. GoneIsSettled'
    BY <1>p, <2>1, <2>2 DEF GoneIsSettled, Awaits
  <2>6. QED
    BY <2>3, <2>4, <2>5 DEF Parts
<1>19. CASE ReadSteps \/ ReadArmFails
  <2>1. UNCHANGED <<cellVars, writeVars, wireVars>>
    BY <1>19 DEF ReadSteps, ReadVarsOnly, ReadStops, ReadQuiet, ReadData,
                 ReadFails, ReadErrorMapped, ReadFatalTail, ReadBatchDone,
                 ReadBatchDoneClosing, ReadArm, ReadArmTeardown, ReadArmFails
  <2>2. QED
    BY <2>1, <1>quiet
<1>20. CASE DispatchDropped \/ DispatchBye \/ DispatchUnexpected \/ DispatchDiverged
  <2>1. UNCHANGED <<own, cmd, staged, hasWritten, sent, answered, batch, writePc>>
    BY <1>20 DEF DispatchDropped, DispatchBye, DispatchUnexpected,
                 DispatchDiverged, Dispatching
  <2>2. QED
    BY <2>1, <1>quiet
<1>21. CASE DispatchTagged
  <2> DEFINE o == Head(inbox).op
  <2>1. /\ UNCHANGED <<cmd, staged, hasWritten, writePc, batch, sent, answered>>
        /\ inbox # << >> /\ Head(inbox).type = "tagged" /\ own[o] = "queued"
    BY <1>21 DEF DispatchTagged, Dispatching, Queue
  <2>2. \A q \in Ops : /\ q # o => own'[q] = own[q]
                       /\ q = o => own'[q] = "freed"
    BY <1>0, <1>21 DEF DispatchTagged, Retire, Move
  <2>3. o \in answered
    BY <1>0, <2>1, InboxFacts DEF SegInv, AnswersRecorded
  <2> HIDE DEF o
  <2>4. ListExact'
    BY <1>0, <1>p, <2>1, <2>2, <2>3 DEF ListExact, Queue
  <2>5. WallsHold' /\ SentWithin'
    BY <1>p, <2>1, <2>2 DEF WallsHold, SentWithin, Queue, EverStaged, Awaits,
                            InFlight
  <2>6. GoneIsSettled'
    BY <1>p, <2>1, <2>2, <2>3 DEF GoneIsSettled, Awaits
  <2>7. QED
    BY <2>4, <2>5, <2>6 DEF Parts
<1>22. CASE DispatchContinuation
  <2>1. /\ target \in Ops /\ AwaitsContinuation(cmd[target])
        /\ cmd' = [cmd EXCEPT ![target] = OnContinuation(cmd[target])]
        /\ UNCHANGED <<own, staged, hasWritten, sent, answered, batch, writePc>>
    BY <1>22 DEF DispatchContinuation, Dispatching, RouteInv, TargetWaits, Live,
                 Awaits
  <2>2. \A q \in Ops : AwaitsContinuation(cmd'[q]) =>
                          /\ AwaitsContinuation(cmd[q])
                          /\ Flushed(cmd'[q]) = Flushed(cmd[q])
    BY <1>0, <1>c, <2>1, ContinueFacts
  <2>3. ListExact' /\ WallsHold'
    BY <1>p, <2>1, <2>2 DEF ListExact, WallsHold, Queue, EverStaged, Awaits
  <2>4. SentWithin'
    BY <1>p, <2>1, <2>2 DEF SentWithin, Queue, EverStaged, Awaits, InFlight
  <2>5. GoneIsSettled'
    BY <1>p, <2>1, <2>2 DEF GoneIsSettled, Awaits
  <2>6. QED
    BY <2>3, <2>4, <2>5 DEF Parts
<1>23. CASE Server
  <2>1. UNCHANGED <<cellVars, writeVars, sent>> /\ answered \subseteq answered'
    BY <1>23 DEF Server, ServerContinues, ServerAnswers, ServerBye,
                 ServerGarbage, Hangup, ServerSends
  <2>2. QED
    BY <2>1, <1>quiet
<1>24. ASSUME NEW o \in Ops, NEW k \in Kinds, NEW p \in Paths,
              SubmitRejected(o, k, p)
       PROVE  Parts'
  BY <1>24, <1>s DEF SubmitRejected, Sound
<1>25. QED
  <2>1. CASE User
    BY <2>1, <1>2, <1>3, <1>4, <1>5, <1>6, <1>7, <1>24, ContextAssumption
       DEF User, SubmitStopped
  <2>2. CASE WritePump
    BY <2>2, <1>7, <1>8, <1>9, <1>10, <1>11, <1>12, <1>13, <1>14, <1>15
       DEF WritePump
  <2>3. CASE ReadPump
    BY <2>3, <1>19, <1>20, <1>21, <1>22 DEF ReadPump, ReadSteps
  <2>4. CASE Teardown
    BY <2>4, <1>16, <1>17, <1>18 DEF Teardown
  <2>5. QED
    BY <1>1, <1>23, <2>1, <2>2, <2>3, <2>4 DEF Next

-----------------------------------------------------------------------------
(* Where a continuation request goes.  An operation whose last unlocked    *)
(* segment is out or on its way owns the route; the server has granted     *)
(* exactly what was dispatched, plus the one request under way, which is   *)
(* for the operation that owns the route.                                  *)
Asked(o) ==
    /\ Awaits(o) /\ EverStaged(o)
    /\ Flushed(cmd[o]) + InFlight(o) = Unlocked(cmd[o])

RouteExact ==
    /\ target # NoOp => target \in Queue /\ EverStaged(target)
    /\ \A o \in Queue : Asked(o) => target = o

IsPlus(i) == inbox[i].type = "plus"

PlusRouted ==
    \A i \in DOMAIN inbox : IsPlus(i) =>
        /\ target = inbox[i].op /\ target \notin answered
        /\ granted[target] = Unlocked(cmd[target])
        /\ \A j \in DOMAIN inbox : IsPlus(j) => i = j

NoPlus(o) == \A i \in DOMAIN inbox : IsPlus(i) => inbox[i].op # o

GrantsCounted ==
    \A o \in Ops :
        /\ own[o] # "none" /\ (cmd[o].kind = "idle" \/ Walled(cmd[o].kind))
        /\ NoPlus(o)
        => Unlocked(cmd[o]) = granted[o] + 1

GrantInv == Sound => RouteExact /\ PlusRouted /\ GrantsCounted

(* Every step keeps it, when the server sends no challenge after the       *)
(* payload of an AUTHENTICATE.                                             *)
LEMMA GrantInductive ==
    ASSUME "reuse" \notin Faults, "challenge" \notin Faults, TypeOK,
           PumpsLatched, RegistryInv, RouteInv, BatchInv, SegInv, StagingInv,
           GrantInv, [Next]_vars
    PROVE  GrantInv'
<1> USE DEF cellVars, coreVars, writeVars, readVars, owedVars, wireVars,
            histVars
<1> DEFINE Parts == RouteExact /\ PlusRouted /\ GrantsCounted
<1> SUFFICES ASSUME Sound' PROVE Parts'
  BY DEF GrantInv
<1>0. /\ own \in [Ops -> OwnType] /\ cmd \in [Ops -> CommandType]
      /\ staged \subseteq Ops /\ batch \subseteq Ops /\ Ops \subseteq Nat
      /\ sent \in [Ops -> Nat] /\ granted \in [Ops -> Nat]
      /\ abandoned \in BOOLEAN /\ inbox \in Seq(ResponseType)
      /\ NoOp \notin Ops /\ target \in Ops \cup {NoOp} /\ Queue \subseteq Ops
  BY DEF TypeOK, CellsTyped, CoreTyped, PumpsTyped, WireTyped, Ops, NoOp, Queue
<1>s. Sound /\ phase' = "open" /\ ~abandoned
      /\ "write" \notin losing' /\ "memory" \notin losing'
  BY <1>0, SoundStable DEF Sound, RegistryInv
<1>p. ListExact /\ WallsHold /\ SentWithin /\ GoneIsSettled
      /\ RouteExact /\ PlusRouted /\ GrantsCounted
  BY <1>s DEF StagingInv, GrantInv
<1>c. \A o \in Ops : /\ Flushed(cmd[o]) \in Nat /\ Unlocked(cmd[o]) \in Nat
                     /\ Sane(cmd[o]) /\ cmd[o] \in CommandType
                     /\ InFlight(o) \in {0, 1}
                     /\ Flushed(cmd[o]) + InFlight(o) <= Unlocked(cmd[o])
  BY <1>0, CounterTypes DEF SegInv, SegmentsWithin, InFlight
<1>t. target # NoOp => target \in Queue /\ EverStaged(target) /\ Awaits(target)
  BY <1>p DEF RouteExact, RouteInv, TargetWaits
<1>i. \A i \in DOMAIN inbox : /\ inbox[i] \in ResponseType
                              /\ IsPlus(i) => inbox[i].op \in Ops
  BY <1>0 DEF ResponseType, IsPlus
<1> HIDE DEF Parts
<1>quiet. ASSUME UNCHANGED <<own, cmd, staged, hasWritten, target, granted, inbox, answered>>
          PROVE  Parts'
  BY <1>p, <1>quiet DEF Parts, RouteExact, PlusRouted, GrantsCounted, Asked,
        IsPlus, NoPlus, Queue, Awaits, EverStaged, InFlight
<1>drop. ASSUME UNCHANGED <<own, cmd, staged, hasWritten, target, granted, answered>>,
                inbox # << >>, inbox' = Tail(inbox), Head(inbox).type # "plus"
         PROVE  Parts'
  <2>1. RouteExact'
    BY <1>p, <1>drop DEF RouteExact, Asked, Queue, Awaits, EverStaged, InFlight
  <2>2. PlusRouted'
    <3>1. ASSUME NEW i \in DOMAIN Tail(inbox), Tail(inbox)[i].type = "plus"
          PROVE  i \in Nat /\ i + 1 \in DOMAIN inbox /\ IsPlus(i + 1)
                 /\ Tail(inbox)[i] = inbox[i + 1]
      BY <1>0, <1>drop, <3>1, InboxFacts DEF IsPlus
    <3>2. \A i, j \in DOMAIN Tail(inbox) :
             Tail(inbox)[i].type = "plus" /\ Tail(inbox)[j].type = "plus" => i = j
      <4>1. SUFFICES ASSUME NEW i \in DOMAIN Tail(inbox), NEW j \in DOMAIN Tail(inbox),
                            Tail(inbox)[i].type = "plus", Tail(inbox)[j].type = "plus"
                     PROVE  i = j
        OBVIOUS
      <4>2. i + 1 = j + 1 /\ i \in Nat /\ j \in Nat
        BY <1>p, <3>1, <4>1 DEF PlusRouted
      <4>3. QED
        BY <4>2
    <3>3. SUFFICES ASSUME NEW i \in DOMAIN Tail(inbox), Tail(inbox)[i].type = "plus"
                   PROVE  /\ target = Tail(inbox)[i].op /\ target \notin answered
                          /\ granted[target] = Unlocked(cmd[target])
      BY <1>drop, <3>2 DEF PlusRouted, IsPlus
    <3>4. QED
      BY <1>p, <3>1, <3>3 DEF PlusRouted
  <2>3. \A o \in Ops : NoPlus(o)' => NoPlus(o)
    <3>1. SUFFICES ASSUME NEW o \in Ops, NoPlus(o)',
                          NEW i \in DOMAIN inbox, inbox[i].type = "plus"
                   PROVE  inbox[i].op # o
      BY DEF NoPlus, IsPlus
    <3>2. 1 \in DOMAIN inbox /\ inbox[1] = Head(inbox) /\ i # 1
      BY <1>0, <3>1, <1>drop, InboxFacts
    <3>3. i - 1 \in DOMAIN Tail(inbox) /\ Tail(inbox)[i - 1] = inbox[i]
      BY <1>0, <3>1, <3>2, <1>drop, InboxFacts
    <3>4. QED
      BY <3>1, <3>3, <1>drop DEF NoPlus, IsPlus
  <2>4. GrantsCounted'
    BY <1>p, <1>drop, <2>3 DEF GrantsCounted
  <2>5. QED
    BY <2>1, <2>2, <2>4 DEF Parts
<1>1. CASE UNCHANGED vars
  BY <1>1, <1>quiet DEF vars
<1>2. ASSUME NEW o \in Ops, NEW k \in Kinds, NEW p \in Paths,
             Submit(o, k, p) \/ SubmitStopped(o, k)
      PROVE  Parts'
  <2>1. /\ own[o] = "none" /\ cmd' = [cmd EXCEPT ![o] = Render(k)]
        /\ UNCHANGED <<staged, hasWritten, target, granted, inbox, answered>>
    BY <1>2 DEF Submit, SubmitStopped, NewCell, NextTag
  <2>2. PICK pl \in {"queued", "posted"} : Move({o}, pl)
    BY <1>2 DEF Submit, SubmitStopped
  <2>3. \A q \in Ops : /\ q # o => own'[q] = own[q] /\ cmd'[q] = cmd[q]
                       /\ q = o => own'[q] = pl /\ cmd'[q] = Render(k)
    BY <1>0, <2>1, <2>2 DEF Move
  <2>4. Fresh(o)
    BY <2>1 DEF SegInv, TagsInOrder
  <2>5. target # o
    BY <1>0, <1>t, <2>1 DEF Queue
  <2>6. RouteExact'
    BY <1>0, <1>p, <2>1, <2>3, <2>4
       DEF RouteExact, Asked, Queue, Awaits, EverStaged, InFlight, Fresh
  <2>7. PlusRouted'
    BY <1>p, <1>i, <2>1, <2>3, <2>5 DEF PlusRouted, IsPlus
  <2>8. GrantsCounted'
    <3>1. Render(k).kind = k /\ granted[o] = 0
          /\ (k = "idle" \/ Walled(k) => Unlocked(Render(k)) = 1)
      BY <2>4, RenderFacts, ContextAssumption DEF Fresh
    <3>2. QED
      BY <1>p, <2>1, <2>3, <3>1 DEF GrantsCounted, NoPlus, IsPlus
  <2>9. QED
    BY <2>6, <2>7, <2>8 DEF Parts
<1>leave. ASSUME NEW o \in Ops, target # o,
                 UNCHANGED <<cmd, staged, hasWritten, target, granted, inbox, answered>>,
                 own[o] # "none",
                 \A q \in Ops : /\ q # o => own'[q] = own[q]
                                /\ q = o => own'[q] \in {"posted", "freed"}
          PROVE  Parts'
  <2>1. RouteExact'
    BY <1>0, <1>p, <1>leave DEF RouteExact, Asked, Queue, Awaits, EverStaged,
                                InFlight
  <2>2. PlusRouted' /\ GrantsCounted'
    BY <1>p, <1>leave DEF PlusRouted, GrantsCounted, NoPlus, IsPlus
  <2>3. QED
    BY <2>1, <2>2 DEF Parts
<1>3. ASSUME NEW o \in Ops, CancelExtract(o)
      PROVE  Parts'
  <2>1. /\ UNCHANGED <<cmd, staged, hasWritten, target, granted, inbox, answered>>
        /\ ~Awaits(o)
    BY <1>3 DEF CancelExtract, CancelCall, NeverStaged, IsWritten
  <2>2. \A q \in Ops : /\ q # o => own'[q] = own[q]
                       /\ q = o => own'[q] \in {"posted", "freed"}
    BY <1>0, <1>3 DEF CancelExtract, Move
  <2>3. own[o] # "none"
    BY <1>3, <1>s DEF CancelExtract, CancelCall, RegistryInv,
                      RegistryMatchesCells, Live, Sound
  <2>4. target # o
    BY <1>0, <1>t, <2>1
  <2>5. QED
    BY <2>1, <2>2, <2>3, <2>4, <1>leave
<1>4. ASSUME NEW o \in Ops, CancelIdle(o)
      PROVE  Parts'
  <2>1. /\ UNCHANGED <<own, staged, hasWritten, target, granted, inbox, answered>>
        /\ cmd' = [cmd EXCEPT ![o] = Done(cmd[o])] /\ cmd[o].kind = "idle"
    BY <1>4 DEF CancelIdle, CancelCall, HandlesCancel
  <2>2. \A q \in Ops : /\ AwaitsContinuation(cmd'[q]) <=> AwaitsContinuation(cmd[q])
                       /\ AwaitsContinuation(cmd[q]) => Flushed(cmd'[q]) = Flushed(cmd[q])
                       /\ Unlocked(cmd'[q]) = Unlocked(cmd[q])
                       /\ cmd'[q].kind = cmd[q].kind
    BY <1>0, <1>c, <2>1, DoneFacts
  <2>3. RouteExact'
    BY <1>0, <1>p, <2>1, <2>2 DEF RouteExact, Asked, Queue, EverStaged, Awaits, InFlight
  <2>4. PlusRouted'
    BY <1>p, <1>i, <2>1, <2>2 DEF PlusRouted, IsPlus
  <2>5. GrantsCounted'
    BY <1>p, <2>1, <2>2 DEF GrantsCounted, NoPlus, IsPlus
  <2>6. QED
    BY <2>3, <2>4, <2>5 DEF Parts
<1>5. ASSUME NEW o \in Ops, CancelDetach(o)
      PROVE  Parts'
  BY <1>5, <1>quiet DEF CancelDetach, CancelCall
<1>6. CASE Close \/ Abandon
  BY <1>6, <1>s DEF Close, Abandon
<1>7. CASE Flush \/ KickReceiver
  BY <1>7, <1>quiet DEF Flush, KickReceiver
<1>8. ASSUME NEW src \in {"user", "read", "flush"}, PostKick(src) \/ PostKickFails(src)
      PROVE  Parts'
  BY <1>8, <1>quiet DEF PostKick, PostKickFails
<1>9. ASSUME NEW src \in {"posted", "chained"}, Kick(src)
      PROVE  Parts'
  <2>1. /\ staged' = staged \cup StageSet /\ target' = StagedRoute
        /\ UNCHANGED <<own, cmd, hasWritten, granted, inbox, answered>>
    BY <1>9 DEF Kick
  <2>2. /\ StageSet \subseteq Queue
        /\ \A o \in StageSet, p \in Queue : p < o => ~Awaits(p)
    BY DEF StageSet, Queue, Wall
  <2>3. ASSUME NEW o \in StageSet, Awaits(o)
        PROVE  target' = o /\ (target # NoOp => target = o)
    <3>1. \A p \in StageSet : Awaits(p) => p = o
      BY <1>0, <2>2, <2>3
    <3>2. StagedRoute = o
      BY <2>3, <3>1 DEF StagedRoute
    <3>3. target # NoOp => target = o
      BY <1>0, <1>p, <1>t, <2>2, <2>3 DEF WallsHold
    <3>4. QED
      BY <2>1, <3>2, <3>3
  <2>4. (\A o \in StageSet : ~Awaits(o)) => target' = target
    BY <2>1 DEF StagedRoute
  <2>5. target # NoOp => target' = target
    BY <2>3, <2>4
  <2>6. RouteExact'
    <3>1. Queue' = Queue /\ \A o \in Queue : (EverStaged(o) \/ o \in StageSet) <=> EverStaged(o)'
      BY <2>1 DEF Queue, EverStaged
    <3>2. target' # NoOp => target' \in Queue /\ EverStaged(target)'
      BY <1>t, <2>2, <2>3, <2>4, <2>5, <3>1
    <3>3. ASSUME NEW o \in Queue, Asked(o)'
          PROVE  target' = o
      <4>1. CASE o \in StageSet
        BY <2>1, <2>3, <3>3, <4>1 DEF Asked, Awaits
      <4>2. CASE o \notin StageSet
        <5>1. Asked(o)
          BY <2>1, <3>3, <4>2 DEF Asked, Awaits, EverStaged, InFlight
        <5>2. QED
          BY <1>0, <1>p, <2>5, <5>1 DEF RouteExact
      <4>3. QED
        BY <4>1, <4>2
    <3>4. QED
      BY <3>1, <3>2, <3>3 DEF RouteExact
  <2>7. PlusRouted'
    BY <1>0, <1>p, <1>i, <2>1, <2>5 DEF PlusRouted, IsPlus
  <2>8. GrantsCounted'
    BY <1>p, <2>1 DEF GrantsCounted, NoPlus, IsPlus
  <2>9. QED
    BY <2>6, <2>7, <2>8 DEF Parts
<1>10. ASSUME NEW src \in {"posted", "chained"}, KickIdle(src)
       PROVE  Parts'
  BY <1>10, <1>quiet DEF KickIdle
<1>11. CASE WriteArm
  BY <1>11, <1>quiet DEF WriteArm
<1>12. CASE WriteArmTeardown \/ WriteDoneTeardown
  BY <1>12, <1>s DEF WriteArmTeardown, WriteDoneTeardown, Sound
<1>13. CASE WriteArmFails \/ WriteError
  BY <1>13, <1>s DEF WriteArmFails, WriteError
<1>14. CASE WriteDone
  <2> DEFINE waiting == {o \in StillQueued : AwaitsContinuation(cmd'[o])}
             done == {o \in StillQueued : /\ o \in detached
                                         /\ ~AwaitsContinuation(cmd'[o])
                                         /\ ~HasSegment(cmd'[o])}
  <2>1. /\ cmd' = [o \in Ops |-> IF o \in StillQueued THEN OnSegmentFlushed(cmd[o])
                                                      ELSE cmd[o]]
        /\ staged' = staged \ StillQueued
        /\ hasWritten' = hasWritten \cup StillQueued
        /\ UNCHANGED <<granted, inbox, answered>> /\ Move(done, "posted")
        /\ (waiting = {} /\ target' = target) \/ target' \in waiting
    BY <1>14 DEF WriteDone, WriteCompletes
  <2>2. \A o \in StillQueued : o \in Queue /\ o \in staged
    BY <1>p DEF StillQueued, ListExact
  <2>3. \A o \in Ops : /\ own'[o] = own[o] \/ (own'[o] = "posted" /\ o \in done)
                       /\ own'[o] = "posted" \/ own'[o] = own[o]
    BY <1>0, <2>1 DEF Move
  <2>4. \A o \in Ops : /\ AwaitsContinuation(cmd'[o]) <=> AwaitsContinuation(cmd[o])
                       /\ Unlocked(cmd'[o]) = Unlocked(cmd[o])
                       /\ cmd'[o].kind = cmd[o].kind
                       /\ o \notin StillQueued => cmd'[o] = cmd[o]
    <3>1. \A o \in StillQueued : Flushed(cmd[o]) + 1 <= Unlocked(cmd[o]) /\ o \in Ops
      BY <1>0, <1>c, <2>2 DEF InFlight
    <3>2. QED
      BY <1>0, <1>c, <2>1, <3>1, FlushFacts
  <2>5. \A o \in waiting : /\ o \in Queue /\ o \in Queue' /\ Awaits(o) /\ EverStaged(o)
    BY <1>0, <2>2, <2>3, <2>4 DEF Queue, Awaits, EverStaged
  <2>6. \A o \in Queue : Awaits(o) /\ EverStaged(o) =>
           \A p \in waiting : p = o
    <3>1. SUFFICES ASSUME NEW o \in Queue, Awaits(o), EverStaged(o), NEW p \in waiting
                   PROVE  p = o
      OBVIOUS
    <3>2. p \in Queue /\ Awaits(p) /\ EverStaged(p)
      BY <2>5
    <3>3. ~(p < o) /\ ~(o < p)
      BY <1>p, <3>1, <3>2 DEF WallsHold
    <3>4. QED
      BY <1>0, <3>2, <3>3
  <2>7. \A o \in Ops : own[o] = "queued" /\ AwaitsContinuation(cmd[o]) => own'[o] = "queued"
    BY <1>0, <2>1, <2>4 DEF Move
  <2> HIDE DEF waiting, done
  <2>8. target # NoOp => target' = target
    BY <1>t, <2>1, <2>6
  <2> USE DEF waiting, done
  <2>9. RouteExact'
    <3>1. Queue' \subseteq Queue /\ \A o \in Queue : EverStaged(o) <=> EverStaged(o)'
      BY <2>1, <2>2, <2>3 DEF Queue, EverStaged
    <3>2. target' # NoOp => target' \in Queue' /\ EverStaged(target)'
      <4>1. CASE target' \in waiting
        BY <2>1, <2>5, <4>1 DEF EverStaged
      <4>2. CASE target' = target
        BY <1>0, <1>t, <2>7, <3>1, <4>2 DEF Queue, Awaits, EverStaged
      <4>3. QED
        BY <2>1, <4>1, <4>2
    <3>3. ASSUME NEW o \in Queue', Asked(o)'
          PROVE  target' = o
      <4>1. o \in Queue /\ Awaits(o) /\ EverStaged(o) /\ AwaitsContinuation(cmd'[o])
        BY <1>0, <2>4, <3>1, <3>3 DEF Asked, Awaits
      <4>2. CASE o \in StillQueued
        <5>1. o \in waiting
          BY <4>1, <4>2
        <5>2. QED
          BY <2>1, <2>6, <4>1, <5>1
      <4>3. CASE o \notin StillQueued
        <5>1. Asked(o)
          BY <1>0, <2>1, <2>4, <3>3, <4>1, <4>3 DEF Asked, Awaits, InFlight
        <5>2. target = o
          BY <1>p, <4>1, <5>1 DEF RouteExact
        <5>3. QED
          BY <1>0, <2>8, <4>1, <5>2
      <4>4. QED
        BY <4>2, <4>3
    <3>4. QED
      BY <3>1, <3>2, <3>3 DEF RouteExact
  <2>10. PlusRouted'
    BY <1>0, <1>p, <1>i, <2>1, <2>4, <2>8 DEF PlusRouted, IsPlus
  <2>11. GrantsCounted'
    <3>1. \A o \in Ops : own'[o] # "none" => own[o] # "none"
      BY <1>0, <2>2, <2>3 DEF Queue
    <3>2. QED
      BY <1>p, <2>1, <2>4, <3>1 DEF GrantsCounted, NoPlus, IsPlus
  <2>12. QED
    BY <2>9, <2>10, <2>11 DEF Parts
<1>15. CASE WriteErrorDropped \/ WriteErrorTail
  BY <1>15, <1>s DEF WriteErrorDropped, WriteErrorTail, RegistryInv, Sound
<1>16. ASSUME NEW ec \in LossType, ConnectionLost(ec) \/ ConnectionLostLate(ec)
       PROVE  Parts'
  BY <1>16, <1>s DEF ConnectionLost, ConnectionLostLate, Sound
<1>17. CASE MaybeFinishClose
  BY <1>17, <1>quiet DEF MaybeFinishClose
<1>18. ASSUME NEW o \in Ops, CompleteStopped(o)
       PROVE  Parts'
  <2>1. /\ UNCHANGED <<cmd, staged, hasWritten, target, granted, inbox, answered>>
        /\ own[o] = "posted"
    BY <1>18 DEF CompleteStopped
  <2>2. \A q \in Ops : /\ q # o => own'[q] = own[q]
                       /\ q = o => own'[q] \in {"posted", "freed"}
    BY <1>0, <1>18 DEF CompleteStopped, Retire, Move
  <2>3. target # o
    BY <1>0, <1>t, <2>1 DEF Queue
  <2>4. QED
    BY <2>1, <2>2, <2>3, <1>leave
<1>19. CASE ReadSteps \/ ReadArmFails
  <2>1. UNCHANGED <<cellVars, wireVars, target>>
    BY <1>19 DEF ReadSteps, ReadVarsOnly, ReadStops, ReadQuiet, ReadData,
                 ReadFails, ReadErrorMapped, ReadFatalTail, ReadBatchDone,
                 ReadBatchDoneClosing, ReadArm, ReadArmTeardown, ReadArmFails
  <2>2. QED
    BY <2>1, <1>quiet
<1>20. CASE DispatchDropped \/ DispatchBye
  <2>1. /\ UNCHANGED <<own, cmd, staged, hasWritten, target, granted, answered>>
        /\ inbox # << >> /\ inbox' = Tail(inbox) /\ Head(inbox).type # "plus"
    BY <1>20 DEF DispatchDropped, DispatchBye, Dispatching
  <2>2. QED
    BY <2>1, <1>drop
<1>21. CASE DispatchUnexpected
  <2>1. /\ UNCHANGED <<own, cmd, staged, hasWritten, target, granted, answered>>
        /\ inbox # << >> /\ inbox' = Tail(inbox)
        /\ Head(inbox).type = "garbage" \/ (Head(inbox).type = "plus" /\ target = NoOp)
    BY <1>21 DEF DispatchUnexpected, Dispatching
  <2>2. Head(inbox).type # "plus"
    BY <1>0, <1>p, <1>i, <2>1, InboxFacts DEF PlusRouted, IsPlus
  <2>3. QED
    BY <2>1, <2>2, <1>drop
<1>22. CASE DispatchDiverged
  <2> DEFINE o == Head(inbox).op
  <2>1. o \in registry /\ o \notin Queue
    BY <1>22 DEF DispatchDiverged
  <2>2. o \in Ops /\ own[o] = "held"
    BY <1>s, <2>1 DEF RegistryInv, RegistryMatchesCells, Live, Queue, Sound
  <2>3. QED
    BY <1>s, <2>2 DEF RegistryInv, Sound
<1>23. CASE DispatchTagged
  <2> DEFINE o == Head(inbox).op
  <2>1. /\ UNCHANGED <<cmd, staged, hasWritten, granted, answered>>
        /\ inbox # << >> /\ inbox' = Tail(inbox)
        /\ Head(inbox).type = "tagged" /\ own[o] = "queued" /\ o \in Queue
        /\ target' = IF target = o THEN NoOp ELSE target
    BY <1>23 DEF DispatchTagged, Dispatching, Queue, RouteWithout
  <2>2. \A q \in Ops : /\ q # o => own'[q] = own[q]
                       /\ q = o => own'[q] = "freed"
    BY <1>0, <1>23 DEF DispatchTagged, Retire, Move
  <2>3. o \in answered
    BY <1>0, <2>1, InboxFacts DEF SegInv, AnswersRecorded
  <2> HIDE DEF o
  <2>4. RouteExact'
    BY <1>0, <1>p, <2>1, <2>2 DEF RouteExact, Asked, Queue, Awaits, EverStaged,
                                  InFlight
  <2>5. PlusRouted'
    <3>1. ASSUME NEW i \in DOMAIN Tail(inbox), Tail(inbox)[i].type = "plus"
          PROVE  i \in Nat /\ i + 1 \in DOMAIN inbox /\ IsPlus(i + 1)
                 /\ Tail(inbox)[i] = inbox[i + 1] /\ target # o
                 /\ target = inbox[i + 1].op
      <4>1. i \in Nat /\ i + 1 \in DOMAIN inbox /\ IsPlus(i + 1)
            /\ Tail(inbox)[i] = inbox[i + 1]
        BY <1>0, <2>1, <3>1, InboxFacts DEF IsPlus
      <4>2. QED
        BY <1>p, <2>3, <4>1 DEF PlusRouted
    <3>2. \A i, j \in DOMAIN Tail(inbox) :
             Tail(inbox)[i].type = "plus" /\ Tail(inbox)[j].type = "plus" => i = j
      <4>1. SUFFICES ASSUME NEW i \in DOMAIN Tail(inbox), NEW j \in DOMAIN Tail(inbox),
                            Tail(inbox)[i].type = "plus", Tail(inbox)[j].type = "plus"
                     PROVE  i = j
        OBVIOUS
      <4>2. i + 1 = j + 1 /\ i \in Nat /\ j \in Nat
        BY <1>p, <3>1, <4>1 DEF PlusRouted
      <4>3. QED
        BY <4>2
    <3>3. SUFFICES ASSUME NEW i \in DOMAIN Tail(inbox), Tail(inbox)[i].type = "plus"
                   PROVE  /\ target' = Tail(inbox)[i].op /\ target' \notin answered
                          /\ granted[target'] = Unlocked(cmd[target'])
      BY <2>1, <3>2 DEF PlusRouted, IsPlus
    <3>4. target' = target
      BY <2>1, <3>1, <3>3
    <3>5. QED
      BY <1>p, <3>1, <3>3, <3>4 DEF PlusRouted
  <2>6. \A q \in Ops : NoPlus(q)' => NoPlus(q)
    <3>1. SUFFICES ASSUME NEW q \in Ops, NoPlus(q)',
                          NEW i \in DOMAIN inbox, inbox[i].type = "plus"
                   PROVE  inbox[i].op # q
      BY DEF NoPlus, IsPlus
    <3>2. 1 \in DOMAIN inbox /\ inbox[1] = Head(inbox) /\ i # 1
      BY <1>0, <3>1, <2>1, InboxFacts
    <3>3. i - 1 \in DOMAIN Tail(inbox) /\ Tail(inbox)[i - 1] = inbox[i]
      BY <1>0, <3>1, <3>2, <2>1, InboxFacts
    <3>4. QED
      BY <3>1, <3>3, <2>1 DEF NoPlus, IsPlus
  <2>7. GrantsCounted'
    BY <1>0, <1>p, <2>1, <2>2, <2>6 DEF GrantsCounted
  <2>8. QED
    BY <2>4, <2>5, <2>7 DEF Parts
<1>24. CASE DispatchContinuation
  <2>1. /\ target \in Ops /\ AwaitsContinuation(cmd[target]) /\ target' = NoOp
        /\ cmd' = [cmd EXCEPT ![target] = OnContinuation(cmd[target])]
        /\ UNCHANGED <<own, staged, hasWritten, granted, answered>>
        /\ inbox # << >> /\ inbox' = Tail(inbox) /\ Head(inbox).type = "plus"
    BY <1>0, <1>24 DEF DispatchContinuation, Dispatching, RouteInv, TargetWaits,
                       Live, Awaits
  <2>2. /\ Head(inbox).op = target /\ granted[target] = Unlocked(cmd[target])
        /\ \A i \in DOMAIN inbox : IsPlus(i) => i = 1
    BY <1>0, <1>p, <2>1, InboxFacts DEF PlusRouted, IsPlus
  <2>3. \A i \in DOMAIN inbox' : ~IsPlus(i)'
    BY <1>0, <2>1, <2>2, InboxFacts DEF IsPlus
  <2>4. /\ Unlocked(cmd'[target]) = Unlocked(cmd[target]) + 1
        /\ Flushed(cmd'[target]) <= Flushed(cmd[target])
        /\ Flushed(cmd'[target]) \in Nat
        /\ cmd'[target].kind = cmd[target].kind
        /\ \A q \in Ops : q # target => cmd'[q] = cmd[q]
    BY <1>0, <1>c, <2>1, ContinueFacts, CounterTypes
  <2>5. RouteExact'
    <3>1. ASSUME NEW o \in Queue, Asked(o)'
          PROVE  FALSE
      <4>1. CASE o = target
        BY <1>c, <2>1, <2>4, <3>1, <4>1 DEF Asked, InFlight
      <4>2. CASE o # target
        BY <1>0, <1>p, <2>1, <2>4, <3>1, <4>2
           DEF RouteExact, Asked, Awaits, EverStaged, InFlight
      <4>3. QED
        BY <4>1, <4>2
    <3>2. Queue' = Queue
      BY <2>1 DEF Queue
    <3>3. QED
      BY <2>1, <3>1, <3>2 DEF RouteExact
  <2>6. PlusRouted'
    BY <2>3 DEF PlusRouted
  <2>7. \A o \in Ops : o # target => NoPlus(o)
    BY <1>0, <1>p, <1>i DEF NoPlus, PlusRouted, IsPlus
  <2>8. GrantsCounted'
    BY <1>p, <2>1, <2>2, <2>4, <2>7 DEF GrantsCounted
  <2>9. QED
    BY <2>5, <2>6, <2>8 DEF Parts
<1>append. ASSUME UNCHANGED <<cellVars, target>>,
                  NEW r \in ResponseType, r.type # "plus",
                  inbox' = Append(inbox, r), UNCHANGED granted,
                  \A i \in DOMAIN inbox : IsPlus(i) => target \notin answered'
           PROVE  Parts'
  <2>1. RouteExact'
    BY <1>p, <1>append DEF RouteExact, Asked, Queue, Awaits, EverStaged, InFlight
  <2>2. PlusRouted'
    BY <1>0, <1>p, <1>append, InboxFacts DEF PlusRouted, IsPlus
  <2>3. \A o \in Ops : NoPlus(o)' => NoPlus(o)
    BY <1>0, <1>append, InboxFacts DEF NoPlus, IsPlus
  <2>4. GrantsCounted'
    BY <1>p, <1>append, <2>3 DEF GrantsCounted
  <2>5. QED
    BY <2>1, <2>2, <2>4 DEF Parts
<1>full. \A o \in Ops : /\ FullCount(o) = Full(cmd[o]) /\ FullCount(o) \in Nat
                        /\ (Awaits(o) <=> Unlocked(cmd[o]) < FullCount(o))
  BY <1>c, CounterTypes DEF FullCount, Full, Awaits
<1>within. \A o \in Queue : Awaits(o) => sent[o] <= Unlocked(cmd[o])
  BY <1>0, <1>c, <1>p DEF SentWithin
<1>25. ASSUME NEW o \in Ops, ServerAnswers(o)
       PROVE  Parts'
  <2> DEFINE r == [type |-> "tagged", op |-> o]
  <2>1. /\ UNCHANGED <<cellVars, target, granted>> /\ inbox' = Append(inbox, r)
        /\ r \in ResponseType /\ r.type # "plus" /\ answered' = answered \cup {o}
    BY <1>25 DEF ServerAnswers, ServerSends, ResponseType
  <2>2. ASSUME NEW i \in DOMAIN inbox, IsPlus(i)
        PROVE  target # o
    <3>1. target \in Queue /\ Awaits(target) /\ granted[target] = Unlocked(cmd[target])
      BY <1>0, <1>p, <1>i, <1>t, <2>2 DEF PlusRouted
    <3>2. ~(granted[target] < sent[target]) /\ sent[target] # FullCount(target)
      BY <1>0, <1>c, <1>full, <1>within, <3>1
    <3>3. QED
      BY <1>25, <3>2 DEF ServerAnswers, AtWall
  <2>3. \A i \in DOMAIN inbox : IsPlus(i) => target \notin answered'
    BY <1>p, <2>1, <2>2 DEF PlusRouted
  <2> HIDE DEF r
  <2>4. QED
    BY <2>1, <2>3, <1>append
<1>26. ASSUME NEW o \in Ops, ServerContinues(o)
       PROVE  Parts'
  <2> DEFINE r == [type |-> "plus", op |-> o]
  <2>1. /\ UNCHANGED <<cellVars, target, answered>> /\ inbox' = Append(inbox, r)
        /\ r \in ResponseType /\ r.type = "plus" /\ r.op = o
        /\ granted' = [granted EXCEPT ![o] = @ + 1]
        /\ o \notin answered /\ AtWall(o)
    BY <1>26 DEF ServerContinues, ServerSends, ResponseType
  <2>2. /\ cmd[o].kind = "idle" \/ Walled(cmd[o].kind)
        /\ granted[o] < sent[o] /\ granted[o] + 1 < FullCount(o)
    BY <2>1 DEF AtWall
  <2>3. NoPlus(o)
    BY <1>0, <1>c, <1>i, <1>p, <1>t, <1>within, <2>2 DEF NoPlus, PlusRouted
  <2>4. own[o] # "none"
    BY <1>0, <2>2 DEF SegInv, TagsInOrder, Fresh
  <2>5. Unlocked(cmd[o]) = granted[o] + 1
    BY <1>p, <2>2, <2>3, <2>4 DEF GrantsCounted
  <2>6. Awaits(o)
    BY <1>full, <2>2, <2>5
  <2>7. own[o] = "queued"
    <3>1. own[o] # "held"
      BY <1>s DEF RegistryInv, Sound
    <3>2. own[o] \notin {"posted", "freed"}
      BY <1>0, <1>p, <2>1, <2>2, <2>6 DEF GoneIsSettled
    <3>3. QED
      BY <1>0, <2>4, <3>1, <3>2 DEF OwnType
  <2>8. o \in Queue /\ Asked(o)
    <3>1. o \in Queue
      BY <2>7 DEF Queue
    <3>2. sent[o] \in Nat /\ granted[o] \in Nat
      BY <1>0
    <3>3. EverStaged(o) /\ sent[o] <= Flushed(cmd[o]) + InFlight(o)
      BY <1>p, <2>2, <2>6, <3>1, <3>2 DEF SentWithin
    <3>4. Flushed(cmd[o]) + InFlight(o) = Unlocked(cmd[o])
      BY <1>c, <2>2, <2>5, <3>2, <3>3
    <3>5. QED
      BY <2>6, <3>1, <3>3, <3>4 DEF Asked
  <2>9. target = o
    BY <1>p, <2>8 DEF RouteExact
  <2>10. \A i \in DOMAIN inbox : ~IsPlus(i)
    BY <1>p, <2>3, <2>9 DEF PlusRouted, NoPlus
  <2> HIDE DEF r
  <2>11. RouteExact'
    BY <1>p, <2>1 DEF RouteExact, Asked, Queue, Awaits, EverStaged, InFlight
  <2>12. PlusRouted'
    BY <1>0, <2>1, <2>5, <2>9, <2>10, InboxFacts DEF PlusRouted, IsPlus
  <2>13. \A q \in Ops : /\ NoPlus(q)' => NoPlus(q)
                        /\ ~NoPlus(o)'
    BY <1>0, <2>1, InboxFacts DEF NoPlus, IsPlus
  <2>14. GrantsCounted'
    BY <1>0, <1>p, <2>1, <2>13 DEF GrantsCounted
  <2>15. QED
    BY <2>11, <2>12, <2>14 DEF Parts
<1>27. CASE ServerBye \/ ServerGarbage
  <2>1. UNCHANGED <<cellVars, target, granted, answered>>
    BY <1>27 DEF ServerBye, ServerGarbage, ServerSends
  <2>2. PICK r \in ResponseType : inbox' = Append(inbox, r) /\ r.type # "plus"
    <3>1. /\ [type |-> "bye", op |-> NoOp] \in ResponseType
          /\ [type |-> "garbage", op |-> NoOp] \in ResponseType
      BY DEF ResponseType
    <3>2. QED
      BY <1>27, <3>1 DEF ServerBye, ServerGarbage, ServerSends
  <2>3. QED
    BY <1>p, <2>1, <2>2, <1>append DEF PlusRouted
<1>28. CASE Hangup
  BY <1>28, <1>quiet DEF Hangup
<1>29. ASSUME NEW o \in Ops, NEW k \in Kinds, NEW p \in Paths,
              SubmitRejected(o, k, p)
       PROVE  Parts'
  BY <1>29, <1>s DEF SubmitRejected, Sound
<1>30. QED
  <2>1. CASE User
    BY <2>1, <1>2, <1>3, <1>4, <1>5, <1>6, <1>7, <1>29, ContextAssumption
       DEF User, SubmitStopped
  <2>2. CASE WritePump
    BY <2>2, <1>7, <1>8, <1>9, <1>10, <1>11, <1>12, <1>13, <1>14, <1>15
       DEF WritePump
  <2>3. CASE ReadPump
    BY <2>3, <1>19, <1>20, <1>21, <1>22, <1>23, <1>24 DEF ReadPump, ReadSteps
  <2>4. CASE Teardown
    BY <2>4, <1>16, <1>17, <1>18 DEF Teardown
  <2>5. CASE Server
    BY <2>5, <1>25, <1>26, <1>27, <1>28 DEF Server
  <2>6. QED
    BY <1>1, <2>1, <2>2, <2>3, <2>4, <2>5 DEF Next

-----------------------------------------------------------------------------
(* Everything about the queue, the route and the write's list that holds   *)
(* as long as no freed address is reused.                                  *)
CoreInv ==
    /\ PumpsLatched /\ RegistryInv /\ RouteInv /\ BatchInv
    /\ SegInv /\ StagingInv

(* A fresh context satisfies it.                                           *)
LEMMA CoreInit ==
    ASSUME Init
    PROVE  CoreInv /\ GrantInv
<1>1. PumpsLatched /\ RegistryInv /\ RouteInv /\ BatchInv
  BY DEF Init, InitRead, PumpsLatched, RegistryInv, RegistryMatchesCells, Live,
         Queue, RouteInv, TargetWaits, BatchInv
<1>2. /\ \A o \in Ops : own[o] = "none" /\ cmd[o] = Render("simple")
                        /\ sent[o] = 0 /\ granted[o] = 0
      /\ staged = {} /\ hasWritten = {} /\ stopped = {} /\ batch = {}
      /\ answered = {} /\ inbox = << >> /\ target = NoOp /\ writePc = "idle"
      /\ Queue = {}
  BY DEF Init, Queue
<1>3. Render("simple") \in CommandType /\ Sane(Render("simple"))
      /\ Flushed(Render("simple")) = 0 /\ Unlocked(Render("simple")) >= 1
  BY RenderFacts DEF AllKinds
<1>4. SegInv
  <2>1. SegmentsWithin
    BY <1>2, <1>3, CounterTypes DEF SegmentsWithin, InFlight
  <2>2. TagsInOrder /\ AnswersRecorded
    BY <1>2 DEF TagsInOrder, Fresh, AnswersRecorded
  <2>3. QED
    BY <1>2, <2>1, <2>2 DEF SegInv
<1>5. StagingInv
  BY <1>2 DEF StagingInv, ListExact, WallsHold, SentWithin, GoneIsSettled
<1>6. GrantInv
  BY <1>2 DEF GrantInv, RouteExact, PlusRouted, GrantsCounted
<1>7. QED
  BY <1>1, <1>4, <1>5, <1>6 DEF CoreInv

(* The core invariant of a context whose freed addresses are not reused    *)
(* under a write.                                                          *)
THEOREM CoreHolds ==
    ASSUME "reuse" \notin Faults
    PROVE  Spec => []CoreInv
<1>1. Init => CoreInv
  BY CoreInit
<1>2. TypeOK /\ CoreInv /\ [Next]_vars => CoreInv'
  BY PumpsLatchedInductive, RegistryInductive, RouteInductive, BatchInductive,
     SegInductive, StagingInductive DEF CoreInv
<1>3. QED
  BY <1>1, <1>2, TypeCorrect, PTL DEF Spec

(* A continuation request under way always finds the operation it answers  *)
(* (context_core::handle_continuation never meets a null or a foreign      *)
(* target), for any number of operations and any pipeline: as long as the  *)
(* server grants no more than the command asks for (no SASL challenge      *)
(* after the payload) and no freed address is reused.                      *)
THEOREM ContinuationRoutedHolds ==
    ASSUME "reuse" \notin Faults, "challenge" \notin Faults
    PROVE  Spec => []ContinuationRouted
<1>1. Init => GrantInv
  BY CoreInit
<1>2. TypeOK /\ CoreInv /\ GrantInv /\ [Next]_vars => GrantInv'
  BY GrantInductive DEF CoreInv
<1>3. GrantInv => ContinuationRouted
  BY DEF GrantInv, Sound, PlusRouted, IsPlus, ContinuationRouted
<1>4. QED
  BY <1>1, <1>2, <1>3, TypeCorrect, CoreHolds, PTL DEF Spec
=============================================================================
