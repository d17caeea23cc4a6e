----------------------------- MODULE ImapContext -----------------------------
(***************************************************************************)
(* Layer 1 of bkmail: one IMAP connection (detail::context_core) with its  *)
(* write pump, its read pump and the operation cells it owns.              *)
(*                                                                         *)
(* An action is one critical section of the core mutex, or one hand-over   *)
(* to the scheduler or to the kernel.  What a function does after it       *)
(* released the mutex and before it takes it again is a step of its own:   *)
(* the variables posting, drain, losing and finishing hold the calls that  *)
(* a thread still owes.  Completions of cells run outside the mutex on     *)
(* cells no other thread can reach any more, so they belong to the step    *)
(* that took the cell out of the queue.                                    *)
(*                                                                         *)
(* An operation is named by its tag number: tag_counter_ only grows, and   *)
(* submissions are not concurrent with each other, so the order of the     *)
(* write queue is the order of the tags and the queue is a set.            *)
(***************************************************************************)
EXTENDS Commands, FiniteSets, Sequences

CONSTANTS
    MaxOps,    \* bound: submissions in a behaviour
    MaxInbox,  \* bound: server responses under way at a time
    Kinds,     \* the command kinds this instance submits
    Paths,     \* "callback" (submit + flush), "sender" (start, kicks itself)
    Calls,     \* user calls beyond submit: "cancel", "close", "abandon"
    Faults     \* what the environment may do, see FaultSet

FaultSet == {"hangup",    \* the peer or the network ends the connection
             "bye",       \* an untagged BYE
             "garbage",   \* a response the parser rejects
             "refuse",    \* a tagged NO where a continuation was asked for
             "challenge", \* a SASL challenge after the payload
             "memory",    \* an allocation of a pump box fails
             "reuse"}     \* the allocator hands out a freed cell's address

ASSUME ContextAssumption ==
    /\ MaxOps \in Nat \ {0}
    /\ MaxInbox \in Nat \ {0}
    /\ Kinds \subseteq AllKinds
    /\ Paths \subseteq {"callback", "sender"}
    /\ Calls \subseteq {"cancel", "close", "abandon"}
    /\ Faults \subseteq FaultSet

Ops == 1..MaxOps

\* continuation_target_ == nullptr, and "nothing sent yet"
NoOp == 0

-----------------------------------------------------------------------------
VARIABLES
    \* operation cells
    own,        \* who owns the cell: see OwnType
    outcome,    \* the one terminal delivery (finished_ and what it carried)
    cmd,        \* the command inside the cell
    path,       \* callback or sender completion
    staged,     \* segment_staged_
    hasWritten, \* has_written_
    detached,   \* detached_
    stopped,    \* stopped_
    \* context_core
    phase, registry, target, abandoned, byeReceived,
    \* write pump
    batch,      \* raw pointers held by the kick frame or the write receiver
    writePc, writeInFlight, kickPosted,
    drain,      \* kick() calls about to take the mutex
    posting,    \* post_kick() calls about to take the mutex, by thread
    \* read pump
    readPc, readRunning,
    \* teardown calls still owed by some thread
    losing,     \* connection_lost(ec), by ec
    finishing,  \* maybe_finish_close()
    \* transport and server (external)
    rdShut, eof, sent, lastSent, granted, answered, inbox,
    \* history: operations the user cancelled, and those of them that had
    \* nothing staged at that moment
    withdrawn, withdrawnUnsent

cellVars  == <<own, outcome, cmd, path, staged, hasWritten, detached, stopped>>
coreVars  == <<phase, registry, target, abandoned, byeReceived>>
writeVars == <<batch, writePc, writeInFlight, kickPosted, drain, posting>>
readVars  == <<readPc, readRunning>>
owedVars  == <<losing, finishing>>
wireVars  == <<eof, sent, lastSent, granted, answered, inbox>>
histVars  == <<withdrawn, withdrawnUnsent>>

vars == <<cellVars, coreVars, writeVars, readVars, owedVars, rdShut, wireVars,
          histVars>>

-----------------------------------------------------------------------------
(* "none" before submission; "queued" in write_queue_; "posted" inside a   *)
(* scheduled stop completion; "held" by a failed write's frame; "freed".   *)
OwnType == {"none", "queued", "posted", "held", "freed"}

LossType == {"bye", "eof", "protocol", "write", "memory"}

(* The value-channel outcomes invoke the handler; "stopped" is             *)
(* set_stopped() or, on the callback path, the silent withdrawal;          *)
(* "dropped" destroys the handler uninvoked.                               *)
ValueType == LossType \cup {"reply", "canceled"}
OutcomeType == ValueType \cup {"none", "stopped", "dropped"}

ResponseType ==
    [type : {"tagged", "plus"}, op : Ops] \cup
    [type : {"bye", "garbage"}, op : {NoOp}]

CellsTyped ==
    /\ own \in [Ops -> OwnType]
    /\ outcome \in [Ops -> OutcomeType]
    /\ cmd \in [Ops -> CommandType]
    /\ path \in [Ops -> {"callback", "sender"}]
    /\ staged \subseteq Ops /\ hasWritten \subseteq Ops
    /\ detached \subseteq Ops /\ stopped \subseteq Ops

CoreTyped ==
    /\ phase \in {"open", "draining", "closed"}
    /\ registry \subseteq Ops
    /\ target \in Ops \cup {NoOp}
    /\ abandoned \in BOOLEAN /\ byeReceived \in BOOLEAN
    /\ losing \subseteq LossType
    /\ finishing \in BOOLEAN

PumpsTyped ==
    /\ batch \subseteq Ops
    /\ writePc \in {"idle", "arming", "armed"}
    /\ writeInFlight \in BOOLEAN /\ kickPosted \in BOOLEAN
    /\ drain \subseteq {"posted", "chained"}
    /\ posting \subseteq {"user", "read"}
    /\ readPc \in {"armed", "error", "dispatching", "rearm", "fatal", "off"}
    /\ readRunning \in BOOLEAN

WireTyped ==
    /\ rdShut \in BOOLEAN /\ eof \in BOOLEAN
    /\ sent \in [Ops -> Nat] /\ lastSent \in Ops \cup {NoOp}
    /\ granted \in [Ops -> Nat]
    /\ answered \subseteq Ops
    /\ inbox \in Seq(ResponseType)
    /\ withdrawn \subseteq Ops /\ withdrawnUnsent \subseteq Ops

(* The type invariant of the context, its pumps and the wire.              *)
TypeOK == CellsTyped /\ CoreTyped /\ PumpsTyped /\ WireTyped

-----------------------------------------------------------------------------
(* Helpers on cells.                                                       *)

Queue == {o \in Ops : own[o] = "queued"}

Awaits(o) == AwaitsContinuation(cmd[o])

(* operation_model::next_segment(): nothing while a segment is staged.     *)
Available(o) == o \notin staged /\ HasSegment(cmd[o])

IsWritten(o) == o \notin staged /\ ~Awaits(o) /\ ~HasSegment(cmd[o])

(* begin_delivery() lets exactly one terminal delivery through.            *)
Deliver(S, r) ==
    outcome' = [o \in Ops |-> IF o \in S /\ outcome[o] = "none"
                              THEN r ELSE outcome[o]]

(* Mutant: the registry entry is not erased.                               *)
KeepRegistered(o) == registry

(* registry_.erase(tag): a reply for the tag is dropped from here on.      *)
Unregister(o) == registry \ {o}

(* Mutant: the continuation route is left behind.                          *)
KeepRoute(o) == target

(* continuation_target_ is cleared when it names a cell that leaves.       *)
RouteWithout(o) == IF target = o THEN NoOp ELSE target

Move(S, place) == own' = [o \in Ops |-> IF o \in S THEN place ELSE own[o]]

(* Take the cells of S out of the queue, complete them and destroy them.   *)
Retire(S, r) == Move(S, "freed") /\ Deliver(S, r)

-----------------------------------------------------------------------------
(* The context is constructed over a connected stream; arm_read() arms the *)
(* permanent read, or leaves the context closed when that allocation fails.*)
InitRead ==
    \/ phase = "open" /\ readPc = "armed" /\ readRunning = TRUE
    \/ /\ "memory" \in Faults
       /\ phase = "closed" /\ readPc = "off" /\ readRunning = FALSE

Init ==
    /\ own = [o \in Ops |-> "none"]
    /\ outcome = [o \in Ops |-> "none"]
    /\ cmd = [o \in Ops |-> Render("simple")]
    /\ path = [o \in Ops |-> "callback"]
    /\ staged = {} /\ hasWritten = {} /\ detached = {} /\ stopped = {}
    /\ InitRead
    /\ registry = {} /\ target = NoOp
    /\ abandoned = FALSE /\ byeReceived = FALSE
    /\ batch = {} /\ writePc = "idle" /\ writeInFlight = FALSE
    /\ kickPosted = FALSE /\ drain = {} /\ posting = {}
    /\ losing = {} /\ finishing = FALSE
    /\ rdShut = FALSE /\ eof = FALSE
    /\ sent = [o \in Ops |-> 0] /\ lastSent = NoOp
    /\ granted = [o \in Ops |-> 0] /\ answered = {} /\ inbox = << >>
    /\ withdrawn = {} /\ withdrawnUnsent = {}

-----------------------------------------------------------------------------
(* Submission: allocate_tag, attach (render), enqueue_operation.           *)

NextTag(o) == own[o] = "none" /\ \A p \in Ops : p < o => own[p] # "none"

(* The caller's side of IDLE (idle_command.h): nothing is submitted behind *)
(* an IDLE until it was asked to end.                                      *)
IdleExclusive ==
    \A p \in Ops :
        own[p] \in {"queued", "held"} /\ cmd[p].kind = "idle" => p \in stopped

NewCell(o, k, p) ==
    /\ ~abandoned
    /\ NextTag(o) /\ IdleExclusive
    /\ cmd' = [cmd EXCEPT ![o] = Render(k)]
    /\ path' = [path EXCEPT ![o] = p]
    /\ UNCHANGED <<staged, hasWritten, detached, stopped>>

(* The new cell may be given the address of a cell that a tagged reply has *)
(* freed while the write that carried it is still under way: the raw       *)
(* pointer in the write's list then denotes the new cell.                  *)
PlaceCell(o) ==
    \/ UNCHANGED batch
    \/ /\ "reuse" \in Faults
       /\ \E f \in batch : own[f] = "freed" /\ batch' = (batch \ {f}) \cup {o}

(* submit() queues without I/O; start_operation() owes a post_kick().      *)
Submit(o, k, p) ==
    /\ phase = "open"
    /\ NewCell(o, k, p)
    /\ Move({o}, "queued")
    /\ registry' = registry \cup {o}
    /\ posting' = IF p = "sender" THEN posting \cup {"user"} ELSE posting
    /\ PlaceCell(o)
    /\ UNCHANGED <<outcome, phase, target, abandoned, byeReceived, writePc,
                   writeInFlight, kickPosted, drain, readVars, owedVars,
                   rdShut, wireVars, histVars>>

(* The stop token fired between attach() and the registration:             *)
(* take_stop_request() sends the cell straight to a posted stop.           *)
SubmitStopped(o, k) ==
    /\ phase = "open" /\ "sender" \in Paths /\ "cancel" \in Calls
    /\ NewCell(o, k, "sender")
    /\ Move({o}, "posted")
    /\ UNCHANGED <<outcome, coreVars, writeVars, readVars, owedVars, rdShut,
                   wireVars, histVars>>

(* A closing or closed context fails the submission at once.               *)
SubmitRejected(o, k, p) ==
    /\ phase # "open"
    /\ NewCell(o, k, p)
    /\ Retire({o}, IF byeReceived THEN "bye" ELSE "canceled")
    /\ UNCHANGED <<coreVars, writeVars, readVars, owedVars, rdShut, wireVars,
                   histVars>>

-----------------------------------------------------------------------------
(* cancel(tag) and on_stop_requested(op): find_and_detach_locked, then     *)
(* finish_cancellation.  One action per branch of detach_locked.           *)

CancelCall(o) ==
    /\ "cancel" \in Calls /\ ~abandoned
    /\ phase = "open" /\ o \in registry
    /\ withdrawn' = withdrawn \cup {o}
    /\ withdrawnUnsent' = withdrawnUnsent \cup ({o} \ (staged \cup hasWritten))
    /\ UNCHANGED <<outcome, path, staged, hasWritten, phase, target, abandoned,
                   byeReceived, batch, writePc, writeInFlight, kickPosted,
                   drain, readVars, owedVars, rdShut, wireVars>>

NeverStaged(o) ==
    o \notin hasWritten /\ ~IsWritten(o) /\ o \notin staged /\ ~Awaits(o)

(* cancel_written() exists only for IDLE.                                  *)
HandlesCancel(o) == cmd[o].kind = "idle"

(* Mutant: done() is called but stopped_ is not set.                       *)
CancelUnnoted(o) == stopped

(* cancel_written() remembers the stop for the tagged reply.               *)
CancelNoted(o) == stopped \cup {o}

(* Never staged, or fully written: extract, post the stop completion.      *)
CancelExtract(o) ==
    /\ CancelCall(o)
    /\ NeverStaged(o) \/ (~HandlesCancel(o) /\ IsWritten(o))
    /\ Move({o}, "posted")
    /\ registry' = Unregister(o)
    /\ UNCHANGED <<cmd, detached, stopped, posting>>

(* IDLE: done(), remember the stop, kick so that DONE is flushed.          *)
CancelIdle(o) ==
    /\ CancelCall(o)
    /\ ~NeverStaged(o) /\ HandlesCancel(o)
    /\ cmd' = [cmd EXCEPT ![o] = Done(cmd[o])]
    /\ stopped' = CancelNoted(o)
    /\ posting' = posting \cup {"user"}
    /\ UNCHANGED <<own, registry, detached>>

(* Mid-handshake: detached, stays queued so that the wire stays consistent.*)
CancelDetach(o) ==
    /\ CancelCall(o)
    /\ ~NeverStaged(o) /\ ~HandlesCancel(o) /\ ~IsWritten(o)
    /\ detached' = detached \cup {o}
    /\ registry' = Unregister(o)
    /\ UNCHANGED <<own, cmd, stopped, posting>>

(* The scheduled stopped_receiver completes and destroys the cell.         *)
CompleteStopped(o) ==
    /\ own[o] = "posted"
    /\ Retire({o}, "stopped")
    /\ UNCHANGED <<cmd, path, staged, hasWritten, detached, stopped, coreVars,
                   writeVars, readVars, owedVars, rdShut, wireVars, histVars>>

-----------------------------------------------------------------------------
(* Write pump.                                                             *)

(* post_kick(): latch kick_posted_ and schedule a drain.                   *)
PostKickBody ==
    kickPosted' =
        (kickPosted \/ (phase = "open" /\ ~writeInFlight /\ Queue # {}))

(* flush() by the user.                                                    *)
Flush ==
    /\ "callback" \in Paths /\ ~abandoned
    /\ PostKickBody
    /\ UNCHANGED <<cellVars, coreVars, batch, writePc, writeInFlight, drain,
                   posting, readVars, owedVars, rdShut, wireVars, histVars>>

(* The post_kick() owed by start_operation, by a cancelled IDLE or by a    *)
(* dispatched continuation.                                                *)
PostKick(src) ==
    /\ src \in posting
    /\ posting' = posting \ {src}
    /\ PostKickBody
    /\ UNCHANGED <<cellVars, coreVars, batch, writePc, writeInFlight, drain,
                   readVars, owedVars, rdShut, wireVars, histVars>>

(* No scheduler slot, for an owed call or for that of a user's flush():    *)
(* unlatch and tear the connection down.                                   *)
PostKickFails(src) ==
    /\ "memory" \in Faults
    /\ src \in posting \/ (src = "flush" /\ "callback" \in Paths /\ ~abandoned)
    /\ ~kickPosted
    /\ phase = "open" /\ ~writeInFlight /\ Queue # {}
    /\ posting' = posting \ {src}
    /\ losing' = losing \cup {"memory"}
    /\ UNCHANGED <<cellVars, coreVars, batch, writePc, writeInFlight,
                   kickPosted, drain, readVars, finishing, rdShut, wireVars,
                   histVars>>

(* kick_receiver::set_value: unlatch, then call kick().                    *)
KickReceiver ==
    /\ kickPosted
    /\ kickPosted' = FALSE
    /\ drain' = IF abandoned THEN drain ELSE drain \cup {"posted"}
    /\ UNCHANGED <<cellVars, coreVars, batch, writePc, writeInFlight, posting,
                   readVars, owedVars, rdShut, wireVars, histVars>>

(* Mutant: an operation parked on a continuation does not stop the drain.  *)
WallBatchOnly(o) == Available(o) /\ (Awaits(o) \/ BlocksPipeline(cmd[o]))

(* Nothing behind a wall is staged: an operation that awaits a             *)
(* continuation, or a pipeline-blocking one staged in this very batch.     *)
Wall(o) == Awaits(o) \/ (Available(o) /\ BlocksPipeline(cmd[o]))

StageSet ==
    {o \in Queue : Available(o) /\ \A p \in Queue : p < o => ~Wall(p)}

CanKick == phase = "open" /\ ~writeInFlight

(* Mutant: the continuation route waits for the write completion.          *)
RouteUnset == target

(* The route exists from staging time; at most one staged cell waits.      *)
StagedRoute ==
    IF \E o \in StageSet : Awaits(o)
    THEN CHOOSE o \in StageSet : Awaits(o)
    ELSE target

(* kick(): one segment of every operation up to the first wall goes into   *)
(* the staging buffer; the continuation route is registered here.          *)
Kick(src) ==
    /\ src \in drain
    /\ drain' = drain \ {src}
    /\ CanKick /\ StageSet # {}
    /\ staged' = staged \cup StageSet
    /\ batch' = StageSet
    /\ writeInFlight' = TRUE /\ writePc' = "arming"
    /\ target' = StagedRoute
    /\ UNCHANGED <<own, outcome, cmd, path, hasWritten, detached, stopped,
                   phase, registry, abandoned, byeReceived, kickPosted,
                   posting, readVars, owedVars, rdShut, wireVars, histVars>>

(* kick() with a write in flight, on a closing context or with nothing to  *)
(* send returns.                                                           *)
KickIdle(src) ==
    /\ src \in drain
    /\ ~CanKick \/ StageSet = {}
    /\ drain' = drain \ {src}
    /\ UNCHANGED <<cellVars, coreVars, batch, writePc, writeInFlight,
                   kickPosted, posting, readVars, owedVars, rdShut, wireVars,
                   histVars>>

(* arm(): the bytes are handed to the kernel.  From here on the server may *)
(* see them and answer, whatever happens to the completion, unless the     *)
(* connection is already gone.                                             *)
WriteArm ==
    /\ writePc = "arming" /\ phase = "open" /\ ~abandoned
    /\ writePc' = "armed"
    /\ sent' = [o \in Ops |-> IF o \in batch /\ ~eof THEN sent[o] + 1
                                                     ELSE sent[o]]
    /\ \/ eof /\ lastSent' = lastSent
       \/ ~eof /\ \E o \in batch : (\A p \in batch : p <= o) /\ lastSent' = o
    /\ UNCHANGED <<cellVars, coreVars, batch, writeInFlight, kickPosted, drain,
                   posting, readVars, owedVars, rdShut, eof, granted, answered,
                   inbox, histVars>>

(* The staged pointers that the queue still contains.                      *)
StillQueued == batch \cap Queue

(* The cells a losing arm() retires in the completion's place.             *)
ArmedCells == StillQueued

(* arm() lost the race against close(), abandon() or connection_lost():    *)
(* the staged cells are retired here.                                      *)
WriteArmTeardown ==
    /\ writePc = "arming" /\ (phase # "open" \/ abandoned)
    /\ writePc' = "idle" /\ writeInFlight' = FALSE /\ batch' = {}
    /\ Retire(ArmedCells, IF abandoned THEN "dropped" ELSE "canceled")
    /\ finishing' = TRUE
    /\ UNCHANGED <<cmd, path, staged, hasWritten, detached, stopped, coreVars,
                   kickPosted, drain, posting, readVars, losing, rdShut,
                   wireVars, histVars>>

(* arm() threw: kick() clears the latch and reports the connection lost.   *)
WriteArmFails ==
    /\ "memory" \in Faults
    /\ writePc = "arming" /\ phase = "open" /\ ~abandoned
    /\ writePc' = "idle" /\ writeInFlight' = FALSE /\ batch' = {}
    /\ losing' = losing \cup {"memory"}
    /\ UNCHANGED <<cellVars, coreVars, kickPosted, drain, posting, readVars,
                   finishing, rdShut, wireVars, histVars>>

(* Every completion of the armed write drops the latch and its list.       *)
WriteCompletes ==
    /\ writePc = "armed"
    /\ writePc' = "idle" /\ writeInFlight' = FALSE /\ batch' = {}
    /\ UNCHANGED <<path, kickPosted, posting, readVars, rdShut, wireVars,
                   histVars>>

(* Mutant: the completion does not chain the next drain.                   *)
Unchained == drain

ChainKick == drain \cup {"chained"}

(* on_write_done, open: flush notifications, re-assertion of the           *)
(* continuation route, retirement of detached cells, chained kick().  The  *)
(* last waiting cell of the list gets the route: one that this write       *)
(* staged is a wall and ends the list, a new cell at a freed cell's        *)
(* address has that cell's place in it.                                    *)
WriteDone ==
    /\ WriteCompletes
    /\ phase = "open" /\ ~abandoned
    /\ cmd' = [o \in Ops |-> IF o \in StillQueued THEN OnSegmentFlushed(cmd[o])
                                                  ELSE cmd[o]]
    /\ staged' = staged \ StillQueued
    /\ hasWritten' = hasWritten \cup StillQueued
    /\ LET waiting == {o \in StillQueued : AwaitsContinuation(cmd'[o])}
           done    == {o \in StillQueued : /\ o \in detached
                                           /\ ~AwaitsContinuation(cmd'[o])
                                           /\ ~HasSegment(cmd'[o])}
       IN /\ \/ waiting = {} /\ target' = target
             \/ \E o \in waiting : /\ waiting \cap staged # {} => o \in staged
                                  /\ target' = o
          /\ Move(done, "posted")
    /\ drain' = ChainKick
    /\ UNCHANGED <<outcome, detached, stopped, phase, registry, abandoned,
                   byeReceived, owedVars>>

(* on_write_done on an abandoned core (with or without an error) retires   *)
(* silently, on a draining context the staged cells fail.  abandoned_ is   *)
(* loaded before the mutex is taken: abandon() may come between the two.   *)
WriteDoneTeardown ==
    /\ WriteCompletes
    /\ phase # "open" \/ abandoned
    /\ \/ abandoned /\ Retire(StillQueued, "dropped")
       \/ phase # "open" /\ Retire(StillQueued, "canceled")
    /\ finishing' = TRUE
    /\ UNCHANGED <<cmd, staged, hasWritten, detached, stopped, coreVars, drain,
                   losing>>

(* on_write_done with an error: the staged cells are lifted out, then      *)
(* connection_lost(ec) is called, then they fail.                          *)
WriteError ==
    /\ eof /\ ~abandoned
    /\ WriteCompletes
    /\ Move(StillQueued, "held")
    /\ losing' = losing \cup {"write"}
    /\ UNCHANGED <<outcome, cmd, staged, hasWritten, detached, stopped,
                   coreVars, drain, finishing>>

(* abandon() came between the extraction and the load of abandoned_: the   *)
(* lifted cells are dropped and no loss is reported.                       *)
WriteErrorDropped ==
    /\ abandoned /\ "write" \in losing
    /\ Retire({o \in Ops : own[o] = "held"}, "dropped")
    /\ losing' = losing \ {"write"}
    /\ finishing' = TRUE
    /\ UNCHANGED <<cmd, path, staged, hasWritten, detached, stopped, coreVars,
                   writeVars, readVars, rdShut, wireVars, histVars>>

(* connection_lost(ec) has returned: the lifted cells fail.                *)
WriteErrorTail ==
    /\ "write" \notin losing
    /\ \E o \in Ops : own[o] = "held"
    /\ Retire({o \in Ops : own[o] = "held"}, "write")
    /\ finishing' = TRUE
    /\ UNCHANGED <<cmd, path, staged, hasWritten, detached, stopped, coreVars,
                   writeVars, readVars, losing, rdShut, wireVars, histVars>>

-----------------------------------------------------------------------------
(* Teardown.                                                               *)

(* Mutant: staged cells are failed and destroyed too.                      *)
LosableAll == Queue

(* Cells that the write in flight does not reference.                      *)
Losable == {o \in Queue : o \notin staged}

(* connection_lost(ec): every cell that no write references fails.         *)
ConnectionLost(ec) ==
    /\ ec \in losing
    /\ phase # "closed"
    /\ losing' = losing \ {ec}
    /\ phase' = "draining"
    /\ Retire(Losable, ec)
    /\ registry' = {} /\ target' = NoOp
    /\ rdShut' = (rdShut \/ readRunning)
    /\ finishing' = TRUE
    /\ UNCHANGED <<cmd, path, staged, hasWritten, detached, stopped, abandoned,
                   byeReceived, writeVars, readVars, wireVars, histVars>>

(* connection_lost() on a closed context returns.                          *)
ConnectionLostLate(ec) ==
    /\ ec \in losing
    /\ phase = "closed"
    /\ losing' = losing \ {ec}
    /\ UNCHANGED <<cellVars, coreVars, writeVars, readVars, finishing, rdShut,
                   wireVars, histVars>>

(* Mutant: an in-flight write does not hold the descriptor open.           *)
CanCloseReadOnly == phase = "draining" /\ ~readRunning

(* Mutant: an armed read does not hold the descriptor open.                *)
CanCloseWriteOnly == phase = "draining" /\ ~writeInFlight

(* Mutant: the descriptor waits for the queue to empty.                    *)
CanCloseEmpty ==
    phase = "draining" /\ ~readRunning /\ ~writeInFlight /\ Queue = {}

CanClose == phase = "draining" /\ ~readRunning /\ ~writeInFlight

(* The descriptor is closed once both pumps are quiet.                     *)
MaybeFinishClose ==
    /\ finishing
    /\ finishing' = FALSE
    /\ phase' = IF CanClose THEN "closed" ELSE phase
    /\ UNCHANGED <<cellVars, registry, target, abandoned, byeReceived,
                   writeVars, readVars, losing, rdShut, wireVars, histVars>>

(* close(): never-written cells fail now; staged ones are left to the      *)
(* write's completion, written ones to the read side.                      *)
Close ==
    /\ "close" \in Calls /\ ~abandoned
    /\ phase = "open"
    /\ phase' = "draining"
    /\ rdShut' = TRUE
    /\ target' = NoOp
    /\ LET pending == {o \in Queue : ~IsWritten(o) /\ o \notin staged}
       IN  Retire(pending, "canceled") /\ registry' = registry \ pending
    /\ finishing' = TRUE
    /\ UNCHANGED <<cmd, path, staged, hasWritten, detached, stopped, abandoned,
                   byeReceived, writeVars, readVars, losing, wireVars,
                   histVars>>

(* abandon(): the shell is destroyed; every cell no write references is    *)
(* dropped without an invocation.                                          *)
Abandon ==
    /\ "abandon" \in Calls /\ ~abandoned
    /\ phase # "closed"
    /\ phase' = "draining"
    /\ abandoned' = TRUE
    /\ rdShut' = TRUE
    /\ target' = NoOp /\ registry' = {}
    /\ Retire(Losable, "dropped")
    /\ finishing' = TRUE
    /\ UNCHANGED <<cmd, path, staged, hasWritten, detached, stopped,
                   byeReceived, writeVars, readVars, losing, wireVars,
                   histVars>>

-----------------------------------------------------------------------------
(* Read pump.                                                              *)

ReadVarsOnly ==
    UNCHANGED <<cellVars, coreVars, writeVars, rdShut, wireVars, histVars>>

(* The pump winds down: read_running_ drops, maybe_finish_close() is owed. *)
ReadStops ==
    /\ readPc' = "off" /\ readRunning' = FALSE
    /\ finishing' = TRUE
    /\ UNCHANGED losing
    /\ ReadVarsOnly

(* read_receiver on an abandoned or closed core: no dispatch.              *)
ReadQuiet ==
    /\ readPc = "armed"
    /\ inbox # << >> \/ eof \/ rdShut
    /\ abandoned \/ phase = "closed"
    /\ ReadStops

ReadData ==
    /\ readPc = "armed" /\ ~abandoned /\ phase # "closed"
    /\ inbox # << >>
    /\ readPc' = "dispatching"
    /\ UNCHANGED <<readRunning, owedVars>>
    /\ ReadVarsOnly

ReadFails ==
    /\ readPc = "armed" /\ ~abandoned /\ phase # "closed"
    /\ eof \/ rdShut
    /\ readPc' = "error"
    /\ UNCHANGED <<readRunning, owedVars>>
    /\ ReadVarsOnly

(* Mutant: an end of file keeps the empty error code.                      *)
ReadLossUnmapped == IF byeReceived THEN "bye" ELSE "success"

(* Mutant: the recorded BYE is not consulted.                              *)
ReadLossBlind == "eof"

(* A recorded BYE is the reason reported, else the unannounced end.        *)
ReadLoss == IF byeReceived THEN "bye" ELSE "eof"

(* on_read, error or end of file: the pump is marked dead and the cause    *)
(* mapped in one critical section, connection_lost(ec) is called after it. *)
ReadErrorMapped ==
    /\ readPc = "error"
    /\ readPc' = "off" /\ readRunning' = FALSE
    /\ losing' = losing \cup {ReadLoss}
    /\ UNCHANGED finishing
    /\ ReadVarsOnly

(* Dispatch of one complete response.                                      *)
Dispatching(type) ==
    /\ readPc = "dispatching" /\ inbox # << >>
    /\ Head(inbox).type = type
    /\ inbox' = Tail(inbox)
    /\ UNCHANGED <<path, staged, hasWritten, detached, stopped, phase,
                   abandoned, batch, writePc, writeInFlight, kickPosted, drain,
                   readRunning, finishing, rdShut, eof, sent, lastSent, granted,
                   answered, histVars>>

(* A connection-fatal response: connection_lost() is called from dispatch. *)
Fatal == readPc' = "fatal" /\ losing' = losing \cup {"protocol"}

(* Tagged reply of an operation that is not registered: dropped.           *)
DispatchDropped ==
    /\ Dispatching("tagged")
    /\ Head(inbox).op \notin registry
    /\ UNCHANGED <<own, outcome, cmd, registry, target, byeReceived, posting,
                   readPc, losing>>

(* Tagged reply: the cell leaves registry and queue before it completes.   *)
DispatchTagged ==
    /\ Dispatching("tagged")
    /\ LET o == Head(inbox).op
       IN  /\ o \in registry /\ o \in Queue
           /\ registry' = Unregister(o)
           /\ target' = RouteWithout(o)
           /\ Retire({o}, IF o \in stopped THEN "stopped" ELSE "reply")
    /\ UNCHANGED <<cmd, byeReceived, posting, readPc, losing>>

(* The registry names a cell the queue no longer owns.                     *)
DispatchDiverged ==
    /\ Dispatching("tagged")
    /\ LET o == Head(inbox).op
       IN  /\ o \in registry /\ o \notin Queue
           /\ registry' = Unregister(o)
           /\ target' = RouteWithout(o)
    /\ Fatal
    /\ UNCHANGED <<own, outcome, cmd, byeReceived, posting>>

DispatchBye ==
    /\ Dispatching("bye")
    /\ byeReceived' = TRUE
    /\ UNCHANGED <<own, outcome, cmd, registry, target, posting, readPc,
                   losing>>

(* Mutant: the unlocked segment is not followed by a kick.                 *)
Unkicked == posting

KickFromRead == posting \cup {"read"}

(* A continuation request goes to the one registered waiter.               *)
DispatchContinuation ==
    /\ Dispatching("plus")
    /\ target # NoOp
    /\ target' = NoOp
    /\ cmd' = [cmd EXCEPT ![target] = OnContinuation(cmd[target])]
    /\ posting' = KickFromRead
    /\ UNCHANGED <<own, outcome, registry, byeReceived, readPc, losing>>

DispatchUnexpected ==
    /\ \/ Dispatching("plus") /\ target = NoOp
       \/ Dispatching("garbage")
    /\ Fatal
    /\ UNCHANGED <<own, outcome, cmd, registry, target, byeReceived, posting>>

(* on_read after a fatal dispatch, once connection_lost() has returned.    *)
ReadFatalTail ==
    /\ readPc = "fatal" /\ "protocol" \notin losing
    /\ ReadStops

(* The bytes of this read are used up (a partial response stays in the     *)
(* buffer): re-arm while open, else wind down.                             *)
ReadBatchDone ==
    /\ readPc = "dispatching" /\ phase = "open"
    /\ readPc' = "rearm"
    /\ UNCHANGED <<readRunning, owedVars>>
    /\ ReadVarsOnly

ReadBatchDoneClosing ==
    /\ readPc = "dispatching" /\ phase # "open"
    /\ ReadStops

(* arm() decides again under the mutex.                                    *)
ReadArm ==
    /\ readPc = "rearm" /\ phase = "open" /\ ~abandoned
    /\ readPc' = "armed"
    /\ UNCHANGED <<readRunning, owedVars>>
    /\ ReadVarsOnly

(* Teardown won: the pump stops and maybe_finish_close() runs inside the   *)
(* same critical section.                                                  *)
ReadArmTeardown ==
    /\ readPc = "rearm" /\ (phase # "open" \/ abandoned)
    /\ readPc' = "off" /\ readRunning' = FALSE
    /\ phase' = IF phase = "draining" /\ ~writeInFlight THEN "closed" ELSE phase
    /\ UNCHANGED <<cellVars, registry, target, abandoned, byeReceived,
                   writeVars, owedVars, rdShut, wireVars, histVars>>

ReadArmFails ==
    /\ "memory" \in Faults
    /\ readPc = "rearm" /\ phase = "open" /\ ~abandoned
    /\ readPc' = "off" /\ readRunning' = FALSE
    /\ losing' = losing \cup {"memory"}
    /\ UNCHANGED finishing
    /\ ReadVarsOnly

-----------------------------------------------------------------------------
(* The server and the transport (external): an RFC 3501 server that        *)
(* answers what it has received.  Bytes nobody will read are not modelled. *)

ServerSends(r) ==
    /\ ~eof /\ readPc # "off" /\ Len(inbox) < MaxInbox
    /\ inbox' = Append(inbox, r)
    /\ UNCHANGED <<cellVars, coreVars, writeVars, readVars, owedVars, rdShut,
                   eof, sent, lastSent, histVars>>

(* Segments of the complete command as the server counts them.             *)
FullCount(o) == IF cmd[o].kind = "idle" THEN 2 ELSE SegCount(cmd[o].kind)

(* The server holds the command up to a {n} line, a SASL exchange or IDLE. *)
AtWall(o) ==
    /\ cmd[o].kind = "idle" \/ Walled(cmd[o].kind)
    /\ granted[o] < sent[o] /\ granted[o] + 1 < FullCount(o)

ServerContinues(o) ==
    /\ o \notin answered
    /\ \/ AtWall(o)
       \/ /\ "challenge" \in Faults
          /\ cmd[o].kind = "sasl" /\ sent[o] = 2 /\ granted[o] = 1
    /\ granted' = [granted EXCEPT ![o] = @ + 1]
    /\ UNCHANGED answered
    /\ ServerSends([type |-> "plus", op |-> o])

ServerAnswers(o) ==
    /\ o \notin answered
    /\ IF AtWall(o) THEN "refuse" \in Faults ELSE sent[o] = FullCount(o)
    /\ answered' = answered \cup {o}
    /\ UNCHANGED granted
    /\ ServerSends([type |-> "tagged", op |-> o])

ServerBye ==
    /\ "bye" \in Faults /\ ~byeReceived
    /\ \A i \in DOMAIN inbox : inbox[i].type # "bye"
    /\ UNCHANGED <<granted, answered>>
    /\ ServerSends([type |-> "bye", op |-> NoOp])

ServerGarbage ==
    /\ "garbage" \in Faults /\ readPc # "fatal"
    /\ \A i \in DOMAIN inbox : inbox[i].type # "garbage"
    /\ UNCHANGED <<granted, answered>>
    /\ ServerSends([type |-> "garbage", op |-> NoOp])

Hangup ==
    /\ "hangup" \in Faults /\ ~eof
    /\ eof' = TRUE
    /\ UNCHANGED <<cellVars, coreVars, writeVars, readVars, owedVars, rdShut,
                   sent, lastSent, granted, answered, inbox, histVars>>

-----------------------------------------------------------------------------
User ==
    \/ \E o \in Ops, k \in Kinds, p \in Paths :
           Submit(o, k, p) \/ SubmitRejected(o, k, p)
    \/ \E o \in Ops, k \in Kinds : SubmitStopped(o, k)
    \/ Flush
    \/ \E o \in Ops : CancelExtract(o) \/ CancelIdle(o) \/ CancelDetach(o)
    \/ Close
    \/ Abandon

WritePump ==
    \/ \E src \in {"user", "read", "flush"} : PostKick(src) \/ PostKickFails(src)
    \/ KickReceiver
    \/ \E src \in {"posted", "chained"} : Kick(src) \/ KickIdle(src)
    \/ WriteArm \/ WriteArmTeardown \/ WriteArmFails
    \/ WriteDone \/ WriteDoneTeardown
    \/ WriteError \/ WriteErrorDropped \/ WriteErrorTail

ReadPump ==
    \/ ReadQuiet \/ ReadData \/ ReadFails \/ ReadErrorMapped
    \/ DispatchDropped \/ DispatchTagged \/ DispatchDiverged
    \/ DispatchBye \/ DispatchContinuation \/ DispatchUnexpected
    \/ ReadFatalTail \/ ReadBatchDone \/ ReadBatchDoneClosing
    \/ ReadArm \/ ReadArmTeardown \/ ReadArmFails

Teardown ==
    \/ \E ec \in LossType : ConnectionLost(ec) \/ ConnectionLostLate(ec)
    \/ MaybeFinishClose
    \/ \E o \in Ops : CompleteStopped(o)

Server ==
    \/ \E o \in Ops : ServerContinues(o) \/ ServerAnswers(o)
    \/ ServerBye \/ ServerGarbage \/ Hangup

Next == User \/ WritePump \/ ReadPump \/ Teardown \/ Server

Spec == Init /\ [][Next]_vars

-----------------------------------------------------------------------------
(* Fairness: the scheduler runs what was posted, a thread that left a      *)
(* critical section goes on, the kernel completes an armed write and an    *)
(* armed read that has something to report, the server answers what it     *)
(* received.  Dispatch is strongly fair: a response is finitely many       *)
(* bytes, so a read that ends inside one is followed by one that ends it.  *)
Dispatch ==
    \/ DispatchDropped \/ DispatchTagged \/ DispatchDiverged
    \/ DispatchBye \/ DispatchContinuation \/ DispatchUnexpected

ReadSteps ==
    \/ ReadQuiet \/ ReadData \/ ReadFails \/ ReadErrorMapped
    \/ ReadFatalTail \/ ReadBatchDone \/ ReadBatchDoneClosing
    \/ ReadArm \/ ReadArmTeardown

Fairness ==
    /\ \A src \in {"user", "read"} : WF_vars(PostKick(src))
    /\ WF_vars(KickReceiver)
    /\ \A src \in {"posted", "chained"} : WF_vars(Kick(src) \/ KickIdle(src))
    /\ WF_vars(WriteArm \/ WriteArmTeardown)
    /\ WF_vars(WriteDone \/ WriteDoneTeardown \/ WriteError)
    /\ WF_vars(WriteErrorTail)
    /\ WF_vars(ReadSteps)
    /\ SF_vars(Dispatch)
    /\ \A ec \in LossType :
           WF_vars(ConnectionLost(ec) \/ ConnectionLostLate(ec))
    /\ WF_vars(MaybeFinishClose)
    /\ \A o \in Ops : WF_vars(CompleteStopped(o))
    /\ \A o \in Ops : WF_vars(ServerContinues(o) \/ ServerAnswers(o))

FairSpec == Spec /\ Fairness

-----------------------------------------------------------------------------
(* Properties the code keeps.                                              *)

(* The descriptor is never closed while a kernel operation could still     *)
(* reference it: once phase_ is closed neither pump has an operation armed *)
(* or about to be armed, whatever interleaving of close(), abandon(),      *)
(* transport failure and the two pumps led there (maybe_finish_close).     *)
DescriptorQuiet == phase = "closed" => readPc = "off" /\ writePc = "idle"

(* The cells that exist and were not handed to a completion: queued, or in *)
(* the hands of a failed write that has yet to report the loss.            *)
Live == {o \in Ops : own[o] \in {"queued", "held"}}

(* While the context is open the registry and the cells agree: a tag leads *)
(* to a cell that exists and was not detached, so that a tagged reply, a   *)
(* cancel or a broadcast never reaches a destroyed cell; and as long as no *)
(* loss is being reported every queued, not detached operation can be      *)
(* reached by its tag, so that none misses its reply.                      *)
RegistryMatchesCells ==
    phase = "open" => /\ registry \subseteq Live \ detached
                      /\ losing = {} => registry = Queue \ detached

(* A continuation request under way always finds the operation it answers, *)
(* also when it overtakes the completion of the write that asked for it    *)
(* (the route is registered at staging time).  A connection whose loss is  *)
(* being reported is past that promise.                                    *)
ContinuationRouted ==
    phase = "open" /\ losing = {} =>
        \A i \in DOMAIN inbox : inbox[i].type = "plus" => target = inbox[i].op

(* The continuation route never dangles and never names an operation that  *)
(* is not waiting: a cell that leaves the queue takes its route with it.   *)
TargetWaits == target # NoOp => target \in Live /\ Awaits(target)

(* Wire order (RFC 3501 section 5.5): from the first segment of a command  *)
(* to its last, or to the server's refusal, no other command's bytes are   *)
(* written.                                                                *)
WireOrder ==
    \A o \in Ops :
        (/\ cmd[o].kind # "idle" /\ o \notin answered
         /\ 0 < sent[o] /\ sent[o] < FullCount(o)) => lastSent = o

(* After cancel(tag) took effect the server's reply no longer reaches the  *)
(* handler, whether the operation was queued, staged, parked, written or   *)
(* idling at that moment and in whatever order reply and write completion  *)
(* arrive.                                                                 *)
WithdrawnNeverAnswered == \A o \in withdrawn : outcome[o] # "reply"

(* Teardown never takes a cell away from the write that references it:     *)
(* whatever close(), abandon() and connection_lost() do while a write is   *)
(* being armed or in flight, a cell of its list is still queued unless its *)
(* tagged reply or its cancellation completed it.                          *)
StagedOutliveTeardown ==
    \A o \in batch : own[o] = "queued" \/ outcome[o] \in {"reply", "stopped"}

(* A flush notification only reaches an operation whose bytes were in that *)
(* write: the staged list, re-validated against the queue, never names a   *)
(* cell that was not staged.                                               *)
FlushHitsStaged == \A o \in StillQueued : o \in staged

(* An operation never fails with an unannounced end of file once a BYE is  *)
(* recorded: the read side maps the end of the connection to server_bye,   *)
(* also when the BYE and the end of file arrive around a close() or a      *)
(* failing write.                                                          *)
ByeWinsOnRead ==
    [][byeReceived => \A o \in Ops :
          outcome'[o] # outcome[o] => outcome'[o] # "eof"]_vars

(* A drain is under way or will follow, or the connection is being lost.   *)
WakeOwed ==
    \/ posting # {} \/ kickPosted \/ drain # {} \/ writeInFlight
    \/ losing # {}

(* No lost wake-up: while open, an operation that a drain would stage and  *)
(* that has asked for one (the sender path, or a command in the middle of  *)
(* its exchange) has a drain under way: post_kick() may return early on a  *)
(* write in flight only because on_write_done chains the next drain.       *)
NoLostWakeup ==
    phase = "open" =>
        \A o \in StageSet : (path[o] = "sender" \/ o \in hasWritten) => WakeOwed

(* Every operation started through the sender path completes, whatever the *)
(* pipelining order, the walls and the moment the connection is lost.      *)
EveryStartCompletes ==
    \A o \in Ops :
        (own[o] # "none" /\ path[o] = "sender") ~> (outcome[o] # "none")

(* A teardown that has begun ends with the descriptor closed: every path   *)
(* through the pumps, failed allocations included, releases its latch and  *)
(* calls maybe_finish_close().                                             *)
DrainEnds == (phase = "draining") ~> (phase = "closed")

(* The caller's view of an operation, from the cell that carries it.       *)
PromisedResult ==
    [o \in Ops |-> IF own[o] = "none" THEN "unsubmitted"
                   ELSE IF outcome[o] # "none" THEN outcome[o]
                   ELSE IF o \in withdrawn THEN "withdrawn" ELSE "pending"]

Promise == INSTANCE OperationPromise WITH
    Operations <- Ops, Losses <- LossType,
    link <- phase, result <- PromisedResult

(* The context implements what OperationPromise promises the caller: one   *)
(* completion per operation, a reply only before the descriptor is closed  *)
(* and only to an operation that was not withdrawn, errors only once the   *)
(* connection goes down, and one error for all that go down together.      *)
KeepsPromise == Promise!PromiseSpec

-----------------------------------------------------------------------------
(* What the comments and the documentation promise beyond that.  The code  *)
(* does not keep these: see the README for the behaviours.                 *)

(* The non-owning registry in every phase: an entry always names a cell    *)
(* that still exists.                                                      *)
RegistryOwned == registry \subseteq Live

(* architecture.md section 1: nothing is pipelined across SASL or STARTTLS;*)
(* from a pipeline-blocking command to its tagged reply no other command   *)
(* is written.                                                             *)
BarrierExclusive ==
    \A o \in Ops :
        (BlocksPipeline(cmd[o]) /\ 0 < sent[o] /\ o \notin answered)
            => lastSent = o

(* usage.md 3.3: cancel(tag) withdraws the handler; it is never invoked.   *)
WithdrawnNeverInvoked ==
    \A o \in withdrawn : path[o] = "callback" => outcome[o] \notin ValueType

(* cancel(): an operation that never staged a byte is removed, the server  *)
(* never sees the command.                                                 *)
UnsentStaysUnsent == \A o \in withdrawnUnsent : sent[o] = 0

(* usage.md 7.4: from the destruction of the context on every handler is   *)
(* dropped; no step of a pump invokes one any more.                        *)
AbandonSilences ==
    [][abandoned => \A o \in Ops :
          outcome'[o] # outcome[o] => outcome'[o] \notin ValueType]_vars

(* read_pump.h: a recorded BYE is the announced reason for the end of the  *)
(* connection and wins over any transport-level error.                     *)
ByeWins ==
    [][byeReceived => \A o \in Ops :
          outcome'[o] # outcome[o] => outcome'[o] \notin {"eof", "write"}]_vars

(* An IDLE counts DONE as sent only once the DONE line is on the wire.     *)
DoneReachesWire ==
    \A o \in Ops : cmd[o].phase = "done_sent" => sent[o] = 2

(* A closed context has completed everything it was given: no cell is left *)
(* behind in the queue.                                                    *)
ClosedLeavesNothing ==
    phase = "closed" /\ losing = {} => Queue = {}

(* A detached operation is eventually retired by the write pump.           *)
DetachedRetired == \A o \in Ops : (o \in detached) ~> (own[o] = "freed")
=============================================================================
