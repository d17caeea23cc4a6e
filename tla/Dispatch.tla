------------------------------ MODULE Dispatch ------------------------------
(***************************************************************************)
(* How the read pump hands untagged responses out: first to the            *)
(* unsolicited-event table, then -- FETCH, LIST, STATUS, ... data -- to    *)
(* the earliest queued operation that wants the kind, or -- anything else  *)
(* -- to every registered operation (read_pump::dispatch_one).             *)
(*                                                                         *)
(* The commands are single-line ones that pipeline freely; what the pumps  *)
(* and a cancellation do to the queue and the registry is taken from       *)
(* ImapContext, where they are modelled step by step.  The server answers  *)
(* the commands in the order they were written and may push events of its  *)
(* own between any two answers.  A response is delivered in the step that  *)
(* sends it: transit delay is not observable, for what the server sends    *)
(* depends only on what was written before.                                *)
(*                                                                         *)
(* The operations are numbered as they are submitted.  The write queue is  *)
(* appended to and erased from, the pump writes it front to back and the   *)
(* server answers in that order: each is a set of numbers, in their order. *)
(***************************************************************************)
EXTENDS CommandCatalog, UnsolicitedTable, FiniteSets

CONSTANTS
    Ops,         \* the operations, numbered from 1 in submission order
    Programs,    \* the commands (CommandCatalog) they may be
    MaxRows,     \* bound: untagged responses per command
    Pushes,      \* the responses the server may send unasked
    Cancels      \* operations the user may cancel

(* The commands of one line.                                               *)
SimpleCommands ==
    {noop_command, capability_command, raw_command, login_command(FALSE, FALSE),
     create_command, delete_command, rename_command, subscribe_command,
     unsubscribe_command, list_command, status_command, select_command,
     examine_command, close_command, expunge_command, copy_command, move_command,
     store_command, search_command, fetch_command, fetch_envelopes_command,
     fetch_headers_command, fetch_message_command, uid_copy_command,
     uid_move_command, uid_store_command, uid_search_command, uid_fetch_command,
     uid_fetch_envelopes_command, uid_fetch_headers_command,
     uid_fetch_message_command}

ASSUME DispatchAssumption ==
    /\ Ops \subseteq Nat \ {0}
    /\ Programs \subseteq [Ops -> SimpleCommands]
    /\ Cancels \subseteq Ops
    /\ \A r \in Pushes : r.from = 0

VARIABLES
    cmd,          \* operation -> the command it submits
    write_queue,  \* operations that are queued (write_queue_)
    registry,     \* operations the tag registry names
    stage,        \* operation -> new, queued, written, done, withdrawn
    acc,          \* operation -> result under assembly (in the command)
    outcome,      \* operation -> what on_tagged() delivered
    current,      \* the untagged response being dispatched, or Quiet
    server,       \* commands the server has received and not yet answered
    sent          \* operation -> the responses the server answered it with

dispatchVars == <<cmd, write_queue, registry, stage, acc, outcome, current,
                  server, sent>>
vars == <<tableVars, dispatchVars>>

Quiet   == [kind |-> "none", from |-> 0, attrs |-> {}]
Pending == [ec |-> "pending", value |-> None]

Init ==
    /\ TableInit
    /\ cmd \in Programs
    /\ write_queue = {} /\ registry = {}
    /\ stage = [o \in Ops |-> "new"]
    /\ acc = [o \in Ops |-> EmptyResult(cmd[o])]
    /\ outcome = [o \in Ops |-> Pending]
    /\ current = Quiet
    /\ server = {}
    /\ sent = [o \in Ops |-> <<>>]
-----------------------------------------------------------------------------
(* The client side of the queue: enqueue_operation, the pump, cancel.      *)

Submit(o) ==
    /\ stage[o] = "new"
    /\ \A p \in Ops : p < o => stage[p] # "new"
    /\ stage' = [stage EXCEPT ![o] = "queued"]
    /\ write_queue' = write_queue \cup {o}
    /\ registry' = registry \cup {o}
    /\ UNCHANGED <<tableVars, cmd, acc, outcome, current, server, sent>>

(* The pump stages everything that is queued, in queue order.              *)
Unwritten == {o \in write_queue : stage[o] = "queued"}

Write ==
    /\ Unwritten # {}
    /\ stage' = [o \in Ops |-> IF o \in Unwritten THEN "written" ELSE stage[o]]
    /\ server' = server \cup Unwritten
    /\ UNCHANGED <<tableVars, cmd, write_queue, registry, acc, outcome, current, sent>>

(* Mutant: the withdrawn cell stays in the registry.                       *)
CancelRegistered(o) ==
    /\ o \in Cancels
    /\ stage[o] \in {"queued", "written"}
    /\ stage' = [stage EXCEPT ![o] = "withdrawn"]
    /\ write_queue' = write_queue \ {o}
    /\ UNCHANGED <<tableVars, cmd, registry, acc, outcome, current, server, sent>>

(* detach_locked(): without a handshake under way the cell leaves queue    *)
(* and registry, written or not.                                           *)
Cancel(o) ==
    /\ o \in Cancels
    /\ stage[o] \in {"queued", "written"}
    /\ stage' = [stage EXCEPT ![o] = "withdrawn"]
    /\ write_queue' = write_queue \ {o}
    /\ registry' = registry \ {o}
    /\ UNCHANGED <<tableVars, cmd, acc, outcome, current, server, sent>>
-----------------------------------------------------------------------------
(* What the server may answer a command with, by its verb.                 *)

Fetched(c) == IF c.needs = "any" THEN {"FLAGS"} ELSE {c.needs}

Answer(o) ==
    LET c == cmd[o]
        Row(kind, attrs) == [kind |-> kind, from |-> o, attrs |-> attrs]
    IN  CASE c.verb \in {"FETCH", "UID FETCH"} -> {Row("fetch", Fetched(c))}
          [] c.verb \in {"STORE", "UID STORE"} -> {Row("fetch", {"FLAGS"})}
          [] c.verb = "CAPABILITY" -> {Row("capability", {}), Row("ok", {"capability"})}
          [] c.verb \in {"SELECT", "EXAMINE"} ->
               {Row("exists", {}), Row("flags", {}), Row("ok", {"unseen"})}
          [] c.verb \in {"EXPUNGE", "MOVE"} -> {Row("expunge", {})}
          [] c.verb \in {"LIST", "STATUS", "SEARCH", "UID SEARCH"} ->
               {Row(k, {}) : k \in c.wants}
          [] OTHER -> {}

(* make_unsolicited_event(): the kinds the table hears of.                 *)
EventKinds == {"exists", "recent", "expunge", "fetch", "capability", "bye",
               "ok", "preauth"}

(* The table is told first; the response is routed when it has been.       *)
Receive(r) ==
    /\ current = Quiet
    /\ current' = r
    /\ IF r.kind \in EventKinds THEN NotifyBegin ELSE UNCHANGED tableVars
    /\ UNCHANGED <<cmd, write_queue, registry, stage, acc, outcome, server>>

ServerRow ==
    \E o \in First(server) :
        /\ Len(sent[o]) < MaxRows
        /\ \E r \in Answer(o) :
             /\ Receive(r)
             /\ sent' = [sent EXCEPT ![o] = Append(@, r)]

ServerPush ==
    /\ \E r \in Pushes : Receive(r)
    /\ UNCHANGED sent

(* dispatch_one(untagged_response): the queued operations that want it.    *)
Claimants(r) == {o \in write_queue : r.kind \in cmd[o].wants}

(* Mutant: the queue is searched from its end.                             *)
EarliestLatest(r) == {o \in Claimants(r) : \A p \in Claimants(r) : p <= o}

Earliest(r) == First(Claimants(r))

(* Mutant: data is broadcast like any other response.                      *)
ReceiversAll(r) == registry

(* Data goes to the first of them, anything else to every registered one.  *)
Receivers(r) ==
    IF r.kind \in DataKinds THEN Earliest(r) ELSE registry

Route ==
    /\ current # Quiet
    /\ ~Notifying
    /\ acc' = [o \in Ops |-> IF o \in Receivers(current)
                             THEN OnUntagged(cmd[o], acc[o], current)
                             ELSE acc[o]]
    /\ current' = Quiet
    /\ UNCHANGED <<tableVars, cmd, write_queue, registry, stage, outcome, server, sent>>

(* dispatch_one(tagged_response): the registered cell is extracted and     *)
(* completed; an unknown tag is dropped.                                   *)
Tagged(status, code) ==
    /\ current = Quiet
    /\ \E o \in First(server) :
        /\ server' = server \ {o}
        /\ IF o \in registry
           THEN /\ registry' = registry \ {o}
                /\ write_queue' = write_queue \ {o}
                /\ stage' = [stage EXCEPT ![o] = "done"]
                /\ outcome' = [outcome EXCEPT ![o] =
                                 OnTagged(cmd[o], acc[o], status, code, o)]
           ELSE UNCHANGED <<registry, write_queue, stage, outcome>>
    /\ UNCHANGED <<tableVars, cmd, acc, current, sent>>

HandlerStep ==
    /\ \/ AddHandler
       \/ \E i \in Ids : ResetToken(i)
       \/ HandlerCall
       \/ HandlerReturn
    /\ UNCHANGED dispatchVars

Next ==
    \/ \E o \in Ops : Submit(o) \/ Cancel(o)
    \/ Write
    \/ ServerRow \/ ServerPush
    \/ Route
    \/ \E status \in {"ok", "no"} : Tagged(status, "none")
    \/ HandlerStep

Spec == Init /\ [][Next]_vars
-----------------------------------------------------------------------------
TypeOK ==
    /\ TableTypeOK
    /\ write_queue \subseteq Ops /\ server \subseteq Ops
    /\ registry = write_queue
    /\ stage \in [Ops -> {"new", "queued", "written", "done", "withdrawn"}]
    /\ \A o \in Ops : outcome[o].ec # "pending" <=> stage[o] = "done"

Succeeded(o) == stage[o] = "done" /\ outcome[o].ec = "success"

(* The rows of value that answer o are answers, all of them, in order and  *)
(* no more often.                                                          *)
Reports(value, o, answers) ==
    \E at \in [1..Len(answers) -> 1..Len(value)] :
        /\ \A j, k \in 1..Len(answers) : j < k => at[j] < at[k]
        /\ \A k \in 1..Len(answers) : value[at[k]] = answers[k]
        /\ \A i \in 1..Len(value) :
              value[i].from = o => \E k \in 1..Len(answers) : at[k] = i

(* What the result of o must hold of the answers it was sent.              *)
Recorded(o, value, answers) ==
    CASE cmd[o].result = "rows"  -> Reports(value, o, answers)
      [] cmd[o].result = "last"  -> answers # <<>> => value = o
      [] cmd[o].result = "union" -> answers # <<>> => o \in value
      [] OTHER                   -> TRUE

(* Nothing is lost: a command that succeeds reports every data row the     *)
(* server answered it with, in order, whatever was pipelined around it and *)
(* whichever of its neighbours were withdrawn.                             *)
NothingLost ==
    \A o \in Ops : Succeeded(o) => Recorded(o, outcome[o].value, sent[o])

(* No crosstalk: a row another command asked for reaches this one only if  *)
(* that command was withdrawn after it had been written -- never between   *)
(* two commands that both run to their end.                                *)
Foreign(value, o) == {value[i] : i \in {j \in 1..Len(value) : value[j].from # o}}
NoCrosstalk ==
    \A o \in Ops :
        Succeeded(o) /\ cmd[o].result = "rows" =>
            \A r \in Foreign(outcome[o].value, o) :
                \/ r.from = 0
                \/ stage[r.from] = "withdrawn"
                \/ cmd[r.from].wants = {}

(* The honest owner (read_pump.h:336-337: "a completed operation has       *)
(* already left it, so the earliest waiter is the honest owner"): the rows *)
(* a command reports are rows the server sent for it.                      *)
EarliestWaiterOwns ==
    \A o \in Ops :
        Succeeded(o) /\ cmd[o].result = "rows" =>
            \A r \in Foreign(outcome[o].value, o) : r.from = 0 \/ cmd[r.from].wants = {}

(* store_command.h:110-111: the FETCH a STORE is answered with is          *)
(* "tolerated and dropped", so no command reports it as a row of its own.  *)
StoreEchoDropped ==
    \A o \in Ops :
        Succeeded(o) /\ cmd[o].result = "rows" =>
            \A r \in Foreign(outcome[o].value, o) : r.from = 0 \/ cmd[r.from].verb # "STORE"

(* select_command.h:41-44: the snapshot is assembled from the responses    *)
(* of the command in flight.  UNSEEN is the one a server may leave out:    *)
(* then the field stays empty, and is never another mailbox's.             *)
SnapshotOfOneMailbox ==
    \A o \in Ops :
        Succeeded(o) /\ cmd[o].result = "snapshot" =>
            outcome[o].value.unseen \in {o, None}
=============================================================================
