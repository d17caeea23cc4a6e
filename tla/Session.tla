------------------------------ MODULE Session ------------------------------
(***************************************************************************)
(* The session states and their chain                                      *)
(* (include/bkmail/imap/state/*.h, imap_connection.h).  A state object     *)
(* owns the connection; an operation consumes it into a sender, the        *)
(* started sender runs one command, and its completion hands the           *)
(* connection to the successor state.  A stopped operation hands nothing   *)
(* on: the connection is destroyed with it.                                *)
(*                                                                         *)
(* One operation is one step here from reply to completion; what can       *)
(* happen inside is the subject of Layer2 and ImapContext.  The server is  *)
(* the other actor: it has its own idea of the session's state, of the     *)
(* mailbox, and of its capabilities, and pushes changes of the mailbox.    *)
(***************************************************************************)
EXTENDS CommandCatalog

CONSTANTS
    Methods,       \* the operations the user calls, of SessionMethods
    MaxMessages,   \* bound: messages in the mailbox
    MaxOps,        \* bound: operations of a session
    Advertised,    \* transport -> capabilities the server lists over it
    PushInGap,     \* server pushes between idle() and the start of its sender
    CloseRefused,  \* server answers CLOSE with NO
    SeveralWorkers, \* several threads run the io_context
    DetainFails    \* detaining the connection may fail to allocate

ASSUME SessionAssumption ==
    /\ MaxMessages \in Nat /\ MaxOps \in Nat
    /\ PushInGap \in BOOLEAN /\ CloseRefused \in BOOLEAN
    /\ SeveralWorkers \in BOOLEAN /\ DetainFails \in BOOLEAN
    /\ DOMAIN Advertised = {"plain", "tls"}

VARIABLES
    state,       \* the state object the user holds: one of States, or "none"
    op,          \* the operation that owns the connection, or NoOp
    stage,       \* of op: sender, running, rows (SELECT data sent), handshake, probe
    view,        \* mailbox_ / snapshot_ [exists, recent]
    hook,        \* pushes reach the view
    caps,        \* capabilities_ of the connection
    conn,        \* the connection: held, detained, destroyed
    dispatching, \* the read dispatch that completed a LOGOUT has not unwound
    transport,   \* plain, tls
    alive,       \* the transport works
    server,      \* the session state on the server
    mailbox,     \* the server's selected mailbox [exists, recent]
    count        \* operations so far

sessionVars == <<state, op, stage, view, hook, caps, conn, dispatching, transport,
                 alive, server, mailbox, count>>

States == {"not_authenticated", "authenticated", "selected", "logout"}
Counts == [exists : 0..MaxMessages, recent : 0..MaxMessages]
NoView == [exists |-> 0, recent |-> 0]
-----------------------------------------------------------------------------
(* The operations: the state they are called on, their command, the        *)
(* successor on success and on failure, the capability they are gated by.  *)
Method(from, cmd, onValue, onError, gate) ==
    [from |-> from, cmd |-> cmd, onValue |-> onValue, onError |-> onError,
     gate |-> gate]

same_state_op(from, cmd)   == Method(from, cmd, from, from, "none")
auth_branches(cmd)         == Method("not_authenticated", cmd, "authenticated",
                                     "not_authenticated", "none")
(* Mutant: a refused SELECT is taken for one that succeeded.               *)
select_always(cmd)         == Method("authenticated", cmd, "selected",
                                     "selected", "none")

select_branches(cmd)       == Method("authenticated", cmd, "selected",
                                     "authenticated", "none")
(* Whatever the reply.                                                     *)
close_successor            == Method("selected", close_command, "authenticated",
                                     "authenticated", "none")
logout_successor(from)     == Method(from, logout_command, "logout", "logout", "none")
gated_op(cmd, capability)  == [same_state_op("selected", cmd) EXCEPT !.gate = capability]

not_authenticated_state ==
    {auth_branches(c) : c \in {login_command(FALSE, FALSE), login_command(TRUE, FALSE),
                               authenticate_command(FALSE)}}
    \cup {same_state_op("not_authenticated", c) :
            c \in {starttls_command, capability_command, noop_command}}
    \cup {logout_successor("not_authenticated")}

authenticated_state ==
    {select_branches(c) : c \in {select_command, examine_command}}
    \cup {same_state_op("authenticated", c) :
            c \in {list_command, status_command, create_command, delete_command,
                   rename_command, subscribe_command, unsubscribe_command,
                   append_command(FALSE), capability_command, noop_command}}
    \cup {logout_successor("authenticated")}

selected_state ==
    {same_state_op("selected", c) :
        c \in {fetch_command, fetch_envelopes_command, fetch_headers_command,
               fetch_message_command, search_command, store_command, copy_command,
               expunge_command, uid_fetch_command, uid_fetch_envelopes_command,
               uid_fetch_headers_command, uid_fetch_message_command,
               uid_search_command, uid_store_command, uid_copy_command,
               capability_command, noop_command}}
    \cup {gated_op(c, "MOVE") : c \in {move_command, uid_move_command}}
    \cup {gated_op(idle_command, "IDLE"), close_successor, logout_successor("selected")}

SessionMethods == not_authenticated_state \cup authenticated_state \cup selected_state
ASSUME MethodsAssumption == Methods \subseteq SessionMethods

NoOp == same_state_op("none", noop_command)
Verb == op.cmd.verb
Is(verb) == op # NoOp /\ Verb = verb
-----------------------------------------------------------------------------
(* connect: a greeted session with its first capability probe.             *)
Init ==
    /\ state \in {"not_authenticated", "authenticated"}
    /\ server = state
    /\ op = NoOp /\ stage = "sender"
    /\ view = NoView /\ hook = FALSE
    /\ transport = "plain" /\ caps = Advertised["plain"]
    /\ conn = "held" /\ dispatching = FALSE /\ alive = TRUE
    /\ mailbox = NoView
    /\ count = 0

(* A && operation: the state object is consumed.  idle() retires the hook  *)
(* of the state and hands the view on; the others take the hook along, or  *)
(* drop it with the view.                                                  *)
KeepsView(m) == m.from = "selected" /\ m.onValue = "selected"

Call(m) ==
    /\ m.from = state
    /\ op = NoOp /\ conn = "held"
    /\ count < MaxOps
    /\ op' = m /\ stage' = "sender"
    /\ state' = "none"
    /\ count' = count + 1
    /\ hook' = (hook /\ KeepsView(m) /\ m.cmd.verb # "IDLE")
    /\ UNCHANGED <<view, caps, conn, dispatching, transport, alive, server, mailbox>>

(* Mutant: the logout state does not detain the connection.                *)
BecomeHolding(successor, newView) ==
    /\ state' = successor
    /\ op' = NoOp /\ stage' = "sender"
    /\ view' = IF successor = "selected" THEN newView ELSE NoView
    /\ hook' = (successor = "selected")
    /\ UNCHANGED <<conn, dispatching>>

(* The completion: complete_with() and the successor's constructor, which  *)
(* for the selected state registers the hook.  detain_connection() closes  *)
(* and posts the end of a LOGOUT's connection; when the post cannot be     *)
(* allocated the connection ends there, inside the dispatch.               *)
Become(successor, newView) ==
    /\ state' = successor
    /\ op' = NoOp /\ stage' = "sender"
    /\ view' = IF successor = "selected" THEN newView ELSE NoView
    /\ hook' = (successor = "selected")
    /\ IF successor = "logout"
       THEN /\ conn' = "detained" \/ (DetainFails /\ conn' = "destroyed")
            /\ dispatching' = TRUE
       ELSE UNCHANGED <<conn, dispatching>>

(* Mutant: the idle operation registers no handler of its own.             *)
StartUnhooked ==
    /\ op # NoOp /\ stage = "sender"
    /\ IF op.gate # "none" /\ op.gate \notin caps
       THEN Become(op.onError, view)
       ELSE stage' = "running" /\ UNCHANGED <<state, op, view, hook, conn, dispatching>>
    /\ UNCHANGED <<caps, transport, alive, server, mailbox, count>>

(* start(): the gate fails without touching the wire.                      *)
Start ==
    /\ op # NoOp /\ stage = "sender"
    /\ IF op.gate # "none" /\ op.gate \notin caps
       THEN Become(op.onError, view)
       ELSE /\ stage' = "running"
            /\ hook' = (hook \/ Verb = "IDLE")
            /\ UNCHANGED <<state, op, view, conn, dispatching>>
    /\ UNCHANGED <<caps, transport, alive, server, mailbox, count>>

(* set_stopped() carries no state: the connection goes with the operation. *)
Stop ==
    /\ op # NoOp
    /\ op' = NoOp /\ stage' = "sender"
    /\ state' = "none"
    /\ conn' = "destroyed"
    /\ hook' = FALSE /\ view' = NoView
    /\ UNCHANGED <<caps, dispatching, transport, alive, server, mailbox, count>>
-----------------------------------------------------------------------------
(* The server answers.                                                     *)

InFlight(st) == op # NoOp /\ stage = st /\ alive
Fails == Become(op.onError, view)

(* Commands whose reply changes nothing but the session's state.  A FETCH, *)
(* a LIST and so on differ in their result only (Dispatch).                *)
Special == {"SELECT", "EXAMINE", "STARTTLS", "CAPABILITY"}
ServerAfter ==
    CASE Verb \in {"LOGIN", "AUTHENTICATE", "CLOSE"} -> "authenticated"
      [] Verb = "LOGOUT"                             -> "logout"
      [] OTHER                                       -> server

ReplyOk ==
    /\ InFlight("running")
    /\ Verb \notin Special
    /\ server' = ServerAfter
    /\ Become(op.onValue, view)
    /\ UNCHANGED <<caps, transport, alive, mailbox, count>>

ReplyNo ==
    /\ InFlight("running") \/ InFlight("rows")
    /\ Verb = "CLOSE" => CloseRefused
    /\ Fails
    /\ UNCHANGED <<caps, transport, alive, server, mailbox, count>>

(* SELECT: the mailbox's data, then the tagged OK.  The command assembles  *)
(* the snapshot the selected state is built with.                          *)
SelectRows(m) ==
    /\ InFlight("running")
    /\ Verb \in {"SELECT", "EXAMINE"}
    /\ mailbox' = m
    /\ view' = m
    /\ stage' = "rows"
    /\ UNCHANGED <<state, op, hook, caps, conn, dispatching, transport, alive, server,
                   count>>

SelectOk ==
    /\ InFlight("rows")
    /\ server' = "selected"
    /\ Become(op.onValue, view)
    /\ UNCHANGED <<caps, transport, alive, mailbox, count>>

(* capability_successor: the cache is replaced by a successful answer.     *)
CapabilityOk ==
    /\ InFlight("running")
    /\ Verb = "CAPABILITY"
    /\ caps' = Advertised[transport]
    /\ Become(op.onValue, view)
    /\ UNCHANGED <<transport, alive, server, mailbox, count>>

(* STARTTLS: upgrade_to_tls_stream, handshake, emplace_tls_context -- dead *)
(* stream or not -- and the new probe.                                     *)
StartTlsOk ==
    /\ InFlight("running")
    /\ Verb = "STARTTLS"
    /\ stage' = "handshake"
    /\ UNCHANGED <<state, op, view, hook, caps, conn, dispatching, transport, alive,
                   server, mailbox, count>>

(* Mutant: the capabilities are carried over the upgrade.                  *)
emplace_keeping_caps == transport' = "tls" /\ UNCHANGED caps

emplace_tls_context ==
    /\ transport' = "tls"
    /\ caps' = {}

Handshake(ok) ==
    /\ InFlight("handshake")
    /\ emplace_tls_context
    /\ alive' = ok
    /\ IF ok
       THEN stage' = "probe" /\ UNCHANGED <<state, op, view, hook, conn, dispatching>>
       ELSE Fails
    /\ UNCHANGED <<server, mailbox, count>>

ProbeReply(ok) ==
    /\ InFlight("probe")
    /\ caps' = IF ok THEN Advertised[transport] ELSE caps
    /\ Become(op.onValue, view)
    /\ UNCHANGED <<transport, alive, server, mailbox, count>>

(* The connection dies: what is in flight fails, and what is started later *)
(* fails on its first use.                                                 *)
Lost ==
    /\ alive
    /\ conn = "held"
    /\ alive' = FALSE
    /\ UNCHANGED <<state, op, stage, view, hook, caps, conn, dispatching, transport,
                   server, mailbox, count>>

FailDead ==
    /\ op # NoOp /\ stage # "sender" /\ ~alive
    /\ Fails
    /\ UNCHANGED <<caps, transport, alive, server, mailbox, count>>
-----------------------------------------------------------------------------
(* The mailbox changes.  A push is dispatched in the step that sends it:   *)
(* to the view, through the hook of the state, of the operation that       *)
(* carries it, or of the SELECT that assembles it.  An EXISTS or EXPUNGE   *)
(* that reaches an IDLE wakes it.                                          *)
Reaches == hook \/ (op # NoOp /\ stage = "rows")

(* What the server reports: the mailbox afterwards.                        *)
Happens(event, n) ==
    CASE event = "exists"  -> [mailbox EXCEPT !.exists = n]
      [] event = "recent"  -> [mailbox EXCEPT !.recent = n]
      [] event = "expunge" -> [mailbox EXCEPT !.exists = @ - 1]

(* Mutant: an EXPUNGE is applied by the state's handler and the operation's*)
ApplyTwice(v, event, n) ==
    CASE event = "exists"  -> [v EXCEPT !.exists = n]
      [] event = "recent"  -> [v EXCEPT !.recent = n]
      [] event = "expunge" -> [v EXCEPT !.exists = @ - 2]

(* The hook's handler (and the idle operation's, which is the same).       *)
Apply(v, event, n) ==
    CASE event = "exists"  -> [v EXCEPT !.exists = n]
      [] event = "recent"  -> [v EXCEPT !.recent = n]
      [] event = "expunge" -> [v EXCEPT !.exists = IF @ > 0 THEN @ - 1 ELSE @]

Push(event, n) ==
    /\ alive /\ conn = "held"
    /\ server = "selected" \/ (op # NoOp /\ stage = "rows")
    /\ Is("IDLE") /\ stage = "sender" => PushInGap
    /\ CASE event = "exists"  -> n > mailbox.exists
         [] event = "recent"  -> n <= mailbox.exists /\ n # mailbox.recent
         [] event = "expunge" -> server = "selected" /\ mailbox.exists > 0 /\ n = 1
    /\ mailbox' = Happens(event, n)
    /\ LET seen == IF Reaches THEN Apply(view, event, n) ELSE view
       IN  IF Is("IDLE") /\ stage = "running" /\ event # "recent"
           THEN Become(op.onValue, seen)
           ELSE view' = seen /\ UNCHANGED <<state, op, stage, hook, conn, dispatching>>
    /\ UNCHANGED <<caps, transport, alive, server, count>>

(* The 29-minute heartbeat.                                                *)
Heartbeat ==
    /\ Is("IDLE") /\ stage = "running"
    /\ Become(op.onValue, view)
    /\ UNCHANGED <<caps, transport, alive, server, mailbox, count>>
-----------------------------------------------------------------------------
(* After a LOGOUT: the dispatch returns, the posted teardown runs -- with  *)
(* one worker in that order.                                               *)
Unwind ==
    /\ dispatching
    /\ dispatching' = FALSE
    /\ UNCHANGED <<state, op, stage, view, hook, caps, conn, transport, alive, server,
                   mailbox, count>>

RunDetained ==
    /\ conn = "detained"
    /\ SeveralWorkers \/ ~dispatching
    /\ conn' = "destroyed"
    /\ UNCHANGED <<state, op, stage, view, hook, caps, dispatching, transport, alive,
                   server, mailbox, count>>

Next ==
    \/ \E m \in Methods : Call(m)
    \/ Start \/ Stop
    \/ ReplyOk \/ ReplyNo
    \/ \E m \in Counts : SelectRows(m)
    \/ SelectOk \/ CapabilityOk \/ StartTlsOk
    \/ \E ok \in BOOLEAN : Handshake(ok) \/ ProbeReply(ok)
    \/ Lost \/ FailDead
    \/ \E event \in NumberKinds, n \in 0..MaxMessages : Push(event, n)
    \/ Heartbeat
    \/ Unwind \/ RunDetained

Spec == Init /\ [][Next]_sessionVars
(* The io_context keeps running: the dispatch unwinds, posted tasks run.   *)
FairSpec == Spec /\ WF_sessionVars(Unwind) /\ WF_sessionVars(RunDetained)
-----------------------------------------------------------------------------
SessionTypeOK ==
    /\ state \in States \cup {"none"} /\ server \in States
    /\ op \in SessionMethods \cup {NoOp}
    /\ stage \in {"sender", "running", "rows", "handshake", "probe"}
    /\ view \in Counts /\ mailbox \in Counts
    /\ conn \in {"held", "detained", "destroyed"}
    /\ transport \in {"plain", "tls"}

AtRest == op = NoOp /\ alive /\ conn = "held"

(* The state object the user holds names the state the server is in,       *)
(* whatever succeeded, failed, was gated or timed out on the way there.    *)
StatesAgree == AtRest => state = server

(* selected.h:84-86: mailbox() "always reflects the server's last-known    *)
(* view": no push that races an operation, its start or its completion is  *)
(* lost or applied twice.                                                  *)
ViewCurrent == AtRest /\ state = "selected" => view = mailbox

(* A gated command reaches the wire only if the server listed the          *)
(* extension over the transport in use: what it listed in plaintext does   *)
(* not outlive the TLS upgrade (RFC 3501 section 6.2.1), even when the new *)
(* probe failed.                                                           *)
GateHonest ==
    op # NoOp /\ stage # "sender" /\ op.gate # "none" => op.gate \in Advertised[transport]

(* imap_connection.h:279-281: a LOGOUT completes inside the read dispatch, *)
(* and "destroying a context there is unsafe".                             *)
NotUnderDispatch == ~(dispatching /\ conn = "destroyed")

(* After LOGOUT the connection does not linger: it is destroyed, by the    *)
(* posted task or at once where that could not be allocated.               *)
LogoutReleases == (state = "logout") ~> (conn = "destroyed")
=============================================================================
