--------------------------- MODULE SessionProofs ---------------------------
(***************************************************************************)
(* Proofs about Session: who owns the connection, where each operation     *)
(* leads, and what the client's idea of the session (its state, its view   *)
(* of the mailbox, its capabilities) has to do with the server's.          *)
(*                                                                         *)
(* Inv is inductive for every choice of the constants.  AgreeInv needs     *)
(* that the server accepts CLOSE: close_successor moves to authenticated   *)
(* whatever the reply was.  ViewInv needs that no push falls between       *)
(* idle() and the start of its sender: the state's hook is retired in the  *)
(* first and the watcher's registered in the second.                       *)
(***************************************************************************)
EXTENDS Session, TLAPS

(* What the tables of methods say: each verb's successors, which verbs are *)
(* gated, and that only a SELECT enters the selected state.                *)
MovesState(m) ==
    /\ m.from \in {"not_authenticated", "authenticated", "selected"}
    /\ m.onValue \in States /\ m.onError \in States
    /\ m.cmd.verb \in {"LOGIN", "AUTHENTICATE"} =>
          m.onValue = "authenticated" /\ m.onError = m.from
    /\ m.cmd.verb = "LOGOUT" => m.onValue = "logout" /\ m.onError = "logout"
    /\ m.cmd.verb = "CLOSE" => m.onValue = "authenticated"
    /\ m.cmd.verb \in {"SELECT", "EXAMINE"} =>
          m.onValue = "selected" /\ m.onError = m.from
    /\ m.cmd.verb \notin {"LOGIN", "AUTHENTICATE", "LOGOUT", "CLOSE", "SELECT",
                           "EXAMINE"} =>
          m.onValue = m.from /\ m.onError = m.from
    /\ m.gate # "none" => m.cmd.verb \in {"MOVE", "UID MOVE", "IDLE"}
    /\ m.cmd.verb = "IDLE" => m.from = "selected"
    /\ m.onError = "selected" => m.from = "selected" /\ m.onValue = "selected"
    /\ m.onValue = "selected" =>
          m.from = "selected" \/ m.cmd.verb \in {"SELECT", "EXAMINE"}

(* Either the user holds a state object or an operation owns the           *)
(* connection, never both; the stages past "running" belong to the verbs   *)
(* that have them.                                                         *)
OwnerInv ==
    /\ op # NoOp => state = "none" /\ conn = "held"
    /\ op # NoOp => MovesState(op)
    /\ op = NoOp /\ conn = "held" =>
          state \in {"not_authenticated", "authenticated", "selected"}
    /\ op # NoOp /\ stage = "rows" => Verb \in {"SELECT", "EXAMINE"}
    /\ op # NoOp /\ stage \in {"handshake", "probe"} => Verb = "STARTTLS"

(* While the transport works, the server is in the state the operation in  *)
(* flight was called on.                                                   *)
AgreeInv ==
    /\ StatesAgree
    /\ op # NoOp /\ alive => server = op.from

(* The view is the mailbox between operations and through every operation  *)
(* that keeps it, because all that time the pushes reach it.               *)
ViewInv ==
    /\ op = NoOp /\ state = "selected" => hook
    /\ op # NoOp /\ KeepsView(op) /\ ~(Verb = "IDLE" /\ stage = "sender") => hook
    /\ op = NoOp /\ alive /\ conn = "held" /\ state = "selected" => view = mailbox
    /\ op # NoOp /\ alive /\ (KeepsView(op) \/ stage = "rows") => view = mailbox

(* The cached capabilities are of the transport in use.                    *)
GateInv ==
    /\ caps \subseteq Advertised[transport]
    /\ GateHonest

Inv == SessionTypeOK /\ OwnerInv /\ GateInv
-----------------------------------------------------------------------------
(* The verb of every command struct.                                       *)
LEMMA Verbs ==
    /\ noop_command.verb = "NOOP" /\ logout_command.verb = "LOGOUT"
    /\ starttls_command.verb = "STARTTLS" /\ idle_command.verb = "IDLE"
    /\ capability_command.verb = "CAPABILITY" /\ create_command.verb = "CREATE"
    /\ delete_command.verb = "DELETE" /\ rename_command.verb = "RENAME"
    /\ subscribe_command.verb = "SUBSCRIBE"
    /\ unsubscribe_command.verb = "UNSUBSCRIBE" /\ list_command.verb = "LIST"
    /\ status_command.verb = "STATUS" /\ select_command.verb = "SELECT"
    /\ examine_command.verb = "EXAMINE" /\ close_command.verb = "CLOSE"
    /\ expunge_command.verb = "EXPUNGE" /\ copy_command.verb = "COPY"
    /\ move_command.verb = "MOVE" /\ store_command.verb = "STORE"
    /\ search_command.verb = "SEARCH" /\ fetch_command.verb = "FETCH"
    /\ fetch_envelopes_command.verb = "FETCH" /\ fetch_headers_command.verb = "FETCH"
    /\ fetch_message_command.verb = "FETCH" /\ uid_copy_command.verb = "UID COPY"
    /\ uid_move_command.verb = "UID MOVE" /\ uid_store_command.verb = "UID STORE"
    /\ uid_search_command.verb = "UID SEARCH" /\ uid_fetch_command.verb = "UID FETCH"
    /\ uid_fetch_envelopes_command.verb = "UID FETCH"
    /\ uid_fetch_headers_command.verb = "UID FETCH"
    /\ uid_fetch_message_command.verb = "UID FETCH"
    /\ \A a, b \in BOOLEAN : login_command(a, b).verb = "LOGIN"
    /\ \A a \in BOOLEAN : authenticate_command(a).verb = "AUTHENTICATE"
    /\ \A a \in BOOLEAN : append_command(a).verb = "APPEND"
BY DEF Plain, Data, login_command, authenticate_command, append_command, noop_command,
       logout_command, starttls_command, idle_command, capability_command,
       create_command, delete_command, rename_command, subscribe_command,
       unsubscribe_command, list_command, status_command, select_command,
       examine_command, close_command, expunge_command, copy_command, move_command,
       store_command, search_command, fetch_command, fetch_envelopes_command,
       fetch_headers_command, fetch_message_command, uid_copy_command,
       uid_move_command, uid_store_command, uid_search_command, uid_fetch_command,
       uid_fetch_envelopes_command, uid_fetch_headers_command,
       uid_fetch_message_command

(* An operation that stays in its state follows the table.                 *)
LEMMA SameStateMoves ==
    ASSUME NEW from \in {"not_authenticated", "authenticated", "selected"}, NEW c,
           c.verb \notin {"LOGIN", "AUTHENTICATE", "LOGOUT", "CLOSE", "SELECT",
                          "EXAMINE", "IDLE"}
    PROVE  MovesState(same_state_op(from, c))
BY DEF MovesState, States, Method, same_state_op

(* Every method of the three state classes follows the table.              *)
LEMMA MethodFacts ==
    ASSUME NEW m \in SessionMethods
    PROVE  MovesState(m) /\ m # NoOp
<1>0. NoOp.from = "none" /\ (MovesState(m) => m.from # "none")
  BY DEF NoOp, same_state_op, Method, MovesState
<1>1. CASE m \in not_authenticated_state
  <2>1. ASSUME NEW c \in {login_command(FALSE, FALSE), login_command(TRUE, FALSE),
                          authenticate_command(FALSE)}, m = auth_branches(c)
        PROVE  MovesState(m)
    <3>1. c.verb \in {"LOGIN", "AUTHENTICATE"}
      BY Verbs
    <3> QED BY <2>1, <3>1 DEF auth_branches, MovesState, States, Method
  <2>2. ASSUME NEW c \in {starttls_command, capability_command, noop_command},
               m = same_state_op("not_authenticated", c)
        PROVE  MovesState(m)
    <3>1. c.verb \in {"STARTTLS", "CAPABILITY", "NOOP"}
      BY Verbs
    <3> QED BY <2>2, <3>1, SameStateMoves
  <2>3. ASSUME m = logout_successor("not_authenticated") PROVE MovesState(m)
    BY <2>3, Verbs DEF logout_successor, MovesState, States, Method
  <2> QED BY <1>0, <1>1, <2>1, <2>2, <2>3 DEF not_authenticated_state
<1>2. CASE m \in authenticated_state
  <2>1. ASSUME NEW c \in {select_command, examine_command}, m = select_branches(c)
        PROVE  MovesState(m)
    <3>1. c.verb \in {"SELECT", "EXAMINE"}
      BY Verbs
    <3> QED BY <2>1, <3>1 DEF select_branches, MovesState, States, Method
  <2>2. ASSUME NEW c \in {list_command, status_command, create_command, delete_command,
                   rename_command, subscribe_command, unsubscribe_command,
                   append_command(FALSE), capability_command, noop_command},
               m = same_state_op("authenticated", c)
        PROVE  MovesState(m)
    <3>1. c.verb \in {"LIST", "STATUS", "CREATE", "DELETE", "RENAME", "SUBSCRIBE",
                      "UNSUBSCRIBE", "APPEND", "CAPABILITY", "NOOP"}
      BY Verbs, ZenonT(30)
    <3> QED BY <2>2, <3>1, SameStateMoves
  <2>3. ASSUME m = logout_successor("authenticated") PROVE MovesState(m)
    BY <2>3, Verbs DEF logout_successor, MovesState, States, Method
  <2> QED BY <1>0, <1>2, <2>1, <2>2, <2>3 DEF authenticated_state
<1>3. CASE m \in selected_state
  <2>1. ASSUME NEW c \in {fetch_command, fetch_envelopes_command, fetch_headers_command,
               fetch_message_command, search_command, store_command, copy_command,
               expunge_command, uid_fetch_command, uid_fetch_envelopes_command,
               uid_fetch_headers_command, uid_fetch_message_command,
               uid_search_command, uid_store_command, uid_copy_command,
               capability_command, noop_command},
               m = same_state_op("selected", c)
        PROVE  MovesState(m)
    <3>1. c.verb \in {"FETCH", "SEARCH", "STORE", "COPY", "EXPUNGE", "UID FETCH",
                      "UID SEARCH", "UID STORE", "UID COPY", "CAPABILITY", "NOOP"}
      BY Verbs, ZenonT(30)
    <3> QED BY <2>1, <3>1, SameStateMoves
  <2>2. ASSUME NEW c \in {move_command, uid_move_command}, m = gated_op(c, "MOVE")
        PROVE  MovesState(m)
    <3>1. c.verb \in {"MOVE", "UID MOVE"}
      BY Verbs
    <3>2. m = Method("selected", c, "selected", "selected", "MOVE")
      BY <2>2 DEF gated_op, same_state_op, Method
    <3> QED BY <3>1, <3>2 DEF MovesState, States, Method
  <2>3. ASSUME m = gated_op(idle_command, "IDLE") PROVE MovesState(m)
    BY <2>3, Verbs DEF gated_op, same_state_op, MovesState, States, Method
  <2>4. ASSUME m = close_successor PROVE MovesState(m)
    BY <2>4, Verbs DEF close_successor, MovesState, States, Method
  <2>5. ASSUME m = logout_successor("selected") PROVE MovesState(m)
    BY <2>5, Verbs DEF logout_successor, MovesState, States, Method
  <2> QED BY <1>0, <1>3, <2>1, <2>2, <2>3, <2>4, <2>5 DEF selected_state
<1> QED BY <1>1, <1>2, <1>3 DEF SessionMethods
-----------------------------------------------------------------------------
(* The hook's update of a current view is what happened to the mailbox,    *)
(* and both keep the counts in range.                                      *)
LEMMA PushFacts ==
    ASSUME MaxMessages \in Nat, view \in Counts, mailbox \in Counts,
           NEW event \in NumberKinds, NEW n \in 0..MaxMessages,
           event = "expunge" => mailbox.exists > 0
    PROVE  /\ Apply(view, event, n) \in Counts /\ Happens(event, n) \in Counts
           /\ view = mailbox => Apply(view, event, n) = Happens(event, n)
<1>1. CASE event = "exists"
  BY <1>1 DEF Apply, Happens, Counts
<1>2. CASE event = "recent"
  BY <1>2 DEF Apply, Happens, Counts
<1>3. CASE event = "expunge"
  BY <1>3 DEF Apply, Happens, Counts
<1> QED BY <1>1, <1>2, <1>3 DEF NumberKinds

(* The view of a state that has none is a view.                            *)
LEMMA NoViewType == NoView \in Counts
BY SessionAssumption DEF NoView, Counts

(* complete_with() ends the operation; only the logout state lets go of    *)
(* the connection, only the selected state registers the hook.             *)
LEMMA BecomeKeeps ==
    ASSUME SessionTypeOK, NEW s \in States, NEW v \in Counts, Become(s, v)
    PROVE  /\ op' = NoOp /\ stage' = "sender" /\ state' = s
           /\ view' \in Counts
           /\ conn' \in {"held", "detained", "destroyed"}
           /\ conn' = conn \/ s = "logout"
           /\ s = "logout" => conn' \in {"detained", "destroyed"}
           /\ s = "selected" => view' = v /\ hook' = TRUE
BY NoViewType DEF Become, SessionTypeOK

(* Every step of the session keeps Inv.                                    *)
LEMMA SessionInductive == Inv /\ [Next]_sessionVars => Inv'
<1> SUFFICES ASSUME Inv, [Next]_sessionVars PROVE Inv'
  OBVIOUS
<1> USE SessionAssumption, MethodsAssumption
    DEF Inv, SessionTypeOK, OwnerInv, GateInv, GateHonest, MovesState, Verb, InFlight
<1>b. ASSUME op # NoOp, NEW s \in {op.onValue, op.onError}, NEW v \in Counts,
             Become(s, v),
             transport' \in {"plain", "tls"}, caps' \subseteq Advertised[transport'],
             server' \in States, mailbox' \in Counts
      PROVE  Inv'
  <2>1. s \in States
    BY <1>b
  <2> HIDE DEF MovesState, GateHonest
  <2> QED BY <1>b, <2>1, BecomeKeeps DEF States, GateHonest
<1>1. ASSUME NEW m \in Methods, Call(m) PROVE Inv'
  BY <1>1, MethodFacts DEF Call
<1>2. ASSUME Start PROVE Inv'
  <2>1. CASE op.gate # "none" /\ op.gate \notin caps
    BY <1>2, <1>b, <2>1 DEF Start
  <2>2. CASE ~(op.gate # "none" /\ op.gate \notin caps)
    BY <1>2, <2>2 DEF Start
  <2> QED BY <2>1, <2>2
<1>3. ASSUME Stop PROVE Inv'
  BY <1>3, NoViewType DEF Stop
<1>4. ASSUME ReplyOk PROVE Inv'
  <2>1. ServerAfter \in States
    BY <1>4 DEF ServerAfter, States
  <2> QED BY <1>4, <1>b, <2>1 DEF ReplyOk
<1>5. ASSUME ReplyNo \/ FailDead \/ Heartbeat PROVE Inv'
  BY <1>5, <1>b DEF ReplyNo, FailDead, Heartbeat, Fails, Is
<1>6. ASSUME NEW m \in Counts, SelectRows(m) PROVE Inv'
  BY <1>6 DEF SelectRows
<1>7. ASSUME SelectOk PROVE Inv'
  BY <1>7, <1>b DEF SelectOk, States
<1>8. ASSUME CapabilityOk PROVE Inv'
  BY <1>8, <1>b DEF CapabilityOk
<1>9. ASSUME StartTlsOk PROVE Inv'
  BY <1>9 DEF StartTlsOk
<1>10. ASSUME NEW ok \in BOOLEAN, Handshake(ok) PROVE Inv'
  <2>1. CASE ok
    BY <1>10, <2>1 DEF Handshake, emplace_tls_context
  <2>2. CASE ~ok
    BY <1>10, <1>b, <2>2 DEF Handshake, emplace_tls_context, Fails
  <2> QED BY <2>1, <2>2
<1>11. ASSUME NEW ok \in BOOLEAN, ProbeReply(ok) PROVE Inv'
  BY <1>11, <1>b DEF ProbeReply
<1>12. ASSUME Lost \/ Unwind \/ RunDetained PROVE Inv'
  <2>1. CASE Lost
    BY <2>1 DEF Lost
  <2>2. CASE Unwind
    BY <2>2 DEF Unwind
  <2>3. CASE RunDetained
    BY <2>3 DEF RunDetained
  <2> QED BY <1>12, <2>1, <2>2, <2>3
<1>13. ASSUME NEW event \in NumberKinds, NEW n \in 0..MaxMessages, Push(event, n)
       PROVE  Inv'
  <2>1. event = "expunge" => mailbox.exists > 0
    BY <1>13 DEF Push, NumberKinds
  <2> DEFINE seen == IF Reaches THEN Apply(view, event, n) ELSE view
  <2>2. seen \in Counts /\ mailbox' \in Counts
    BY <1>13, <2>1, PushFacts DEF Push
  <2>3. CASE Is("IDLE") /\ stage = "running" /\ event # "recent"
    BY <1>13, <1>b, <2>2, <2>3 DEF Push, Is
  <2>4. CASE ~(Is("IDLE") /\ stage = "running" /\ event # "recent")
    BY <1>13, <2>2, <2>4 DEF Push
  <2> QED BY <2>3, <2>4
<1>14. ASSUME UNCHANGED sessionVars PROVE Inv'
  BY <1>14 DEF sessionVars
<1> QED BY <1>1, <1>2, <1>3, <1>4, <1>5, <1>6, <1>7, <1>8, <1>9, <1>10, <1>11,
           <1>12, <1>13, <1>14
        DEF Next

(* Ownership, the table and the capabilities hold throughout.              *)
LEMMA InvHolds == Spec => []Inv
<1>1. Init => Inv
  BY SessionAssumption, NoViewType
  DEF Init, Inv, SessionTypeOK, OwnerInv, GateInv, GateHonest, States
<1> QED BY <1>1, SessionInductive, PTL DEF Spec

-----------------------------------------------------------------------------
(* Every variable keeps its type whatever the user calls and the server    *)
(* answers; the counts of the view never leave their range, an EXPUNGE of  *)
(* an empty view included.                                                 *)
THEOREM SessionTypeHolds == Spec => []SessionTypeOK
<1>1. Inv => SessionTypeOK
  BY DEF Inv
<1> QED BY <1>1, InvHolds, PTL

(* A gated operation that runs was advertised over the transport in use:   *)
(* no capability cached before STARTTLS opens the gate after it.           *)
THEOREM GateHonestHolds == Spec => []GateHonest
<1>1. Inv => GateHonest
  BY DEF Inv, GateInv
<1> QED BY <1>1, InvHolds, PTL

(* The state object the user holds is the state the server is in, as long  *)
(* as the server does not refuse CLOSE.                                    *)
THEOREM StatesAgreeHolds == ASSUME ~CloseRefused PROVE Spec => []StatesAgree
<1>1. Init => AgreeInv
  BY DEF Init, AgreeInv, StatesAgree
<1>2. Inv /\ Inv' /\ AgreeInv /\ [Next]_sessionVars => AgreeInv'
  <2> SUFFICES ASSUME Inv, Inv', AgreeInv, [Next]_sessionVars PROVE AgreeInv'
    OBVIOUS
  <2> USE DEF Inv, OwnerInv, AgreeInv, StatesAgree, AtRest, MovesState, Verb, InFlight
  <2>b. ASSUME op # NoOp, NEW s, NEW v, Become(s, v),
               alive' /\ s # "logout" => s = server'
        PROVE  AgreeInv'
    BY <2>b DEF Become
  <2>1. ASSUME NEW m \in Methods, Call(m) PROVE AgreeInv'
    BY <2>1 DEF Call
  <2>2. ASSUME Start PROVE AgreeInv'
    <3>1. CASE op.gate # "none" /\ op.gate \notin caps
      BY <2>2, <2>b, <3>1 DEF Start
    <3>2. CASE ~(op.gate # "none" /\ op.gate \notin caps)
      BY <2>2, <3>2 DEF Start
    <3> QED BY <3>1, <3>2
  <2>3. ASSUME Stop PROVE AgreeInv'
    BY <2>3 DEF Stop
  <2>4. ASSUME ReplyOk PROVE AgreeInv'
    BY <2>4, <2>b DEF ReplyOk, ServerAfter, Special
  <2>5. ASSUME ReplyNo PROVE AgreeInv'
    BY <2>5, <2>b DEF ReplyNo, Fails
  <2>6. ASSUME FailDead PROVE AgreeInv'
    BY <2>6, <2>b DEF FailDead, Fails
  <2>7. ASSUME Heartbeat PROVE AgreeInv'
    BY <2>7, <2>b DEF Heartbeat, Is
  <2>8. ASSUME NEW m \in Counts, SelectRows(m) PROVE AgreeInv'
    BY <2>8 DEF SelectRows
  <2>9. ASSUME SelectOk PROVE AgreeInv'
    BY <2>9, <2>b DEF SelectOk
  <2>10. ASSUME CapabilityOk PROVE AgreeInv'
    BY <2>10, <2>b DEF CapabilityOk
  <2>11. ASSUME StartTlsOk PROVE AgreeInv'
    BY <2>11 DEF StartTlsOk
  <2>16. ASSUME Lost PROVE AgreeInv'
    BY <2>16 DEF Lost
  <2>17. ASSUME Unwind PROVE AgreeInv'
    BY <2>17 DEF Unwind
  <2>18. ASSUME RunDetained PROVE AgreeInv'
    BY <2>18 DEF RunDetained
  <2>12. ASSUME NEW ok \in BOOLEAN, Handshake(ok) PROVE AgreeInv'
    <3>1. CASE ok
      BY <2>12, <3>1 DEF Handshake
    <3>2. CASE ~ok
      BY <2>12, <2>b, <3>2 DEF Handshake, Fails
    <3> QED BY <3>1, <3>2
  <2>13. ASSUME NEW ok \in BOOLEAN, ProbeReply(ok) PROVE AgreeInv'
    BY <2>13, <2>b DEF ProbeReply
  <2>14. ASSUME NEW event \in NumberKinds, NEW n \in 0..MaxMessages, Push(event, n)
         PROVE  AgreeInv'
    <3>1. CASE Is("IDLE") /\ stage = "running" /\ event # "recent"
      BY <2>14, <2>b, <3>1 DEF Push, Is
    <3>2. CASE ~(Is("IDLE") /\ stage = "running" /\ event # "recent")
      BY <2>14, <3>2 DEF Push
    <3> QED BY <3>1, <3>2
  <2>15. ASSUME UNCHANGED sessionVars PROVE AgreeInv'
    BY <2>15 DEF sessionVars
  <2> QED BY <2>1, <2>2, <2>3, <2>4, <2>5, <2>6, <2>7, <2>8, <2>9, <2>10, <2>11,
             <2>12, <2>13, <2>14, <2>15, <2>16, <2>17, <2>18
          DEF Next
<1>3. AgreeInv => StatesAgree
  BY DEF AgreeInv
<1> QED BY <1>1, <1>2, <1>3, InvHolds, PTL DEF Spec

(* The view of a selected state is the server's mailbox: no push is missed *)
(* or applied twice over the hand-overs of the view between operations, as *)
(* long as none falls between idle() and its start.                        *)
THEOREM ViewCurrentHolds == ASSUME ~PushInGap PROVE Spec => []ViewCurrent
<1>1. Init => ViewInv
  BY DEF Init, ViewInv
<1>2. Inv /\ Inv' /\ ViewInv /\ [Next]_sessionVars => ViewInv'
  <2> SUFFICES ASSUME Inv, Inv', ViewInv, [Next]_sessionVars PROVE ViewInv'
    OBVIOUS
  <2> USE DEF Inv, OwnerInv, ViewInv, MovesState, Verb, InFlight, KeepsView
  <2>b. ASSUME op # NoOp, NEW s, NEW v, Become(s, v),
               alive' /\ s = "selected" => v = mailbox'
        PROVE  ViewInv'
    BY <2>b DEF Become
  <2>1. ASSUME NEW m \in Methods, Call(m) PROVE ViewInv'
    BY <2>1 DEF Call
  <2>2. ASSUME Start PROVE ViewInv'
    <3>1. CASE op.gate # "none" /\ op.gate \notin caps
      BY <2>2, <2>b, <3>1 DEF Start
    <3>2. CASE ~(op.gate # "none" /\ op.gate \notin caps)
      BY <2>2, <3>2 DEF Start
    <3> QED BY <3>1, <3>2
  <2>3. ASSUME Stop PROVE ViewInv'
    BY <2>3 DEF Stop
  <2>4. ASSUME ReplyOk PROVE ViewInv'
    BY <2>4, <2>b DEF ReplyOk, Special
  <2>5. ASSUME ReplyNo PROVE ViewInv'
    BY <2>5, <2>b DEF ReplyNo, Fails
  <2>6. ASSUME FailDead PROVE ViewInv'
    BY <2>6, <2>b DEF FailDead, Fails
  <2>7. ASSUME Heartbeat PROVE ViewInv'
    BY <2>7, <2>b DEF Heartbeat, Is
  <2>8. ASSUME NEW m \in Counts, SelectRows(m) PROVE ViewInv'
    BY <2>8 DEF SelectRows
  <2>9. ASSUME SelectOk PROVE ViewInv'
    BY <2>9, <2>b DEF SelectOk
  <2>10. ASSUME CapabilityOk PROVE ViewInv'
    BY <2>10, <2>b DEF CapabilityOk
  <2>11. ASSUME StartTlsOk PROVE ViewInv'
    BY <2>11 DEF StartTlsOk
  <2>16. ASSUME Lost PROVE ViewInv'
    BY <2>16 DEF Lost
  <2>17. ASSUME Unwind PROVE ViewInv'
    BY <2>17 DEF Unwind
  <2>18. ASSUME RunDetained PROVE ViewInv'
    BY <2>18 DEF RunDetained
  <2>12. ASSUME NEW ok \in BOOLEAN, Handshake(ok) PROVE ViewInv'
    <3>1. CASE ok
      BY <2>12, <3>1 DEF Handshake
    <3>2. CASE ~ok
      BY <2>12, <2>b, <3>2 DEF Handshake, Fails
    <3> QED BY <3>1, <3>2
  <2>13. ASSUME NEW ok \in BOOLEAN, ProbeReply(ok) PROVE ViewInv'
    BY <2>13, <2>b DEF ProbeReply
  <2>14. ASSUME NEW event \in NumberKinds, NEW n \in 0..MaxMessages, Push(event, n)
         PROVE  ViewInv'
    <3> DEFINE seen == IF Reaches THEN Apply(view, event, n) ELSE view
    <3>0. /\ event = "expunge" => mailbox.exists > 0
          /\ alive /\ conn = "held" /\ mailbox' = Happens(event, n)
      BY <2>14 DEF Push, NumberKinds
    <3>1. view = mailbox /\ Reaches => seen = mailbox'
      BY <3>0, PushFacts, SessionAssumption DEF SessionTypeOK
    <3> HIDE DEF seen
    <3>2. CASE Is("IDLE") /\ stage = "running" /\ event # "recent"
      BY <2>14, <2>b, <3>1, <3>2 DEF Push, Is, Reaches, seen
    <3>3. CASE ~(Is("IDLE") /\ stage = "running" /\ event # "recent")
      <4>1. view' = seen /\ UNCHANGED <<state, op, stage, hook, conn, alive>>
        BY <2>14, <3>3 DEF Push, seen
      <4>2. Is("IDLE") => stage # "sender"
        BY <2>14 DEF Push
      <4> QED BY <3>0, <3>1, <4>1, <4>2 DEF Reaches, Is
    <3> QED BY <3>2, <3>3
  <2>15. ASSUME UNCHANGED sessionVars PROVE ViewInv'
    BY <2>15 DEF sessionVars
  <2> QED BY <2>1, <2>2, <2>3, <2>4, <2>5, <2>6, <2>7, <2>8, <2>9, <2>10, <2>11,
             <2>12, <2>13, <2>14, <2>15, <2>16, <2>17, <2>18
          DEF Next
<1>3. ViewInv => ViewCurrent
  BY DEF ViewInv, ViewCurrent, AtRest
<1> QED BY <1>1, <1>2, <1>3, InvHolds, PTL DEF Spec
=============================================================================
