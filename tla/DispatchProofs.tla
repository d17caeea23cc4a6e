--------------------------- MODULE DispatchProofs ---------------------------
(***************************************************************************)
(* Proofs about Dispatch: the table of handlers tells every live handler   *)
(* of every event, and the read pump hands every response to the command   *)
(* it answers.                                                             *)
(*                                                                         *)
(* The argument about the commands rests on one fact: the operation the    *)
(* server is answering, unless it was withdrawn, is the first of the write *)
(* queue (FirstInQueue, from OrderInv), so "the earliest that wants it"    *)
(* names it (AnswerReaches).  SentInv ties the response under way to that  *)
(* operation, RecordInv what an operation was sent to what it assembled.   *)
(***************************************************************************)
EXTENDS Dispatch, TLAPS

(* The events after b, up to e.                                            *)
Since(b, e) == [k \in 1..(e - b) |-> b + k]

(* The table of handlers: a live token's entry is active, an active one is *)
(* in the table, and nothing in the table was disposed.                    *)
TableInv ==
    /\ token \subseteq active /\ active \subseteq entries
    /\ entries \cap freed = {}
    /\ \A i \in entries \cup freed \cup snapshot : i < next_id
    /\ snapshot # {} => events > 0

(* A live handler has heard of every event since its registration, except  *)
(* for the one it is still to be called with.                              *)
UpToDate(i) ==
    /\ i >= next_id => heard[i] = <<>>
    /\ i \in token =>
         /\ born[i] <= events
         /\ i \in snapshot => born[i] < events
         /\ heard[i] = Since(born[i], IF i \in snapshot THEN events - 1 ELSE events)
HeardInv == \A i \in Ids : UpToDate(i)

(* What notify() has still to call, or is calling, is in the table.        *)
SnapshotInv == snapshot \subseteq entries /\ running \in entries \cup {0}

(* Every response the server may send.                                     *)
FetchNeeds == {"any", "ENVELOPE", "BODY[HEADER.FIELDS", "BODY[]"}
Attributes == FetchNeeds \cup {"FLAGS", "capability", "unseen"}
AnyRow == Pushes \cup [kind : UntaggedKinds, from : Ops, attrs : SUBSET Attributes]

(* The stages agree with the queue and with the server, and go in the      *)
(* order of the numbers: what is new comes after what was submitted, what  *)
(* is queued after what the server has.                                    *)
OrderInv ==
    /\ cmd \in [Ops -> SimpleCommands]
    /\ outcome = [o \in Ops |-> outcome[o]]
    /\ write_queue = {o \in Ops : stage[o] \in {"queued", "written"}}
    /\ \A o \in server : stage[o] \in {"written", "withdrawn"}
    /\ \A o \in Ops : stage[o] = "written" => o \in server
    /\ \A o, p \in Ops : stage[o] # "new" /\ stage[p] = "new" => o < p
    /\ \A o \in server, p \in Ops : stage[p] = "queued" => o < p

(* The server answers its first command: what was sent was sent to that    *)
(* one or to an earlier one, and the response under way is the last of it. *)
SentInv ==
    /\ sent \in [Ops -> Seq(AnyRow)]
    /\ \A o \in Ops : stage[o] \in {"new", "queued"} => sent[o] = <<>>
    /\ \A o \in Ops : sent[o] # <<>> => \A p \in server : o <= p
    /\ \A o, p \in Ops : sent[o] # <<>> /\ stage[p] = "queued" => o < p
    /\ \/ current = Quiet
       \/ current \in Pushes
       \/ \E o \in First(server) :
            /\ current \in Answer(o)
            /\ sent[o] # <<>> /\ sent[o][Len(sent[o])] = current

(* What o was sent and has been routed.                                    *)
Routed(o) == IF current.from = o THEN SubSeq(sent[o], 1, Len(sent[o]) - 1) ELSE sent[o]

(* The rows under assembly are responses.                                  *)
RowsType ==
    /\ acc = [o \in Ops |-> acc[o]]
    /\ \A o \in Ops : cmd[o].result = "rows" => acc[o] \in Seq(AnyRow)

(* What was delivered is what was assembled, and still is.                 *)
DoneInv ==
    \A o \in Ops : Succeeded(o) /\ cmd[o].result \in {"rows", "last", "union"} =>
        outcome[o].value = acc[o]

(* What is assembled holds what was routed so far.                         *)
RecordInv == \A o \in Ops : stage[o] # "withdrawn" => Recorded(o, acc[o], Routed(o))

(* A foreign row was pushed, or its owner was withdrawn or wants no data.  *)
ForeignInv ==
    \A o \in Ops : cmd[o].result = "rows" =>
        \A i \in 1..Len(acc[o]) :
            LET p == acc[o][i].from IN
            p \in {0, o} \/ (p \in Ops /\ (stage[p] = "withdrawn" \/ cmd[p].wants = {}))
-----------------------------------------------------------------------------
(* What Append does, element by element.                                   *)
LEMMA Appended ==
    ASSUME NEW S, NEW s \in Seq(S), NEW e \in S
    PROVE  /\ Append(s, e) \in Seq(S) /\ Len(Append(s, e)) = Len(s) + 1
           /\ Append(s, e)[Len(s) + 1] = e /\ Append(s, e) # <<>>
           /\ \A i \in 1..Len(s) : Append(s, e)[i] = s[i]
           /\ SubSeq(Append(s, e), 1, Len(s)) = s
  OBVIOUS

(* Hearing of one more event.                                              *)
LEMMA SinceNext ==
    ASSUME NEW b \in Nat, NEW e \in Nat, b <= e
    PROVE  Append(Since(b, e), e + 1) = Since(b, e + 1)
<1> DEFINE s == Since(b, e)
           t == Since(b, e + 1)
           n == e - b
<1>1. n \in Nat /\ e + 1 - b = n + 1 /\ b + (n + 1) = e + 1
  OBVIOUS
<1>2. s \in Seq(Nat) /\ Len(s) = n /\ \A k \in 1..n : s[k] = b + k
  BY DEF Since
<1>3. t \in Seq(Nat) /\ Len(t) = n + 1 /\ \A k \in 1..(n + 1) : t[k] = b + k
  BY <1>1 DEF Since
<1> HIDE DEF s, t, n
<1>4. /\ Append(s, e + 1) \in Seq(Nat) /\ Len(Append(s, e + 1)) = n + 1
      /\ Append(s, e + 1)[n + 1] = e + 1
      /\ \A k \in 1..n : Append(s, e + 1)[k] = s[k]
  BY <1>2, Appended
<1>5. ASSUME NEW k \in 1..(n + 1) PROVE Append(s, e + 1)[k] = t[k]
  <2>1. CASE k \in 1..n
    BY <1>2, <1>3, <1>4, <2>1
  <2>2. CASE k = n + 1
    BY <1>1, <1>3, <1>4, <2>2
  <2>3. k \in 1..n \/ k = n + 1
    BY <1>1
  <2> QED BY <2>1, <2>2, <2>3, Zenon
<1>6. Append(s, e + 1) = t
  BY <1>3, <1>4, <1>5
<1> QED BY <1>6 DEF s, t

(* Every step of the table, and of the pump, keeps its invariants.         *)
LEMMA TableInductive ==
    TableTypeOK /\ TableInv /\ HeardInv /\ [Next]_vars =>
        (TableTypeOK /\ TableInv /\ HeardInv)'
<1> SUFFICES ASSUME TableTypeOK, TableInv, HeardInv, [Next]_vars
             PROVE  (TableTypeOK /\ TableInv /\ HeardInv)'
  OBVIOUS
<1> USE TableAssumption DEF TableTypeOK, TableInv, Ids
<1>1. ASSUME UNCHANGED tableVars PROVE (TableTypeOK /\ TableInv /\ HeardInv)'
  BY <1>1 DEF tableVars, HeardInv, UpToDate
<1>2. ASSUME AddHandler PROVE (TableTypeOK /\ TableInv /\ HeardInv)'
  <2>0. /\ next_id \in 1..MaxEntries
        /\ entries' = (entries \cap active) \cup {next_id}
        /\ freed' = freed \cup (entries \ (entries \cap active))
        /\ active' = active \cup {next_id} /\ token' = token \cup {next_id}
        /\ born' = [born EXCEPT ![next_id] = events]
        /\ next_id' = next_id + 1
        /\ UNCHANGED <<snapshot, running, events, heard>>
    BY <1>2 DEF AddHandler, Compacted
  <2>1. TableTypeOK'
    BY <2>0
  <2>2. TableInv'
    BY <2>0
  <2>3. ASSUME NEW i \in Ids, i # next_id PROVE UpToDate(i)'
    <3>1. UpToDate(i) /\ born'[i] = born[i] /\ (i \in token' <=> i \in token)
      BY <2>0, <2>3 DEF HeardInv
    <3>2. i >= next_id' => i >= next_id
      BY <2>0
    <3> QED BY <2>0, <3>1, <3>2 DEF UpToDate
  <2>4. ASSUME NEW i \in Ids, i = next_id PROVE UpToDate(i)'
    <3>1. /\ born'[i] = events /\ events \in Nat /\ i \notin snapshot
          /\ heard' = heard /\ events' = events /\ snapshot' = snapshot
      BY <2>0, <2>4
    <3>2. heard[i] = <<>>
      BY <2>0, <2>4 DEF HeardInv, UpToDate
    <3>3. Since(events, events) = <<>>
      BY <3>1 DEF Since
    <3> QED BY <2>0, <2>4, <3>1, <3>2, <3>3 DEF UpToDate
  <2> QED BY <2>1, <2>2, <2>3, <2>4 DEF HeardInv
<1>3. ASSUME NEW j \in Ids, ResetToken(j) PROVE (TableTypeOK /\ TableInv /\ HeardInv)'
  <2>0. /\ token' = token \ {j} /\ active' = active \ {j}
        /\ UNCHANGED <<entries, freed, next_id, snapshot, running, events, born, heard>>
    BY <1>3 DEF ResetToken
  <2>1. TableTypeOK' /\ TableInv'
    BY <2>0
  <2>2. HeardInv'
    BY <2>0 DEF HeardInv, UpToDate
  <2> QED BY <2>1, <2>2
<1>4. ASSUME NotifyBegin PROVE (TableTypeOK /\ TableInv /\ HeardInv)'
  <2>1. /\ snapshot = {} /\ snapshot' = entries \cap active /\ events' = events + 1
        /\ events < MaxEvents
        /\ UNCHANGED <<entries, active, freed, token, next_id, running, born, heard>>
    BY <1>4 DEF NotifyBegin, Notifying, ActiveEntries
  <2>2. TableTypeOK' /\ TableInv'
    BY <2>1
  <2>3. HeardInv'
    BY <2>1 DEF HeardInv, UpToDate
  <2> QED BY <2>2, <2>3
<1>5. ASSUME HandlerCall PROVE (TableTypeOK /\ TableInv /\ HeardInv)'
  <2>1. PICK i \in snapshot : /\ running' = i /\ snapshot' = snapshot \ {i}
                              /\ heard' = [heard EXCEPT ![i] = Append(@, events)]
    BY <1>5 DEF HandlerCall, First
  <2>2. UNCHANGED <<entries, active, freed, token, next_id, events, born>>
    BY <1>5 DEF HandlerCall
  <2>3. events \in 1..MaxEvents /\ i \in 1..MaxEntries /\ heard[i] \in Seq(1..MaxEvents)
    OBVIOUS
  <2>4. heard' \in [Ids -> Seq(1..MaxEvents)]
    BY <2>1, <2>3
  <2>5. TableTypeOK' /\ TableInv'
    BY <2>1, <2>2, <2>3, <2>4
  <2>6. i \in token => heard'[i] = Since(born[i], events)
    <3> HAVE i \in token
    <3>1. born[i] \in Nat /\ events - 1 \in Nat /\ born[i] <= events - 1
      BY <2>3 DEF HeardInv, UpToDate
    <3>2. heard[i] = Since(born[i], events - 1)
      BY <2>3 DEF HeardInv, UpToDate
    <3>3. Append(Since(born[i], events - 1), (events - 1) + 1)
            = Since(born[i], (events - 1) + 1)
      BY <3>1, SinceNext
    <3>4. (events - 1) + 1 = events
      BY <2>3
    <3>5. heard'[i] = Append(heard[i], events)
      BY <2>1, <2>3
    <3> QED BY <3>2, <3>3, <3>4, <3>5
  <2>7. ASSUME NEW j \in Ids, j # i
        PROVE  heard'[j] = heard[j] /\ (j \in snapshot' <=> j \in snapshot)
    BY <2>1, <2>7
  <2>8. i < next_id
    OBVIOUS
  <2>9. HeardInv'
    <3>1. ASSUME NEW j \in Ids, j # i PROVE UpToDate(j)'
      BY <2>2, <2>7, <3>1 DEF HeardInv, UpToDate
    <3>2. i \in token => born[i] <= events
      BY <2>3 DEF HeardInv, UpToDate
    <3>3. i \notin snapshot'
      BY <2>1
    <3>4. UpToDate(i)'
      BY <2>2, <2>3, <2>6, <2>8, <3>2, <3>3 DEF UpToDate
    <3> QED BY <3>1, <3>4 DEF HeardInv
  <2> QED BY <2>5, <2>9
<1>6. ASSUME HandlerReturn PROVE (TableTypeOK /\ TableInv /\ HeardInv)'
  BY <1>6 DEF HandlerReturn, HeardInv, UpToDate
<1> HIDE DEF TableTypeOK, TableInv
<1>7. CASE HandlerStep
  BY <1>7, <1>2, <1>3, <1>5, <1>6 DEF HandlerStep
<1>8. CASE ServerRow \/ ServerPush
  BY <1>8, <1>1, <1>4 DEF ServerRow, ServerPush, Receive
<1> QED BY <1>1, <1>7, <1>8 DEF Next, vars, Submit, Cancel, Write, Route, Tagged

(* The table's invariants hold in every state.                             *)
LEMMA TableHolds == Spec => [](TableTypeOK /\ TableInv /\ HeardInv)
<1>1. Init => TableTypeOK /\ TableInv /\ HeardInv
  <2> SUFFICES ASSUME Init PROVE TableTypeOK /\ TableInv /\ HeardInv
    OBVIOUS
  <2>1. TableTypeOK /\ TableInv
    BY TableAssumption DEF Init, TableInit, TableTypeOK, TableInv, Ids
  <2>2. HeardInv
    BY DEF Init, TableInit, HeardInv, UpToDate
  <2> QED BY <2>1, <2>2
<1> QED BY <1>1, TableInductive, PTL DEF Spec

(* compact_locked() never takes the entry of a live token, whatever        *)
(* registers, resets and is called in between.                             *)
THEOREM TokenKeepsEntryHolds == Spec => []TokenKeepsEntry
<1>1. TableInv => TokenKeepsEntry
  BY DEF TableInv, TokenKeepsEntry
<1> QED BY <1>1, TableHolds, PTL

(* notify() calls every handler whose token is alive, once for each event  *)
(* since its registration and in order.                                    *)
THEOREM NoEventMissedHolds == Spec => []NoEventMissed
<1>1. TableTypeOK /\ HeardInv => NoEventMissed
  BY DEF TableTypeOK, HeardInv, UpToDate, NoEventMissed, Notifying, Since
<1> QED BY <1>1, TableHolds, PTL

(* An entry that notify() copied is not disposed before it was called, as  *)
(* long as no handler registers another: add() sweeps inactive entries     *)
(* without regard to a dispatch that points to them.                       *)
THEOREM SnapshotValidHolds == ASSUME ~AddsInHandler PROVE Spec => []SnapshotValid
<1>1. Init => SnapshotInv
  BY DEF Init, TableInit, SnapshotInv
<1>2. SnapshotInv /\ [Next]_vars => SnapshotInv'
  <2> SUFFICES ASSUME SnapshotInv, [Next]_vars PROVE SnapshotInv'
    OBVIOUS
  <2> USE DEF SnapshotInv
  <2>1. ASSUME UNCHANGED tableVars PROVE SnapshotInv'
    BY <2>1 DEF tableVars
  <2>2. ASSUME AddHandler PROVE SnapshotInv'
    BY <2>2 DEF AddHandler, Notifying
  <2>3. ASSUME NEW j \in Ids, ResetToken(j) PROVE SnapshotInv'
    BY <2>3 DEF ResetToken
  <2>4. ASSUME NotifyBegin PROVE SnapshotInv'
    BY <2>4 DEF NotifyBegin, ActiveEntries
  <2>5. ASSUME HandlerCall PROVE SnapshotInv'
    BY <2>5 DEF HandlerCall, First
  <2>6. ASSUME HandlerReturn PROVE SnapshotInv'
    BY <2>6 DEF HandlerReturn
  <2>7. CASE HandlerStep
    BY <2>7, <2>2, <2>3, <2>5, <2>6 DEF HandlerStep
  <2>8. CASE ServerRow \/ ServerPush
    BY <2>8, <2>1, <2>4 DEF ServerRow, ServerPush, Receive
  <2> QED BY <2>1, <2>7, <2>8 DEF Next, vars, Submit, Cancel, Write, Route, Tagged
<1>3. SnapshotInv /\ TableInv => SnapshotValid
  BY DEF SnapshotInv, TableInv, SnapshotValid
<1> QED BY <1>1, <1>2, <1>3, TableHolds, PTL DEF Spec
-----------------------------------------------------------------------------
(* How the commands of one line collect data: none, the rows of a kind,    *)
(* the last of a kind, or a union; SELECT and EXAMINE assemble a snapshot. *)
Shape(c) ==
    /\ c.needs \in FetchNeeds
    /\ \/ c.wants = {} /\ c.absorbs = {} /\ c.result \in {"void", "raw"}
         /\ c.verb \notin {"FETCH", "UID FETCH", "CAPABILITY", "SELECT", "EXAMINE"}
       \/ /\ c.wants = {"fetch"} /\ c.absorbs = {"fetch"} /\ c.result = "rows"
          /\ c.verb \in {"FETCH", "UID FETCH"}
       \/ /\ c.wants \in {{"list"}, {"search"}} /\ c.absorbs = c.wants
          /\ c.result = "rows" /\ c.verb \in {"LIST", "SEARCH", "UID SEARCH"}
       \/ /\ c.wants = {"status"} /\ c.absorbs = {"status"} /\ c.result = "last"
          /\ c.verb = "STATUS"
       \/ /\ c.wants = {"capability"} /\ c.absorbs = {"capability", "ok"}
          /\ c.result = "union" /\ c.verb = "CAPABILITY"
       \/ /\ c.wants = {"flags"} /\ c.result = "snapshot"
          /\ c.verb \in {"SELECT", "EXAMINE"}

(* Every command of one line is of one of these shapes.                    *)
LEMMA CommandShape == \A c \in SimpleCommands : Shape(c)
<1> USE DEF Shape, Plain, Data, FetchNeeds
<1>1. Shape(noop_command) /\ Shape(raw_command) /\ Shape(login_command(FALSE, FALSE))
  BY DEF noop_command, raw_command, login_command
<1>2. /\ Shape(create_command) /\ Shape(delete_command) /\ Shape(rename_command)
      /\ Shape(subscribe_command) /\ Shape(unsubscribe_command)
  BY DEF create_command, delete_command, rename_command, subscribe_command,
         unsubscribe_command
<1>3. /\ Shape(close_command) /\ Shape(expunge_command) /\ Shape(copy_command)
      /\ Shape(move_command) /\ Shape(store_command)
  BY DEF close_command, expunge_command, copy_command, move_command, store_command
<1>4. Shape(uid_copy_command) /\ Shape(uid_move_command) /\ Shape(uid_store_command)
  BY DEF copy_command, move_command, store_command, uid_copy_command,
         uid_move_command, uid_store_command
<1>5. Shape(list_command) /\ Shape(search_command) /\ Shape(uid_search_command)
  BY DEF list_command, search_command, uid_search_command
<1>6. Shape(status_command) /\ Shape(capability_command)
  BY DEF status_command, capability_command
<1>7. Shape(select_command) /\ Shape(examine_command)
  BY DEF select_command, examine_command
<1>8. /\ Shape(fetch_command) /\ Shape(fetch_envelopes_command)
      /\ Shape(fetch_headers_command) /\ Shape(fetch_message_command)
  BY DEF fetch_command, fetch_envelopes_command, fetch_headers_command,
         fetch_message_command
<1>9. /\ Shape(uid_fetch_command) /\ Shape(uid_fetch_envelopes_command)
      /\ Shape(uid_fetch_headers_command) /\ Shape(uid_fetch_message_command)
  BY DEF fetch_command, fetch_envelopes_command, fetch_headers_command,
         fetch_message_command, uid_fetch_command, uid_fetch_envelopes_command,
         uid_fetch_headers_command, uid_fetch_message_command
<1> HIDE DEF Shape
<1> QED BY <1>1, <1>2, <1>3, <1>4, <1>5, <1>6, <1>7, <1>8, <1>9, Zenon
        DEF SimpleCommands

(* What the server answers a command with is what the command collects.    *)
LEMMA AnswerFacts ==
    ASSUME NEW o \in Ops, Shape(cmd[o]), NEW r \in Answer(o)
    PROVE  /\ r \in [kind : UntaggedKinds, from : Ops, attrs : SUBSET Attributes]
           /\ r.from = o
           /\ cmd[o].result \in {"rows", "last"} => r.kind \in cmd[o].wants
           /\ cmd[o].result = "rows" /\ r.kind = "fetch" =>
                 cmd[o].needs = "any" \/ cmd[o].needs \in r.attrs
           /\ cmd[o].result = "union" =>
                 r.kind = "capability" \/ (r.kind = "ok" /\ "capability" \in r.attrs)
           /\ r.kind \in {"fetch", "list", "search", "status"} =>
                 r.kind \in cmd[o].wants \/ cmd[o].wants = {}
           /\ r.kind = "status" => cmd[o].wants = {"status"}
<1> DEFINE c == cmd[o]
           Row(kind, attrs) == [kind |-> kind, from |-> o, attrs |-> attrs]
<1>0. ASSUME NEW kind \in UntaggedKinds, NEW attrs \in SUBSET Attributes,
             r = Row(kind, attrs)
      PROVE  /\ r \in [kind : UntaggedKinds, from : Ops, attrs : SUBSET Attributes]
             /\ r.from = o /\ r.kind = kind /\ r.attrs = attrs
  BY <1>0
<1> HIDE DEF Row
<1> USE DEF Shape, FetchNeeds, Attributes, UntaggedKinds, DataKinds, NumberKinds,
            StatusKinds
<1>1. CASE c.verb \in {"FETCH", "UID FETCH"}
  <2>1. r = Row("fetch", Fetched(c))
    BY <1>1 DEF Answer, Row
  <2>2. Fetched(c) \in SUBSET Attributes /\ (c.needs = "any" \/ c.needs \in Fetched(c))
    BY DEF Fetched
  <2>3. c.wants = {"fetch"} /\ c.result = "rows"
    BY <1>1
  <2>4. /\ r.kind = "fetch" /\ r.attrs = Fetched(c) /\ r.from = o
        /\ r \in [kind : UntaggedKinds, from : Ops, attrs : SUBSET Attributes]
    BY <1>0, <2>1, <2>2
  <2> QED BY <2>2, <2>3, <2>4
<1>2. CASE c.verb = "CAPABILITY"
  <2>1. r = Row("capability", {}) \/ r = Row("ok", {"capability"})
    BY <1>2 DEF Answer, Row
  <2>2. c.wants = {"capability"} /\ c.result = "union"
    BY <1>2
  <2> QED BY <1>0, <2>1, <2>2
<1>3. CASE c.verb \in {"SELECT", "EXAMINE"}
  <2>1. r = Row("exists", {}) \/ r = Row("flags", {}) \/ r = Row("ok", {"unseen"})
    BY <1>3 DEF Answer, Row
  <2>2. c.wants = {"flags"} /\ c.result = "snapshot"
    BY <1>3
  <2> QED BY <1>0, <2>1, <2>2
<1>4. CASE c.wants = {}
  <2>1. r = Row("fetch", {"FLAGS"}) \/ r = Row("expunge", {})
    BY <1>4 DEF Answer, Row
  <2>2. c.result \in {"void", "raw"}
    BY <1>4
  <2>3. CASE r = Row("fetch", {"FLAGS"})
    BY <1>0, <1>4, <2>2, <2>3
  <2>4. CASE r = Row("expunge", {})
    BY <1>0, <1>4, <2>2, <2>4
  <2> QED BY <2>1, <2>3, <2>4
<1>5. CASE c.wants # {} /\ c.verb \in {"LIST", "SEARCH", "UID SEARCH", "STATUS"}
  <2>1. PICK k \in c.wants : r = Row(k, {})
    BY <1>5 DEF Answer, Row
  <2>2. \/ c.wants = {"status"} /\ c.result = "last" /\ k = "status"
        \/ /\ c.wants \in {{"list"}, {"search"}} /\ c.result = "rows"
           /\ k \in {"list", "search"}
    BY <1>5, <2>1
  <2> QED BY <1>0, <2>1, <2>2
<1> QED BY <1>1, <1>2, <1>3, <1>4, <1>5

(* The operation the server is answering, unless it was withdrawn, is the  *)
(* first of the write queue.                                               *)
LEMMA FirstInQueue ==
    ASSUME TypeOK, OrderInv, NEW o \in First(server), stage[o] # "withdrawn"
    PROVE  o \in write_queue /\ stage[o] = "written" /\ \A p \in write_queue : o <= p
<1>1. o \in server /\ o \in Ops /\ stage[o] = "written" /\ o \in write_queue
  BY DEF TypeOK, OrderInv, First
<1>2. ASSUME NEW p \in write_queue PROVE o <= p
  <2>1. o \in Nat /\ p \in Nat /\ p \in Ops
    BY <1>1, DispatchAssumption DEF TypeOK
  <2>2. CASE stage[p] = "written"
    BY <2>1, <2>2 DEF OrderInv, First
  <2>3. CASE stage[p] = "queued"
    BY <1>1, <2>1, <2>3 DEF OrderInv
  <2> QED BY <2>1, <2>2, <2>3 DEF OrderInv
<1> QED BY <1>1, <1>2

(* Every step keeps the order of the queue, of the server and of what was  *)
(* sent.                                                                   *)
LEMMA DispatchInductive ==
    TypeOK /\ OrderInv /\ SentInv /\ [Next]_vars /\ TableTypeOK' =>
        (TypeOK /\ OrderInv /\ SentInv)'
<1> SUFFICES ASSUME TypeOK, OrderInv, SentInv, [Next]_vars, TableTypeOK'
             PROVE  (TypeOK /\ OrderInv /\ SentInv)'
  OBVIOUS
<1> USE DispatchAssumption DEF TypeOK, OrderInv
<1>a. \A o \in Ops : Shape(cmd[o])
  BY CommandShape
<1>1. ASSUME NEW o \in Ops, Submit(o) PROVE (TypeOK /\ OrderInv /\ SentInv)'
  <2>0. /\ stage[o] = "new" /\ (\A p \in Ops : p < o => stage[p] # "new")
        /\ stage' = [stage EXCEPT ![o] = "queued"]
        /\ write_queue' = write_queue \cup {o} /\ registry' = registry \cup {o}
        /\ UNCHANGED <<cmd, acc, outcome, current, server, sent>>
    BY <1>1 DEF Submit
  <2>1. TypeOK'
    BY <2>0
  <2>2. \A p \in Ops : p # o => stage'[p] = stage[p]
    BY <2>0
  <2>3. stage'[o] = "queued"
    BY <2>0
  <2>4. \A p, q \in Ops : stage'[p] # "new" /\ stage'[q] = "new" => p < q
    <3> SUFFICES ASSUME NEW p \in Ops, NEW q \in Ops,
                        stage'[p] # "new", stage'[q] = "new"
                 PROVE  p < q
      OBVIOUS
    <3>1. q # o /\ stage[q] = "new" /\ p \in Nat /\ q \in Nat /\ o \in Nat
      BY <2>2, <2>3
    <3>2. CASE p = o
      <4>1. ~(q < o)
        BY <2>0, <3>1
      <4> HIDE DEF TypeOK, OrderInv
      <4> QED BY <3>1, <3>2, <4>1
    <3>3. CASE p # o
      BY <2>2, <3>1, <3>3
    <3> QED BY <3>2, <3>3
  <2>5. write_queue' = {p \in Ops : stage'[p] \in {"queued", "written"}}
    BY <2>0, <2>2, <2>3
  <2>6. /\ \A p \in server' : stage'[p] \in {"written", "withdrawn"}
        /\ \A p \in Ops : stage'[p] = "written" => p \in server'
        /\ \A p \in server', q \in Ops : stage'[q] = "queued" => p < q
    BY <2>0, <2>2, <2>3
  <2>7. OrderInv'
    BY <2>0, <2>4, <2>5, <2>6
  <2>8. SentInv'
    BY <1>1 DEF Submit, SentInv, Answer
  <2> QED BY <2>1, <2>7, <2>8
<1>2. ASSUME NEW o \in Ops, Cancel(o) PROVE (TypeOK /\ OrderInv /\ SentInv)'
  <2>1. (TypeOK /\ OrderInv)'
    BY <1>2 DEF Cancel
  <2>2. SentInv'
    BY <1>2 DEF Cancel, SentInv, Answer
  <2> QED BY <2>1, <2>2
<1>3. ASSUME Write PROVE (TypeOK /\ OrderInv /\ SentInv)'
  <2>1. (TypeOK /\ OrderInv)'
    BY <1>3 DEF Write, Unwritten
  <2>2. \A o \in First(server) : o \in First(server')
    BY <1>3 DEF Write, Unwritten, First
  <2>3. /\ stage' = [o \in Ops |-> IF o \in write_queue /\ stage[o] = "queued"
                                   THEN "written" ELSE stage[o]]
        /\ server' = server \cup {o \in write_queue : stage[o] = "queued"}
        /\ UNCHANGED <<cmd, current, sent>>
    BY <1>3 DEF Write, Unwritten
  <2>4. \A o \in Ops : stage'[o] \in {"new", "queued"} => stage[o] \in {"new", "queued"}
    BY <2>3
  <2>5. \A o \in Ops : sent[o] # <<>> => \A p \in server' : o <= p
    BY <2>3 DEF SentInv
  <2>6. \A o \in First(server) : Answer(o)' = Answer(o)
    BY <2>3 DEF Answer
  <2>7. \/ current' = Quiet
        \/ current' \in Pushes
        \/ \E o \in First(server') :
             /\ current' \in Answer(o)'
             /\ sent'[o] # <<>> /\ sent'[o][Len(sent'[o])] = current'
    BY <2>2, <2>3, <2>6 DEF SentInv
  <2>8. SentInv'
    BY <2>3, <2>4, <2>5, <2>7 DEF SentInv, First
  <2> QED BY <2>1, <2>8
<1>4. ASSUME ServerRow PROVE (TypeOK /\ OrderInv /\ SentInv)'
  <2>1. PICK o \in First(server) : \E r \in Answer(o) :
           Receive(r) /\ sent' = [sent EXCEPT ![o] = Append(@, r)]
    BY <1>4 DEF ServerRow
  <2>2. PICK r \in Answer(o) : Receive(r) /\ sent' = [sent EXCEPT ![o] = Append(@, r)]
    BY <2>1
  <2>3. /\ current' = r
        /\ UNCHANGED <<cmd, write_queue, registry, stage, acc, outcome, server>>
    BY <2>2 DEF Receive
  <2>4. o \in Ops /\ o \in server /\ (\A p \in server : o <= p) /\ r \in AnyRow
    BY <1>a, AnswerFacts DEF First, AnyRow
  <2>5. (TypeOK /\ OrderInv)'
    BY <2>3
  <2>6. sent' \in [Ops -> Seq(AnyRow)] /\ sent'[o] # <<>> /\ sent'[o][Len(sent'[o])] = r
    <3>1. sent \in [Ops -> Seq(AnyRow)] /\ sent[o] \in Seq(AnyRow)
      BY <2>4 DEF SentInv
    <3>2. sent'[o] = Append(sent[o], r)
      BY <2>2, <2>4, <3>1
    <3>3. /\ Append(sent[o], r) \in Seq(AnyRow)
          /\ Len(Append(sent[o], r)) = Len(sent[o]) + 1
      BY <2>4, <3>1
    <3>4. Append(sent[o], r)[Len(sent[o]) + 1] = r /\ Append(sent[o], r) # <<>>
      BY <2>4, <3>1, Appended
    <3>5. sent' \in [Ops -> Seq(AnyRow)]
      BY <2>2, <2>4, <3>1, <3>3
    <3> QED BY <3>2, <3>3, <3>4, <3>5
  <2>7. \A p \in Ops : p # o => sent'[p] = sent[p]
    BY <2>2 DEF SentInv
  <2>8. r \in Answer(o)' /\ o \in First(server)'
    BY <2>3 DEF Answer, First
  <2>9. SentInv'
    BY <2>3, <2>4, <2>6, <2>7, <2>8 DEF SentInv
  <2> QED BY <2>5, <2>9
<1>5. ASSUME ServerPush PROVE (TypeOK /\ OrderInv /\ SentInv)'
  <2>1. /\ current' \in Pushes
        /\ UNCHANGED <<cmd, write_queue, registry, stage, acc, outcome, server, sent>>
    BY <1>5 DEF ServerPush, Receive
  <2> QED BY <2>1 DEF SentInv
<1>6. ASSUME Route PROVE (TypeOK /\ OrderInv /\ SentInv)'
  BY <1>6 DEF Route, SentInv
<1>7. ASSUME NEW status \in {"ok", "no"}, Tagged(status, "none")
      PROVE  (TypeOK /\ OrderInv /\ SentInv)'
  <2>1. PICK o \in First(server) :
          /\ server' = server \ {o}
          /\ IF o \in registry
             THEN /\ registry' = registry \ {o}
                  /\ write_queue' = write_queue \ {o}
                  /\ stage' = [stage EXCEPT ![o] = "done"]
                  /\ outcome' = [outcome EXCEPT ![o] =
                                   OnTagged(cmd[o], acc[o], status, "none", o)]
             ELSE UNCHANGED <<registry, write_queue, stage, outcome>>
    BY <1>7 DEF Tagged
  <2>2. UNCHANGED <<cmd, acc, current, sent>> /\ current = Quiet
    BY <1>7 DEF Tagged
  <2>3. OnTagged(cmd[o], acc[o], status, "none", o).ec # "pending"
    BY DEF OnTagged, StatusEc
  <2>4. o \in server /\ o \in Ops
    BY DEF First
  <2>5. TypeOK'
    <3>1. CASE o \notin registry
      BY <2>1, <2>2, <2>4, <3>1
    <3>2. CASE o \in registry
      <4>1. /\ stage' = [stage EXCEPT ![o] = "done"]
            /\ registry' = registry \ {o} /\ write_queue' = write_queue \ {o}
            /\ outcome' = [outcome EXCEPT ![o] =
                             OnTagged(cmd[o], acc[o], status, "none", o)]
        BY <2>1, <3>2
      <4>2. o \in DOMAIN outcome
        BY <2>4
      <4>3. outcome'[o].ec # "pending" /\ stage'[o] = "done"
        BY <2>3, <2>4, <4>1, <4>2
      <4>4. \A p \in Ops : p # o => outcome'[p] = outcome[p] /\ stage'[p] = stage[p]
        BY <4>1
      <4>5. \A p \in Ops : outcome'[p].ec # "pending" <=> stage'[p] = "done"
        BY <4>3, <4>4
      <4> QED BY <2>1, <4>1, <4>5
    <3> QED BY <3>1, <3>2
  <2>6. OrderInv'
    BY <2>1, <2>2, <2>4
  <2>7. SentInv'
    BY <2>1, <2>2, <2>4 DEF SentInv
  <2> QED BY <2>5, <2>6, <2>7
<1>8. ASSUME UNCHANGED dispatchVars PROVE (TypeOK /\ OrderInv /\ SentInv)'
  BY <1>8 DEF dispatchVars, SentInv, Answer
<1> QED BY <1>1, <1>2, <1>3, <1>4, <1>5, <1>6, <1>7, <1>8 DEF Next, vars, HandlerStep

(* The order holds in every state.                                         *)
LEMMA DispatchHolds == Spec => [](TypeOK /\ OrderInv /\ SentInv)
<1>1. Init => TypeOK /\ OrderInv /\ SentInv
  <2> SUFFICES ASSUME Init PROVE TypeOK /\ OrderInv /\ SentInv
    OBVIOUS
  <2>1. TableTypeOK
    BY TableAssumption DEF Init, TableInit, TableTypeOK, Ids
  <2>2. cmd \in [Ops -> SimpleCommands]
    BY DispatchAssumption DEF Init
  <2>3. TypeOK
    BY <2>1 DEF Init, TypeOK, Pending
  <2>4. OrderInv
    BY <2>2 DEF Init, OrderInv
  <2>5. SentInv
    BY DEF Init, SentInv
  <2> QED BY <2>3, <2>4, <2>5
<1>2. TableTypeOK /\ TableInv /\ HeardInv => TableTypeOK
  OBVIOUS
<1> QED BY <1>1, <1>2, DispatchInductive, TableHolds, PTL DEF Spec

(* The registry names what the queue holds, and an operation is done       *)
(* exactly when its outcome was delivered.                                 *)
THEOREM DispatchTypeHolds == Spec => []TypeOK
  BY DispatchHolds, PTL

(* What on_untagged() adds to a result of each kind.                       *)
LEMMA Collected ==
    ASSUME NEW c, Shape(c), NEW a, NEW r
    PROVE  /\ c.result = "rows" =>
                OnUntagged(c, a, r) =
                  IF /\ r.kind \in c.wants
                     /\ r.kind = "fetch" => c.needs = "any" \/ c.needs \in r.attrs
                  THEN Append(a, r) ELSE a
           /\ c.result = "last" =>
                OnUntagged(c, a, r) = IF r.kind \in c.wants THEN r.from ELSE a
           /\ c.result = "union" =>
                OnUntagged(c, a, r) =
                  IF r.kind = "capability" \/ (r.kind = "ok" /\ "capability" \in r.attrs)
                  THEN a \cup {r.from} ELSE a
<1>1. CASE c.result = "rows"
  BY <1>1 DEF Shape, OnUntagged, FetchRow
<1>2. CASE c.result = "last"
  BY <1>2 DEF Shape, OnUntagged
<1>3. CASE c.result = "union"
  BY <1>3 DEF Shape, OnUntagged, CapabilityRow
<1> QED BY <1>1, <1>2, <1>3

(* A result and its answers grow by the same row.                          *)
LEMMA ReportsOwn ==
    ASSUME NEW S, NEW v \in Seq(S), NEW a \in Seq(S), NEW o, NEW r \in S,
           Reports(v, o, a)
    PROVE  Reports(Append(v, r), o, Append(a, r))
<1> DEFINE w == Append(v, r)
           b == Append(a, r)
           m == Len(v)
           n == Len(a)
<1>1. m \in Nat /\ n \in Nat
  OBVIOUS
<1>2. Len(w) = m + 1 /\ w[m + 1] = r /\ \A i \in 1..m : w[i] = v[i]
  BY Appended
<1>3. Len(b) = n + 1 /\ b[n + 1] = r /\ \A i \in 1..n : b[i] = a[i]
  BY Appended
<1>4. PICK at \in [1..n -> 1..m] :
        /\ \A j, k \in 1..n : j < k => at[j] < at[k]
        /\ \A k \in 1..n : v[at[k]] = a[k]
        /\ \A i \in 1..m : v[i].from = o => \E k \in 1..n : at[k] = i
  BY DEF Reports
<1> DEFINE by == [k \in 1..(n + 1) |-> IF k \in 1..n THEN at[k] ELSE m + 1]
<1> HIDE DEF w, b, m, n
<1>5. by \in [1..(n + 1) -> 1..(m + 1)]
  BY <1>1, <1>4
<1>6. ASSUME NEW j \in 1..(n + 1), NEW k \in 1..(n + 1), j < k PROVE by[j] < by[k]
  <2>1. j \in 1..n /\ by[j] = at[j] /\ at[j] \in 1..m
    BY <1>1, <1>4, <1>6
  <2>2. CASE k \in 1..n
    BY <1>4, <1>6, <2>1, <2>2
  <2>3. CASE k \notin 1..n
    BY <1>1, <2>1, <2>3
  <2> QED BY <2>2, <2>3
<1>7. ASSUME NEW k \in 1..(n + 1) PROVE w[by[k]] = b[k]
  <2>1. CASE k \in 1..n
    BY <1>2, <1>3, <1>4, <2>1
  <2>2. CASE k = n + 1
    BY <1>1, <1>2, <1>3, <2>2
  <2>3. k \in 1..n \/ k = n + 1
    BY <1>1
  <2> QED BY <2>1, <2>2, <2>3
<1>8. ASSUME NEW i \in 1..(m + 1), w[i].from = o PROVE \E k \in 1..(n + 1) : by[k] = i
  <2>1. CASE i \in 1..m
    <3>1. PICK k \in 1..n : at[k] = i
      BY <1>2, <1>4, <1>8, <2>1
    <3>2. k \in 1..(n + 1) /\ by[k] = i
      BY <1>1, <3>1
    <3> QED BY <3>2
  <2>2. CASE i = m + 1
    <3>1. n + 1 \in 1..(n + 1) /\ by[n + 1] = i
      BY <1>1, <2>2
    <3> QED BY <3>1
  <2>3. i \in 1..m \/ i = m + 1
    BY <1>1
  <2> QED BY <2>1, <2>2, <2>3
<1> HIDE DEF by
<1>9. /\ \A j, k \in 1..(n + 1) : j < k => by[j] < by[k]
      /\ \A k \in 1..(n + 1) : w[by[k]] = b[k]
      /\ \A i \in 1..(m + 1) : w[i].from = o => \E k \in 1..(n + 1) : by[k] = i
  BY <1>6, <1>7, <1>8
<1>10. /\ by \in [1..Len(b) -> 1..Len(w)]
       /\ \A j, k \in 1..Len(b) : j < k => by[j] < by[k]
       /\ \A k \in 1..Len(b) : w[by[k]] = b[k]
       /\ \A i \in 1..Len(w) : w[i].from = o => \E k \in 1..Len(b) : by[k] = i
  BY <1>2, <1>3, <1>5, <1>9, Zenon
<1>11. Reports(w, o, b)
  BY <1>10, Zenon DEF Reports
<1> QED BY <1>11 DEF w, b

(* A result takes in a row that answers another operation.                 *)
LEMMA ReportsOther ==
    ASSUME NEW S, NEW v \in Seq(S), NEW a \in Seq(S), NEW o, NEW r \in S, r.from # o,
           Reports(v, o, a)
    PROVE  Reports(Append(v, r), o, a)
<1> DEFINE w == Append(v, r)
           m == Len(v)
           n == Len(a)
<1>1. m \in Nat /\ n \in Nat
  OBVIOUS
<1>2. Len(w) = m + 1 /\ w[m + 1] = r /\ \A i \in 1..m : w[i] = v[i]
  BY Appended
<1>3. PICK at \in [1..n -> 1..m] :
        /\ \A j, k \in 1..n : j < k => at[j] < at[k]
        /\ \A k \in 1..n : v[at[k]] = a[k]
        /\ \A i \in 1..m : v[i].from = o => \E k \in 1..n : at[k] = i
  BY DEF Reports
<1> HIDE DEF w, m, n
<1>4. ASSUME NEW k \in 1..n PROVE at[k] \in 1..(m + 1) /\ w[at[k]] = a[k]
  <2>1. at[k] \in 1..m
    BY <1>3
  <2>2. at[k] \in 1..(m + 1)
    BY <1>1, <2>1
  <2> QED BY <1>2, <1>3, <2>1, <2>2, Zenon
<1>5. ASSUME NEW i \in 1..(m + 1), w[i].from = o PROVE \E k \in 1..n : at[k] = i
  <2>1. i # m + 1
    BY <1>2, <1>5
  <2>2. i \in 1..m
    BY <1>1, <2>1
  <2> QED BY <1>2, <1>3, <1>5, <2>2
<1>6. at \in [1..n -> 1..(m + 1)]
  BY <1>3, <1>4
<1>7. /\ at \in [1..n -> 1..Len(w)]
      /\ \A k \in 1..n : w[at[k]] = a[k]
      /\ \A i \in 1..Len(w) : w[i].from = o => \E k \in 1..n : at[k] = i
  BY <1>2, <1>4, <1>5, <1>6, Zenon
<1>8. Reports(w, o, a)
  BY <1>3, <1>7, Zenon DEF Reports, n
<1> QED BY <1>8 DEF w

(* The response that is dispatched is a row, an answer to the first of     *)
(* the server's commands unless it was pushed.                             *)
LEMMA CurrentRow ==
    ASSUME TypeOK, OrderInv, SentInv, current # Quiet
    PROVE  /\ current \in AnyRow
           /\ \/ current \in Pushes /\ current.from = 0
              \/ /\ current.from \in First(server) /\ current.from \in Ops
                 /\ current \in Answer(current.from)
                 /\ sent[current.from] # <<>>
                 /\ sent[current.from][Len(sent[current.from])] = current
<1>1. CASE current \in Pushes
  BY <1>1, DispatchAssumption DEF AnyRow
<1>2. CASE current \notin Pushes
  <2>1. PICK o \in First(server) : /\ current \in Answer(o) /\ sent[o] # <<>>
                                   /\ sent[o][Len(sent[o])] = current
    BY <1>2 DEF SentInv
  <2>2. o \in Ops
    BY DEF First, TypeOK
  <2>3. Shape(cmd[o])
    BY <2>2, CommandShape DEF OrderInv
  <2>4. /\ current \in [kind : UntaggedKinds, from : Ops, attrs : SUBSET Attributes]
        /\ current.from = o
    BY <2>1, <2>2, <2>3, AnswerFacts
  <2> QED BY <2>1, <2>2, <2>4 DEF AnyRow
<1> QED BY <1>1, <1>2

(* Who a response reaches: only queued operations, and of two that want    *)
(* data the earlier.                                                       *)
LEMMA ReceiverFacts ==
    ASSUME TypeOK, OrderInv, NEW r, NEW o \in Receivers(r)
    PROVE  /\ o \in write_queue /\ o \in Ops
           /\ r.kind \in DataKinds =>
                r.kind \in cmd[o].wants /\ \A p \in Claimants(r) : o <= p
  BY DEF TypeOK, Receivers, Earliest, First, Claimants

(* An answer reaches the command it is for, unless that was withdrawn:     *)
(* and then, when it is data the command wants, no other.                  *)
LEMMA AnswerReaches ==
    ASSUME TypeOK, OrderInv, NEW o \in First(server), stage[o] # "withdrawn", NEW r
    PROVE  /\ r.kind \notin DataKinds => o \in Receivers(r)
           /\ r.kind \in DataKinds /\ r.kind \in cmd[o].wants =>
                Receivers(r) = {o}
<1>1. o \in write_queue /\ o \in registry /\ \A p \in write_queue : o <= p
  BY FirstInQueue DEF TypeOK
<1>2. ASSUME r.kind \in DataKinds, r.kind \in cmd[o].wants PROVE Receivers(r) = {o}
  <2>1. o \in Claimants(r) /\ \A p \in Claimants(r) : o <= p /\ p \in Nat
    BY <1>1, <1>2, DispatchAssumption DEF Claimants, TypeOK
  <2>2. First(Claimants(r)) = {o}
    BY <2>1 DEF First
  <2> QED BY <1>2, <2>2 DEF Receivers, Earliest
<1> QED BY <1>1, <1>2 DEF Receivers

(* A result under assembly holds rows, a delivered one is what was         *)
(* assembled, and a foreign row in it has lost its owner.                  *)
ResultInv == RowsType /\ DoneInv /\ ForeignInv

(* They hold in every state.                                               *)
LEMMA ResultsHold == Spec => []ResultInv
<1>1. Init => ResultInv
  <2> SUFFICES ASSUME Init PROVE ResultInv
    OBVIOUS
  <2>1. \A o \in Ops : cmd[o].result = "rows" => acc[o] = <<>>
    BY DEF Init, EmptyResult
  <2>2. RowsType
    <3>1. acc = [o \in Ops |-> acc[o]]
      BY DEF Init
    <3>2. <<>> \in Seq(AnyRow)
      OBVIOUS
    <3> QED BY <2>1, <3>1, <3>2, Zenon DEF RowsType
  <2>3. DoneInv
    BY DEF DoneInv, Init, Succeeded
  <2>4. ForeignInv
    BY <2>1 DEF ForeignInv
  <2> QED BY <2>2, <2>3, <2>4 DEF ResultInv
<1>2. TypeOK /\ OrderInv /\ SentInv /\ ResultInv /\ [Next]_vars => ResultInv'
  <2> SUFFICES ASSUME TypeOK, OrderInv, SentInv, ResultInv, [Next]_vars
               PROVE  ResultInv'
    OBVIOUS
  <2>a. \A o \in Ops : Shape(cmd[o])
    BY CommandShape DEF OrderInv
  <2>1. ASSUME UNCHANGED <<cmd, acc, outcome>>,
               \A o \in Ops : stage[o] = "withdrawn" => stage'[o] = "withdrawn",
               \A o \in Ops : stage'[o] = "done" => stage[o] = "done"
        PROVE  ResultInv'
    <3>1. RowsType'
      BY <2>1 DEF ResultInv, RowsType
    <3>2. DoneInv'
      BY <2>1 DEF ResultInv, DoneInv, Succeeded
    <3>3. ForeignInv'
      BY <2>1 DEF ResultInv, ForeignInv
    <3> QED BY <3>1, <3>2, <3>3 DEF ResultInv
  <2>2. ASSUME NEW o \in Ops, Submit(o) \/ Cancel(o) PROVE ResultInv'
    BY <2>1, <2>2 DEF Submit, Cancel, TypeOK
  <2>3. ASSUME Write PROVE ResultInv'
    BY <2>1, <2>3 DEF Write, Unwritten, TypeOK
  <2>4. ASSUME ServerRow \/ ServerPush \/ UNCHANGED dispatchVars PROVE ResultInv'
    BY <2>1, <2>4 DEF ServerRow, ServerPush, Receive, TypeOK, dispatchVars
  <2>5. ASSUME NEW status \in {"ok", "no"}, Tagged(status, "none") PROVE ResultInv'
    <3>1. PICK o \in First(server) :
            IF o \in registry
            THEN /\ stage' = [stage EXCEPT ![o] = "done"]
                 /\ outcome' = [outcome EXCEPT ![o] =
                                  OnTagged(cmd[o], acc[o], status, "none", o)]
            ELSE UNCHANGED <<stage, outcome>>
      BY <2>5 DEF Tagged
    <3>2. UNCHANGED <<cmd, acc>>
      BY <2>5 DEF Tagged
    <3>3. CASE o \notin registry
      BY <2>1, <3>1, <3>2, <3>3 DEF TypeOK
    <3>4. CASE o \in registry
      <4>1. /\ o \in Ops /\ stage[o] # "withdrawn"
            /\ stage' = [stage EXCEPT ![o] = "done"]
            /\ outcome' = [outcome EXCEPT ![o] =
                             OnTagged(cmd[o], acc[o], status, "none", o)]
        BY <3>1, <3>4 DEF TypeOK, OrderInv
      <4>2. RowsType'
        BY <3>2 DEF ResultInv, RowsType
      <4>3. ForeignInv'
        BY <3>2, <4>1 DEF ResultInv, ForeignInv, TypeOK
      <4>4. outcome'[o] = OnTagged(cmd[o], acc[o], status, "none", o)
        BY <4>1 DEF OrderInv
      <4>5. /\ cmd[o].result \in {"rows", "last", "union"}
            /\ OnTagged(cmd[o], acc[o], status, "none", o).ec = "success"
            => OnTagged(cmd[o], acc[o], status, "none", o).value = acc[o]
        BY DEF OnTagged
      <4>6. \A p \in Ops : p # o => outcome'[p] = outcome[p] /\ stage'[p] = stage[p]
        BY <4>1 DEF TypeOK, OrderInv
      <4>7. DoneInv'
        BY <3>2, <4>4, <4>5, <4>6 DEF ResultInv, DoneInv, Succeeded
      <4> QED BY <4>2, <4>3, <4>7 DEF ResultInv
    <3> QED BY <3>3, <3>4
  <2>6. ASSUME Route PROVE ResultInv'
    <3>1. /\ current # Quiet
          /\ acc' = [o \in Ops |-> IF o \in Receivers(current)
                                   THEN OnUntagged(cmd[o], acc[o], current)
                                   ELSE acc[o]]
          /\ UNCHANGED <<cmd, stage, outcome>>
      BY <2>6 DEF Route
    <3>2. current \in AnyRow
      BY <3>1, CurrentRow
    <3>3. ASSUME NEW o \in Ops, cmd[o].result = "rows"
          PROVE  \/ acc'[o] = acc[o]
                 \/ /\ acc'[o] = Append(acc[o], current) /\ o \in Receivers(current)
                    /\ current.kind \in cmd[o].wants
      BY <2>a, <3>1, <3>3, Collected
    <3>4. ASSUME NEW o \in Ops, cmd[o].result = "rows"
          PROVE  acc[o] \in Seq(AnyRow) /\ acc'[o] \in Seq(AnyRow)
      <4>1. acc[o] \in Seq(AnyRow)
        BY <3>4 DEF ResultInv, RowsType
      <4>2. Append(acc[o], current) \in Seq(AnyRow)
        BY <3>2, <4>1, Appended
      <4>3. acc'[o] = acc[o] \/ acc'[o] = Append(acc[o], current)
        BY <3>3, <3>4
      <4> QED BY <4>1, <4>2, <4>3
    <3>5. RowsType'
      BY <3>1, <3>4 DEF RowsType
    <3>6. DoneInv'
      <4>1. ASSUME NEW o \in Ops, stage[o] = "done" PROVE acc'[o] = acc[o]
        BY <3>1, <4>1, ReceiverFacts DEF OrderInv
      <4> QED BY <3>1, <4>1 DEF ResultInv, DoneInv, Succeeded
    <3>7. ASSUME NEW o \in Ops, cmd[o].result = "rows", o \in Receivers(current),
                 current.kind \in cmd[o].wants
          PROVE  LET p == current.from IN
                 \/ p \in {0, o}
                 \/ p \in Ops /\ (stage[p] = "withdrawn" \/ cmd[p].wants = {})
      <4> DEFINE p == current.from
      <4>1. CASE current \in Pushes /\ p = 0
        BY <4>1
      <4>2. CASE p \in First(server) /\ p \in Ops /\ current \in Answer(p)
        <5>1. current.kind \in {"fetch", "list", "search"}
          BY <2>a, <3>7 DEF Shape
        <5>2. current.kind \in cmd[p].wants \/ cmd[p].wants = {}
          BY <2>a, <4>2, <5>1, AnswerFacts
        <5>3. ASSUME stage[p] # "withdrawn", current.kind \in cmd[p].wants PROVE p = o
          <6>1. Receivers(current) = {p}
            BY <4>2, <5>1, <5>3, AnswerReaches DEF DataKinds
          <6> QED BY <3>7, <6>1
        <5> QED BY <4>2, <5>2, <5>3
      <4> QED BY <3>1, <4>1, <4>2, CurrentRow
    <3>8. ASSUME NEW o \in Ops, cmd[o].result = "rows", NEW i \in 1..Len(acc'[o])
          PROVE  LET p == acc'[o][i].from IN
                 \/ p \in {0, o}
                 \/ p \in Ops /\ (stage[p] = "withdrawn" \/ cmd[p].wants = {})
      <4>1. CASE acc'[o] = acc[o]
        BY <3>8, <4>1 DEF ResultInv, ForeignInv
      <4>2. CASE /\ acc'[o] = Append(acc[o], current) /\ o \in Receivers(current)
                 /\ current.kind \in cmd[o].wants
        <5>1. acc[o] \in Seq(AnyRow)
          BY <3>4, <3>8
        <5>2. /\ Len(acc'[o]) = Len(acc[o]) + 1 /\ acc'[o][Len(acc[o]) + 1] = current
              /\ \A j \in 1..Len(acc[o]) : acc'[o][j] = acc[o][j]
          BY <3>2, <4>2, <5>1, Appended
        <5>3. Len(acc[o]) \in Nat
          BY <5>1
        <5>4. i \in 1..Len(acc[o]) \/ i = Len(acc[o]) + 1
          BY <5>2, <5>3
        <5>5. CASE i \in 1..Len(acc[o])
          <6>1. acc'[o][i] = acc[o][i]
            BY <5>2, <5>5
          <6> QED BY <3>8, <5>5, <6>1 DEF ResultInv, ForeignInv
        <5>6. CASE i = Len(acc[o]) + 1
          BY <3>7, <3>8, <4>2, <5>2, <5>6
        <5> QED BY <5>4, <5>5, <5>6
      <4> QED BY <3>3, <3>8, <4>1, <4>2
    <3>9. ForeignInv'
      BY <3>1, <3>8 DEF ForeignInv
    <3> QED BY <3>5, <3>6, <3>9 DEF ResultInv
  <2> QED BY <2>2, <2>3, <2>4, <2>5, <2>6 DEF Next, vars, HandlerStep
<1> QED BY <1>1, <1>2, DispatchHolds, PTL DEF Spec

(* dispatch_one() gives a row that another command asked for to this one   *)
(* only when that command was withdrawn, or wants no data itself.          *)
THEOREM NoCrosstalkHolds == Spec => []NoCrosstalk
<1>1. ResultInv => NoCrosstalk
  <2> SUFFICES ASSUME ResultInv, NEW o \in Ops, Succeeded(o), cmd[o].result = "rows",
                      NEW r \in Foreign(outcome[o].value, o)
               PROVE  r.from = 0 \/ stage[r.from] = "withdrawn" \/ cmd[r.from].wants = {}
    BY DEF NoCrosstalk
  <2>1. outcome[o].value = acc[o]
    BY DEF ResultInv, DoneInv
  <2>2. PICK i \in 1..Len(acc[o]) : r = acc[o][i] /\ r.from # o
    BY <2>1 DEF Foreign
  <2> QED BY <2>2 DEF ResultInv, ForeignInv
<1> QED BY <1>1, ResultsHold, PTL

(* What one dispatched response does to the record of a command that was   *)
(* not withdrawn.                                                          *)
LEMMA RouteRecords ==
    ASSUME TypeOK, OrderInv, SentInv, ResultInv, RecordInv, Route,
           \A r \in Pushes : r.kind # "status",
           NEW o \in Ops, stage[o] # "withdrawn"
    PROVE  Recorded(o, acc'[o], sent[o])
<1> DEFINE c == cmd[o]
<1>1. Shape(c)
  BY CommandShape DEF OrderInv
<1>2. /\ current # Quiet
      /\ acc'[o] = IF o \in Receivers(current)
                   THEN OnUntagged(c, acc[o], current) ELSE acc[o]
  BY DEF Route
<1>3. Recorded(o, acc[o], Routed(o))
  BY DEF RecordInv
<1>4. sent[o] \in Seq(AnyRow) /\ current \in AnyRow
  BY <1>2, CurrentRow DEF SentInv
<1>5. o \in Nat /\ o # 0
  BY DispatchAssumption
<1>6. CASE current.from = o
  <2>1. /\ o \in First(server) /\ current \in Answer(o)
        /\ sent[o] # <<>> /\ sent[o][Len(sent[o])] = current
    BY <1>2, <1>5, <1>6, CurrentRow
  <2>2. Routed(o) \in Seq(AnyRow) /\ sent[o] = Append(Routed(o), current)
    <3>1. Routed(o) = SubSeq(sent[o], 1, Len(sent[o]) - 1)
      BY <1>6 DEF Routed
    <3> QED BY <1>4, <2>1, <3>1
  <2>3. c.result \in {"rows", "last"} =>
          current.kind \in c.wants /\ current.kind \in DataKinds
    <3>1. c.result \in {"rows", "last"} => current.kind \in c.wants
      BY <1>1, <2>1, AnswerFacts
    <3>2. c.result \in {"rows", "last"} => \A k \in c.wants : k \in DataKinds
      BY <1>1 DEF Shape, DataKinds
    <3> QED BY <3>1, <3>2
  <2>4. CASE c.result = "rows"
    <3>1. o \in Receivers(current)
      BY <2>1, <2>3, <2>4, AnswerReaches
    <3>2. current.kind = "fetch" => c.needs = "any" \/ c.needs \in current.attrs
      BY <1>1, <2>1, <2>4, AnswerFacts
    <3>3. acc'[o] = Append(acc[o], current)
      BY <1>1, <1>2, <2>3, <2>4, <3>1, <3>2, Collected
    <3>4. acc[o] \in Seq(AnyRow)
      BY <2>4 DEF ResultInv, RowsType
    <3>5. Reports(acc[o], o, Routed(o))
      BY <1>3, <2>4 DEF Recorded
    <3>6. Reports(Append(acc[o], current), o, Append(Routed(o), current))
      BY <1>4, <2>2, <3>4, <3>5, ReportsOwn
    <3> QED BY <2>2, <2>4, <3>3, <3>6 DEF Recorded
  <2>5. CASE c.result = "last"
    <3>1. o \in Receivers(current)
      BY <2>1, <2>3, <2>5, AnswerReaches
    <3>2. acc'[o] = o
      BY <1>1, <1>2, <1>6, <2>3, <2>5, <3>1, Collected
    <3> QED BY <2>5, <3>2 DEF Recorded
  <2>6. CASE c.result = "union"
    <3>1. \/ current.kind = "capability"
          \/ current.kind = "ok" /\ "capability" \in current.attrs
      BY <1>1, <2>1, <2>6, AnswerFacts
    <3>2. o \in Receivers(current)
      BY <1>1, <2>1, <2>6, <3>1, AnswerReaches DEF Shape, DataKinds
    <3>3. acc'[o] = acc[o] \cup {o}
      BY <1>1, <1>2, <1>6, <2>6, <3>1, <3>2, Collected
    <3> QED BY <2>6, <3>3 DEF Recorded
  <2> QED BY <2>4, <2>5, <2>6 DEF Recorded
<1>7. CASE current.from # o
  <2>1. Recorded(o, acc[o], sent[o])
    BY <1>3, <1>7 DEF Routed
  <2>2. CASE c.result = "rows"
    <3>1. acc'[o] = acc[o] \/ acc'[o] = Append(acc[o], current)
      BY <1>1, <1>2, <2>2, Collected
    <3>2. acc[o] \in Seq(AnyRow)
      BY <2>2 DEF ResultInv, RowsType
    <3>3. Reports(acc[o], o, sent[o])
      BY <2>1, <2>2 DEF Recorded
    <3>4. Reports(Append(acc[o], current), o, sent[o])
      BY <1>4, <1>7, <3>2, <3>3, ReportsOther
    <3> QED BY <2>2, <3>1, <3>3, <3>4 DEF Recorded
  <2>3. CASE c.result = "last"
    <3>1. CASE o \notin Receivers(current) \/ current.kind \notin c.wants
      BY <1>1, <1>2, <2>1, <2>3, <3>1, Collected
    <3>2. CASE o \in Receivers(current) /\ current.kind \in c.wants
      <4> DEFINE p == current.from
      <4>1. current.kind = "status"
        BY <1>1, <2>3, <3>2 DEF Shape
      <4>2. p \in First(server) /\ p \in Ops /\ current \in Answer(p)
        BY <1>2, <4>1, CurrentRow
      <4>3. cmd[p].wants = {"status"}
        BY <4>1, <4>2, AnswerFacts, CommandShape DEF OrderInv
      <4>4. stage[p] = "withdrawn"
        BY <1>7, <3>2, <4>1, <4>2, <4>3, AnswerReaches DEF DataKinds
      <4>5. sent[o] = <<>>
        <5>1. o \in write_queue
          BY <3>2, ReceiverFacts
        <5>2. CASE stage[o] = "queued"
          BY <5>2 DEF SentInv
        <5>3. CASE stage[o] = "written" /\ sent[o] # <<>>
          <6>1. o \in server /\ p \in server /\ p <= o
            BY <4>2, <5>3 DEF OrderInv, First
          <6>2. o <= p
            BY <5>3, <6>1 DEF SentInv
          <6>3. p \in Nat
            BY <4>2, DispatchAssumption
          <6> QED BY <1>5, <1>7, <6>1, <6>2, <6>3
        <5> QED BY <5>1, <5>2, <5>3 DEF OrderInv
      <4> QED BY <2>3, <4>5 DEF Recorded
    <3> QED BY <3>1, <3>2
  <2>4. CASE c.result = "union"
    <3>1. acc[o] \subseteq acc'[o]
      BY <1>1, <1>2, <2>4, Collected
    <3> QED BY <2>1, <2>4, <3>1 DEF Recorded
  <2> QED BY <2>2, <2>3, <2>4 DEF Recorded
<1> QED BY <1>6, <1>7

(* The record is kept in every state.                                      *)
LEMMA RecordsHold ==
    ASSUME \A r \in Pushes : r.kind # "status"
    PROVE  Spec => []RecordInv
<1>1. Init => RecordInv
  <2> SUFFICES ASSUME Init, NEW o \in Ops PROVE Recorded(o, acc[o], Routed(o))
    BY DEF RecordInv
  <2>1. Routed(o) = <<>>
    BY DispatchAssumption DEF Init, Routed, Quiet
  <2>2. cmd[o].result = "rows" => acc[o] = <<>>
    BY DEF Init, EmptyResult
  <2>3. Reports(<<>>, o, <<>>)
    <3> DEFINE at == [k \in 1..Len(<<>>) |-> 1]
    <3>1. \A k \in 1..Len(<<>>) : FALSE
      OBVIOUS
    <3>2. at \in [1..Len(<<>>) -> 1..Len(<<>>)]
      BY <3>1
    <3> HIDE DEF at
    <3> QED BY <3>1, <3>2, Zenon DEF Reports
  <2> QED BY <2>1, <2>2, <2>3 DEF Recorded
<1>2. /\ TypeOK /\ OrderInv /\ SentInv /\ ResultInv /\ RecordInv /\ [Next]_vars
      => RecordInv'
  <2> SUFFICES ASSUME TypeOK, OrderInv, SentInv, ResultInv, RecordInv, [Next]_vars
               PROVE  RecordInv'
    OBVIOUS
  <2>1. ASSUME UNCHANGED <<cmd, acc>>,
               \A o \in Ops : stage'[o] # "withdrawn" => stage[o] # "withdrawn",
               \A o \in Ops : Routed(o)' = Routed(o)
        PROVE  RecordInv'
    BY <2>1 DEF RecordInv, Recorded
  <2>2. ASSUME UNCHANGED <<current, sent>> PROVE \A o \in Ops : Routed(o)' = Routed(o)
    BY <2>2 DEF Routed
  <2>3. ASSUME NEW o \in Ops, Submit(o) \/ Cancel(o) PROVE RecordInv'
    BY <2>1, <2>2, <2>3 DEF Submit, Cancel, TypeOK
  <2>4. ASSUME Write PROVE RecordInv'
    BY <2>1, <2>2, <2>4 DEF Write, Unwritten, TypeOK
  <2>5. ASSUME NEW status \in {"ok", "no"}, Tagged(status, "none") PROVE RecordInv'
    <3>1. UNCHANGED <<cmd, acc, current, sent>>
      BY <2>5 DEF Tagged
    <3>2. \A o \in Ops : stage'[o] # "withdrawn" => stage[o] # "withdrawn"
      BY <2>5 DEF Tagged, TypeOK, OrderInv
    <3> QED BY <2>1, <2>2, <3>1, <3>2
  <2>6. ASSUME UNCHANGED dispatchVars PROVE RecordInv'
    BY <2>1, <2>2, <2>6 DEF dispatchVars
  <2>7. ASSUME ServerPush PROVE RecordInv'
    <3>1. /\ current = Quiet /\ current' \in Pushes
          /\ UNCHANGED <<cmd, stage, acc, sent>>
      BY <2>7 DEF ServerPush, Receive
    <3>2. \A o \in Ops : current.from # o /\ current'.from # o
      BY <3>1, DispatchAssumption DEF Quiet
    <3>3. \A o \in Ops : Routed(o)' = Routed(o)
      BY <3>1, <3>2 DEF Routed
    <3> QED BY <2>1, <3>1, <3>3
  <2>8. ASSUME ServerRow PROVE RecordInv'
    <3>1. PICK o \in First(server) : \E r \in Answer(o) :
             Receive(r) /\ sent' = [sent EXCEPT ![o] = Append(@, r)]
      BY <2>8 DEF ServerRow
    <3>2. PICK r \in Answer(o) : Receive(r) /\ sent' = [sent EXCEPT ![o] = Append(@, r)]
      BY <3>1
    <3>3. current = Quiet /\ current' = r /\ UNCHANGED <<cmd, stage, acc>>
      BY <3>2 DEF Receive
    <3>4. o \in Ops
      BY DEF First, TypeOK
    <3>5. r.from = o /\ r \in AnyRow
      BY <3>4, AnswerFacts, CommandShape DEF OrderInv, AnyRow
    <3>6. \A p \in Ops : current.from # p
      BY <3>3, DispatchAssumption DEF Quiet
    <3>7. sent[o] \in Seq(AnyRow) /\ sent'[o] = Append(sent[o], r)
      BY <3>2, <3>4 DEF SentInv
    <3>8. SubSeq(sent'[o], 1, Len(sent'[o]) - 1) = sent[o]
      <4>1. /\ Len(sent'[o]) = Len(sent[o]) + 1 /\ Len(sent[o]) \in Nat
            /\ SubSeq(sent'[o], 1, Len(sent[o])) = sent[o]
        BY <3>5, <3>7, Appended
      <4>2. Len(sent'[o]) - 1 = Len(sent[o])
        BY <4>1
      <4> QED BY <4>1, <4>2
    <3>9. \A p \in Ops : p # o => sent'[p] = sent[p]
      BY <3>2 DEF SentInv
    <3>10. \A p \in Ops : Routed(p)' = Routed(p)
      BY <3>3, <3>5, <3>6, <3>8, <3>9 DEF Routed
    <3> QED BY <2>1, <3>3, <3>10
  <2>9. ASSUME Route PROVE RecordInv'
    <3>1. current' = Quiet /\ UNCHANGED <<cmd, stage, sent>>
      BY <2>9 DEF Route
    <3>2. \A o \in Ops : Routed(o)' = sent[o]
      BY <3>1, DispatchAssumption DEF Routed, Quiet
    <3>3. \A o \in Ops : stage[o] # "withdrawn" => Recorded(o, acc'[o], sent[o])
      BY <2>9, RouteRecords
    <3> QED BY <3>1, <3>2, <3>3 DEF RecordInv, Recorded
  <2> QED BY <2>3, <2>4, <2>5, <2>6, <2>7, <2>8, <2>9 DEF Next, vars, HandlerStep
<1> QED BY <1>1, <1>2, DispatchHolds, ResultsHold, PTL DEF Spec

(* A command that succeeds reports every row it was answered with, in      *)
(* order.  A STATUS response that answers no command is excluded: a STATUS *)
(* command keeps the last one it is handed (status_command::on_untagged),  *)
(* whatever it was sent for.                                               *)
THEOREM NothingLostHolds ==
    ASSUME \A r \in Pushes : r.kind # "status"
    PROVE  Spec => []NothingLost
<1>1. TypeOK /\ OrderInv /\ SentInv /\ ResultInv /\ RecordInv => NothingLost
  <2> SUFFICES ASSUME TypeOK, OrderInv, SentInv, ResultInv, RecordInv,
                      NEW o \in Ops, Succeeded(o)
               PROVE  Recorded(o, outcome[o].value, sent[o])
    BY DEF NothingLost
  <2>1. stage[o] = "done" /\ o \notin server
    BY DEF Succeeded, OrderInv
  <2>2. Routed(o) = sent[o]
    <3>1. current.from # o
      BY <2>1, CurrentRow, DispatchAssumption DEF First, Quiet
    <3> QED BY <3>1 DEF Routed
  <2>3. Recorded(o, acc[o], sent[o])
    BY <2>1, <2>2 DEF RecordInv
  <2>4. CASE cmd[o].result \in {"rows", "last", "union"}
    BY <2>3, <2>4 DEF ResultInv, DoneInv
  <2> QED BY <2>4 DEF Recorded
<1> QED BY <1>1, DispatchHolds, ResultsHold, RecordsHold, PTL
=============================================================================
