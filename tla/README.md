# A TLA+ model of bkmail

bkmail is a header-only asynchronous IMAP client.  Layer 1 (`imap_context`) is
a command queue over one connection: a write pump that batches segments into
single writes, a read pump that frames, parses and dispatches responses, and
operation cells that carry each command from submission to exactly one
completion.  Layer 2 (`connect`, `imap_connection`, the session states) turns
commands into operations of a typed session and races them against stop
requests.  Completions run on any thread of the `io_context`; the kernel orders
read and write completions in no particular way.  This directory models both
layers, model-checks them with TLC and proves the safety properties of both with
TLAPS.

Paths below are relative to `src/include/bkmail/imap/` unless they start with
`docs/`.

## Inventory

| Part | State | Operations | What makes it hard |
|---|---|---|---|
| commands (`command/*.h`) | segments rendered, flushed, unlocked; IDLE phase; the result under assembly | render, next_segment, on_segment_flushed, on_continuation, on_untagged, on_tagged, done | walls: the second segment waits for the server; several commands want the same kind of data |
| operation cell (`operation_base.h`) | staged, has_written, detached, stopped, finished; the command | attach, on_untagged, on_tagged, fail, cancel_written, request_stop | several paths race for the one delivery |
| context core (`imap_context.h`) | phase, registry (tag to cell, non-owning), write queue (owning), continuation target, bye_received, abandoned | submit, flush, cancel, close, abandon, connection_lost, maybe_finish_close | cancel in every stage; teardown against armed I/O |
| write pump (`detail/write_pump.h`) | staging buffer, list of raw staged pointers, write_in_flight, kick_posted | post_kick, kick, arm, on_write_done | pointers outlive the lock; windows between kick, arm and completion |
| read pump (`detail/read_pump.h`) | read buffer, read_running | arm, on_read, dispatch of tagged / untagged / continuation | replies overtake write completions; errors against close |
| response lexer (`detail/response_lexer.h`) | scan mode, cursors | next_complete_response, consume_response | CRLF and literals cut at any octet |
| response parser (`detail/parse_cursor.h`, `response_parser.h`, `fetch_parse.h`) | none | parse, FETCH, envelope, body structure, header block, address list | quoting, literals, NIL, nesting, what is skipped |
| unsolicited table (`detail/unsolicited_table.h`) | handler entries, active flags | add, deactivate, compact, notify | registration and deactivation from inside a notification |
| state operations (`state/detail/state_op_sender.h`) | completed flag, stop callback, busy slot, idle timer | start, gate, submit, stop forwarder, on_result, wake | reply, push, timer and stop race on several threads |
| STARTTLS (`state/not_authenticated.h`) | phase, stop latch | on_starttls, on_handshake, on_capability, stop forwarder | the context is replaced under a possible cancel |
| connect (`connect.h`) | phase, stop latch, greeting, connection | resolve, connect, handshake, greeting, probe, stop forwarder | a stop request races every phase |
| session (`state/*.h`, `imap_connection.h`) | which state, capabilities, mailbox view, transport, connection ownership | every operation of every state, TLS upgrade, detained connection | client and server must agree after every outcome |
| value types (`detail/astring.h`, `sequence_set.h`, `search_criteria.h`) | none | classify, quote, literal, base64, validate | encoding edges |

How they interact: a state operation passes its gate, submits one command and
waits for the reply or for a stop.  A submission allocates a tag, renders the
command into a cell and gives the cell to the write queue; `post_kick`
schedules `kick`, which copies one segment of every operation up to the first
wall into the staging buffer and arms a write; its completion notifies the
cells, and chains the next `kick`.  The read pump frames the buffer, parses each
response, broadcasts it to the unsolicited table, offers data to the queued
operations, takes a cell out of the queue by its tag, or unlocks the next
segment of the one cell in `continuation_target_` and kicks.  `close`,
`abandon` (the destructor) and `connection_lost` move the context to `draining`;
whoever goes quiet last closes the descriptor in `maybe_finish_close`.  One
recursive mutex protects a context and is released around every completion.

## Modules

| Module | What it is |
|---|---|
| `Commands` | the write-side state machines of the command types as operators on a record |
| `ImapContext` | context core, operation cells, write pump, read pump, and an external server and network |
| `OperationPromise` | the abstract specification: what a connection promises to each operation |
| `CommandCatalog` | every command class as a record (verb, arguments, absorbed kinds, result), `on_untagged` and `on_tagged` |
| `UnsolicitedTable` | the handler table |
| `Dispatch` | pipelined commands, the attribution of untagged data, and the table |
| `Astring` | character classes, quoting, literals |
| `ResponseLexer` | the incremental scanner as a state machine over octets |
| `ParseCursor`, `ResponseParser`, `FetchParse`, `MailText`, `DataRows` | the parsers as operators on sequences of octets |
| `Request`, `ServerTokens`, `ServerReader` | the request line of every command, and how a server reads one argument and a whole line (external, RFC 3501) |
| `Wire` | the conversation: reads of any size, lexer, parser, reader of the row |
| `OperationState` | what all Layer-2 operations share: claim, stop callback with its blocking destructor, posted delivery |
| `StateOp`, `StartTls`, `Connect` | the three kinds of Layer-2 operation |
| `Layer2` | one operation of any kind, its workers and the thread that stops it |
| `Session` | the session states over a connection, the server's state and the mailbox |
| `MC*` | the modules TLC runs: constants and, in `MCWire`, the server's texts |
| `ImapContextProofs`, `PromiseProofs`, `RoutingProofs`, `OrderProofs` | theorems about `ImapContext`; the second and third extend the first, the fourth the third |
| `DispatchProofs`, `WireProofs`, `Layer2Proofs`, `SessionProofs` | theorems about `Dispatch` with `UnsolicitedTable`; `ResponseLexer`, `Astring` and `ParseCursor`; `Layer2` with its parts; and `Session` |

`Commands` is used by `ImapContext`; `CommandCatalog` by `Dispatch` and
`Request`; the parser modules by `Wire`; `OperationState` by
`StateOp`, `StartTls` and `Connect`, which `Layer2` composes.  `RECURSIVE`
operators occur only in the text modules above the cursor (`ResponseParser`,
`FetchParse`, `MailText`, `DataRows`, `Request`, `ServerReader`, `Wire`, `MCWire`);
the others, where recursion is written as a recursive function, can be proved about.

### Abstraction

*Granularity of Layer 1.* An action is one critical section of the core mutex, or
one hand-over to the scheduler or the kernel.  Code that runs after an unlock
and before the next lock is a separate step, so every interleaving at a lock
boundary is explored.  The calls that a thread still owes at such a boundary are
state: `posting` (a `post_kick`), `drain` (a `kick`), `losing` (a
`connection_lost(ec)`, by `ec`) and `finishing` (a `maybe_finish_close`).  Two
owed calls of one kind are merged because the second call of each is without
effect.  Atomics that the code reads outside the mutex are modelled where it
matters: `WriteDoneTeardown` lets the load of `abandoned_` be stale.

*Granularity of Layer 2.* Every access to the claim (`completed_`), the latch,
the phase, the stop callback and the busy slot is a step of the thread that
makes it; `pc` of `OperationState` says where each thread is.  The destructor of
the stop callback blocks while another thread runs the callback, and does not
when the callback destroys itself, nor while `emplace` has not yet filled the box.
The connection may be lost at any step (`open`).  A command submitted then fails
inside `submit`, so that its handler runs inside `start()` (`nested` is the thread
it returns to); one submitted before fails later (`FailCell`).  What `cancel` leaves
behind is in `cell`: a withdrawn command's handler never runs, but a command in the
write under way, an IDLE whose DONE is sent, and any command once the context is no
longer open are kept with their handlers.

*Cells.* An operation is its tag number.  Tags grow and submissions are not
concurrent (docs/usage.md, section 7.5), so the write queue in tag order is the
set `Queue`.  `own` says who owns the cell: the queue, a posted stop completion
(`posted`), the frame of a failed write (`held`), nobody any more (`freed`).
`outcome` is the one delivery.  `batch` is the list of raw pointers of the write;
with the fault `reuse` a freed pointer in it may come to denote a new cell.

*Commands.* In `ImapContext` a segment has no text.  Seven kinds stand for all
command types: `simple` (every one-line command), `barrier` (LOGOUT, STARTTLS,
AUTHENTICATE with an initial response), `literal` (APPEND, LOGIN with one
literal), `login` (two literals), `litplus` (LITERAL+), `sasl` (AUTHENTICATE),
`idle`.  In `Dispatch` a response carries its kind, what it holds and the
operation it answers, and a result is the collection of what went into it.

*Order.* The write queue is appended to and erased from, never reordered, and so
is the table of handlers (a sweep keeps the order).  Operations and entries are
numbered as they are submitted or added, so in `Dispatch` and `UnsolicitedTable`
each of these lists is the set of its numbers, and `First` is its head.  Where an
operator chooses by `CASE`, the arms exclude each other: TLA+ does not choose the
first that is true, although TLC does.

*Text.* In `Wire` a text is a sequence of tokens: single octets where the code
looks at octets (quotes, backslashes, braces, parentheses, CR, LF, digits,
spaces), a whole word where it only compares words.  `Max64` and `Word32` stand
for the ends of the 64-bit and 32-bit ranges.  `kMaxBodyStructureDepth` is the
code's own limit, lowered.

*Environment.* The server answers what was written: it grants a continuation at
a wall, replies to a complete command, and, if the instance's `Faults` say so,
refuses a wall with a tagged NO, challenges once more, sends BYE or something
unparsable.  The network may end the connection (`Hangup`, `Lost`); allocations
of pump boxes may fail (`memory`).  `IdleExclusive` is the caller's obligation
from `command/idle_command.h`: nothing is submitted behind a running IDLE.  In
`Dispatch` the server answers commands in order with the rows `Answer` allows
and may push; in `MCWire` it may send a value in every form the grammar allows.

### Correspondence

| Code | Actions |
|---|---|
| `submit`, `start_operation`, `enqueue_operation` | `Submit`, `SubmitStopped`, `SubmitRejected` |
| `flush`, `post_kick`, `kick_receiver` | `Flush`, `PostKick`, `PostKickFails`, `KickReceiver` |
| `write_pump::kick`, `arm` | `Kick`, `KickIdle`, `WriteArm`, `WriteArmTeardown`, `WriteArmFails` |
| `on_write_done` | `WriteDone`, `WriteDoneTeardown`, `WriteError`, `WriteErrorDropped`, `WriteErrorTail` |
| `cancel`, `on_stop_requested`, `detach_locked` | `CancelExtract`, `CancelIdle`, `CancelDetach`, then `CompleteStopped` |
| `close`, `abandon`, `connection_lost`, `maybe_finish_close` | `Close`, `Abandon`, `ConnectionLost`, `ConnectionLostLate`, `MaybeFinishClose` |
| `read_receiver`, `on_read` | `ReadQuiet`, `ReadData`, `ReadFails`, `ReadErrorMapped`, `ReadFatalTail`, `ReadBatchDone`, `ReadBatchDoneClosing` |
| `read_pump::arm` | `ReadArm`, `ReadArmTeardown`, `ReadArmFails` |
| `dispatch`, `dispatch_one` (tagged, continuation) | `DispatchTagged`, `DispatchDropped`, `DispatchDiverged`, `DispatchContinuation`, `DispatchBye`, `DispatchUnexpected` |
| `dispatch_one` (untagged) | `Dispatch`: `Receive` (broadcast), `HandlerStep`, `Route` (attribution), `Tagged` |
| `unsolicited_table` | `AddHandler`, `ResetToken`, `NotifyBegin`, `HandlerCall`, `HandlerReturn`; `Compacted` is the lazy sweep |
| `next_complete_response`, `consume_response` | `LiteralShort`, `LiteralDone`, `LineShort`, `LineOpensLiteral`, `LineComplete`, `Consume` |
| `parse_cursor::scratch_` | `InScratch`, `Overwritten`: a string with an escape replaces the one whose view is still held (`ReadParam`) |
| parsers | operators of the same names: `parse`, `parse_resp_text`, `parse_untagged`, `read_nstring`, `walk_fetch_attributes`, `parse_envelope`, `parse_body_structure`, `parse_mail_header_block`, ... |
| `state_op_operation`, `idle_op_operation` | `StateOpStart`, `Gate`, `Submit`, `ArmTimer`, `EmplaceCallback`; `Forward`, `ForwardCancel`, `ForwardCleanup`, `PostStoppedDelivery`, `RunStoppedDelivery`; `StateOpReply`, `OnResult`, `Cleanup`, `CompleteWith`; `Push`, `OnUnsolicited`, `TimerRun`, `GuardedFire`, `Wake`, `WakeCancel` |
| the Layer-1 context, as these operations see it | `SubmitCell`, `CancelCell`, `AbandonCell`, `Reply`, `LoseConnection`, `FailCell` (`StateOpFails`, `StartTlsFails`, `ConnectFails`) |
| `start_tls_operation` | `SubmitStartTls`, `OnStartTls`, `StartTlsLatch`, `DetachStream`, `EnterHandshake`, `OnHandshake`, `EmplaceTls`, `EnterCapability`, `Probe`, `OnCapability`, `ReleaseAndDeliver`; `RecordStop`, `LookAtPhase`, `CancelCommand`, `ClaimStop`, `StopCleanup` |
| `connect_operation` | `ConnectStart`, `PhaseDone`, `PhaseLatch`, `NextPhase`, `BeginSession`, `Listen`, `SubmitProbe`, `PublishSession`, `OnGreeting`, `OnProbe`, `Complete`; `ForwardConnect`, `LatchStop`, `ClaimSessionStop`, `AbandonSession`, `ResetInStop` |
| session states | `Session`: one record per method of `not_authenticated_state`, `authenticated_state`, `selected_state` (gate, command, successor on value and on error); `Call`, `Start`, `ReplyOk`, `ReplyNo`, `SelectRows`, `SelectOk`, `StartTlsOk`, `Handshake`, `ProbeReply`, `Stop`, `Heartbeat`, `FailDead`, `RunDetained` |

## Runs

| Run | Instance | Checks |
|---|---|---|
| `cancellation` | 2 operations (simple, literal, idle), cancel, refusals, address reuse | `RegistryMatchesCells`, `ContinuationRouted`, `TargetWaits`, `WithdrawnNeverAnswered`, `KeepsPromise` |
| `teardown` | 2 operations (simple, literal), close, abandon, hang-up | `TypeOK`, `DescriptorQuiet`, `StagedOutliveTeardown`, `KeepsPromise` |
| `faults` | 1 literal on the callback path, close, abandon, hang-up, BYE, garbage, refusal, failing allocations | `ByeWinsOnRead`, `DrainEnds` (fair); `DescriptorQuiet` and `RegistryMatchesCells` are proved for it too |
| `pipeline` | 2 operations (simple, sasl), hang-up, a second challenge | `WireOrder`, `NoLostWakeup`, `EveryStartCompletes` (fair) |
| `dispatch` | 2 commands of one class, every class in turn, the first possibly cancelled, 2 rows each, 2 handlers, 2 events | `TypeOK`, `NothingLost`, `NoCrosstalk`, `SnapshotValid`, `NoEventMissed`, `TokenKeepsEntry` |
| `wire` | every kind of response in every wire form, followed by a tagged OK, cut into reads at every octet; every request with values for its arguments | `CursorInBounds`, `NoLineEndSkipped`, `FramingExact`, `RoundTrip`, `RequestUnderstood` |
| `session` | every method of every state, 5 operations in a row, mailboxes of up to 2 messages | `SessionTypeOK`, `StatesAgree`, `ViewCurrent`, `GateHonest`, `LogoutReleases` (fair) |
| `layer2` | one operation of each kind, one or two workers, a stop request and the loss of the connection at any step | `OperationTypeOK`, `OneDelivery`, `NeverOnRequester`, `NoneInsideAfterDelivery`, `DisownedOnEveryExit`, `SlotFreeOnDelivery`, `FirstGreetingDecides`, `SessionOrNothing`, `StopCompletes` (fair) |

Layer 1:

- `KeepsPromise`: `ImapContext` implements `OperationPromise`.  The refinement
  mapping (`PromisedResult`) forgets pumps, registry, queue and wire and keeps,
  per operation, whether it waits, was withdrawn, or how it completed.  The
  abstract specification says that an operation completes once, that a reply
  reaches only one that was not withdrawn and only before the connection is
  gone, and that a connection only goes down.
- `DescriptorQuiet`: the descriptor is not closed under an armed or arming
  operation, the fd-reuse race of docs/architecture.md section 10.
- `RegistryMatchesCells`, `TargetWaits`: the two non-owning references, the
  registry and `continuation_target_`, never dangle while the context is open,
  and no queued operation is unreachable.
- `ContinuationRouted`: a `+` that overtakes its write completion is routed.
- `StagedOutliveTeardown`: teardown leaves the write's cells alone.
- `WithdrawnNeverAnswered`, `WireOrder`, `NoLostWakeup`: cancellation, literal
  walls, wake-ups.
- `EveryStartCompletes`, `DrainEnds`: liveness.

Dispatch and wire:

- `NothingLost`, `NoCrosstalk`: a command that succeeds has every row of its
  answer and, unless an earlier command of its kind was cancelled, no row of
  another's.
- `SnapshotValid`, `NoEventMissed`, `TokenKeepsEntry`: a notification calls only
  entries that exist, reaches every handler that was there when it began and is
  still active, and the sweep never takes an entry whose token lives.
- `FramingExact`, `NoLineEndSkipped`, `CursorInBounds`: however the octets are
  cut into reads, the lexer frames the responses that were sent, never passes a
  line end, never leaves the buffer.
- `RoundTrip`, `RequestUnderstood`: what the server meant is what the caller
  gets, and what the caller asked is what the server reads.  Left out of the
  streams, because the code does not read them back: a flag list to be skipped, a
  literal right behind `(`, and a body parameter whose name and value both have
  escapes (see the departures below).  Nor is a SEARCH row that goes on
  with text that is no number, at which the reader stands still (`Stuck` of
  `DataRows`); search criteria are spelled without `{`.

Layer 2:

- `OneDelivery`, `NeverOnRequester`, `SlotFreeOnDelivery`: one completion, not on
  the requesting thread, with the busy slot free.
- `NoneInsideAfterDelivery`: no thread is in the operation once it is completed.
  Excluded are the two cases in which the code breaks this, a submission rejected
  inside `start()` and the late handler of a kept cell.
- `DisownedOnEveryExit`: no exit leaves the command as it was; it was answered,
  failed or cancelled first.  That does not mean that its handler cannot run any
  more: a cancelled cell may be kept.  Only a connect, which destroys its connection
  instead of relying on `cancel`, leaves no handler at all.
- `FirstGreetingDecides`, `SessionOrNothing`: a connect delivers a session in the
  state of the first greeting it heard, or an error and no connection.
- `StopCompletes`: a stop completes a command, an IDLE and a connect.
- `StatesAgree`, `ViewCurrent`, `GateHonest`, `LogoutReleases`: the session as the
  user sees it.

### Bounds

`MaxOps` submissions, `MaxInbox` responses under way.  One response under way is
enough for the races between a response and a write completion, because dispatch
and the server's next response interleave freely.  Two operations are enough for
everything that relates a command to the one behind it: a wall and what it holds
back, a staged cell and a written one, a freed address and its new owner, data
that two commands want.  Where the question is about one cell against every kind
of failure (`faults`), one operation keeps the failures affordable.  `MaxRead`
(40 tokens) is longer than most texts, so a read may hold several responses, and
shorter than a nested body structure, which takes several reads; a read may end
at any token of any text.  What the lexer keeps between reads is only its mode and two
cursors, so two responses show every hand-over.  Five operations lead through
every state of a session and back.  Two workers are enough for a Layer-2
operation: its actors are the reading worker, one other worker (timer, posted
delivery, or the tail of `start`) and the requester.  Deadlock is not checked:
a model whose bounded submissions are done rests.

Where `session.cfg`, `dispatch.cfg` and `layer2.cfg` switch a behaviour off
(`PushInGap`, `CloseRefused`, `SeveralWorkers`, `AddsInHandler`, `BoxFails`), the
code departs from the property under it, as listed below.  `DetainFails` and
`LosesConnection` are on: a LOGOUT's teardown may find no memory, and a connection
may be lost at any step of an operation.

### Fairness

`FairSpec` of `ImapContext` assumes weak fairness of every internal step: the
scheduler runs what was posted, a thread that left a critical section continues,
the kernel completes an armed write and an armed read that has something to
report, the server answers what it received.  Dispatch is strongly fair, because
a response is finitely many bytes and a read that ends inside one is followed by
one that ends it.  User calls, faults and submissions are not fair.  One
assumption deserves attention: `close` and `abandon` shut down only the read
side, so the completion of an armed write during the drain depends on the peer
reading (or resetting); `DrainEnds` holds under that assumption only.

`FairSpec` of `Layer2` lets every thread inside the operation go on (weak) and
every posted task and network phase come to its turn (strong: the queue of the
`io_context` is served in order).  The server greets and answers during connect
and STARTTLS; an ordinary command or an IDLE need not ever be answered.  A loss
need not happen, but once it has, the commands that wait are failed
(`LossReported`), as `connection_lost` and the end of the write under way do.
`SilentSpec` drops the server's part.  `FairSpec` of `Session` assumes that the
posted teardown of a detained connection runs and that a dispatch unwinds.

## Where the code departs from its documentation

Four departures have a run that TLC ends with a counterexample:

| Run | Property | Behaviour |
|---|---|---|
| `close_strands_written` | `ClosedLeavesNothing` | `close()` finishes closing between `read_running_ = false` and `connection_lost()` in `on_read`; the latter returns early and a written operation never completes.  The same happens when the last read of a draining context delivers data. |
| `idle_done_lost` | `DoneReachesWire` | `+ idling` overtakes the completion of the IDLE line's write; a `done()` in between queues DONE, which the late `on_segment_flushed` marks as sent. |
| `pipelined_past_barrier` | `BarrierExclusive` | The pipeline block of STARTTLS, LOGOUT and AUTHENTICATE ends with the drain that staged them. |
| `start_tls_stop_lost` | `StopNeverLost` (fair) | A stop during the capability re-probe cancels the probe and leaves the completion to its reply, which never comes (`state/not_authenticated.h:160` says never lost). |

Further departures.  In Layer 1, each shown by TLC on the configuration named
(`tlc -config <name>.cfg MCImapContext`):

| Configuration | Property | Behaviour |
|---|---|---|
| `refusal_stalls_pipeline` | `EveryStartCompletes` (fair) | A tagged NO removes an operation parked on a wall, but no drain follows: what waits behind it stays unsent (docs/architecture.md:709). |
| `literal_plus_interleaved` | `WireOrder` | With LITERAL+ the header and the bytes of a literal are staged in different drains; another command's line is written between them (docs/architecture.md:719). |
| `withdrawn_handler_invoked` | `WithdrawnNeverInvoked` | A handler detached by `cancel` is invoked by the `fail()` of a later teardown (`operation_base.h:305` says never). |
| `cancelled_literal_sent` | `UnsentStaysUnsent` | A queued, never staged literal counts as mid-handshake, because it awaits its continuation from `render` on; it is detached and sent (docs/usage.md:854 says no bytes ever). |
| `detached_never_retired` | `DetachedRetired` (fair) | The refusal of a detached operation is dropped; it waits for ever and blocks the queue. |
| `flush_hits_reused_cell` | `FlushHitsStaged` | The re-validation of staged pointers compares addresses; a new cell at a freed cell's address counts as flushed. |
| `registry_dangles_in_drain` | `RegistryOwned` | Cells retired while draining stay in the registry until `connection_lost`. |
| `arm_failure_strands_staged` | `ClosedLeavesNothing` | When arming a write fails, its cells stay staged and nothing retires them. |
| `abandon_invokes_handler` | `AbandonSilences` | `abandoned_` is loaded outside the mutex in `on_write_done`; a handler is invoked after the destruction of the context. |
| `write_error_hides_bye` | `ByeWins` | A failing write reports its own error although a BYE was recorded; only the read side maps to `server_bye`. |
| `sasl_challenge_unrouted` | `ContinuationRouted` | A further SASL challenge has no route and ends the connection; the `*` answer in `command/authenticate_command.h:123` is unreachable. |

The rest, two more of Layer 1 and those of the other modules, each shown by TLC on
a passing run's configuration with the change named:

| Configuration | Change | Property | Behaviour |
|---|---|---|---|
| `pipeline` | `Kinds = {"simple", "sasl", "login"}`, `MaxOps = 3`, `MaxInbox = 2`, this property only | `WireOrder` | A further SASL challenge reaches a LOGIN pipelined behind the AUTHENTICATE and unlocks one of its walls while its first segment is still being written; with a wall less, the LOGIN is not parked when its next segments are due, and another command is written between them (`detail/read_pump.h:363`). |
| `cancellation` | `Kinds = {"litplus", "literal"}`, `Faults = {"reuse"}`, `Calls = {}`, `MaxOps = 3`, `MaxInbox = 2`, this property only | `ContinuationRouted` | The last segment of a LITERAL+ command is answered while its write is in flight and its cell freed; a literal command takes the address, and the write completion gives it the continuation route of another literal whose `+` is under way (`detail/write_pump.h:412`, against 408-410). |
| `dispatch` | `AddsInHandler = TRUE`, `MaxEntries = 3` | `SnapshotValid` | `add()` sweeps inactive entries (`detail/unsolicited_table.h:229`) that the snapshot of the running notification still holds; lines 101-102 and 239-243 say the snapshot stays valid.  A waking IDLE registers inside a handler (`state/selected.h:97`). |
| `dispatch` | check also the property | `EarliestWaiterOwns` | The rows of a cancelled FETCH become rows of the next one (`detail/read_pump.h:336`). |
| `dispatch` | check also the property | `StoreEchoDropped` | The FETCH that answers a STORE becomes a row of a FETCH pipelined behind it (`command/store_command.h:110`). |
| `dispatch` | check also the property | `SnapshotOfOneMailbox` | Untagged OKs go to every queued SELECT, so one mailbox's snapshot shows the other's UNSEEN (`command/select_command.h:41`). |
| `wire` | `VolunteeredFlags`, `VolunteeredFlagsScripts` for `Conversations`, `Streams` | `RoundTrip` | A flag list before an ENVELOPE cannot be skipped, because a backslash is no atom character; the row is dropped (`command/fetch_envelopes_command.h:15` says extra attributes such as FLAGS are skipped). |
| `wire` | `DateLiterals`, `DateLiteralsScripts` | `FramingExact` | A literal right behind `(` is not recognised by the lexer (`detail/response_lexer.h:168`, against lines 33-36). |
| `wire` | `WholeSections`, `WholeSectionsScripts` | `RoundTrip` | `BODY[]` asked for with `fetch_command` yields no section (`detail/fetch_parse.h:369`, against 358-360). |
| `wire` | `LiteralNames`, `LiteralNamesScripts` | `RequestUnderstood` | A mailbox name with 8-bit data or a line break is quoted as it is (`command/create_command.h:129`). |
| `wire` | `Oauth2`, `Oauth2Scripts` | `RequestUnderstood` | `authenticate_oauth2` encodes the payload (`state/not_authenticated.h:423`) that the command encodes again (`command/authenticate_command.h:60`). |
| `wire` | `EscapedParams`, `EscapedParamsScripts` | `RoundTrip` | Of a body parameter whose name and value both have escapes the name is overwritten: its view into `scratch_` is held while the value is read (`detail/fetch_parse.h:188-196`), although `detail/parse_cursor.h:31-34` says that the next `read_quoted()` invalidates it. |
| `layer2` | check also the property | `NoneInsideEver` | On a lost connection `submit()` fails the command at once; the operation completes inside `start()`, which goes on with `flush()` and the stop callback (`state/detail/state_op_sender.h:514-519`).  And the handler of a command that was cancelled but kept is called by the `fail()` of the teardown after the operation was completed (`operation_base.h:449-455`; `state/detail/state_op_sender.h:373-375` says nobody touches the state then). |
| `layer2` | check also the property | `NoCancelDuringUpgrade` | The forwarder looks at the phase, then cancels while the context is replaced (`state/not_authenticated.h:171`, against 209-212). |
| `layer2` | check also the property | `NoUseOfAbandoned` | The reply of the probe reaches a connection that the stop has reset (`connect.h:371`). |
| `layer2` | `SilentSpec`, this property only | `LatchHonouredAlone` | A stop latched while the session begins is only honoured when the server speaks (`connect.h:104`). |
| `layer2` | check also the property | `GreetingDecides` | With two workers the greeting may be dispatched before the listener is registered (`connect.h:322-331`). |
| `layer2` | check also the property | `OnlyLosersInside` | With two workers the operation completes while `start()` still runs in it (docs/known_issues.md, 3). |
| `layer2` | `BoxFails = TRUE` | `NeverOnRequester` | The documented exception (`state/detail/state_op_sender.h:407`): the delivery box cannot be allocated. |
| `session` | `PushInGap = TRUE` | `ViewCurrent` | A push between `idle()` and the start of its sender is heard by nobody (`state/selected.h:217`, against 84-86). |
| `session` | `CloseRefused = TRUE` | `StatesAgree` | After a refused CLOSE the client is Authenticated and the server Selected. |
| `session` | check also the property | `NotUnderDispatch` | When the posted teardown cannot be allocated, the connection is destroyed inside the dispatch of its LOGOUT (`imap_connection.h:312-316`, against 279-281). |
| `session` | `SeveralWorkers = TRUE`, `DetainFails = FALSE`, check also the property | `NotUnderDispatch` | With several workers the posted teardown may run before that dispatch has unwound (`imap_connection.h:299`). |

## Proofs

Every theorem holds for every value of the constants that the named assumption of
the module admits (`ContextAssumption`, `DispatchAssumption`, `TableAssumption`,
`LexerAssumption`, `OperationAssumption`, `MethodsAssumption`, ...): any number of
operations, handlers, workers, responses, any stream, any choice of kinds, calls
and faults.  A hypothesis beyond that is stated in the theorem, and names a
behaviour under which the code departs from the property or leaves the argument;
the last column says which.

Each proof has the same form.  The property is strengthened to an inductive
invariant, every part of which TLC checked on the run's instance before it was
proved; one step per action shows that it is kept; the property follows.

| Theorem | States | Argument | Hypothesis, and why |
|---|---|---|---|
| **`ImapContextProofs`** | | | |
| `TypeCorrect` | `[]TypeOK` | `TypeOK` is inductive: lemmas for the command operators and for moving and retiring cells | |
| `DescriptorQuietHolds` | `[]DescriptorQuiet` | `PumpsLatched`: a pump that is not at rest holds its latch (`read_running_`, `write_in_flight_`), and a closed context holds neither; the property alone is not inductive, because `maybe_finish_close` looks at the latches | |
| `RegistryMatchesCellsHolds` | `[]RegistryMatchesCells` | `RegistryInv` adds that while open a cell held by a failed write has its loss still to be reported, that an abandoned context is not open, and that a fresh tag is not detached | |
| `TargetWaitsHolds` | `[]TargetWaits` | `RouteInv` adds that the route is empty unless the context is open; neither a flush nor `done()` changes whether a command waits | |
| `StagedOutliveTeardownHolds`, `FlushHitsStagedHolds` | `[]StagedOutliveTeardown`, `[]FlushHitsStaged` | `BatchInv`: a listed cell is queued and staged, or was completed by its reply; a cell not freed has no outcome | no `reuse`: staged pointers are re-validated by address (`flush_hits_reused_cell`) |
| **`PromiseProofs`** | | | |
| `WithdrawnNeverAnsweredHolds` | `[]WithdrawnNeverAnswered` | `PromiseInv`: a cell is freed exactly when it has delivered, and a withdrawn one that is still registered is marked stopped, so its reply is not delivered | |
| `ImplementsPromise` | `KeepsPromise` | step simulation: initial states map to initial states, every action to a step of `OperationPromise` or a stutter, from the same invariants | |
| `ByeWinsOnReadHolds` | `ByeWinsOnRead` | `EofUnannounced`: an end of file is only owed by a read pump that stopped for good without a recorded BYE, and none can be recorded after that | |
| **`RoutingProofs`** | | | |
| `CoreHolds` | `[]CoreInv` | the invariants above, and that each cell's segments and the staging buffer agree with the pump's state (`SegInv`, `StagingInv`) | no `reuse` |
| `ContinuationRoutedHolds` | `[]ContinuationRouted` | `GrantInv`: while nothing was lost, an operation that was asked for is the target, at most one `+` is under way and it is the target's, and the server has granted one wall less than the command has unlocked | no `reuse`: with LITERAL+ the route goes to a cell at a reused address (above); no `challenge`: a further SASL challenge has no route (`sasl_challenge_unrouted`) |
| **`OrderProofs`** | | | |
| `NoLostWakeupHolds` | `[]NoLostWakeup` | `WakeInv`: what is ready to be staged has a drain owed: posted, running, or chained by the write in flight | no `reuse`; no `refuse`: a refused wall is removed without a kick (`refusal_stalls_pipeline`) |
| `WireOrderHolds` | `[]WireOrder` | `OrderInv`: as long as nothing was lost, a command between its segments is carried by the write or parked on its wall, and everything in front of it in the queue is spent; what a drain writes ends at the first wall.  With challenges the server no longer counts a command's walls; `AheadInv` says instead that a command whose first segment is under way has at most one wall less than it was rendered with (`OneAhead`), because what reaches it went to the one command that was asked (`StartInv`) | no `reuse`; `challenge` only without `login`, which has two walls and loses one (above); no `memory`: a failed `arm()` leaves segments that count as staged (`arm_failure_strands_staged`); no `litplus` kind (`literal_plus_interleaved`) |
| **`DispatchProofs`** | | | |
| `TokenKeepsEntryHolds`, `NoEventMissedHolds` | `[]TokenKeepsEntry`, `[]NoEventMissed` | `TableInv`, and `HeardInv`: a live handler heard every event since its registration but the one the snapshot still holds it for | |
| `SnapshotValidHolds` | `[]SnapshotValid` | the snapshot stays inside the table | `~AddsInHandler`: `add()` sweeps entries a dispatch still points to |
| `DispatchTypeHolds` | `[]TypeOK` | `OrderInv`: stage, queue and server agree, and the stages go in the order of the numbers | |
| `NoCrosstalkHolds` | `[]NoCrosstalk` | the command the server is answering is the first of the queue unless it was withdrawn (`FirstInQueue`), so the earliest that wants its rows is it; `ForeignInv` keeps what follows for the rows taken in before | |
| `NothingLostHolds` | `[]NothingLost` | `SentInv` ties the response under way to the last one sent to the server's first command; `RecordInv`: what was assembled reports what was routed, by an increasing map of positions that one more row extends | no unasked STATUS: a STATUS command keeps the last one it is handed |
| **`WireProofs`** | | | |
| `CursorInBoundsHolds`, `NoLineEndSkippedHolds` | `[]CursorInBounds`, `[]NoLineEndSkipped` | `LexerInv`: the scan has passed no line end since the line began, a CR at the end of the buffer included; the first line end behind a position exists by well-founded induction | |
| `ResponseEndsAtFirstLineEnd` | `[]EndsAtFirstLineEnd` | what is handed out was found at such a first line end | |
| `FramingExactHolds` | `[]FramingExact` | `FramingInv`: the buffer and the octets still to come are the rest of the script from the first response not yet consumed (`Remainder`), and the cursor stands at the start of one of that response's lines, or before a literal behind which one starts (`InStep`); the line end the scan finds is then the one the server wrote (`FoundLine`) | every script is `WellFramed`: a line ends in what `literal_trailer()` reads as a count exactly where a literal of so many octets follows; `DateLiterals` is a script that is not, and there the property fails. `FramedAssumption` of `MCWire` has TLC evaluate it on the scripts of the run |
| `QuotedReadBack` | `read_quoted` undoes `render_quoted`, inside any text | `EscapedLayout`: where each character stands in the escaped form, from what `FlattenSeq` does step by step; the rest of the string is then read back from its last character to its first | no line end in the text: `read_quoted` refuses one |
| `ArgumentUnderstood` | what `render_astring` and `append_arg` render has no line end, and the server reads the value from it, inside any line | an atom ends at the first character that is none; a quoted string by `QuotedReadBack` | the value is not one for a literal; for `append_arg`, it is 7-bit text (`LiteralNames` is where it is not, and there `RequestUnderstood` fails); what follows is no astring character |
| `LiteralReadBack` | `read_literal` and the server undo `render_literal`, inside any text, for any octets | `DecimalReadBack`: the digits of a number have its value; the digits end at `+` or `}`, and the count is what follows the line end | the length fits 64 bits |
| **`Layer2Proofs`** | | | |
| `OperationTypeHolds`, `OneDeliveryHolds`, `SlotFreeOnDeliveryHolds`, `SessionOrNothingHolds` | the properties of these names | `SafeInv`: the claim is held in at most one place (a thread, a posted task, a delivery), and each place implies what was done on the way to it | |
| `NeverOnRequesterHolds` | `[]NeverOnRequester` | `RequesterInv`: the requesting thread stays in the callback, where no path delivers | `~BoxFails` and the requester does not call `start()`: the documented inline delivery, and a `start()` that finds the stop |
| `NoneInsideAfterDeliveryHolds`, `DisownedOnEveryExitHolds` | the properties of these names | `LoneInv`: nobody but the one worker and the requester is inside, and who delivers has waited for the callback, or is it, with the command answered, failed or cancelled; `NestedInv`: a handler runs inside `submit` only for a command that was rejected there | `~BoxFails`; `start()` runs on the pool (`StartsOn`): otherwise it is a second thread inside (docs/known_issues.md, 3) |
| `FirstGreetingDecidesHolds` | `[]FirstGreetingDecides` | with one worker the listener is registered before the first greeting is dispatched | `start()` runs on the pool |
| **`SessionProofs`** | | | |
| `SessionTypeHolds`, `GateHonestHolds` | `[]SessionTypeOK`, `[]GateHonest` | the cached capabilities are among those advertised over the transport in use | |
| `StatesAgreeHolds` | `[]StatesAgree` | while the transport works, the server is in the state the operation in flight was called on | `~CloseRefused` |
| `ViewCurrentHolds` | `[]ViewCurrent` | whoever holds the view hears the pushes, and the view equals the mailbox at every hand-over | `~PushInGap` |

Every hypothesis is also the setting of the run that checks the property, except
that `cancellation` checks `ContinuationRouted` with `reuse`: its kinds have no
LITERAL+, and TLC finds no violation there, nor with three operations of the kinds
`literal`, `login` and `simple`, `sasl`, `login` and `simple`, or `idle`, `login`
and `simple`.

The induction principles of the library take an operator as parameter; the proofs
about texts and numbers go by the least element of a set of counterexamples
(`MinFacts`, `UpTo`, `AllNat`) instead.  A recursive function is shown to satisfy
its equation before anything else is said of it (`QuotedRestEquation`,
`DecimalEquation`, `NumberValue`, `FlattenSteps`): its definition alone is a
`CHOOSE` that promises nothing.

What the attempts showed: a `CASE` with overlapping arms, and `SelectSeq` over the
queue, said less than was meant (see *Order*); which of several waiting cells a
write completion gives the continuation route to had to be said as the loop in
`on_write_done` does it (`WriteDone`: the last of its list); and the hypotheses
above are where the code, or the invariant, gives way: the first attempts at
`WireOrder` with challenges and at `ContinuationRouted` with reused addresses failed
for the two reasons now listed as departures, which the runs' instances are too
small to show.

Only model-checked: liveness (`EveryStartCompletes`, `DrainEnds`, `StopCompletes`,
`LogoutReleases`), which is beyond the prover, and `RoundTrip` and
`RequestUnderstood` of `Wire`.  The tokens these two are made of are covered by
`QuotedReadBack`, `ArgumentUnderstood` and `LiteralReadBack`; the grammars above
them (response codes, FETCH attributes, body structures, argument lists) are
`RECURSIVE` operators, which no module with a theorem can reach.

## Not modelled, and open

Not modelled:

- the stop callback of a Layer-1 cell and the core mutex as blocking resources:
  `on_write_done` destroys undelivered cells under the mutex
  (`detail/write_pump.h:353`, `:376`) against a `request_stop` that waits for it;
- the relocation hooks of `imap_context` (`suspend_read_`, `release_stream`) below
  the abstraction of `StartTls.DetachStream`, and `set_io_context`;
- an `io_context` that stops while work is posted: a posted kick is then dropped
  (`kick_receiver` with an error, or `set_stopped`, `detail/write_pump.h:203-217`)
  and nothing else runs; a write or a read that ends this way is an error like any
  other (`detail/write_pump.h:242`, `detail/read_pump.h:169`), `WriteError` or
  `ReadFails`;
- `submit_sender`: glue that checks the stop token and calls `start_operation`;
- case folding (`capability_set`, keywords), MIME encoded words
  (`common/mail_header.h`), value types without behaviour, error categories,
  `unique_function`, allocator helpers, tests, examples, build files.

Open, with the reason:

1. `ContinuationRouted` with reused addresses and without LITERAL+.  The argument
   would follow each freed address through the list of a write in flight, as
   `BatchInv` does for cells that are not reused.
2. `NoneInsideAfterDelivery` for a pool of several workers, or a `start()` outside
   it; the two cases it leaves out are departures for every pool.  A `start()` that has not returned may stand at any of its steps when the
   operation is delivered (docs/known_issues.md, 3); what holds there for every
   pool, that nobody who holds the claim is inside, is part of `SafeInv`.
3. The grammars of `RoundTrip`, rewritten without `RECURSIVE` operators.
