-------------------------- MODULE UnsolicitedTable --------------------------
(***************************************************************************)
(* The table of unsolicited-event handlers                                 *)
(* (include/bkmail/imap/detail/unsolicited_table.h).                       *)
(*                                                                         *)
(* An entry is known by the id add() gave it.  add() appends and a sweep   *)
(* keeps the order, so the vector of entries, and a copy of it, is a set   *)
(* of ids in the order of the ids.  reset() of a token only marks the      *)
(* entry inactive; the next add() frees the inactive ones.                 *)
(* notify() copies the active entries under the lock and calls them        *)
(* unlocked, so a handler may itself reset tokens, and -- as the session   *)
(* layer does when an IDLE wakes inside a handler -- add an entry.         *)
(***************************************************************************)
EXTENDS Naturals, Sequences

CONSTANTS
    MaxEntries,      \* bound: how many registrations are ever made
    MaxEvents,       \* bound: how many events are ever reported
    AddsInHandler    \* whether a handler may register another one

ASSUME TableAssumption == MaxEntries \in Nat /\ MaxEvents \in Nat
                          /\ AddsInHandler \in BOOLEAN

VARIABLES
    entries,    \* ids of the table's cells (anchor::entries)
    active,     \* ids whose entry is marked active
    freed,      \* ids whose entry was disposed
    token,      \* ids whose registration token is alive
    next_id,
    snapshot,   \* entries the current notify() still has to call
    running,    \* the entry whose handler is running, or 0
    events,     \* events reported so far
    born,       \* id -> events reported before it registered
    heard       \* id -> events its handler was called with

tableVars == <<entries, active, freed, token, next_id, snapshot, running,
               events, born, heard>>

Ids == 1..MaxEntries

TableTypeOK ==
    /\ entries \subseteq Ids /\ snapshot \subseteq Ids
    /\ active \subseteq Ids /\ freed \subseteq Ids /\ token \subseteq Ids
    /\ next_id \in 1..(MaxEntries + 1)
    /\ running \in Ids \cup {0}
    /\ events \in 0..MaxEvents
    /\ born \in [Ids -> 0..MaxEvents]
    /\ heard \in [Ids -> Seq(1..MaxEvents)]

TableInit ==
    /\ entries = {} /\ snapshot = {}
    /\ active = {} /\ freed = {} /\ token = {}
    /\ next_id = 1 /\ running = 0 /\ events = 0
    /\ born = [i \in Ids |-> 0]
    /\ heard = [i \in Ids |-> <<>>]

Notifying == snapshot # {} \/ running # 0

(* The first of a collection of numbers, none of an empty one.             *)
First(S) == {i \in S : \A j \in S : i <= j}
-----------------------------------------------------------------------------
(* Mutant: the predicate of the sweep is inverted.                         *)
CompactedInverted == entries \ active

(* compact_locked(): the entries that stay.  The others are disposed.      *)
Compacted == entries \cap active

(* add(): compact, then append.  The code's user registers outside a       *)
(* dispatch, or from inside a handler.                                     *)
AddHandler ==
    /\ next_id \in Ids
    /\ Notifying => running # 0 /\ AddsInHandler
    /\ entries' = Compacted \cup {next_id}
    /\ freed' = freed \cup (entries \ Compacted)
    /\ active' = active \cup {next_id}
    /\ token' = token \cup {next_id}
    /\ born' = [born EXCEPT ![next_id] = events]
    /\ next_id' = next_id + 1
    /\ UNCHANGED <<snapshot, running, events, heard>>

(* Mutant: reset() disposes the entry at once.                             *)
ResetTokenFrees(i) ==
    /\ i \in token
    /\ Notifying => running # 0
    /\ token' = token \ {i}
    /\ active' = active \ {i}
    /\ entries' = entries \ {i}
    /\ freed' = freed \cup {i}
    /\ UNCHANGED <<next_id, snapshot, running, events, born, heard>>

(* registration::reset() (also the destructor): deactivate(id).            *)
ResetToken(i) ==
    /\ i \in token
    /\ Notifying => running # 0
    /\ token' = token \ {i}
    /\ active' = active \ {i}
    /\ UNCHANGED <<entries, freed, next_id, snapshot, running, events, born, heard>>

(* Mutant: the copy starts at the second entry.                            *)
ActiveEntriesShort == (entries \ First(entries)) \cap active

(* The entries notify() copies under the lock.                             *)
ActiveEntries == entries \cap active

NotifyBegin ==
    /\ ~Notifying
    /\ events < MaxEvents
    /\ events' = events + 1
    /\ snapshot' = ActiveEntries
    /\ UNCHANGED <<entries, active, freed, token, next_id, running, born, heard>>

(* entry->notify(event): the handler starts, and returns.                  *)
HandlerCall ==
    /\ running = 0
    /\ \E i \in First(snapshot) :
         /\ running' = i
         /\ snapshot' = snapshot \ {i}
         /\ heard' = [heard EXCEPT ![i] = Append(@, events)]
    /\ UNCHANGED <<entries, active, freed, token, next_id, events, born>>

HandlerReturn ==
    /\ running # 0
    /\ running' = 0
    /\ UNCHANGED <<entries, active, freed, token, next_id, snapshot, events,
                   born, heard>>
-----------------------------------------------------------------------------
(* An entry that notify() has still to call, or is calling, has not been   *)
(* freed: what unsolicited_table.h:16-20 and :239-243 promise.  It holds   *)
(* only as long as no handler registers another one: add() sweeps every    *)
(* inactive entry, whether or not a dispatch still points to it.           *)
SnapshotValid == (snapshot \cup ({running} \ {0})) \cap freed = {}

(* A handler whose token is alive hears every event reported since it was  *)
(* registered, once and in order, whatever other handlers come and go.     *)
NoEventMissed ==
    ~Notifying =>
        \A i \in token : heard[i] = [k \in 1..(events - born[i]) |-> born[i] + k]

(* A live token's entry is in the table, marked active and not freed: no   *)
(* sweep started by another registration can take it away.                 *)
TokenKeepsEntry == token \subseteq (entries \cap active) \ freed
=============================================================================
