--------------------------- MODULE CommandCatalog ---------------------------
(***************************************************************************)
(* The command types (include/bkmail/imap/command/*.h), one definition     *)
(* each: the wire form a command renders, the untagged responses it asks   *)
(* for, and how it assembles its result from them.                         *)
(*                                                                         *)
(* verb     the command name of the rendered line                          *)
(* args     its arguments, by the way they are rendered:                   *)
(*            astring    atom when safe, quoted otherwise (append_arg)     *)
(*            name       the same by detail::render_astring; names: several*)
(*            credential the same, or a literal for a line break           *)
(*            seqset     verbatim; so are criteria and verbatim            *)
(*            list       parenthesised words; flags: left out when empty   *)
(*            date       quoted, left out when empty                       *)
(*            literal    {n} (or {n+}) and the octets                      *)
(*            initial    base64 on the line; exchange: on the next line    *)
(* writes   its write machine, a kind of module Commands                   *)
(* wants    wants_untagged(): the data kinds claimed in submission order   *)
(* absorbs  the kinds on_untagged() reacts to at all                       *)
(* needs    the FETCH attribute without which a FETCH row is dropped       *)
(* result   how on_untagged() and on_tagged() build the result             *)
(***************************************************************************)
EXTENDS Naturals, Sequences

DataKinds   == {"fetch", "list", "lsub", "status", "search", "capability", "flags"}
NumberKinds == {"exists", "recent", "expunge"}
StatusKinds == {"ok", "no", "bad", "preauth", "bye"}
UntaggedKinds == DataKinds \cup NumberKinds \cup StatusKinds \cup {"unknown"}

(* A command that collects nothing and reports only its tagged status.     *)
Plain(verb, args) ==
    [verb |-> verb, args |-> args, writes |-> "simple", wants |-> {},
     absorbs |-> {}, needs |-> "any", result |-> "void"]

(* A command that owns one data kind.                                      *)
Data(verb, args, kind, result) ==
    [Plain(verb, args) EXCEPT !.wants = {kind}, !.absorbs = {kind},
                              !.result = result]
-----------------------------------------------------------------------------
(* Session commands.                                                       *)
noop_command       == Plain("NOOP", <<>>)
logout_command     == [Plain("LOGOUT", <<>>) EXCEPT !.writes = "barrier"]
starttls_command   == [Plain("STARTTLS", <<>>) EXCEPT !.writes = "barrier"]
idle_command       == [Plain("IDLE", <<>>) EXCEPT !.writes = "idle"]
(* The atoms come as untagged CAPABILITY data, or inside an OK's code.     *)
capability_command == [Data("CAPABILITY", <<>>, "capability", "union")
                         EXCEPT !.absorbs = {"capability", "ok"}]
(* The reply is handed out as it is: NO and BAD are not errors here.       *)
raw_command        == [Plain("", <<"verbatim">>) EXCEPT !.result = "raw"]

(* Each credential is an astring, or a literal when it holds a line break. *)
login_command(literals, plus) ==
    [Plain("LOGIN", <<"credential", "credential">>)
        EXCEPT !.writes = CASE literals /\ ~plus -> "login"
                            [] literals /\ plus  -> "litplus"
                            [] OTHER             -> "simple"]
authenticate_command(sasl_ir) ==
    [Plain("AUTHENTICATE", <<"verbatim", IF sasl_ir THEN "initial" ELSE "exchange">>)
        EXCEPT !.writes = IF sasl_ir THEN "barrier" ELSE "sasl"]

(* Mailbox commands.                                                       *)
create_command      == Plain("CREATE", <<"astring">>)
delete_command      == Plain("DELETE", <<"astring">>)
rename_command      == Plain("RENAME", <<"astring", "astring">>)
subscribe_command   == Plain("SUBSCRIBE", <<"astring">>)
unsubscribe_command == Plain("UNSUBSCRIBE", <<"astring">>)
list_command        == Data("LIST", <<"astring", "astring">>, "list", "rows")
status_command      == Data("STATUS", <<"astring", "list">>, "status", "last")
append_command(plus) ==
    [Plain("APPEND", <<"astring", "flags", "date", "literal">>)
        EXCEPT !.writes = IF plus THEN "litplus" ELSE "literal"]
(* The mailbox snapshot: FLAGS is claimed, the rest arrives by broadcast.  *)
select_command  == [Data("SELECT", <<"astring">>, "flags", "snapshot")
                      EXCEPT !.absorbs = {"exists", "recent", "flags", "ok"}]
examine_command == [select_command EXCEPT !.verb = "EXAMINE"]

(* Message commands.  The UID forms differ in the verb only.               *)
close_command   == Plain("CLOSE", <<>>)
expunge_command == Plain("EXPUNGE", <<>>)
copy_command    == Plain("COPY", <<"seqset", "name">>)
move_command    == Plain("MOVE", <<"seqset", "name">>)
store_command   == Plain("STORE", <<"seqset", "verbatim", "list">>)
search_command  == Data("SEARCH", <<"criteria">>, "search", "rows")
fetch_command   == Data("FETCH", <<"seqset", "list">>, "fetch", "rows")
fetch_envelopes_command == [fetch_command EXCEPT !.needs = "ENVELOPE"]
fetch_headers_command   == [fetch_command EXCEPT !.needs = "BODY[HEADER.FIELDS",
                                                 !.args = <<"seqset", "names">>]
fetch_message_command   == [fetch_command EXCEPT !.needs = "BODY[]"]
uid_copy_command   == [copy_command EXCEPT !.verb = "UID COPY"]
uid_move_command   == [move_command EXCEPT !.verb = "UID MOVE"]
uid_store_command  == [store_command EXCEPT !.verb = "UID STORE"]
uid_search_command == [search_command EXCEPT !.verb = "UID SEARCH"]
uid_fetch_command  == [fetch_command EXCEPT !.verb = "UID FETCH"]
uid_fetch_envelopes_command == [fetch_envelopes_command EXCEPT !.verb = "UID FETCH"]
uid_fetch_headers_command   == [fetch_headers_command EXCEPT !.verb = "UID FETCH"]
uid_fetch_message_command   == [fetch_message_command EXCEPT !.verb = "UID FETCH"]
-----------------------------------------------------------------------------
(* A response is [kind, from, attrs]: what it is, the operation the server *)
(* answers with it (0 when unasked), and what it carries -- FETCH          *)
(* attributes, the code of an OK, capability atoms.  Of a value only its   *)
(* origin matters: a result is built from the operations whose answers     *)
(* went into it, and 0 is a field nothing was stored in.                   *)

(* The result a command starts from.                                       *)
None == 0
EmptySnapshot == [exists |-> None, recent |-> None, flags |-> {},
                  uidvalidity |-> None, uidnext |-> None, unseen |-> None,
                  permanentflags |-> None, read_only |-> None]
EmptyResult(c) ==
    CASE c.result = "snapshot" -> EmptySnapshot
      [] c.result = "rows"     -> <<>>
      [] c.result = "union"    -> {}
      [] OTHER                 -> None

(* FETCH rows without the attribute the command asked for are dropped.     *)
FetchRow(c, acc, r) ==
    IF c.needs = "any" \/ c.needs \in r.attrs THEN Append(acc, r) ELSE acc

(* select_command::on_untagged, apply_ok_code; flag lists accumulate.      *)
SnapshotCodes == {"uidvalidity", "uidnext", "unseen", "permanentflags"}
SnapshotRow(acc, r) ==
    CASE r.kind = "exists" -> [acc EXCEPT !.exists = r.from]
      [] r.kind = "recent" -> [acc EXCEPT !.recent = r.from]
      [] r.kind = "flags"  -> [acc EXCEPT !.flags = @ \cup {r.from}]
      [] r.kind = "ok"     -> [f \in DOMAIN acc |->
                                 IF f \in r.attrs \cap SnapshotCodes
                                 THEN r.from ELSE acc[f]]

(* capability_command::on_untagged: atoms of the data, or of an OK's code. *)
CapabilityRow(acc, r) ==
    IF r.kind = "capability" \/ "capability" \in r.attrs
    THEN acc \cup {r.from} ELSE acc

(* on_untagged(): what one response adds to the result under assembly.     *)
OnUntagged(c, acc, r) ==
    IF r.kind \notin c.absorbs THEN acc
    ELSE CASE c.result = "rows" /\ r.kind = "fetch" -> FetchRow(c, acc, r)
           [] c.result = "rows" /\ r.kind # "fetch" -> Append(acc, r)
           [] c.result = "last"                     -> r.from
           [] c.result = "union"                    -> CapabilityRow(acc, r)
           [] c.result = "snapshot"                 -> SnapshotRow(acc, r)

(* map_status_to_ec, and the commands' own status_ec.                      *)
StatusEc(status) ==
    CASE status = "ok"  -> "success"
      [] status = "no"  -> "command_rejected"
      [] status = "bad" -> "bad_command"
      [] OTHER          -> "unexpected_response"

(* READ-ONLY and READ-WRITE ride on the tagged OK; SELECT defaults to      *)
(* read-write, EXAMINE to read-only.                                       *)
ReadOnly(c, code) ==
    IF c.verb = "SELECT" THEN code = "read_only" ELSE code # "read_write"

(* on_tagged(): the error code and, on OK only, the assembled result.      *)
OnTagged(c, acc, status, code, from) ==
    LET ec == IF c.result = "raw" THEN "success" ELSE StatusEc(status)
    IN  [ec |-> ec,
         value |-> IF ec # "success" THEN EmptyResult(c)
                   ELSE CASE c.result = "raw"        -> from
                          [] c.result = "snapshot"   ->
                               [acc EXCEPT !.read_only = ReadOnly(c, code)]
                          [] c.result = "union" /\ code = "capability" ->
                               acc \cup {from}
                          [] OTHER                   -> acc]
=============================================================================
