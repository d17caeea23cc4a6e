----------------------------- MODULE MCDispatch -----------------------------
(* Values for model-checking Dispatch.                                     *)
EXTENDS Dispatch

Event(kind, attrs) == [kind |-> kind, from |-> 0, attrs |-> attrs]

Echo == {<<store_command, fetch_command>>}

(* Every command of one line, before another of its kind.                  *)
Pairs == {<<c, c>> : c \in SimpleCommands} \cup Echo
         \cup {<<fetch_command, uid_fetch_command>>, <<select_command, capability_command>>}

FlagPush == {Event("fetch", {"FLAGS"})}
=============================================================================
