---------------------------- MODULE MCImapContext ----------------------------
(* The instances of ImapContext that TLC checks: every .cfg bounds the     *)
(* number of submissions and of responses under way, and chooses the       *)
(* command kinds, user calls and faults that its question needs.           *)
EXTENDS ImapContext
=============================================================================
