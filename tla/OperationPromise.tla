--------------------------- MODULE OperationPromise ---------------------------
(***************************************************************************)
(* What one IMAP connection promises to the operations submitted to it,    *)
(* with no pump, no registry and no wire: operation_base.h and the         *)
(* lifetime rules of imap_context.h, seen by the caller.                   *)
(*                                                                         *)
(* An operation is submitted once and completes at most once, with its     *)
(* reply, with a stop or with the error that ended the connection.  What   *)
(* the connection decides depends on two facts only: how far it has gone   *)
(* down, and whether the operation was withdrawn by cancel().              *)
(***************************************************************************)
EXTENDS Naturals

CONSTANTS
    Operations,  \* names of the operations
    Losses       \* the errors a lost connection reports

VARIABLES
    link,    \* see Links
    result   \* [Operations -> Results]

promiseVars == <<link, result>>

(* Accepting commands, going down, gone.                                   *)
Links == {"open", "draining", "closed"}

(* A connection only ever goes down.                                       *)
Later(l) == CASE l = "open" -> {"draining", "closed"}
              [] l = "draining" -> {"draining", "closed"}
              [] l = "closed" -> {"closed"}

Waiting == {"pending", "withdrawn"}

Results == {"unsubmitted", "reply", "canceled", "stopped", "dropped"}
               \cup Waiting \cup Losses

PromiseInit ==
    /\ link \in {"open", "closed"}
    /\ result = [o \in Operations |-> "unsubmitted"]

Becomes(o, r) == result' = [result EXCEPT ![o] = r]

(* Accepted while the connection is open.                                  *)
Accept(o) ==
    /\ link = "open" /\ result[o] = "unsubmitted"
    /\ Becomes(o, "pending") /\ UNCHANGED link

(* Refused at once by a connection that is going down or gone.             *)
Refuse(o) ==
    /\ link # "open" /\ result[o] = "unsubmitted"
    /\ \E r \in Losses \cup {"canceled"} : Becomes(o, r)
    /\ UNCHANGED link

(* cancel(): it takes effect only while the connection is open.            *)
Withdraw(o) ==
    /\ link = "open" /\ result[o] = "pending"
    /\ Becomes(o, "withdrawn") /\ UNCHANGED link

(* The server's reply reaches an operation that was not withdrawn; a reply *)
(* that was received before the connection is gone still counts.           *)
Answer(o) ==
    /\ link # "closed" /\ result[o] = "pending"
    /\ Becomes(o, "reply") /\ UNCHANGED link

(* A stop is delivered, whatever becomes of the connection meanwhile.      *)
StopDelivered(o) ==
    /\ result[o] \in Waiting
    /\ Becomes(o, "stopped") /\ UNCHANGED link

(* A withdrawn operation may be let go without a word.                     *)
Discard(o) ==
    /\ result[o] = "withdrawn"
    /\ Becomes(o, "dropped") /\ UNCHANGED link

(* The connection goes down or is gone already: some of the waiting        *)
(* operations complete, all with the same error.                           *)
Lose ==
    /\ link' \in Later(link)
    /\ \E S \in SUBSET Operations, r \in Losses \cup {"canceled", "dropped"} :
          /\ \A o \in S : result[o] \in Waiting
          /\ result' = [o \in Operations |-> IF o \in S THEN r ELSE result[o]]

PromiseNext ==
    \/ Lose
    \/ \E o \in Operations :
          \/ Accept(o) \/ Refuse(o) \/ Withdraw(o)
          \/ Answer(o) \/ StopDelivered(o) \/ Discard(o)

PromiseSpec == PromiseInit /\ [][PromiseNext]_promiseVars
===============================================================================
