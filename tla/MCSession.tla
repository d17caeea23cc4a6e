----------------------------- MODULE MCSession -----------------------------
(* Values for model-checking Session.                                      *)
EXTENDS Session

(* MOVE and IDLE are listed before the TLS upgrade, after it only IDLE.    *)
ByTransport == [plain |-> {"MOVE", "IDLE", "STARTTLS"}, tls |-> {"IDLE"}]
=============================================================================
