----------------------------- MODULE MCSession -----------------------------
(* The handshake of a session between its two ends, or the loop of the      *)
(* client that makes sessions: a behaviour exercises one and leaves the     *)
(* other as it was.                                                         *)
EXTENDS SessionCrypto, ClientLoop

VARIABLE part

\* A session that was closed before it did anything.
Over ==
  /\ sess = [e \in Ends |-> [FreshSession(e, TRUE) EXCEPT !.alive = FALSE]]
  /\ wire = [e \in Ends |-> <<>>]
  /\ accepted = [e \in Ends |-> <<>>] /\ handled = [e \in Ends |-> <<>>]
  /\ refused = [e \in Ends |-> {}] /\ nonces = <<>>

MCInit ==
  /\ \/ part = "session" /\ Init
     \/ part = "client" /\ Over
  /\ ClientInit

MCNext ==
  \/ part = "session" /\ Next /\ UNCHANGED <<part, clientVars>>
  \/ part = "client" /\ ClientNext /\ UNCHANGED <<part, vars>>

\* Neither a session that is over nor the loop of a client that never connects
\* has a step to take.
MCSpec ==
  MCInit /\ [][MCNext]_<<part, vars, clientVars>> /\ SessionFair /\ ClientFair
=============================================================================
