----------------------------- MODULE MessagePath -----------------------------
(***************************************************************************)
(* The send path and the webhook ingestion together, on one `messages`     *)
(* table: WAHA announces a message and its acks as soon as it accepted the *)
(* send, which may be before its answer reaches the gateway.               *)
(*                                                                         *)
(* SendNext is a step of the send path, IngestNext one of the ingestion; each  *)
(* leaves the other's own variables alone.                                 *)
(***************************************************************************)
EXTENDS SendPath, WebhookIngest

pathVars == <<messageVars, sendVars, ingestVars>>

PathInit == Init /\ IngestVarsInit

PathNext ==
    \/ SendNext /\ UNCHANGED ingestVars
    \/ IngestNext /\ UNCHANGED sendVars

PathSpec == PathInit /\ [][PathNext]_pathVars

-----------------------------------------------------------------------------
(* Properties; those of the ingestion that speak of rows, and those of the *)
(* send path, are meant to hold here too.                                  *)

(* A message answered with 201 has one row in the history: the one the     *)
(* answer names.  The upsert finds it, whenever the webhook comes.         *)
AnsweredSendHasOneRow ==
    \A r \in Requests : reply[r] \in Requests => ~hookRow[reply[r]].wahaId

(* The status of a recorded message moves only by an ack, and only forward *)
(* of what that ack's handler had read, or to FAILED: a repeated message   *)
(* event, which may come after any ack, never overwrites what is known,    *)
(* and neither does a send, save one that the database told it had not     *)
(* saved although it had: its catch writes FAILED over SENT and later acks.*)
OnlyAcksMoveStatus ==
    [][\A w \in WahaIds :
        Known(w) /\ StatusOf(w)' # StatusOf(w) =>
            \/ \E h \in Handlers :
                 /\ at[h] = "confirm" /\ ev[h].kind = "ack" /\ ev[h].msg = w
                 /\ StatusOf(w)' = "FAILED" \/ Rank(StatusOf(w)') > Rank(seen[h])
            \/ /\ "db" \in Faults /\ Linked(w) /\ pc[w] = "failing"
               /\ StatusOf(w)' = "FAILED"]_pathVars

(* A revoked message stays blanked whatever arrives or is saved after it.  *)
RevokedStaysRevoked ==
    [][\A w \in WahaIds : Known(w) /\ RowOf(w).revoked => RowOf(w)'.revoked]_pathVars
=============================================================================
