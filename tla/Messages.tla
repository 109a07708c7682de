------------------------------ MODULE Messages ------------------------------
(***************************************************************************)
(* What the send path and the webhook ingestion share: the `messages`      *)
(* table and the WAHA service in front of WhatsApp.                        *)
(*                                                                         *)
(* The WhatsApp message that WAHA creates for the send request r is        *)
(* identified with r itself.  A message that did not start in this gateway *)
(* (received, or typed on the phone) is a member of Incoming.              *)
(*                                                                         *)
(* Two code paths insert into the table, so a message can have two rows:   *)
(* the one `executar` inserts before it calls WAHA, which has no wahaId    *)
(* until WAHA answers, and the one the ingestion upserts under the wahaId. *)
(***************************************************************************)
EXTENDS Integers

CONSTANTS
    Requests,   \* HTTP requests to POST /v1/messages/*
    Incoming,   \* WhatsApp messages that were not sent through the gateway
    FromPhone   \* those of Incoming that the account's own phone sent

ASSUME MessagesAssumption ==
    /\ Requests \cap Incoming = {}
    /\ FromPhone \subseteq Incoming

VARIABLES
    sendRow,    \* row inserted by `executar` for a request
    hookRow,    \* row inserted by the ingestion under a wahaId
    waha        \* what WAHA did with the POST of a request

messageVars == <<sendRow, hookRow, waha>>

WahaIds == Requests \cup Incoming

(* MESSAGE_STATUS_RANK and ACK_TO_STATUS of the shared package. *)
MessageStatus == {"FAILED", "QUEUED", "SENT", "DELIVERED", "READ"}

Rank(status) == CASE status = "FAILED"    -> -1
                  [] status = "QUEUED"    ->  0
                  [] status = "SENT"      ->  1
                  [] status = "DELIVERED" ->  2
                  [] status = "READ"      ->  3

AckToStatus(ack) == CASE ack = -1 -> "FAILED"
                      [] ack = 0  -> "QUEUED"
                      [] ack = 1  -> "SENT"
                      [] ack = 2  -> "DELIVERED"
                      [] ack \in {3, 4} -> "READ"

(* A row: its status, whether its wahaId column is set, and whether a      *)
(* revocation blanked it (type 'revoked', body null).                      *)
Row == [status : MessageStatus \cup {"none"}, wahaId : BOOLEAN, revoked : BOOLEAN]

NoRow == [status |-> "none", wahaId |-> FALSE, revoked |-> FALSE]

(* The row that @@unique([sessionId, wahaId]) makes the only one with      *)
(* wahaId w, when there is one.                                            *)
Linked(w)   == w \in Requests /\ sendRow[w].wahaId
Known(w)    == Linked(w) \/ hookRow[w].wahaId
RowOf(w)    == IF Linked(w) THEN sendRow[w] ELSE hookRow[w]
StatusOf(w) == RowOf(w).status

(* UPDATE of the row with wahaId w. *)
UpdateRow(w, row) ==
    IF Linked(w)
    THEN sendRow' = [sendRow EXCEPT ![w] = row] /\ UNCHANGED hookRow
    ELSE hookRow' = [hookRow EXCEPT ![w] = row] /\ UNCHANGED sendRow

(* WAHA's answer to a POST: nothing was posted, it is being handled, the   *)
(* message went out, or WAHA refused it and nothing will ever go out.      *)
WahaState == {"none", "pending", "accepted", "refused"}

MessagesTypeOK ==
    /\ sendRow \in [Requests -> Row]
    /\ hookRow \in [WahaIds -> Row]
    /\ waha \in [Requests -> WahaState]

MessagesInit ==
    /\ sendRow = [r \in Requests |-> NoRow]
    /\ hookRow = [w \in WahaIds |-> NoRow]
    /\ waha = [r \in Requests |-> "none"]

=============================================================================
