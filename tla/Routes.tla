------------------------------- MODULE Routes -------------------------------
(***************************************************************************)
(* The HTTP surface of the gateway: for each controller the routes it      *)
(* declares, as what the guards, the handlers and the client of WAHA tell  *)
(* apart, and the status every error is answered with.                     *)
(***************************************************************************)
EXTENDS Naturals

API_SCOPES == {"sessions:read", "sessions:write", "messages:read", "messages:send",
               "chats:read", "webhooks:manage"}

(* prefix and public are what ApiKeyGuard looks at, guard is the route's   *)
(* own one.  on: the data a handler reaches, the application's own, one    *)
(* session, or any.  sync: it starts with sincronizarStatus.  call: what   *)
(* it asks of WAHA, and whether it is repeated.  saves: whether a row is   *)
(* written after WAHA's answer, once it was done or in any case.  gone:    *)
(* that WAHA does not know the session counts as done.                     *)
Route == [prefix : {"v1", "admin", "internal", "open"},
          public : BOOLEAN,
          guard  : {"none", "AdminGuard", "token", "hmac"},
          scope  : API_SCOPES \cup {"none"},
          on     : {"own", "session", "any"},
          sync   : BOOLEAN,
          call   : {"none", "once", "retry", "download"},
          saves  : {"none", "success", "always"},
          gone   : BOOLEAN]

V1(scope, on, call) ==
    [prefix |-> "v1", public |-> FALSE, guard |-> "none",
     scope |-> scope, on |-> on, sync |-> FALSE, call |-> call, saves |-> "none",
     gone |-> FALSE]

Admin(call) ==
    [prefix |-> "admin", public |-> FALSE, guard |-> "AdminGuard",
     scope |-> "none", on |-> "any", sync |-> FALSE, call |-> call, saves |-> "none",
     gone |-> FALSE]

Public(prefix, guard) ==
    [prefix |-> prefix, public |-> TRUE, guard |-> guard,
     scope |-> "none", on |-> "any", sync |-> FALSE, call |-> "none", saves |-> "none",
     gone |-> FALSE]

Synced(rt) == [rt EXCEPT !.sync = TRUE]

Saved(rt, when) == [rt EXCEPT !.saves = when]

Gone(rt) == [rt EXCEPT !.gone = TRUE]

-----------------------------------------------------------------------------
(* The routes of an API key. *)

SessionsController ==
    {V1("sessions:write", "own", "once"),       \* POST /
     V1("sessions:read", "own", "none"),        \* GET /
     Synced(V1("sessions:read", "session", "none")),                         \* GET :id
     V1("sessions:write", "session", "none"),                                \* PATCH :id
     Synced(Saved(V1("sessions:write", "session", "retry"), "success")),     \* qr, qr.png
     Synced(Saved(V1("sessions:write", "session", "once"), "success")),      \* pairing-code
     Saved(V1("sessions:write", "session", "retry"), "success"),             \* start ... logout
     Gone(Saved(V1("sessions:write", "session", "retry"), "success"))}       \* DELETE :id

(* Each is tried once; the row of a send is written whatever WAHA said. *)
MessagesController ==
    {Saved(V1("messages:send", "session", "once"), "always"),    \* the sends
     V1("messages:send", "session", "once")}                     \* reaction, seen, typing

MessagesHistoryController == {V1("messages:read", "own", "none")}

ChatsController == {V1("chats:read", "session", "retry")}

MediaController == {V1("messages:read", "own", "download")}

WebhooksOutController == {V1("webhooks:manage", "own", "none")}

WebhookDeliveriesController == {V1("webhooks:manage", "own", "none")}

AccountController == {V1("none", "own", "none")}

SessionEventsController == {V1("none", "own", "none")}

-----------------------------------------------------------------------------
(* The routes of the panel, of WAHA and of anybody. *)

AdminSessionsController ==
    {Saved(Admin("once"), "success"),            \* POST /
     Admin("none"),                              \* GET /, timeline
     Synced(Admin("none")),                      \* GET :id
     Synced(Saved(Admin("retry"), "success")),   \* qr
     Synced(Saved(Admin("once"), "success")),    \* pairing-code
     Saved(Admin("retry"), "success"),           \* start, stop, restart, logout
     Gone(Saved(Admin("retry"), "success"))}     \* DELETE :id

AdminHistoryController == {Admin("none"), Admin("download")}

AdminWebhooksController == {Admin("none")}

ApplicationsController == {Admin("none")}

MetricsController == {Admin("none"), Public("admin", "token")}

AdminAuthController == {Public("admin", "none"), Admin("none")}

WebhookIngestController == {Public("internal", "hmac")}

HealthController == {Public("open", "none")}

AppController == {Public("open", "none")}

AppModule ==
    SessionsController \cup MessagesController \cup MessagesHistoryController
    \cup ChatsController \cup MediaController \cup WebhooksOutController
    \cup WebhookDeliveriesController \cup AccountController \cup SessionEventsController
    \cup AdminSessionsController \cup AdminHistoryController \cup AdminWebhooksController
    \cup ApplicationsController \cup MetricsController \cup AdminAuthController
    \cup WebhookIngestController \cup HealthController \cup AppController

-----------------------------------------------------------------------------
(* The errors a request may end with and the filter that answers them. *)

DomainErrors ==
    [unauthorized |-> 401, forbidden |-> 403, notFound |-> 404, conflict |-> 409,
     wahaSessionNotFound |-> 404, wahaValidation |-> 422, wahaAuth |-> 500,
     wahaUnavailable |-> 503]

(* Nest's own: an invalid body (the ValidationPipe) and the throttler. *)
HttpErrors == [validationPipe |-> 422, tooManyRequests |-> 429]

PrismaErrors ==
    [P2002 |-> 409, P2025 |-> 404, P2003 |-> 409, validation |-> 400, database |-> 500]

BodyParserErrors == [tooLarge |-> 413, parseFailed |-> 400, encoding |-> 415]

ToProblem(e) ==
    CASE e \in DOMAIN DomainErrors     -> DomainErrors[e]
      [] e \in DOMAIN HttpErrors       -> HttpErrors[e]
      [] e \in DOMAIN PrismaErrors     -> PrismaErrors[e]
      [] e \in DOMAIN BodyParserErrors -> BodyParserErrors[e]
      [] OTHER                         -> 500

(* The class of the answer; a 4xx that the filter made of a database error *)
(* is told from those the code meant.                                      *)
Class(e) ==
    CASE ToProblem(e) \notin 400..499 -> "5xx"
      [] e \in DOMAIN PrismaErrors    -> "db4xx"
      [] OTHER                        -> "4xx"
=============================================================================
