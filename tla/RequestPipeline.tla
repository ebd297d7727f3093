--------------------------- MODULE RequestPipeline ---------------------------
(***************************************************************************)
(* What every HTTP request goes through: the middleware of main.ts, the    *)
(* guards of its route in the order the decorators put them, the           *)
(* validation pipe, the handler, and the exception filter for whatever     *)
(* fails on the way.  Between two steps that wait for the database the     *)
(* session may end and the role of its account may change.                 *)
(***************************************************************************)
EXTENDS Integers, Sequences

CONSTANTS
    Requests,
    Tokens,         \* one session and one account each
    NoRow           \* no cookie, no row

NoRowAssumption == NoRow \notin Tokens \union {"ADMIN", "STAFF"}

VARIABLES
    live,       \* the session of a token is neither revoked nor expired
    role,       \* User.role of its account
    ask,        \* each request
    at,         \* the step it is at
    user,       \* request.authenticatedUser: the role that was read
    reply,      \* the status of its answer
    dead,       \* its session was over when it arrived (history)
    admin       \* its account was an administrator's at some moment since (history)

vars == <<live, role, ask, at, user, reply, dead, admin>>
-----------------------------------------------------------------------------
(***************************************************************************)
(* The routes.  Class guards come before method guards, and of several     *)
(* method decorators the one nearest the method registers first.           *)
(***************************************************************************)
Reads == {"GET /auth/me", "GET /products", "GET /invoices"}
Writes == {"POST /products", "PATCH /products", "POST /invoices", "PATCH /invoices"}
Delete == "DELETE /products"
Routes == Reads \union Writes \union
    {Delete, "POST /auth/logout", "POST /auth/login", "POST /auth/register", "GET /health"}

Mutating == Routes \ (Reads \union {"GET /health"})

(* Mutant: deletion without its RolesGuard.                                *)
GuardsWithoutRole(route) ==
    CASE route \in Reads -> <<"session", "account">>
      [] route \in Writes \union {Delete} -> <<"session", "account", "origin">>
      [] route = "POST /auth/logout" -> <<"origin">>
      [] OTHER -> <<>>

(* SessionAuthGuard is two statements: the session, then its account.      *)
Guards(route) ==
    CASE route \in Reads -> <<"session", "account">>
      [] route \in Writes -> <<"session", "account", "origin">>
      [] route = Delete -> <<"session", "account", "role", "origin">>
      [] route = "POST /auth/logout" -> <<"origin">>
      [] route = "POST /auth/login" -> <<"limit">>
      [] route \in {"POST /auth/register", "GET /health"} -> <<>>

Steps(route) == <<"json", "cors">> \o Guards(route) \o <<"pipe", "handler">>

(* A header names an origin of corsOrigins, another one, or is not there;  *)
(* a Referer that is no URL counts as none.                                *)
Header == {"trusted", "foreign", "none"}

Ask ==
    [route : Routes, token : Tokens \union {NoRow}, origin : Header, referer : Header,
     json : BOOLEAN, valid : BOOLEAN]

Status == {0, 200, 400, 401, 403, 429, 500}

TypeOK ==
    /\ live \in [Tokens -> BOOLEAN]
    /\ role \in [Tokens -> {"ADMIN", "STAFF"}]
    /\ ask \in [Requests -> Ask]
    /\ user \in [Requests -> {"ADMIN", "STAFF", NoRow}]
    /\ reply \in [Requests -> Status]
    /\ \A r \in Requests : at[r] \in 1 .. Len(Steps(ask[r].route))
    /\ dead \in [Requests -> BOOLEAN]
    /\ admin \in [Requests -> BOOLEAN]

Init ==
    /\ live \in [Tokens -> BOOLEAN]
    /\ role \in [Tokens -> {"ADMIN", "STAFF"}]
    /\ ask \in [Requests -> Ask]
    /\ at = [r \in Requests |-> 1]
    /\ user = [r \in Requests |-> NoRow]
    /\ reply = [r \in Requests |-> 0]
    /\ dead = [r \in Requests |-> ask[r].token = NoRow \/ ~ live[ask[r].token]]
    /\ admin = [r \in Requests |-> ask[r].token # NoRow /\ role[ask[r].token] = "ADMIN"]
-----------------------------------------------------------------------------
At(r, step) == reply[r] = 0 /\ Steps(ask[r].route)[at[r]] = step

Reply(r, status) ==
    /\ reply' = [reply EXCEPT ![r] = status]
    /\ UNCHANGED <<at, user>>

GoOn(r) ==
    /\ at' = [at EXCEPT ![r] = @ + 1]
    /\ UNCHANGED <<user, reply>>

(* One step that lets a request on, or else answers it with a status.      *)
Check(r, step, passes, status) ==
    /\ At(r, step)
    /\ \/ passes /\ GoOn(r)
       \/ ~ passes /\ Reply(r, status)
    /\ UNCHANGED <<live, role, ask, dead, admin>>

(* json(): Nest turns the SyntaxError of a malformed body into a 400.      *)
ParseJson(r) == Check(r, "json", ask[r].json, 400)

CorsAllows(r) == ask[r].origin # "foreign"

(* The callback's Error is not an HttpException: the filter makes it 500.  *)
Cors(r) == Check(r, "cors", CorsAllows(r), 500)

FindSession(r) ==
    Check(r, "session", ask[r].token # NoRow /\ live[ask[r].token], 401)

(* The account is there: accounts are never deleted.                       *)
FindAccount(r) ==
    /\ At(r, "account")
    /\ user' = [user EXCEPT ![r] = role[ask[r].token]]
    /\ at' = [at EXCEPT ![r] = @ + 1]
    /\ UNCHANGED <<live, role, ask, reply, dead, admin>>

RolesGuard(r) == Check(r, "role", user[r] = "ADMIN", 403)

(* The Origin header, or else the origin of the Referer.                   *)
OriginTrusted(r) ==
    LET named == IF ask[r].origin # "none" THEN ask[r].origin ELSE ask[r].referer
    IN  named = "trusted"

CsrfOriginGuard(r) ==
    Check(r, "origin", ask[r].route \in Mutating => OriginTrusted(r), 403)

(* LoginRateLimit says when.                                               *)
LoginRateLimitGuard(r) == \E admitted \in BOOLEAN : Check(r, "limit", admitted, 429)

(* Routes with a DTO for their body or their query.                        *)
Validated == Routes \ {"GET /auth/me", Delete, "POST /auth/logout", "GET /health"}

ValidationPipe(r) == Check(r, "pipe", ask[r].route \in Validated => ask[r].valid, 400)

(* What the handlers decide is in the other modules.  Of the state here    *)
(* signing out ends the session.                                           *)
Handle(r) ==
    /\ At(r, "handler")
    /\ Reply(r, 200)
    /\ live' = IF ask[r].route = "POST /auth/logout" /\ ask[r].token # NoRow
               THEN [live EXCEPT ![ask[r].token] = FALSE] ELSE live
    /\ UNCHANGED <<role, ask, dead, admin>>

(* The session expires, or is ended by a request of another browser tab.   *)
EndSession(t) ==
    /\ live[t]
    /\ live' = [live EXCEPT ![t] = FALSE]
    /\ UNCHANGED <<role, ask, at, user, reply, dead, admin>>

(* The seed sets the roles of its two accounts whatever they were.         *)
SetRole(t, to) ==
    /\ role[t] # to
    /\ role' = [role EXCEPT ![t] = to]
    /\ admin' = [r \in Requests |-> admin[r] \/ (ask[r].token = t /\ to = "ADMIN")]
    /\ UNCHANGED <<live, ask, at, user, reply, dead>>

Next ==
    \/ \E r \in Requests :
        \/ ParseJson(r) \/ Cors(r)
        \/ FindSession(r) \/ FindAccount(r) \/ RolesGuard(r) \/ CsrfOriginGuard(r)
        \/ LoginRateLimitGuard(r) \/ ValidationPipe(r) \/ Handle(r)
    \/ \E t \in Tokens : EndSession(t)
    \/ \E t \in Tokens, to \in {"ADMIN", "STAFF"} : SetRole(t, to)

Spec == Init /\ [][Next]_vars
-----------------------------------------------------------------------------
Guarded == Writes \union {Delete, "POST /auth/logout"}

(***************************************************************************)
(* A handler has run only for a request that was entitled to it, whatever  *)
(* happened to sessions and roles on its way: on the routes of signed-in   *)
(* users its session was live when it arrived; a product is deleted for an *)
(* account that was an administrator's at some moment since; a page of     *)
(* another origin gets no handler at all, not even where there is no       *)
(* origin guard (sign-in, registration), and where there is one a trusted  *)
(* origin was named, in one header or the other.                           *)
(***************************************************************************)
HandledForCause ==
    \A r \in Requests :
        reply[r] = 200 =>
            /\ ask[r].route \in Reads \union Writes \union {Delete} => ~ dead[r]
            /\ ask[r].route = Delete => admin[r]
            /\ ask[r].origin # "foreign"
            /\ ask[r].route \in Guarded => "trusted" \in {ask[r].origin, ask[r].referer}
=============================================================================
