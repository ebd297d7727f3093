------------------------------ MODULE Sessions ------------------------------
(***************************************************************************)
(* Accounts and sessions: AuthService, SessionAuthGuard and the two        *)
(* repositories behind them.  A step is one SQL statement with the code up *)
(* to the next await; a request read something in one step and uses it in  *)
(* the next, while others sign out and time passes.                        *)
(*                                                                         *)
(* Passwords stand for their hashes, tokens for the hashes they are stored *)
(* under.  A token is 32 random bytes: nobody sends one that was not       *)
(* issued, except some value that is no token at all (NoRow).              *)
(***************************************************************************)
EXTENDS Integers

CONSTANTS
    Emails,         \* what a client may write as its e-mail address
    Normal,         \* each address trimmed and in lower case
    Passwords,
    Tokens,
    Duration,       \* sessionDurationMs
    MaxNow,         \* bound on the clock
    Requests,
    NoRow           \* no such row, no cookie

ASSUME NormalAssumption ==
    Normal \in [Emails -> Emails] /\ \A e \in Emails : Normal[Normal[e]] = Normal[e]
ASSUME DurationAssumption == Duration \in Nat \ {0} /\ MaxNow \in Nat
ASSUME NoRowAssumption == NoRow \notin Passwords \union Tokens \union Emails \union Nat

VARIABLES
    now,        \* Date.now()
    user,       \* User: the password of the account under each email column
    session,    \* Session: by token
    pc,         \* where each request stands
    ask,        \* what it asks for
    seen,       \* the row its last statement returned
    reply,      \* its answer: what was decided, and the token or the account
    stale       \* was its token dead when it arrived? (history)

vars == <<now, user, session, pc, ask, seen, reply, stale>>

SessionRow ==
    [owner : Emails, expiresAt : 0 .. MaxNow + Duration, revokedAt : (0 .. MaxNow) \union {NoRow}]
ASSUME SessionRowAssumption == NoRow \notin SessionRow

Ask ==
    [op : {"REGISTER", "LOGIN"}, email : Emails, password : Passwords] \union
    [op : {"ME", "LOGOUT"}, token : Tokens \union {NoRow}]

Kind == {"none", "created", "conflict", "signed_in", "unauthorized", "admitted", "signed_out"}

TypeOK ==
    /\ now \in 0 .. MaxNow
    /\ user \in [Emails -> Passwords \union {NoRow}]
    /\ session \in [Tokens -> SessionRow \union {NoRow}]
    /\ pc \in [Requests -> {"idle", "start", "read", "done"}]
    /\ ask \in [Requests -> Ask \union {NoRow}]
    /\ seen \in [Requests -> Passwords \union SessionRow \union {NoRow}]
    /\ reply \in [Requests -> [kind : Kind, what : Tokens \union Emails \union {NoRow}]]
    /\ stale \in [Requests -> BOOLEAN]

Init ==
    /\ now = 0
    /\ user = [e \in Emails |-> NoRow]
    /\ session = [t \in Tokens |-> NoRow]
    /\ pc = [r \in Requests |-> "idle"]
    /\ ask = [r \in Requests |-> NoRow]
    /\ seen = [r \in Requests |-> NoRow]
    /\ reply = [r \in Requests |-> [kind |-> "none", what |-> NoRow]]
    /\ stale = [r \in Requests |-> FALSE]
-----------------------------------------------------------------------------
(* Mutants: revocation, or the last instant, is not looked at; a session   *)
(* is over one instant early.                                              *)
LiveUnlessExpired(row) == row # NoRow /\ row.expiresAt > now
LiveUnlessLate(row) == row # NoRow /\ row.revokedAt = NoRow /\ row.expiresAt > now + 1

Live(row) == row # NoRow /\ row.revokedAt = NoRow /\ row.expiresAt > now

Row(token) == IF token = NoRow THEN NoRow ELSE session[token]

(* For the history: what was true of a row, whatever the guard makes of it.*)
Dead(row) == row = NoRow \/ row.revokedAt # NoRow \/ row.expiresAt <= now

Issued == {t \in Tokens : session[t] # NoRow}

(* A request comes in; a cookie holds a token that was issued.             *)
Arrive(r) ==
    /\ pc[r] = "idle"
    /\ pc' = [pc EXCEPT ![r] = "start"]
    /\ \E a \in Ask :
        /\ a.op \in {"ME", "LOGOUT"} => a.token \in Issued \union {NoRow}
        /\ ask' = [ask EXCEPT ![r] = a]
        /\ stale' = [stale EXCEPT ![r] =
                a.op \in {"ME", "LOGOUT"} /\ Dead(Row(a.token))]
    /\ UNCHANGED <<now, user, session, seen, reply>>

At(r, op, point) == pc[r] = point /\ ask[r].op = op

Read(r, row) ==
    /\ pc' = [pc EXCEPT ![r] = "read"]
    /\ seen' = [seen EXCEPT ![r] = row]
    /\ UNCHANGED <<now, user, session, ask, reply, stale>>

Reply(r, kind, what) ==
    /\ pc' = [pc EXCEPT ![r] = "done"]
    /\ seen' = [seen EXCEPT ![r] = NoRow]
    /\ reply' = [reply EXCEPT ![r] = [kind |-> kind, what |-> what]]
    /\ UNCHANGED <<now, ask, stale>>
-----------------------------------------------------------------------------
(* Mutant: the address is stored as it was written.                        *)
AsWritten(r) == ask[r].email

Email(r) == Normal[ask[r].email]

(* The unique index on User.email decides between two registrations.       *)
Register(r) ==
    /\ At(r, "REGISTER", "start")
    /\ \/ /\ user[Email(r)] = NoRow
          /\ user' = [user EXCEPT ![Email(r)] = ask[r].password]
          /\ Reply(r, "created", Email(r))
       \/ /\ user[Email(r)] # NoRow
          /\ Reply(r, "conflict", NoRow)
          /\ UNCHANGED user
    /\ UNCHANGED session

FindUser(r) == At(r, "LOGIN", "start") /\ Read(r, user[Email(r)])

(* Mutant: any password will do for an account.                            *)
MatchesAny(r) == seen[r] # NoRow

PasswordMatches(r) == seen[r] # NoRow /\ seen[r] = ask[r].password

Expiry == now + Duration

(* The password is verified against the row read, and a session created.   *)
Login(r) ==
    /\ At(r, "LOGIN", "read")
    /\ \/ /\ PasswordMatches(r)
          /\ \E t \in Tokens \ Issued :
                /\ session' = [session EXCEPT ![t] =
                        [owner |-> Email(r), expiresAt |-> Expiry, revokedAt |-> NoRow]]
                /\ Reply(r, "signed_in", t)
       \/ /\ ~ PasswordMatches(r)
          /\ Reply(r, "unauthorized", NoRow)
          /\ UNCHANGED session
    /\ UNCHANGED user

FindSession(r) == At(r, "ME", "start") /\ Read(r, Row(ask[r].token))

(* The guard decides on the row it read, with the time it is by then; the  *)
(* account is then read too, and accounts are never deleted.               *)
Authenticate(r) ==
    /\ At(r, "ME", "read")
    /\ \/ Live(seen[r]) /\ Reply(r, "admitted", seen[r].owner)
       \/ ~ Live(seen[r]) /\ Reply(r, "unauthorized", NoRow)
    /\ UNCHANGED <<user, session>>

(* Mutant: the UPDATE has no WHERE revokedAt IS NULL.                      *)
OpenAlways(token) == Row(token) # NoRow

Open(token) == Row(token) # NoRow /\ Row(token).revokedAt = NoRow

(* One UPDATE of the open session of this token, if there is one.          *)
Logout(r) ==
    /\ At(r, "LOGOUT", "start")
    /\ session' = IF Open(ask[r].token) THEN [session EXCEPT ![ask[r].token].revokedAt = now]
                                        ELSE session
    /\ Reply(r, "signed_out", NoRow)
    /\ UNCHANGED user

Tick ==
    /\ now < MaxNow
    /\ now' = now + 1
    /\ UNCHANGED <<user, session, pc, ask, seen, reply, stale>>

Step(r) ==
    \/ Register(r) \/ FindUser(r) \/ Login(r)
    \/ FindSession(r) \/ Authenticate(r) \/ Logout(r)

Next == Tick \/ \E r \in Requests : Arrive(r) \/ Step(r)

Spec == Init /\ [][Next]_vars
-----------------------------------------------------------------------------
(***************************************************************************)
(* There is one account per address, however it is spelled, and a sign-in  *)
(* finds it under every spelling.                                          *)
(***************************************************************************)
OneAccount ==
    \A e, f \in Emails :
        user[e] # NoRow /\ user[f] # NoRow /\ Normal[e] = Normal[f] => e = f

(***************************************************************************)
(* A request is only admitted as the account that a sign-in with that      *)
(* account's password opened its session for.                              *)
(***************************************************************************)
AdmittedAsOwner ==
    \A r \in Requests : reply[r].kind = "admitted" =>
        \E s \in Requests :
            /\ reply[s] = [kind |-> "signed_in", what |-> ask[r].token]
            /\ Normal[ask[s].email] = reply[r].what
            /\ ask[s].password = user[reply[r].what]

(***************************************************************************)
(* A token that is dead stays dead: a request that arrives after its       *)
(* session was revoked, or has expired, is not admitted, whatever was      *)
(* going on when it arrived.                                               *)
(***************************************************************************)
DeadTokensRefused == \A r \in Requests : reply[r].kind = "admitted" => ~ stale[r]

(***************************************************************************)
(* Nobody is turned away by mistake: when a request has been refused, its  *)
(* session is over (or never was), although the guard looked at a row it   *)
(* had read earlier.                                                       *)
(***************************************************************************)
LiveTokensAdmitted ==
    \A r \in Requests :
        reply[r].kind = "unauthorized" /\ ask[r].op = "ME" => Dead(Row(ask[r].token))

(***************************************************************************)
(* Signing out is idempotent: a session that is revoked keeps the time of  *)
(* its first revocation, its owner and its expiry for ever.                *)
(***************************************************************************)
RevocationIsFinal ==
    [][\A t \in Tokens :
            Row(t) # NoRow /\ session[t].revokedAt # NoRow => session'[t] = session[t]]_vars
=============================================================================
