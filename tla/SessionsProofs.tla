--------------------------- MODULE SessionsProofs ---------------------------
(***************************************************************************)
(* Proofs about accounts and sessions, for every number of requests,       *)
(* addresses, passwords and tokens, and every duration.                    *)
(***************************************************************************)
EXTENDS Sessions, TLAPS

LEMMA AskType ==
    ASSUME NEW a \in Ask
    PROVE  /\ a.op \in {"REGISTER", "LOGIN", "ME", "LOGOUT"}
           /\ a.op \in {"REGISTER", "LOGIN"} => a.email \in Emails /\ a.password \in Passwords
           /\ a.op \in {"ME", "LOGOUT"} => a.token \in Tokens \union {NoRow}
BY DEF Ask

(***************************************************************************)
(* The columns of the requests, and what they know of the tables.          *)
(***************************************************************************)
RequestsType ==
    /\ pc \in [Requests -> {"idle", "start", "read", "done"}]
    /\ ask \in [Requests -> Ask \union {NoRow}]
    /\ seen \in [Requests -> Passwords \union SessionRow \union {NoRow}]
    /\ reply \in [Requests -> [kind : Kind, what : Tokens \union Emails \union {NoRow}]]
    /\ stale \in [Requests -> BOOLEAN]

TablesType ==
    /\ now \in 0 .. MaxNow
    /\ user \in [Emails -> Passwords \union {NoRow}]
    /\ session \in [Tokens -> SessionRow \union {NoRow}]

LEMMA TypeParts == TypeOK <=> TablesType /\ RequestsType
BY DEF TypeOK, TablesType, RequestsType

LEMMA TypePartsNext == ASSUME TablesType', RequestsType' PROVE TypeOK'
BY DEF TypeOK, TablesType, RequestsType

(* A request that is under way has a body, and names a session that is     *)
(* there; an answer is given once.                                         *)
Asked(r) ==
    /\ pc[r] # "idle" => ask[r] \in Ask
    /\ pc[r] # "done" => reply[r].kind = "none"
    /\ pc[r] # "idle" /\ ask[r].op \in {"ME", "LOGOUT"} /\ ask[r].token # NoRow =>
            session[ask[r].token] # NoRow

(* What a request has read is the row, except that the session may have    *)
(* been revoked since.                                                     *)
SeenUser(r) == seen[r] # NoRow => seen[r] = user[Email(r)]

SeenSession(r) ==
    IF ask[r].token = NoRow THEN seen[r] = NoRow
    ELSE /\ seen[r] \in SessionRow
         /\ seen[r].owner = session[ask[r].token].owner
         /\ seen[r].expiresAt = session[ask[r].token].expiresAt
         /\ seen[r].revokedAt # NoRow =>
                session[ask[r].token].revokedAt = seen[r].revokedAt

SeenHolds(r) ==
    pc[r] = "read" =>
        /\ ask[r].op \in {"LOGIN", "ME"}
        /\ ask[r].op = "LOGIN" => SeenUser(r)
        /\ ask[r].op = "ME" => SeenSession(r)

(* A token that was dead on arrival is dead still, and so is its row.      *)
StaleHolds(r) ==
    pc[r] # "idle" /\ ask[r].op = "ME" /\ stale[r] =>
        Dead(Row(ask[r].token)) /\ (pc[r] = "read" => Dead(seen[r]))

RequestInv(r) == Asked(r) /\ SeenHolds(r) /\ StaleHolds(r)

RequestsInv == TypeOK /\ \A r \in Requests : RequestInv(r)

(***************************************************************************)
(* What a step may do to the tables: accounts and sessions are only added, *)
(* an open session may be revoked, and time does not go back.              *)
(***************************************************************************)
Kept(t) ==
    session[t] # NoRow =>
        /\ session'[t] \in SessionRow
        /\ session'[t].owner = session[t].owner
        /\ session'[t].expiresAt = session[t].expiresAt
        /\ session[t].revokedAt # NoRow => session'[t] = session[t]

Grows ==
    /\ now' \in 0 .. MaxNow /\ now' >= now
    /\ \A e \in Emails : user[e] # NoRow => user'[e] = user[e]
    /\ \A t \in Tokens : Kept(t)

(***************************************************************************)
(* A step is the clock's, or one request's; the others stand still.        *)
(***************************************************************************)
Still(r) ==
    /\ pc'[r] = pc[r] /\ ask'[r] = ask[r] /\ seen'[r] = seen[r]
    /\ reply'[r] = reply[r] /\ stale'[r] = stale[r]

LEMMA DeadStays ==
    ASSUME TypeOK, Grows, NEW t \in Tokens \union {NoRow},
           t # NoRow => session[t] # NoRow, Dead(Row(t))
    PROVE  Dead(Row(t))'
<1>1. CASE t = NoRow
  BY <1>1 DEF Dead, Row
<1>2. CASE t # NoRow
  <2>1. t \in Tokens /\ session[t] # NoRow /\ Kept(t) /\ now' >= now
    BY <1>2 DEF Grows
  <2>2. session[t] \in SessionRow /\ now \in Nat /\ now' \in Nat
    BY <2>1, DurationAssumption DEF TypeOK, Grows
  <2>3. session[t].revokedAt # NoRow \/ session[t].expiresAt <= now
    BY <1>2, <2>1 DEF Dead, Row
  <2>4. session'[t].revokedAt # NoRow \/ session'[t].expiresAt <= now'
    BY <2>1, <2>2, <2>3, DurationAssumption DEF Kept, SessionRow
  <2> QED
    BY <1>2, <2>4 DEF Dead, Row
<1> QED
  BY <1>1, <1>2

LEMMA StillHolds ==
    ASSUME TypeOK, NEW r \in Requests, RequestInv(r), Grows, Still(r)
    PROVE  RequestInv(r)'
<1>1. Asked(r)'
  <2>1. pc[r] # "idle" /\ ask[r].op \in {"ME", "LOGOUT"} /\ ask[r].token # NoRow =>
            session'[ask[r].token] # NoRow
    BY AskType, SessionRowAssumption DEF RequestInv, Asked, Grows, Kept
  <2> QED
    BY <2>1 DEF RequestInv, Asked, Still
<1>2. SeenHolds(r)'
  <2>1. CASE pc[r] = "read" /\ ask[r].op = "LOGIN"
    <3>1. Email(r) \in Emails /\ Email(r)' = Email(r)
      BY <2>1, AskType, NormalAssumption DEF RequestInv, Asked, Email, Still
    <3> QED
      BY <2>1, <3>1 DEF RequestInv, SeenHolds, SeenUser, Still, Grows
  <2>2. CASE pc[r] = "read" /\ ask[r].op = "ME"
    <3>1. CASE ask[r].token = NoRow
      BY <2>2, <3>1 DEF RequestInv, SeenHolds, SeenSession, Still
    <3>2. CASE ask[r].token # NoRow
      <4>1. ask[r].token \in Tokens /\ session[ask[r].token] # NoRow
        BY <2>2, <3>2, AskType DEF RequestInv, Asked
      <4>2. SeenSession(r)
        BY <2>2 DEF RequestInv, SeenHolds
      <4> QED
        BY <2>2, <3>2, <4>1, <4>2 DEF SeenHolds, SeenSession, Still, Grows, Kept
    <3> QED
      BY <3>1, <3>2
  <2> QED
    BY <2>1, <2>2 DEF RequestInv, SeenHolds, Still
<1>3. StaleHolds(r)'
  <2> SUFFICES ASSUME pc[r] # "idle", ask[r].op = "ME", stale[r]
               PROVE  StaleHolds(r)'
    BY DEF StaleHolds, Still
  <2>1. /\ ask[r].token \in Tokens \union {NoRow}
        /\ ask[r].token # NoRow => session[ask[r].token] # NoRow
    BY AskType DEF RequestInv, Asked
  <2>2. Dead(Row(ask[r].token)) /\ (pc[r] = "read" => Dead(seen[r]))
    BY DEF RequestInv, StaleHolds
  <2>3. Dead(Row(ask[r].token))'
    <3>1. \A t \in Tokens \union {NoRow} :
            (t # NoRow => session[t] # NoRow) /\ Dead(Row(t)) => Dead(Row(t))'
      BY DeadStays
    <3> QED
      BY <2>1, <2>2, <3>1 DEF Still, Row, Dead
  <2>4. pc[r] = "read" => Dead(seen[r])'
    <3>1. CASE ask[r].token = NoRow
      BY <3>1 DEF RequestInv, SeenHolds, SeenSession, Dead, Still
    <3>2. CASE ask[r].token # NoRow /\ pc[r] = "read"
      <4>1. seen[r] \in SessionRow /\ now \in Nat /\ now' \in Nat /\ now' >= now
        BY <3>2, DurationAssumption DEF RequestInv, SeenHolds, SeenSession, TypeOK, Grows
      <4>2. seen[r] # NoRow
        BY <4>1, SessionRowAssumption
      <4>3. seen[r].expiresAt \in Int
        BY <4>1, DurationAssumption DEF SessionRow
      <4> QED
        BY <2>2, <3>2, <4>1, <4>2, <4>3 DEF Dead, Still
    <3> QED
      BY <3>1, <3>2
  <2> QED
    BY <2>3, <2>4 DEF StaleHolds, Still
<1> QED
  BY <1>1, <1>2, <1>3 DEF RequestInv
-----------------------------------------------------------------------------
LEMMA ReadType ==
    ASSUME RequestsType, NEW r \in Requests,
           NEW row \in Passwords \union SessionRow \union {NoRow}, Read(r, row)
    PROVE  RequestsType'
BY DEF RequestsType, Read

LEMMA ReplyType ==
    ASSUME RequestsType, NEW r \in Requests, NEW kind \in Kind,
           NEW what \in Tokens \union Emails \union {NoRow}, Reply(r, kind, what)
    PROVE  RequestsType'
<1>1. [kind |-> kind, what |-> what] \in [kind : Kind, what : Tokens \union Emails \union {NoRow}]
  OBVIOUS
<1> QED
  BY <1>1 DEF RequestsType, Reply

(***************************************************************************)
(* The requests that a step is not about.                                  *)
(***************************************************************************)
LEMMA OthersStill ==
    ASSUME TypeOK, NEW r \in Requests, NEW s \in Requests, r # s,
           \/ \E row : Read(r, row)
           \/ \E kind, what : Reply(r, kind, what)
           \/ Arrive(r)
    PROVE  Still(s)
BY DEF TypeOK, Read, Reply, Arrive, Still

(***************************************************************************)
(* The types, and the growth of the tables, step by step.                  *)
(***************************************************************************)
LEMMA NewSessionType ==
    ASSUME TypeOK, NEW e \in Emails
    PROVE  [owner |-> e, expiresAt |-> Expiry, revokedAt |-> NoRow] \in SessionRow
BY DurationAssumption DEF TypeOK, Expiry, SessionRow

LEMMA Unmoved ==
    ASSUME TypeOK, UNCHANGED <<now, user, session>>
    PROVE  Grows /\ TablesType'
<1>1. now \in Nat /\ \A t \in Tokens : session[t] # NoRow => session[t] \in SessionRow
  BY DurationAssumption DEF TypeOK
<1> QED
  BY <1>1 DEF TypeOK, Grows, Kept, TablesType

LEMMA ArriveStep ==
    ASSUME RequestsInv, NEW r \in Requests, Arrive(r)
    PROVE  TypeOK' /\ Grows /\ RequestInv(r)'
<1>1. TypeOK
  BY DEF RequestsInv
<1>2. Grows /\ TablesType'
  BY <1>1, Unmoved DEF Arrive
<1>3. PICK a \in Ask :
        /\ a.op \in {"ME", "LOGOUT"} => a.token \in Issued \union {NoRow}
        /\ ask' = [ask EXCEPT ![r] = a]
        /\ stale' = [stale EXCEPT ![r] = a.op \in {"ME", "LOGOUT"} /\ Dead(Row(a.token))]
  BY DEF Arrive
<1>4. RequestsType'
  BY <1>1, <1>3, TypeParts DEF Arrive, RequestsType
<1>5. /\ pc'[r] = "start" /\ ask'[r] = a /\ reply'[r] = reply[r] /\ pc[r] = "idle"
      /\ stale'[r] => Dead(Row(a.token))
  BY <1>1, <1>3 DEF Arrive, TypeOK
<1>6. Asked(r)'
  BY <1>3, <1>5 DEF RequestsInv, RequestInv, Asked, Issued, Arrive
<1>7. SeenHolds(r)'
  BY <1>5 DEF SeenHolds
<1>8. StaleHolds(r)'
  BY <1>5 DEF StaleHolds, Dead, Row, Arrive
<1> QED
  BY <1>2, <1>4, <1>6, <1>7, <1>8, TypeParts, TypePartsNext DEF RequestInv

LEMMA ReplyHolds ==
    ASSUME RequestsInv, NEW r \in Requests, NEW kind \in Kind,
           NEW what \in Tokens \union Emails \union {NoRow},
           pc[r] # "idle", Reply(r, kind, what), \A t \in Tokens : Kept(t)
    PROVE  RequestInv(r)'
<1>1. TypeOK /\ RequestInv(r) /\ ask[r] \in Ask
  BY DEF RequestsInv, RequestInv, Asked
<1>2. pc'[r] = "done" /\ ask'[r] = ask[r] /\ stale'[r] = stale[r] /\ now' = now
  BY <1>1 DEF TypeOK, Reply
<1>3. Asked(r)'
  BY <1>1, <1>2, AskType, SessionRowAssumption DEF RequestInv, Asked, Kept
<1>4. SeenHolds(r)'
  BY <1>2 DEF SeenHolds
<1>5. StaleHolds(r)'
  <2> SUFFICES ASSUME ask[r].op = "ME", stale[r] PROVE Dead(Row(ask[r].token))'
    BY <1>2 DEF StaleHolds
  <2>1. Dead(Row(ask[r].token)) /\ ask[r].token \in Tokens \union {NoRow}
    BY <1>1, AskType DEF RequestInv, StaleHolds
  <2>2. ask[r].token # NoRow => session[ask[r].token] # NoRow
    BY <1>1 DEF RequestInv, Asked
  <2> QED
    BY <1>2, <2>1, <2>2 DEF Dead, Row, Kept
<1> QED
  BY <1>3, <1>4, <1>5 DEF RequestInv

LEMMA ReadHolds ==
    ASSUME RequestsInv, NEW r \in Requests, FindUser(r) \/ FindSession(r)
    PROVE  TypeOK' /\ Grows /\ RequestInv(r)'
<1>1. TypeOK /\ RequestInv(r)
  BY DEF RequestsInv
<1>2. ask[r] \in Ask /\ pc[r] = "start"
  BY <1>1 DEF RequestInv, Asked, FindUser, FindSession, At
<1>3. UNCHANGED <<now, user, session, ask, reply, stale>> /\ pc'[r] = "read"
  BY <1>1 DEF FindUser, FindSession, Read, TypeOK
<1>4. Grows /\ TablesType'
  BY <1>1, <1>3, Unmoved
<1>5. CASE FindUser(r)
  <2>1. ask[r].op = "LOGIN" /\ Email(r) \in Emails /\ Read(r, user[Email(r)])
    BY <1>2, <1>5, AskType, NormalAssumption DEF FindUser, At, Email
  <2>2. RequestsType'
    BY <1>1, <2>1, TypeParts, ReadType DEF TypeOK
  <2>3. seen'[r] = user[Email(r)]
    BY <1>1, <2>1 DEF Read, TypeOK
  <2>4. SeenHolds(r)'
    BY <1>3, <2>1, <2>3 DEF SeenHolds, SeenUser, Email
  <2>5. Asked(r)' /\ StaleHolds(r)'
    BY <1>1, <1>2, <1>3, <2>1 DEF RequestInv, Asked, StaleHolds
  <2> QED
    BY <1>4, <2>2, <2>4, <2>5, TypeParts, TypePartsNext DEF RequestInv
<1>6. CASE FindSession(r)
  <2>1. /\ ask[r].op = "ME" /\ ask[r].token \in Tokens \union {NoRow}
        /\ Read(r, Row(ask[r].token))
        /\ ask[r].token # NoRow => session[ask[r].token] \in SessionRow
    BY <1>1, <1>2, <1>6, AskType DEF FindSession, At, RequestInv, Asked, TypeOK
  <2>2. Row(ask[r].token) \in SessionRow \union {NoRow}
    BY <2>1 DEF Row
  <2>3. RequestsType'
    BY <1>1, <2>1, <2>2, TypeParts, ReadType
  <2>4. seen'[r] = Row(ask[r].token)
    BY <1>1, <2>1 DEF Read, TypeOK
  <2>5. SeenHolds(r)'
    BY <1>3, <2>1, <2>4 DEF SeenHolds, SeenSession, Row
  <2>6. Asked(r)'
    BY <1>1, <1>2, <1>3 DEF RequestInv, Asked
  <2>7. StaleHolds(r)'
    BY <1>1, <1>2, <1>3, <2>1, <2>4 DEF RequestInv, StaleHolds, Dead, Row
  <2> QED
    BY <1>4, <2>3, <2>5, <2>6, <2>7, TypeParts, TypePartsNext DEF RequestInv
<1> QED
  BY <1>5, <1>6

LEMMA RegisterStep ==
    ASSUME RequestsInv, NEW r \in Requests, Register(r)
    PROVE  TypeOK' /\ Grows /\ RequestInv(r)'
<1>1. TypeOK /\ RequestInv(r) /\ pc[r] # "idle" /\ ask[r] \in Ask
  BY DEF RequestsInv, RequestInv, Asked, Register, At
<1>2. Email(r) \in Emails /\ ask[r].password \in Passwords
  BY <1>1, AskType, NormalAssumption DEF Register, At, Email
<1>3. PICK kind \in Kind, what \in Tokens \union Emails \union {NoRow} : Reply(r, kind, what)
  BY <1>2 DEF Register, Kind
<1>4. now' = now /\ session' = session
  BY <1>3 DEF Register, Reply
<1>5. user' \in [Emails -> Passwords \union {NoRow}] /\ \A e \in Emails : user[e] # NoRow => user'[e] = user[e]
  BY <1>1, <1>2 DEF Register, TypeOK
<1>6. \A t \in Tokens : Kept(t)
  BY <1>1, <1>4 DEF Kept, TypeOK
<1>7. Grows /\ TablesType'
  BY <1>1, <1>4, <1>5, <1>6, DurationAssumption DEF Grows, TablesType, TypeOK
<1> QED
  BY <1>1, <1>3, <1>6, <1>7, ReplyType, ReplyHolds, TypeParts, TypePartsNext

LEMMA LoginStep ==
    ASSUME RequestsInv, NEW r \in Requests, Login(r)
    PROVE  TypeOK' /\ Grows /\ RequestInv(r)'
<1>1. TypeOK /\ RequestInv(r) /\ pc[r] # "idle" /\ ask[r] \in Ask
  BY DEF RequestsInv, RequestInv, Asked, Login, At
<1>2. Email(r) \in Emails
  BY <1>1, AskType, NormalAssumption DEF Login, At, Email
<1>3. PICK kind \in Kind, what \in Tokens \union Emails \union {NoRow} : Reply(r, kind, what)
  BY DEF Login, Kind
<1>4. now' = now /\ user' = user
  BY <1>3 DEF Login, Reply
<1>5. session' \in [Tokens -> SessionRow \union {NoRow}] /\ \A t \in Tokens : session[t] # NoRow => session'[t] = session[t]
  BY <1>1, <1>2, NewSessionType DEF Login, TypeOK, Issued
<1>6. \A t \in Tokens : Kept(t)
  BY <1>1, <1>5 DEF Kept, TypeOK
<1>7. Grows /\ TablesType'
  BY <1>1, <1>4, <1>5, <1>6, DurationAssumption DEF Grows, TablesType, TypeOK
<1> QED
  BY <1>1, <1>3, <1>6, <1>7, ReplyType, ReplyHolds, TypeParts, TypePartsNext

LEMMA AuthenticateStep ==
    ASSUME RequestsInv, NEW r \in Requests, Authenticate(r)
    PROVE  TypeOK' /\ Grows /\ RequestInv(r)'
<1>1. TypeOK /\ RequestInv(r) /\ pc[r] # "idle" /\ ask[r] \in Ask
  BY DEF RequestsInv, RequestInv, Asked, Authenticate, At
<1>2. Live(seen[r]) => seen[r].owner \in Emails
  BY <1>1 DEF RequestInv, SeenHolds, SeenSession, Authenticate, At, Live, SessionRow
<1>3. PICK kind \in Kind, what \in Tokens \union Emails \union {NoRow} : Reply(r, kind, what)
  BY <1>2 DEF Authenticate, Kind
<1>4. UNCHANGED <<now, user, session>>
  BY <1>3 DEF Authenticate, Reply
<1>5. Grows /\ TablesType'
  BY <1>1, <1>4, Unmoved
<1> QED
  BY <1>1, <1>3, <1>5, ReplyType, ReplyHolds, TypeParts, TypePartsNext DEF Grows

LEMMA LogoutStep ==
    ASSUME RequestsInv, NEW r \in Requests, Logout(r)
    PROVE  TypeOK' /\ Grows /\ RequestInv(r)'
<1>1. TypeOK /\ RequestInv(r) /\ pc[r] # "idle" /\ ask[r] \in Ask
  BY DEF RequestsInv, RequestInv, Asked, Logout, At
<1>2. ask[r].token \in Tokens \union {NoRow}
  BY <1>1, AskType DEF Logout, At
<1>3. Reply(r, "signed_out", NoRow) /\ now' = now /\ user' = user
  BY DEF Logout, Reply
<1>4. CASE ~ Open(ask[r].token)
  BY <1>1, <1>3, <1>4, Unmoved, ReplyType, ReplyHolds, TypeParts, TypePartsNext DEF Logout, Kind, Grows
<1>5. CASE Open(ask[r].token)
  <2> DEFINE t == ask[r].token
  <2>1. t \in Tokens /\ session[t] \in SessionRow /\ session[t].revokedAt = NoRow
    BY <1>1, <1>2, <1>5 DEF Open, Row, TypeOK
  <2>2. session' = [session EXCEPT ![t] = [session[t] EXCEPT !.revokedAt = now]]
    BY <1>5 DEF Logout
  <2>3. [session[t] EXCEPT !.revokedAt = now] \in SessionRow
    BY <1>1, <2>1 DEF SessionRow, TypeOK
  <2>4. session' \in [Tokens -> SessionRow \union {NoRow}]
    BY <1>1, <2>2, <2>3 DEF TypeOK
  <2>5. \A u \in Tokens : Kept(u)
    <3> SUFFICES ASSUME NEW u \in Tokens, session[u] # NoRow PROVE Kept(u)
      BY DEF Kept
    <3>1. CASE u = t
      BY <1>1, <2>1, <2>2, <2>3, <3>1 DEF Kept, TypeOK, SessionRow
    <3>2. CASE u # t
      BY <1>1, <2>2, <3>2 DEF Kept, TypeOK
    <3> QED
      BY <3>1, <3>2
  <2>6. Grows /\ TablesType'
    BY <1>1, <1>3, <2>4, <2>5, DurationAssumption DEF Grows, TablesType, TypeOK
  <2> QED
    BY <1>1, <1>3, <2>5, <2>6, ReplyType, ReplyHolds, TypeParts, TypePartsNext DEF Kind
<1> QED
  BY <1>4, <1>5

LEMMA TickStep ==
    ASSUME RequestsInv, Tick \/ UNCHANGED vars
    PROVE  TypeOK' /\ Grows /\ \A r \in Requests : Still(r)
<1>1. TypeOK
  BY DEF RequestsInv
<1>2. UNCHANGED <<user, session, pc, ask, seen, reply, stale>>
  BY DEF Tick, vars
<1>3. now' \in 0 .. MaxNow /\ now' >= now
  BY <1>1, DurationAssumption DEF Tick, vars, TypeOK
<1>4. TablesType' /\ RequestsType'
  BY <1>1, <1>2, <1>3 DEF TypeOK, TablesType, RequestsType
<1>5. Grows
  BY <1>1, <1>2, <1>3 DEF TypeOK, Grows, Kept
<1> QED
  BY <1>2, <1>4, <1>5, TypeParts, TypePartsNext DEF Still
-----------------------------------------------------------------------------
LEMMA RequestsInit == Init => RequestsInv
<1> SUFFICES ASSUME Init PROVE RequestsInv
  OBVIOUS
<1>1. TypeOK
  BY DurationAssumption DEF Init, TypeOK, Kind
<1> QED
  BY <1>1 DEF Init, RequestsInv, RequestInv, Asked, SeenHolds, StaleHolds

(***************************************************************************)
(* A step of one request leaves the others still.                          *)
(***************************************************************************)
LEMMA StepAnswers ==
    ASSUME NEW r, Step(r)
    PROVE  (\E row : Read(r, row)) \/ (\E kind, what : Reply(r, kind, what))
BY DEF Step, Register, FindUser, Login, FindSession, Authenticate, Logout

LEMMA RequestsNext ==
    ASSUME RequestsInv, [Next]_vars
    PROVE  RequestsInv' /\ Grows
<1>1. ASSUME NEW r \in Requests, Arrive(r) \/ Step(r) PROVE RequestsInv' /\ Grows
  <2>1. TypeOK' /\ Grows /\ RequestInv(r)'
    BY <1>1, ArriveStep, ReadHolds, RegisterStep, LoginStep, AuthenticateStep, LogoutStep
    DEF Step
  <2>2. \A s \in Requests : s # r => Still(s)
    BY <1>1, StepAnswers, OthersStill DEF RequestsInv
  <2>3. \A s \in Requests : s # r => RequestInv(s)'
    BY <2>1, <2>2, StillHolds DEF RequestsInv
  <2> QED
    BY <2>1, <2>3 DEF RequestsInv
<1>2. CASE Tick \/ UNCHANGED vars
  BY <1>2, TickStep, StillHolds DEF RequestsInv
<1> QED
  BY <1>1, <1>2 DEF Next

(***************************************************************************)
(* Accounts and sessions keep their types.                                 *)
(***************************************************************************)
THEOREM SessionsTypeCorrect == Spec => []TypeOK
<1>1. RequestsInv => TypeOK
  BY DEF RequestsInv
<1>2. RequestsInv /\ [Next]_vars => RequestsInv'
  BY RequestsNext
<1> QED
  BY RequestsInit, <1>1, <1>2, PTL DEF Spec

(***************************************************************************)
(* A revoked session never changes again.                                  *)
(***************************************************************************)
THEOREM SessionsRevocationIsFinal == Spec => RevocationIsFinal
<1> DEFINE Final == \A t \in Tokens :
                Row(t) # NoRow /\ session[t].revokedAt # NoRow => session'[t] = session[t]
<1>1. RequestsInv /\ [Next]_vars => [Final]_vars
  <2> SUFFICES ASSUME RequestsInv, [Next]_vars PROVE Final
    OBVIOUS
  <2>1. \A t \in Tokens : Kept(t)
    BY RequestsNext DEF Grows
  <2> QED
    BY <2>1, NoRowAssumption DEF Kept, Row
<1>2. RequestsInv /\ [Next]_vars => RequestsInv'
  BY RequestsNext
<1> QED
  BY RequestsInit, <1>1, <1>2, PTL DEF Spec, RevocationIsFinal
-----------------------------------------------------------------------------
(***************************************************************************)
(* What the guard's answers say of the session.                            *)
(***************************************************************************)
AnswerHolds(r) ==
    /\ reply[r].kind = "admitted" =>
        /\ pc[r] = "done" /\ ask[r].op = "ME" /\ ~ stale[r]
        /\ ask[r].token \in Tokens /\ session[ask[r].token] # NoRow
        /\ reply[r].what = session[ask[r].token].owner
    /\ reply[r].kind = "unauthorized" /\ ask[r].op = "ME" => Dead(Row(ask[r].token))

LEMMA GuardAnswers ==
    ASSUME RequestsInv, NEW r \in Requests, Authenticate(r)
    PROVE  AnswerHolds(r)'
<1>1. /\ TypeOK /\ ask[r] \in Ask /\ ask[r].op = "ME" /\ pc[r] = "read"
      /\ SeenSession(r) /\ StaleHolds(r) /\ ask[r].token \in Tokens \union {NoRow}
      /\ ask[r].token # NoRow => session[ask[r].token] # NoRow
  BY AskType DEF RequestsInv, RequestInv, Asked, SeenHolds, Authenticate, At
<1>2. UNCHANGED <<now, session, ask, stale>> /\ pc'[r] = "done"
  BY <1>1 DEF Authenticate, Reply, TypeOK
<1>3. now \in Nat /\ (seen[r] \in SessionRow => seen[r].expiresAt \in Int)
  BY <1>1, DurationAssumption DEF TypeOK, SessionRow
<1>4. CASE Live(seen[r]) /\ Reply(r, "admitted", seen[r].owner)
  <2>1. reply'[r] = [kind |-> "admitted", what |-> seen[r].owner]
    BY <1>1, <1>4 DEF Reply, TypeOK
  <2>2. ask[r].token \in Tokens /\ seen[r] \in SessionRow
        /\ seen[r].owner = session[ask[r].token].owner
    BY <1>1, <1>4 DEF SeenSession, Live
  <2>3. ~ Dead(seen[r])
    BY <1>3, <1>4, <2>2 DEF Live, Dead
  <2>4. ~ stale[r]
    BY <1>1, <2>3 DEF StaleHolds
  <2>5. ~ stale'[r]
    BY <1>2, <2>4
  <2>6. reply'[r].kind = "admitted" /\ reply'[r].what = seen[r].owner
    BY <2>1
  <2>7. session'[ask'[r].token] # NoRow /\ reply'[r].what = session'[ask'[r].token].owner
    BY <1>1, <1>2, <2>2, <2>6, NoRowAssumption
  <2> QED
    BY <1>1, <1>2, <2>2, <2>5, <2>6, <2>7 DEF AnswerHolds
<1>5. CASE ~ Live(seen[r]) /\ Reply(r, "unauthorized", NoRow)
  <2>1. reply'[r].kind = "unauthorized"
    BY <1>1, <1>5 DEF Reply, TypeOK
  <2>2. Dead(Row(ask[r].token))
    <3>1. CASE ask[r].token = NoRow
      BY <3>1 DEF Dead, Row
    <3>2. CASE ask[r].token # NoRow
      <4>1. seen[r] \in SessionRow /\ seen[r] # NoRow
        BY <1>1, <3>2, SessionRowAssumption DEF SeenSession
      <4>2. seen[r].revokedAt # NoRow \/ seen[r].expiresAt <= now
        BY <1>3, <1>5, <4>1 DEF Live
      <4> QED
        BY <1>1, <3>2, <4>2 DEF SeenSession, Dead, Row
    <3> QED
      BY <3>1, <3>2
  <2> QED
    BY <1>2, <2>1, <2>2 DEF AnswerHolds, Dead, Row
<1> QED
  BY <1>4, <1>5 DEF Authenticate

LEMMA AnswerStays ==
    ASSUME RequestsInv, NEW r \in Requests, AnswerHolds(r), Grows,
           pc'[r] = pc[r] \/ pc[r] # "done",
           ask'[r] = ask[r], reply'[r] = reply[r], stale'[r] = stale[r]
    PROVE  AnswerHolds(r)'
<1>1. TypeOK /\ Asked(r)
  BY DEF RequestsInv, RequestInv
<1>2. CASE reply[r].kind = "admitted"
  <2>1. pc[r] = "done" /\ ask[r].token \in Tokens /\ session[ask[r].token] # NoRow
    BY <1>2 DEF AnswerHolds
  <2>2. session'[ask[r].token] # NoRow /\ session'[ask[r].token].owner = session[ask[r].token].owner
    BY <2>1, SessionRowAssumption DEF Grows, Kept
  <2> QED
    BY <1>2, <2>1, <2>2 DEF AnswerHolds
<1>3. CASE reply[r].kind = "unauthorized" /\ ask[r].op = "ME"
  <2>1. ask[r] \in Ask /\ ask[r].token \in Tokens \union {NoRow}
    BY <1>1, <1>3, AskType DEF Asked
  <2>2. ask[r].token # NoRow => session[ask[r].token] # NoRow
    BY <1>1, <1>3 DEF Asked
  <2>3. \A t \in Tokens \union {NoRow} :
            (t # NoRow => session[t] # NoRow) /\ Dead(Row(t)) => Dead(Row(t))'
    BY <1>1, DeadStays
  <2>4. Dead(Row(ask[r].token))'
    BY <1>3, <2>1, <2>2, <2>3 DEF AnswerHolds, Dead, Row
  <2> QED
    BY <1>3, <2>4 DEF AnswerHolds
<1> QED
  BY <1>2, <1>3 DEF AnswerHolds

AnswersInv == RequestsInv /\ \A r \in Requests : AnswerHolds(r)

LEMMA AnswersInit == Init => AnswersInv
BY RequestsInit DEF Init, AnswersInv, AnswerHolds

LEMMA AnswersNext == AnswersInv /\ [Next]_vars => AnswersInv'
<1> SUFFICES ASSUME AnswersInv, [Next]_vars PROVE AnswersInv'
  OBVIOUS
<1>1. RequestsInv /\ RequestsInv' /\ Grows /\ TypeOK
  BY RequestsNext DEF AnswersInv, RequestsInv
<1>2. ASSUME NEW r \in Requests, Still(r) PROVE AnswerHolds(r)'
  BY <1>1, <1>2, AnswerStays DEF AnswersInv, Still
<1>3. ASSUME NEW r \in Requests, Arrive(r) PROVE AnswerHolds(r)'
  <2>1. reply'[r].kind = "none"
    BY <1>1, <1>3 DEF Arrive, RequestsInv, RequestInv, Asked
  <2> QED
    BY <2>1 DEF AnswerHolds
<1>4. ASSUME NEW r \in Requests, FindUser(r) \/ FindSession(r) PROVE AnswerHolds(r)'
  <2>1. ask' = ask /\ reply' = reply /\ stale' = stale /\ pc[r] = "start"
    BY <1>4 DEF FindUser, FindSession, At, Read
  <2> QED
    BY <1>1, <2>1, AnswerStays DEF AnswersInv
<1>5. ASSUME NEW r \in Requests, Register(r) \/ Login(r) \/ Logout(r) PROVE AnswerHolds(r)'
  <2>1. ask' = ask /\ reply'[r].kind # "admitted"
    BY <1>1, <1>5 DEF Register, Login, Logout, Reply, TypeOK
  <2>2. ask[r].op # "ME"
    BY <1>5 DEF Register, Login, Logout, At
  <2> QED
    BY <2>1, <2>2 DEF AnswerHolds
<1>6. ASSUME NEW r \in Requests, Arrive(r) \/ Step(r) PROVE \A s \in Requests : AnswerHolds(s)'
  <2>1. \A s \in Requests : s # r => Still(s)
    BY <1>1, <1>6, StepAnswers, OthersStill
  <2>2. AnswerHolds(r)'
    BY <1>1, <1>3, <1>4, <1>5, <1>6, GuardAnswers DEF Step
  <2> QED
    BY <1>2, <2>1, <2>2
<1>7. CASE Tick \/ UNCHANGED vars
  BY <1>1, <1>2, <1>7, TickStep DEF AnswersInv
<1> QED
  BY <1>1, <1>6, <1>7 DEF AnswersInv, Next

(***************************************************************************)
(* A request that came with a dead token is not admitted.                  *)
(***************************************************************************)
THEOREM SessionsDeadTokensRefused == Spec => []DeadTokensRefused
<1>1. AnswersInv => DeadTokensRefused
  BY DEF AnswersInv, AnswerHolds, DeadTokensRefused
<1> QED
  BY AnswersInit, AnswersNext, <1>1, PTL DEF Spec

(***************************************************************************)
(* A request that was refused had no live session.                         *)
(***************************************************************************)
THEOREM SessionsLiveTokensAdmitted == Spec => []LiveTokensAdmitted
<1>1. AnswersInv => LiveTokensAdmitted
  BY DEF AnswersInv, AnswerHolds, LiveTokensAdmitted
<1> QED
  BY AnswersInit, AnswersNext, <1>1, PTL DEF Spec
-----------------------------------------------------------------------------
(***************************************************************************)
(* Accounts are stored under normal addresses only.                        *)
(***************************************************************************)
AccountInv == \A e \in Emails : user[e] # NoRow => Normal[e] = e

LEMMA AccountNext == RequestsInv /\ AccountInv /\ [Next]_vars => AccountInv'
<1> SUFFICES ASSUME RequestsInv, AccountInv, [Next]_vars PROVE AccountInv'
  OBVIOUS
<1>1. ASSUME NEW r \in Requests, Register(r) PROVE AccountInv'
  <2>1. ask[r] \in Ask /\ ask[r].op = "REGISTER"
    BY <1>1 DEF RequestsInv, RequestInv, Asked, Register, At
  <2>2. Email(r) \in Emails /\ Normal[Email(r)] = Email(r)
    BY <2>1, AskType, NormalAssumption DEF Email
  <2> QED
    BY <1>1, <2>2 DEF Register, AccountInv, RequestsInv, TypeOK
<1>2. ASSUME UNCHANGED user PROVE AccountInv'
  BY <1>2 DEF AccountInv
<1> QED
  BY <1>1, <1>2
  DEF Next, Step, Tick, Arrive, FindUser, Login, FindSession, Authenticate, Logout, Read, vars

(***************************************************************************)
(* There is one account per address, however it is spelled.                *)
(***************************************************************************)
THEOREM SessionsOneAccount == Spec => []OneAccount
<1>1. Init => RequestsInv /\ AccountInv
  BY RequestsInit DEF Init, AccountInv
<1>2. (RequestsInv /\ AccountInv) /\ [Next]_vars => (RequestsInv /\ AccountInv)'
  BY RequestsNext, AccountNext
<1>3. RequestsInv /\ AccountInv => OneAccount
  BY DEF AccountInv, OneAccount
<1> QED
  BY <1>1, <1>2, <1>3, PTL DEF Spec
-----------------------------------------------------------------------------
(***************************************************************************)
(* Every session was opened by a sign-in with its owner's password.        *)
(***************************************************************************)
Opened(s, t) ==
    /\ pc[s] = "done" /\ reply[s] = [kind |-> "signed_in", what |-> t]
    /\ Normal[ask[s].email] = session[t].owner
    /\ ask[s].password \in Passwords /\ ask[s].password = user[session[t].owner]

OwnerInv == \A t \in Tokens : session[t] # NoRow => \E s \in Requests : Opened(s, t)

LEMMA DoneStill ==
    ASSUME RequestsInv, [Next]_vars, NEW s \in Requests, pc[s] = "done"
    PROVE  Still(s)
<1>1. ASSUME NEW r \in Requests, Arrive(r) \/ Step(r) PROVE Still(s)
  <2>1. pc[r] # "done"
    BY <1>1
    DEF Arrive, Step, Register, FindUser, Login, FindSession, Authenticate, Logout, At
  <2> QED
    BY <1>1, <2>1, StepAnswers, OthersStill DEF RequestsInv
<1> QED
  BY <1>1, TickStep DEF Next

LEMMA OpenedStays ==
    ASSUME RequestsInv, Grows, NEW s \in Requests, NEW t \in Tokens, session[t] # NoRow,
           Opened(s, t), Still(s)
    PROVE  Opened(s, t)'
<1>1. session'[t].owner = session[t].owner
  BY DEF Grows, Kept
<1>2. session[t].owner \in Emails
  BY DEF RequestsInv, TypeOK, SessionRow
<1>3. user'[session[t].owner] = user[session[t].owner]
  BY <1>2, NoRowAssumption DEF Opened, Grows
<1> QED
  BY <1>1, <1>3 DEF Opened, Still

LEMMA OwnerNext == RequestsInv /\ OwnerInv /\ [Next]_vars => OwnerInv'
<1> SUFFICES ASSUME RequestsInv, OwnerInv, [Next]_vars, NEW t \in Tokens, session'[t] # NoRow
             PROVE  \E s \in Requests : Opened(s, t)'
  BY DEF OwnerInv
<1>0. Grows /\ TypeOK
  BY RequestsNext DEF RequestsInv
<1>1. CASE session[t] # NoRow
  <2>1. PICK s \in Requests : Opened(s, t)
    BY <1>1 DEF OwnerInv
  <2> QED
    BY <1>0, <1>1, <2>1, DoneStill, OpenedStays DEF Opened
<1>2. CASE session[t] = NoRow
  <2>1. PICK r \in Requests : Login(r)
    BY <1>0, <1>2 DEF Next, Step, Tick, Arrive, Register, FindUser, FindSession, Authenticate,
        Logout, Open, Row, Read, vars, TypeOK
  <2>2. /\ ask[r] \in Ask /\ ask[r].op = "LOGIN" /\ ask[r].password \in Passwords
        /\ SeenUser(r)
    BY <2>1, AskType DEF RequestsInv, RequestInv, Asked, SeenHolds, Login, At
  <2>3. PICK u \in Tokens \ Issued :
            /\ PasswordMatches(r)
            /\ session' = [session EXCEPT ![u] =
                    [owner |-> Email(r), expiresAt |-> Expiry, revokedAt |-> NoRow]]
            /\ Reply(r, "signed_in", u)
    BY <1>2, <2>1 DEF Login
  <2>4. u = t
    BY <1>0, <1>2, <2>3 DEF TypeOK
  <2>5. session'[t].owner = Email(r)
    BY <1>0, <2>3, <2>4 DEF TypeOK
  <2>6. user' = user /\ ask' = ask /\ ask[r].password = user[Email(r)]
    BY <2>1, <2>2, <2>3 DEF Login, Reply, PasswordMatches, SeenUser
  <2>7. pc'[r] = "done" /\ reply'[r] = [kind |-> "signed_in", what |-> t]
    BY <1>0, <2>3, <2>4 DEF Reply, TypeOK
  <2> QED
    BY <2>2, <2>5, <2>6, <2>7 DEF Opened, Email
<1> QED
  BY <1>1, <1>2

(***************************************************************************)
(* Whoever is admitted is admitted as the account whose password opened    *)
(* the session.                                                            *)
(***************************************************************************)
THEOREM SessionsAdmittedAsOwner == Spec => []AdmittedAsOwner
<1>1. Init => AnswersInv /\ OwnerInv
  BY AnswersInit DEF Init, OwnerInv
<1>2. (AnswersInv /\ OwnerInv) /\ [Next]_vars => (AnswersInv /\ OwnerInv)'
  BY AnswersNext, OwnerNext DEF AnswersInv
<1>3. AnswersInv /\ OwnerInv => AdmittedAsOwner
  <2> SUFFICES ASSUME AnswersInv, OwnerInv, NEW r \in Requests, reply[r].kind = "admitted"
               PROVE  \E s \in Requests :
                        /\ reply[s] = [kind |-> "signed_in", what |-> ask[r].token]
                        /\ Normal[ask[s].email] = reply[r].what
                        /\ ask[s].password = user[reply[r].what]
    BY DEF AdmittedAsOwner
  <2>1. /\ ask[r].token \in Tokens /\ session[ask[r].token] # NoRow
        /\ reply[r].what = session[ask[r].token].owner
    BY DEF AnswersInv, AnswerHolds
  <2>2. PICK s \in Requests : Opened(s, ask[r].token)
    BY <2>1 DEF OwnerInv
  <2> QED
    BY <2>1, <2>2 DEF Opened
<1> QED
  BY <1>1, <1>2, <1>3, PTL DEF Spec
=============================================================================
