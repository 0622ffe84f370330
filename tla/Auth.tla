-------------------------------- MODULE Auth --------------------------------
(***************************************************************************)
(* Accounts and tokens: the auth service and repository (internal/api/auth)*)
(* over the auth_users table, and the token service and bearer guards      *)
(* (internal/jwt).                                                         *)
(*                                                                         *)
(* Several instances of the API serve calls concurrently, each with its    *)
(* own clock; every statement of a call is a step, and rows may be removed *)
(* or given another role by an operator between two of them.  Time is      *)
(* counted in ticks, Second of them to the second, because claims hold     *)
(* whole seconds and clocks do not.                                        *)
(***************************************************************************)
EXTENDS Integers

CONSTANTS
    Emails, Passwords,
    Seeds,          \* tables there may be: rows not inserted by registration
    FirstId,        \* the identity the table hands out next
    Clients,        \* concurrent calls
    Instances,      \* API processes
    Second,         \* ticks in a second
    AccessTime, RefreshTime, ConfiguredSkew,    \* config.Jwt, in ticks
    Drift,          \* how far a clock may be from true time
    NotAHash,       \* a stored password that decodeHash refuses
    None,           \* no token, no row, no password
    MaxId, MaxPairs, MaxNow, MaxEdits   \* bounds: rows, token pairs, time, edits

Roles  == {"admin", "customer"}
Hashes == [hashOf : Passwords]
Rows   == [id : 1..MaxId, email : Emails, password : Hashes \cup {NotAHash},
           role : Roles, tenant : BOOLEAN]
Issuers == {"auth-access", "auth-refresh"}

ASSUME AuthAssumption ==
    /\ Second \in Nat \ {0}
    /\ AccessTime \in Nat /\ RefreshTime \in Nat /\ ConfiguredSkew \in Nat
    /\ Drift \in Nat /\ MaxNow \in Nat /\ MaxPairs \in Nat /\ MaxId \in Nat
    /\ MaxEdits \in Nat
    /\ Seeds \subseteq SUBSET Rows
    /\ FirstId \in 1..(MaxId + 1)
    /\ \A seed \in Seeds : \A u \in seed : u.id < FirstId

VARIABLES
    users,      \* the table
    columns,    \* it has the columns that users.sql names
    nextId,     \* its identity sequence
    now,        \* true time
    offset,     \* instance -> its clock minus true time
    tokens,     \* every token issued
    issued,     \* pairs issued
    edits,      \* changes an operator made to the table
    call,       \* client -> the call it makes: operation and arguments
    at,         \* client -> the step the call is at
    found,      \* client -> the row the call works with, or is answered
    answer,     \* client -> how the call was answered
    views       \* history: client -> the tables there were during its call

vars == <<users, columns, nextId, now, offset, tokens, issued, edits, call, at, found,
          answer, views>>

-----------------------------------------------------------------------------
(* The token service.                                                       *)

Local(i) == now + offset[i]

(* Claims hold NumericDates, truncated to the second.                       *)
NumericDate(t) == t - (t % Second)

(* InitJWT: a skew of zero means ten seconds.                               *)
ClockSkew == IF ConfiguredSkew = 0 THEN 10 * Second ELSE ConfiguredSkew

Lifetime(issuer) == IF issuer = "auth-access" THEN AccessTime ELSE RefreshTime

(* The claims IssueTokenPair signs for a row.  A refresh token names no     *)
(* role.  at is the true time, which no claim holds.                        *)
Token(issuer, row, i) ==
    [iss |-> issuer, id |-> row.id, sub |-> row.email,
     role |-> IF issuer = "auth-access" THEN row.role ELSE None,
     nbf |-> NumericDate(Local(i)), exp |-> NumericDate(Local(i) + Lifetime(issuer)),
     at |-> now, pair |-> issued]

Tokens ==
    [iss : Issuers, id : 1..MaxId, sub : Emails, role : Roles \cup {None},
     nbf : Int, exp : Int, at : 0..MaxNow, pair : 0..MaxPairs]

ASSUME NoneAssumption == None \notin Rows \cup Tokens /\ NotAHash \notin Hashes

(* What the client is told of an access token, in seconds.                  *)
ExpiresIn == AccessTime \div Second

(* Mutant of InTime: the expiry gets no leeway.                             *)
InTimeStrict(t, i) == t.nbf - ClockSkew <= Local(i) /\ Local(i) < t.exp

(* The parser's check of nbf and exp, with its leeway.                      *)
InTime(t, i) == t.nbf - ClockSkew <= Local(i) /\ Local(i) < t.exp + ClockSkew

(* parseTokenClaims; a header without a token, or with one that was not     *)
(* signed here, is None.                                                    *)
Parses(t, issuer, i) == t # None /\ t.iss = issuer /\ InTime(t, i)

-----------------------------------------------------------------------------
(* Calls.  fault says whether a step of the call failed by itself: a        *)
(* statement, its reply, the hash or the signature.                         *)

Calls ==
    [op : {"none", "register", "login", "me", "refresh"}, inst : Instances,
     email : Emails, pw : Passwords \cup {None}, tok : Tokens \cup {None}]

Steps == {"done", "hash", "insert", "find", "compare", "load", "issue"}

Answers == [status : {0, 200, 201, 401, 404, 409, 500}, fault : {"none", "failed"}]

NoAnswer == [status |-> 0, fault |-> "none"]

(* One type invariant for rows, calls, tokens and clocks.                   *)
TypeOK ==
    /\ users \subseteq Rows
    /\ columns \in BOOLEAN
    /\ nextId \in 1..(MaxId + 1)
    /\ now \in 0..MaxNow
    /\ offset \in [Instances -> -Drift..Drift]
    /\ tokens \subseteq Tokens
    /\ issued \in 0..MaxPairs
    /\ edits \in 0..MaxEdits
    /\ call \in [Clients -> Calls] /\ at \in [Clients -> Steps]
    /\ found \in [Clients -> Rows \cup {None}] /\ answer \in [Clients -> Answers]
    /\ views \in [Clients -> SUBSET SUBSET Rows]

calls  == <<call, at, found, answer>>
issues == <<columns, now, offset, tokens, issued>>

(* The client calls an operation; the previous one, if any, is answered.    *)
Begin(c, op, step, i, e, p, t) ==
    /\ at[c] = "done"
    /\ at' = [at EXCEPT ![c] = step]
    /\ call' = [call EXCEPT ![c] =
          [op |-> op, inst |-> i, email |-> e, pw |-> p, tok |-> t]]
    /\ found' = [found EXCEPT ![c] = None]
    /\ answer' = [answer EXCEPT ![c] = NoAnswer]
    /\ views' = [views EXCEPT ![c] = {users}]
    /\ UNCHANGED <<users, nextId, edits, issues>>

(* It goes on with the row a step has found.                                *)
Proceed(c, step, row) ==
    /\ at' = [at EXCEPT ![c] = step]
    /\ found' = [found EXCEPT ![c] = row]
    /\ UNCHANGED <<users, nextId, edits, issues, call, answer, views>>

(* It is answered.                                                          *)
Answer(c, status, row, fault) ==
    /\ at' = [at EXCEPT ![c] = "done"]
    /\ found' = [found EXCEPT ![c] = row]
    /\ answer' = [answer EXCEPT ![c] = [status |-> status, fault |-> fault]]
    /\ UNCHANGED call

Refuse(c, status, fault) ==
    /\ Answer(c, status, None, fault)
    /\ UNCHANGED <<users, nextId, edits, issues, views>>

(* A guard answers 401 and nothing of the operation runs.                   *)
Reject(c) ==
    /\ at[c] = "done"
    /\ call' = [call EXCEPT ![c].op = "none"]
    /\ found' = [found EXCEPT ![c] = None]
    /\ answer' = [answer EXCEPT ![c] = [status |-> 401, fault |-> "none"]]
    /\ UNCHANGED <<users, nextId, edits, issues, at, views>>

(* Every change of the table is seen by the calls in progress.              *)
Store(table) ==
    /\ users' = table
    /\ views' = [c \in Clients |->
          IF at[c] = "done" THEN views[c] ELSE views[c] \cup {table}]

-----------------------------------------------------------------------------
(* RegisterAdmin.                                                           *)

RegisterAdmin(c, i, e, p) == Begin(c, "register", "hash", i, e, p, None)

HashPassword(c) ==
    /\ at[c] = "hash"
    /\ \/ Proceed(c, "insert", None)
       \/ Refuse(c, 500, "failed")

(* What CreateAdminUser inserts, with tenant_id and customer_id NULL.       *)
AdminRow(e, p) ==
    [id |-> nextId, email |-> e, password |-> [hashOf |-> p], role |-> "admin",
     tenant |-> FALSE]

(* The unique index on the e-mail covers rows of tenants only.              *)
UniqueViolation(row) ==
    row.tenant /\ \E u \in users : u.tenant /\ u.email = row.email

(* The INSERT: it is refused if the table has not the columns it names, or  *)
(* takes effect, with its reply received or lost.                           *)
CreateAdmin(c) ==
    LET row == AdminRow(call[c].email, call[c].pw) IN
    /\ at[c] = "insert"
    /\ columns /\ ~UniqueViolation(row) /\ nextId <= MaxId
    /\ \/ Answer(c, 201, None, "none")
       \/ Answer(c, 500, None, "failed")
    /\ Store(users \cup {row})
    /\ nextId' = nextId + 1
    /\ UNCHANGED <<edits, issues>>

(* WrapDBError: only a unique violation is a conflict.                      *)
CreateRefused(c) ==
    LET row == AdminRow(call[c].email, call[c].pw) IN
    /\ at[c] = "insert"
    /\ ~columns \/ UniqueViolation(row)
    /\ Refuse(c, IF columns THEN 409 ELSE 500, "none")

CreateFails(c) ==
    /\ at[c] = "insert"
    /\ Refuse(c, 500, "failed")

-----------------------------------------------------------------------------
(* Login, and Refresh behind RefreshGuard: both end in issueTokens.         *)

Login(c, i, e, p) == Begin(c, "login", "find", i, e, p, None)

(* The guard reads the clock of the instance once and touches nothing else. *)
RefreshRejected(c, i, t) ==
    /\ ~Parses(t, "auth-refresh", i)
    /\ Reject(c)

(* Mutant of RefreshBegin: the claims are trusted instead of the table.     *)
RefreshUnchecked(c, i, t) ==
    /\ Parses(t, "auth-refresh", i)
    /\ at[c] = "done"
    /\ at' = [at EXCEPT ![c] = "issue"]
    /\ call' = [call EXCEPT ![c] =
          [op |-> "refresh", inst |-> i, email |-> t.sub, pw |-> None, tok |-> t]]
    /\ found' = [found EXCEPT ![c] =
          [id |-> t.id, email |-> t.sub, password |-> NotAHash, role |-> "admin",
           tenant |-> FALSE]]
    /\ answer' = [answer EXCEPT ![c] = NoAnswer]
    /\ views' = [views EXCEPT ![c] = {users}]
    /\ UNCHANGED <<users, nextId, edits, issues>>

(* The claims' subject is looked up again.                                  *)
RefreshBegin(c, i, t) ==
    /\ Parses(t, "auth-refresh", i)
    /\ Begin(c, "refresh", "find", i, t.sub, None, t)

(* GetUser returns a row with the e-mail, any of them if there are several. *)
Matching(e) == {u \in users : u.email = e}

FindUser(c) ==
    /\ at[c] = "find"
    /\ \E u \in Matching(call[c].email) :
          Proceed(c, IF call[c].op = "login" THEN "compare" ELSE "issue", u)

(* No row and a failed lookup get the same answer.                          *)
FindUserFails(c) ==
    /\ at[c] = "find"
    /\ \/ Matching(call[c].email) = {} /\ Refuse(c, 401, "none")
       \/ Refuse(c, 401, "failed")

ComparePasswordAndHash(c) ==
    /\ at[c] = "compare"
    /\ LET hash == found[c].password IN
       \/ hash = NotAHash /\ Refuse(c, 500, "none")
       \/ hash # NotAHash /\ hash.hashOf # call[c].pw /\ Refuse(c, 401, "none")
       \/ hash # NotAHash /\ hash.hashOf = call[c].pw /\ Proceed(c, "issue", found[c])

IssueTokenPair(c) ==
    /\ at[c] = "issue"
    /\ issued < MaxPairs
    /\ issued' = issued + 1
    /\ tokens' = tokens \cup {Token(issuer, found[c], call[c].inst) : issuer \in Issuers}
    /\ Answer(c, 200, found[c], "none")
    /\ UNCHANGED <<users, columns, nextId, now, offset, edits, views>>

IssueFails(c) ==
    /\ at[c] = "issue"
    /\ Refuse(c, 500, "failed")

-----------------------------------------------------------------------------
(* Me behind AccessGuard.                                                   *)

MeRejected(c, i, t) ==
    /\ ~Parses(t, "auth-access", i)
    /\ Reject(c)

MeBegin(c, i, t) ==
    /\ Parses(t, "auth-access", i)
    /\ Begin(c, "me", "load", i, t.sub, None, t)

GetUserDetails(c) ==
    /\ at[c] = "load"
    /\ \E u \in Matching(call[c].email) :
          /\ Answer(c, 200, u, "none")
          /\ UNCHANGED <<users, nextId, edits, issues, views>>

(* Mutant of MeMissing: every error is taken for a missing row.             *)
MeMissingAlways(c) == Refuse(c, 404, "none")

MeMissing(c) == Matching(call[c].email) = {} /\ Refuse(c, 404, "none")

GetUserDetailsFails(c) ==
    /\ at[c] = "load"
    /\ \/ MeMissing(c)
       \/ Refuse(c, 500, "failed")

-----------------------------------------------------------------------------
(* Outside the code: time, and an operator at work on the table.            *)

Tick ==
    /\ now < MaxNow
    /\ now' = now + 1
    /\ UNCHANGED <<users, columns, nextId, offset, tokens, issued, edits, calls, views>>

Edit(table) ==
    /\ edits < MaxEdits
    /\ edits' = edits + 1
    /\ Store(table)
    /\ UNCHANGED <<nextId, issues, calls>>

UserRemoved(u) == Edit(users \ {u})

RoleChanged(u) ==
    \E role \in Roles \ {u.role} :
        Edit((users \ {u}) \cup {[u EXCEPT !.role = role]})

-----------------------------------------------------------------------------
Init ==
    /\ users \in Seeds /\ columns \in BOOLEAN
    /\ nextId = FirstId
    /\ now = 0 /\ offset \in [Instances -> -Drift..Drift]
    /\ tokens = {} /\ issued = 0 /\ edits = 0
    /\ \E i \in Instances, e \in Emails :
          call = [c \in Clients |->
                     [op |-> "none", inst |-> i, email |-> e, pw |-> None, tok |-> None]]
    /\ at = [c \in Clients |-> "done"] /\ found = [c \in Clients |-> None]
    /\ answer = [c \in Clients |-> NoAnswer]
    /\ views = [c \in Clients |-> {users}]

Arrive(c, i) ==
    \/ \E e \in Emails, p \in Passwords : RegisterAdmin(c, i, e, p) \/ Login(c, i, e, p)
    \/ \E t \in tokens \cup {None} :
          \/ MeRejected(c, i, t) \/ MeBegin(c, i, t)
          \/ RefreshRejected(c, i, t) \/ RefreshBegin(c, i, t)

Serve(c) ==
    \/ HashPassword(c) \/ CreateAdmin(c) \/ CreateRefused(c) \/ CreateFails(c)
    \/ FindUser(c) \/ FindUserFails(c) \/ ComparePasswordAndHash(c)
    \/ IssueTokenPair(c) \/ IssueFails(c)
    \/ GetUserDetails(c) \/ GetUserDetailsFails(c)

Next ==
    \/ \E c \in Clients : Serve(c) \/ \E i \in Instances : Arrive(c, i)
    \/ \E u \in users : UserRemoved(u) \/ RoleChanged(u)
    \/ Tick

Spec == Init /\ [][Next]_vars

-----------------------------------------------------------------------------
(* What an answer says of the table holds at an instant of the call.        *)

Absent(c, e) == \E v \in views[c] : \A u \in v : u.email # e
Present(c, row) == \E v \in views[c] : row \in v

RegisterJustified(c) ==
    /\ answer[c].status = 201 =>
          \E v \in views[c] : \E u \in v :
             u.email = call[c].email /\ u.password = [hashOf |-> call[c].pw]
    /\ answer[c].status = 409 =>
          \E v \in views[c] : \E u \in v : u.email = call[c].email
    /\ answer[c].status = 500 => answer[c].fault = "failed" \/ ~columns

Wrong(c, u) == u.email = call[c].email /\ u.password # [hashOf |-> call[c].pw]

LoginJustified(c) ==
    /\ answer[c].status = 200 =>
          /\ Present(c, found[c])
          /\ found[c].email = call[c].email
          /\ found[c].password = [hashOf |-> call[c].pw]
    /\ answer[c].status = 401 =>
          \/ answer[c].fault = "failed"
          \/ Absent(c, call[c].email)
          \/ \E v \in views[c] : \E u \in v : Wrong(c, u)
    /\ answer[c].status = 500 =>
          \/ answer[c].fault = "failed"
          \/ \E v \in views[c] : \E u \in v : Wrong(c, u)

MeJustified(c) ==
    /\ call[c].tok \in tokens /\ call[c].tok.iss = "auth-access"
    /\ answer[c].status = 200 =>
          Present(c, found[c]) /\ found[c].email = call[c].tok.sub
    /\ answer[c].status = 404 => Absent(c, call[c].tok.sub)
    /\ answer[c].status = 500 => answer[c].fault = "failed"

RefreshJustified(c) ==
    /\ call[c].tok \in tokens /\ call[c].tok.iss = "auth-refresh"
    /\ answer[c].status = 200 =>
          Present(c, found[c]) /\ found[c].email = call[c].tok.sub
    /\ answer[c].status = 401 => answer[c].fault = "failed" \/ Absent(c, call[c].tok.sub)
    /\ answer[c].status = 500 => answer[c].fault = "failed"

Justified(c) ==
    at[c] = "done" =>
        /\ call[c].op = "register" => RegisterJustified(c)
        /\ call[c].op = "login" => LoginJustified(c)
        /\ call[c].op = "me" => MeJustified(c)
        /\ call[c].op = "refresh" => RefreshJustified(c)

(* What a call was answered is true of the table at some instant of the     *)
(* call, whatever was registered, removed or changed meanwhile; a failure   *)
(* of the server is answered as one, except where a lookup failed.          *)
AnswersJustified == \A c \in Clients : Justified(c)

(* A token is issued for a row that was in the table, with this role, while *)
(* the call that issues it was running: neither a removed user nor a role   *)
(* taken away lives on through a refresh.                                   *)
IssuedFromCurrentRow ==
    [][\A t \in tokens' \ tokens : \E c \in Clients :
          /\ at[c] = "issue"
          /\ \E v \in views[c] : \E u \in v :
                /\ u.id = t.id /\ u.email = t.sub
                /\ t.iss = "auth-access" => u.role = t.role]_vars

(* The leeway makes up for truncated claims and clocks apart.               *)
ClocksAgree == Second - 1 + 2 * Drift <= ClockSkew

(* Every instance accepts an access token for all of the time the client    *)
(* was told, from the moment another instance issued it.                    *)
PromisedLifetime ==
    ClocksAgree =>
        \A t \in tokens, i \in Instances :
            t.iss = "auth-access" /\ now < t.at + ExpiresIn * Second =>
                Parses(t, "auth-access", i)

(* No instance accepts a token much longer than it was meant to live: the   *)
(* leeway and the distance of the clocks are all that is added.             *)
NoLateAcceptance ==
    \A t \in tokens, i \in Instances :
        LET life == IF t.iss = "auth-access" THEN AccessTime ELSE RefreshTime IN
        now >= t.at + life + ClockSkew + 2 * Drift =>
            ~Parses(t, "auth-access", i) /\ ~Parses(t, "auth-refresh", i)

-----------------------------------------------------------------------------
(* What a call knows at each of its steps, and what a token was made from.  *)

InProgress(c) ==
    /\ at[c] # "done" => users \in views[c]
    /\ at[c] \in {"hash", "insert"} => call[c].op = "register"
    /\ at[c] # "done" /\ call[c].op \in {"register", "login"} => call[c].pw \in Passwords
    /\ at[c] \in {"find", "issue"} =>
          \/ call[c].op = "login"
          \/ /\ call[c].op = "refresh"
             /\ call[c].tok \in tokens /\ call[c].tok.iss = "auth-refresh"
             /\ call[c].email = call[c].tok.sub
    /\ at[c] \in {"compare", "issue"} =>
          /\ found[c] \in Rows
          /\ Present(c, found[c])
          /\ found[c].email = call[c].email
    /\ at[c] = "compare" => call[c].op = "login"
    /\ at[c] = "issue" /\ call[c].op = "login" =>
          found[c].password = [hashOf |-> call[c].pw]
    /\ at[c] = "load" =>
          /\ call[c].op = "me"
          /\ call[c].tok \in tokens /\ call[c].tok.iss = "auth-access"
          /\ call[c].email = call[c].tok.sub

TokensDated ==
    \A t \in tokens :
        /\ t.at <= now
        /\ \E i \in Instances :
              /\ t.nbf = NumericDate(t.at + offset[i])
              /\ t.exp = NumericDate(t.at + offset[i] +
                            IF t.iss = "auth-access" THEN AccessTime ELSE RefreshTime)

(* The inductive invariant of the calls: what service.go holds between two  *)
(* statements was in a table it saw, and a token is dated by its issuer.    *)
AuthInv ==
    /\ \A c \in Clients : InProgress(c)
    /\ AnswersJustified
    /\ TokensDated

-----------------------------------------------------------------------------
(* routes.go describes the 401 of /login as "The credentials are invalid".  *)
InvalidCredentialsOnly ==
    \A c \in Clients :
        at[c] = "done" /\ call[c].op = "login" /\ answer[c].status = 401 =>
            \/ Absent(c, call[c].email)
            \/ \E v \in views[c] : \E u \in v : Wrong(c, u)

(* routes.go declares "User registered" and, as the one problem of its own, *)
(* "A user with this identity already exists" for /register.                *)
RegistrationAnswered ==
    \A c \in Clients :
        at[c] = "done" /\ call[c].op = "register" /\ answer[c].fault = "none" =>
            answer[c].status \in {201, 409}
=============================================================================
