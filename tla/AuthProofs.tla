----------------------------- MODULE AuthProofs -----------------------------
(***************************************************************************)
(* The invariants of Auth, for any sets of addresses, passwords, clients   *)
(* and instances, any lifetimes, and clocks any distance apart.            *)
(***************************************************************************)
EXTENDS Auth, TLAPS

CallsInProgress == \A c \in Clients : InProgress(c)

(* Claims hold integers.                                                   *)
LEMMA DateType == \A t \in Int : NumericDate(t) \in Int
BY AuthAssumption DEF NumericDate

(* Truncation loses less than a second.                                    *)
LEMMA DateBounds ==
  \A t \in Int : NumericDate(t) <= t /\ t <= NumericDate(t) + Second - 1
<1> SUFFICES ASSUME NEW t \in Int
             PROVE  NumericDate(t) <= t /\ t <= NumericDate(t) + Second - 1
  OBVIOUS
<1>1. t % Second \in 0..(Second - 1)
  BY AuthAssumption
<1> QED  BY <1>1, AuthAssumption DEF NumericDate

(* Tokens are well formed whatever the clock of the instance shows.        *)
LEMMA TokenType ==
  ASSUME NEW issuer \in Issuers, NEW row \in Rows, NEW i \in Instances, TypeOK
  PROVE  Token(issuer, row, i) \in Tokens
<1>1. Local(i) \in Int /\ Lifetime(issuer) \in Int
  BY AuthAssumption DEF Local, Lifetime, TypeOK
<1>2. NumericDate(Local(i)) \in Int /\ NumericDate(Local(i) + Lifetime(issuer)) \in Int
  BY <1>1, DateType
<1>3. row.role \in Roles /\ row.id \in 1..MaxId /\ row.email \in Emails
  BY DEF Rows
<1> QED  BY <1>2, <1>3 DEF Token, Tokens, TypeOK

(* What is inserted is a row.                                              *)
LEMMA AdminRowType ==
  ASSUME NEW e \in Emails, NEW p \in Passwords, TypeOK, nextId <= MaxId
  PROVE  AdminRow(e, p) \in Rows
<1>1. [hashOf |-> p] \in Hashes
  BY DEF Hashes
<1>2. nextId \in 1..MaxId
  BY AuthAssumption DEF TypeOK
<1>3. FALSE \in BOOLEAN
  OBVIOUS
<1> QED  BY <1>1, <1>2, <1>3 DEF AdminRow, Rows, Roles

(* Steps of a call, by their form.                                         *)
LEMMA BeginType ==
  ASSUME TypeOK,
         NEW c \in Clients, NEW op \in {"register", "login", "me", "refresh"},
         NEW step \in {"hash", "find", "load"}, NEW i \in Instances,
         NEW e \in Emails, NEW p \in Passwords \cup {None},
         NEW t \in Tokens \cup {None}, Begin(c, op, step, i, e, p, t)
  PROVE  TypeOK'
<1>1. [op |-> op, inst |-> i, email |-> e, pw |-> p, tok |-> t] \in Calls
  BY DEF Calls
<1>2. NoAnswer \in Answers
  BY DEF NoAnswer, Answers
<1> QED  BY <1>1, <1>2 DEF Begin, TypeOK, Steps, issues

LEMMA ProceedType ==
  ASSUME TypeOK, NEW c \in Clients, NEW step \in {"insert", "compare", "issue"},
         NEW row \in Rows \cup {None}, Proceed(c, step, row)
  PROVE  TypeOK'
BY DEF Proceed, TypeOK, Steps, issues

LEMMA AnswerType ==
  ASSUME TypeOK, NEW c \in Clients, NEW status \in {200, 201, 401, 404, 409, 500},
         NEW row \in Rows \cup {None}, NEW fault \in {"none", "failed"},
         Answer(c, status, row, fault)
  PROVE  /\ call' \in [Clients -> Calls] /\ at' \in [Clients -> Steps]
         /\ found' \in [Clients -> Rows \cup {None}] /\ answer' \in [Clients -> Answers]
<1>1. [status |-> status, fault |-> fault] \in Answers
  BY DEF Answers
<1> QED  BY <1>1 DEF Answer, TypeOK, Steps

LEMMA RefuseType ==
  ASSUME TypeOK, NEW c \in Clients, NEW status \in {401, 404, 409, 500},
         NEW fault \in {"none", "failed"}, Refuse(c, status, fault)
  PROVE  TypeOK'
BY AnswerType DEF Refuse, TypeOK, issues

LEMMA RejectType ==
  ASSUME TypeOK, NEW c \in Clients, Reject(c)
  PROVE  TypeOK'
<1>1. [call[c] EXCEPT !.op = "none"] \in Calls
  BY DEF TypeOK, Calls
<1>2. [status |-> 401, fault |-> "none"] \in Answers
  BY DEF Answers
<1> QED  BY <1>1, <1>2 DEF Reject, TypeOK, issues

LEMMA StoreType ==
  ASSUME TypeOK, NEW table \in SUBSET Rows, Store(table)
  PROVE  users' \subseteq Rows /\ views' \in [Clients -> SUBSET SUBSET Rows]
BY DEF Store, TypeOK

LEMMA EditType ==
  ASSUME TypeOK, NEW table \in SUBSET Rows, Edit(table)
  PROVE  TypeOK'
BY StoreType, AuthAssumption DEF Edit, TypeOK, issues, calls

(* Every step keeps the state well formed.                                 *)
LEMMA TypeStep == TypeOK /\ CallsInProgress /\ [Next]_vars => TypeOK'
<1> SUFFICES ASSUME TypeOK, CallsInProgress, [Next]_vars PROVE TypeOK'
  OBVIOUS
<1>a. \A c \in Clients : call[c] \in Calls /\ at[c] \in Steps
                         /\ found[c] \in Rows \cup {None} /\ call[c].inst \in Instances
                         /\ call[c].email \in Emails
  BY DEF TypeOK, Calls
<1>b. users \subseteq Rows /\ tokens \subseteq Tokens
  BY DEF TypeOK
<1>1. ASSUME NEW c \in Clients, NEW i \in Instances, Arrive(c, i) PROVE TypeOK'
  <2>1. ASSUME NEW e \in Emails, NEW p \in Passwords, RegisterAdmin(c, i, e, p)
        PROVE  TypeOK'
    BY <2>1, BeginType DEF RegisterAdmin
  <2>2. ASSUME NEW e \in Emails, NEW p \in Passwords, Login(c, i, e, p)
        PROVE  TypeOK'
    BY <2>2, BeginType DEF Login
  <2>3. ASSUME NEW t \in tokens \cup {None}, MeRejected(c, i, t) PROVE TypeOK'
    BY <2>3, RejectType DEF MeRejected
  <2>4. ASSUME NEW t \in tokens \cup {None}, RefreshRejected(c, i, t) PROVE TypeOK'
    BY <2>4, RejectType DEF RefreshRejected
  <2>5. ASSUME NEW t \in tokens \cup {None}, MeBegin(c, i, t) PROVE TypeOK'
    <3>1. t \in Tokens
      BY <2>5, <1>b DEF MeBegin, Parses
    <3>2. t.sub \in Emails
      BY <3>1 DEF Tokens
    <3> QED  BY <2>5, <3>1, <3>2, BeginType DEF MeBegin
  <2>6. ASSUME NEW t \in tokens \cup {None}, RefreshBegin(c, i, t) PROVE TypeOK'
    <3>1. t \in Tokens
      BY <2>6, <1>b DEF RefreshBegin, Parses
    <3>2. t.sub \in Emails
      BY <3>1 DEF Tokens
    <3> QED  BY <2>6, <3>1, <3>2, BeginType DEF RefreshBegin
  <2> QED  BY <1>1, <2>1, <2>2, <2>3, <2>4, <2>5, <2>6 DEF Arrive
<1>2. ASSUME NEW c \in Clients, Serve(c) PROVE TypeOK'
  <2>1. CASE HashPassword(c)
    BY <2>1, ProceedType, RefuseType DEF HashPassword
  <2>2. CASE CreateAdmin(c)
    <3> DEFINE row == AdminRow(call[c].email, call[c].pw)
    <3>1. call[c].pw \in Passwords /\ nextId <= MaxId
      BY <2>2 DEF CreateAdmin, CallsInProgress, InProgress
    <3>2. row \in Rows
      BY <1>a, <3>1, AdminRowType
    <3>3. users \cup {row} \in SUBSET Rows
      BY <1>b, <3>2
    <3>4. Store(users \cup {row})
      BY <2>2 DEF CreateAdmin
    <3>5. users' \subseteq Rows /\ views' \in [Clients -> SUBSET SUBSET Rows]
      BY <3>3, <3>4, StoreType
    <3>6. Answer(c, 201, None, "none") \/ Answer(c, 500, None, "failed")
      BY <2>2 DEF CreateAdmin
    <3>7. /\ call' \in [Clients -> Calls] /\ at' \in [Clients -> Steps]
          /\ found' \in [Clients -> Rows \cup {None}] /\ answer' \in [Clients -> Answers]
      BY <3>6, AnswerType
    <3>8. nextId' \in 1..(MaxId + 1)
      BY <2>2, <3>1, AuthAssumption DEF CreateAdmin, TypeOK
    <3>9. UNCHANGED <<columns, edits, now, offset, tokens, issued>>
      BY <2>2 DEF CreateAdmin, issues
    <3> QED  BY <3>5, <3>7, <3>8, <3>9 DEF TypeOK
  <2>3. CASE CreateRefused(c)
    <3>1. Refuse(c, 409, "none") \/ Refuse(c, 500, "none")
      BY <2>3 DEF CreateRefused
    <3> QED  BY <3>1, RefuseType
  <2>4. CASE CreateFails(c)
    BY <2>4, RefuseType DEF CreateFails
  <2>5. CASE FindUser(c)
    <3>1. PICK u \in Matching(call[c].email) :
             Proceed(c, IF call[c].op = "login" THEN "compare" ELSE "issue", u)
      BY <2>5 DEF FindUser
    <3>2. u \in Rows
      BY <1>b DEF Matching
    <3> QED  BY <3>1, <3>2, ProceedType
  <2>6. CASE FindUserFails(c)
    BY <2>6, RefuseType DEF FindUserFails
  <2>7. CASE ComparePasswordAndHash(c)
    <3>1. \/ Refuse(c, 500, "none") \/ Refuse(c, 401, "none")
          \/ Proceed(c, "issue", found[c])
      BY <2>7 DEF ComparePasswordAndHash
    <3> QED  BY <1>a, <3>1, RefuseType, ProceedType
  <2>8. CASE IssueTokenPair(c)
    <3>1. found[c] \in Rows
      BY <2>8 DEF IssueTokenPair, CallsInProgress, InProgress
    <3>2. tokens' \subseteq Tokens
      BY <2>8, <3>1, <1>a, <1>b, TokenType DEF IssueTokenPair
    <3>3. issued' \in 0..MaxPairs
      BY <2>8, AuthAssumption DEF IssueTokenPair, TypeOK
    <3>4. Answer(c, 200, found[c], "none")
      BY <2>8 DEF IssueTokenPair
    <3>5. /\ call' \in [Clients -> Calls] /\ at' \in [Clients -> Steps]
          /\ found' \in [Clients -> Rows \cup {None}] /\ answer' \in [Clients -> Answers]
      BY <3>1, <3>4, AnswerType
    <3> QED  BY <2>8, <3>2, <3>3, <3>5 DEF IssueTokenPair, TypeOK
  <2>9. CASE IssueFails(c)
    BY <2>9, RefuseType DEF IssueFails
  <2>10. CASE GetUserDetails(c)
    <3>1. PICK u \in Matching(call[c].email) :
             Answer(c, 200, u, "none")
             /\ UNCHANGED <<users, nextId, edits, issues, views>>
      BY <2>10 DEF GetUserDetails
    <3>2. u \in Rows
      BY <1>b DEF Matching
    <3>3. /\ call' \in [Clients -> Calls] /\ at' \in [Clients -> Steps]
          /\ found' \in [Clients -> Rows \cup {None}] /\ answer' \in [Clients -> Answers]
      BY <3>1, <3>2, AnswerType
    <3> QED  BY <3>1, <3>3 DEF TypeOK, issues
  <2>11. CASE GetUserDetailsFails(c)
    BY <2>11, RefuseType DEF GetUserDetailsFails, MeMissing
  <2> QED  BY <1>2, <2>1, <2>2, <2>3, <2>4, <2>5, <2>6, <2>7, <2>8, <2>9, <2>10,
              <2>11 DEF Serve
<1>3. ASSUME NEW u \in users, UserRemoved(u) PROVE TypeOK'
  BY <1>3, <1>b, EditType DEF UserRemoved
<1>4. ASSUME NEW u \in users, RoleChanged(u) PROVE TypeOK'
  <2>1. PICK role \in Roles : Edit((users \ {u}) \cup {[u EXCEPT !.role = role]})
    BY <1>4 DEF RoleChanged
  <2>2. [u EXCEPT !.role = role] \in Rows
    BY <1>b DEF Rows
  <2> QED  BY <2>1, <2>2, <1>b, EditType
<1>5. CASE Tick
  BY <1>5, AuthAssumption DEF Tick, TypeOK, calls
<1>6. CASE UNCHANGED vars
  BY <1>6 DEF vars, TypeOK
<1> QED  BY <1>1, <1>2, <1>3, <1>4, <1>5, <1>6 DEF Next

-----------------------------------------------------------------------------
(* What is known of a call, before and after its answer.                   *)
Known(c) == InProgress(c) /\ Justified(c)

(* A step that leaves a call alone: the call sees more tables, no fewer.   *)
Undisturbed(d) ==
    /\ call'[d] = call[d] /\ at'[d] = at[d] /\ found'[d] = found[d]
    /\ answer'[d] = answer[d]
    /\ views[d] \subseteq views'[d]
    /\ at[d] # "done" => users' \in views'[d]

(* No step gives the table columns or takes them away.                     *)
LEMMA ColumnsStay ==
  ASSUME [Next]_vars
  PROVE  columns' = columns
<1>1. ASSUME NEW c \in Clients, NEW i \in Instances, Arrive(c, i)
      PROVE  columns' = columns
  BY <1>1 DEF Arrive, RegisterAdmin, Login, MeRejected, MeBegin, RefreshRejected,
              RefreshBegin, Begin, Reject, issues
<1>2. ASSUME NEW c \in Clients, Serve(c) PROVE columns' = columns
  BY <1>2 DEF Serve, HashPassword, CreateAdmin, CreateRefused, CreateFails, FindUser,
              FindUserFails, ComparePasswordAndHash, IssueTokenPair, IssueFails,
              GetUserDetails, GetUserDetailsFails, MeMissing, Proceed, Refuse, issues
<1>3. ASSUME NEW u \in users, UserRemoved(u) \/ RoleChanged(u) PROVE columns' = columns
  BY <1>3 DEF UserRemoved, RoleChanged, Edit, issues
<1>4. CASE Tick \/ UNCHANGED vars
  BY <1>4 DEF Tick, vars
<1> QED  BY <1>1, <1>2, <1>3, <1>4 DEF Next

(* What is known of a call stays true while others work.                   *)
LEMMA KnownStays ==
  ASSUME NEW d \in Clients, Known(d), Undisturbed(d), tokens \subseteq tokens',
         columns' = columns
  PROVE  Known(d)'
<1>1. InProgress(d)'
  BY DEF Known, Undisturbed, InProgress, Present
<1>2. Justified(d)'
  BY DEF Known, Undisturbed, Justified, RegisterJustified, LoginJustified, MeJustified,
         RefreshJustified, Absent, Present, Wrong
<1> QED  BY <1>1, <1>2 DEF Known

(* A step of one call leaves the others alone.                             *)
LEMMA OthersUndisturbed ==
  ASSUME TypeOK, CallsInProgress, NEW c \in Clients, NEW d \in Clients, c # d
  PROVE  /\ \A op, step, i, e, p, t : Begin(c, op, step, i, e, p, t) =>
               Undisturbed(d) /\ tokens' = tokens
         /\ \A step, row : Proceed(c, step, row) => Undisturbed(d) /\ tokens' = tokens
         /\ \A status, fault : Refuse(c, status, fault) =>
               Undisturbed(d) /\ tokens' = tokens
         /\ Reject(c) => Undisturbed(d) /\ tokens' = tokens
         /\ \A status, row, fault, table :
               Answer(c, status, row, fault) /\ Store(table) => Undisturbed(d)
         /\ \A status, row, fault :
               Answer(c, status, row, fault) /\ UNCHANGED <<users, views>> => Undisturbed(d)
<1> USE DEF TypeOK, CallsInProgress, InProgress, Undisturbed, issues
<1>1. ASSUME NEW op, NEW step, NEW i, NEW e, NEW p, NEW t, Begin(c, op, step, i, e, p, t)
      PROVE  Undisturbed(d) /\ tokens' = tokens
  BY <1>1 DEF Begin
<1>2. ASSUME NEW step, NEW row, Proceed(c, step, row)
      PROVE  Undisturbed(d) /\ tokens' = tokens
  BY <1>2 DEF Proceed
<1>3. ASSUME NEW status, NEW fault, Refuse(c, status, fault)
      PROVE  Undisturbed(d) /\ tokens' = tokens
  BY <1>3 DEF Refuse, Answer
<1>4. ASSUME Reject(c)
      PROVE  Undisturbed(d) /\ tokens' = tokens
  BY <1>4 DEF Reject
<1>5. ASSUME NEW status, NEW row, NEW fault, NEW table,
             Answer(c, status, row, fault), Store(table)
      PROVE  Undisturbed(d)
  BY <1>5 DEF Answer, Store
<1>6. ASSUME NEW status, NEW row, NEW fault,
             Answer(c, status, row, fault), UNCHANGED <<users, views>>
      PROVE  Undisturbed(d)
  BY <1>6 DEF Answer
<1> QED  BY <1>1, <1>2, <1>3, <1>4, <1>5, <1>6

(* Every step keeps what is known of every call.                           *)
LEMMA KnownStep ==
  TypeOK /\ (\A d \in Clients : Known(d)) /\ [Next]_vars => \A d \in Clients : Known(d)'
<1> SUFFICES ASSUME TypeOK, \A d \in Clients : Known(d), [Next]_vars, NEW d \in Clients
             PROVE  Known(d)'
  OBVIOUS
<1>a. CallsInProgress
  BY DEF CallsInProgress, Known
<1>b. users \subseteq Rows /\ tokens \subseteq Tokens
  BY DEF TypeOK
<1>c. Known(d)
  OBVIOUS
<1>d. ASSUME Undisturbed(d), tokens \subseteq tokens' PROVE Known(d)'
  BY <1>c, <1>d, KnownStays, ColumnsStay
<1> USE DEF TypeOK, Known, InProgress, Justified
<1>1. ASSUME NEW c \in Clients, NEW i \in Instances, Arrive(c, i) PROVE Known(d)'
  <2>1. ASSUME NEW e \in Emails, NEW p \in Passwords,
               RegisterAdmin(c, i, e, p) \/ Login(c, i, e, p)
        PROVE  Known(d)'
    <3>1. CASE c # d
      BY <2>1, <3>1, <1>a, <1>d, OthersUndisturbed DEF RegisterAdmin, Login
    <3>2. CASE c = d
      BY <2>1, <3>2 DEF RegisterAdmin, Login, Begin, issues
    <3> QED  BY <3>1, <3>2
  <2>2. ASSUME NEW t \in tokens \cup {None}, MeRejected(c, i, t) \/ RefreshRejected(c, i, t)
        PROVE  Known(d)'
    <3>1. CASE c # d
      BY <2>2, <3>1, <1>a, <1>d, OthersUndisturbed DEF MeRejected, RefreshRejected
    <3>2. CASE c = d
      <4>1. at'[c] = "done" /\ call'[c].op = "none"
        BY <2>2 DEF MeRejected, RefreshRejected, Reject, Calls
      <4> QED  BY <3>2, <4>1
    <3> QED  BY <3>1, <3>2
  <2>3. ASSUME NEW t \in tokens \cup {None}, MeBegin(c, i, t) PROVE Known(d)'
    <3>1. CASE c # d
      BY <2>3, <3>1, <1>a, <1>d, OthersUndisturbed DEF MeBegin
    <3>2. CASE c = d
      <4>1. t \in tokens /\ t.iss = "auth-access"
        BY <2>3 DEF MeBegin, Parses
      <4> QED  BY <2>3, <3>2, <4>1 DEF MeBegin, Begin, issues
    <3> QED  BY <3>1, <3>2
  <2>4. ASSUME NEW t \in tokens \cup {None}, RefreshBegin(c, i, t) PROVE Known(d)'
    <3>1. CASE c # d
      BY <2>4, <3>1, <1>a, <1>d, OthersUndisturbed DEF RefreshBegin
    <3>2. CASE c = d
      <4>1. t \in tokens /\ t.iss = "auth-refresh"
        BY <2>4 DEF RefreshBegin, Parses
      <4> QED  BY <2>4, <3>2, <4>1 DEF RefreshBegin, Begin, issues
    <3> QED  BY <3>1, <3>2
  <2> QED  BY <1>1, <2>1, <2>2, <2>3, <2>4 DEF Arrive
<1>2. ASSUME NEW c \in Clients, Serve(c) PROVE Known(d)'
  <2>a. CASE c # d
    <3> HIDE DEF TypeOK, Known, InProgress, Justified
    <3> USE <2>a, <1>a, <1>d, OthersUndisturbed
    <3>1. CASE HashPassword(c) \/ CreateRefused(c) \/ CreateFails(c)
      BY <3>1 DEF HashPassword, CreateRefused, CreateFails
    <3>2. CASE CreateAdmin(c)
      BY <3>2 DEF CreateAdmin, issues
    <3>3. CASE FindUser(c)
      BY <3>3 DEF FindUser
    <3>4. CASE FindUserFails(c) \/ ComparePasswordAndHash(c) \/ IssueFails(c)
      BY <3>4 DEF FindUserFails, ComparePasswordAndHash, IssueFails
    <3>5. CASE IssueTokenPair(c)
      BY <3>5 DEF IssueTokenPair
    <3>6. CASE GetUserDetails(c)
      BY <3>6 DEF GetUserDetails, issues
    <3>7. CASE GetUserDetailsFails(c)
      BY <3>7 DEF GetUserDetailsFails, MeMissing
    <3> QED  BY <1>2, <3>1, <3>2, <3>3, <3>4, <3>5, <3>6, <3>7 DEF Serve
  <2>b. CASE c = d
    <3>a. Known(c) /\ at[c] \in Steps /\ call[c] \in Calls
      OBVIOUS
    <3>1. CASE HashPassword(c)
      BY <2>b, <3>1 DEF HashPassword, Proceed, Refuse, Answer, issues, RegisterJustified
    <3>2. CASE CreateAdmin(c)
      <4> DEFINE row == AdminRow(call[c].email, call[c].pw)
      <4>1. /\ row \in users' /\ users' \in views'[c]
            /\ row.email = call[c].email /\ row.password = [hashOf |-> call[c].pw]
        BY <3>2 DEF CreateAdmin, Store, AdminRow
      <4>2. /\ at'[c] = "done" /\ call'[c] = call[c] /\ call[c].op = "register"
            /\ \/ answer'[c].status = 201
               \/ answer'[c].status = 500 /\ answer'[c].fault = "failed"
        BY <3>2, <3>a DEF CreateAdmin, Answer
      <4> HIDE DEF row
      <4>3. RegisterJustified(c)'
        BY <4>1, <4>2 DEF RegisterJustified
      <4> QED  BY <2>b, <4>2, <4>3
    <3>3. CASE CreateRefused(c)
      <4>1. /\ at'[c] = "done" /\ call'[c] = call[c] /\ call[c].op = "register"
            /\ views' = views /\ users \in views[c]
        BY <3>3, <3>a DEF CreateRefused, Refuse, Answer
      <4>2. CASE columns
        <5>1. \E u \in users : u.email = call[c].email
          BY <3>3, <4>2 DEF CreateRefused, UniqueViolation, AdminRow
        <5>2. answer'[c].status = 409
          BY <3>3, <4>2 DEF CreateRefused, Refuse, Answer
        <5>3. RegisterJustified(c)'
          BY <4>1, <5>1, <5>2 DEF RegisterJustified
        <5> QED  BY <2>b, <4>1, <5>3
      <4>3. CASE ~columns
        <5>1. answer'[c].status = 500
          BY <3>3, <4>3 DEF CreateRefused, Refuse, Answer
        <5>2. RegisterJustified(c)'
          BY <4>3, <5>1, ColumnsStay DEF RegisterJustified
        <5> QED  BY <2>b, <4>1, <5>2
      <4> QED  BY <4>2, <4>3
    <3>4. CASE CreateFails(c)
      <4>1. /\ at'[c] = "done" /\ call'[c] = call[c] /\ call[c].op = "register"
            /\ answer'[c].status = 500 /\ answer'[c].fault = "failed"
        BY <3>4, <3>a DEF CreateFails, Refuse, Answer
      <4>2. RegisterJustified(c)'
        BY <4>1 DEF RegisterJustified
      <4> QED  BY <2>b, <4>1, <4>2
    <3>5. CASE FindUser(c)
      <4>1. PICK u \in Matching(call[c].email) :
               Proceed(c, IF call[c].op = "login" THEN "compare" ELSE "issue", u)
        BY <3>5 DEF FindUser
      <4>2. u \in users /\ u \in Rows /\ u.email = call[c].email /\ users \in views[c]
        BY <1>b, <3>5, <3>a DEF Matching, FindUser
      <4> QED  BY <2>b, <3>5, <3>a, <4>1, <4>2 DEF FindUser, Proceed, Present, issues
    <3>6. CASE FindUserFails(c)
      BY <2>b, <3>6, <3>a DEF FindUserFails, Matching, Refuse, Answer, issues, LoginJustified,
            RefreshJustified, Absent
    <3>7. CASE ComparePasswordAndHash(c)
      <4>1. /\ call[c].op = "login" /\ found[c] \in Rows /\ Present(c, found[c])
            /\ found[c].email = call[c].email /\ users \in views[c]
            /\ call[c].pw \in Passwords
        BY <3>7, <3>a DEF ComparePasswordAndHash
      <4>2. found[c].password \in Hashes \cup {NotAHash} /\ [hashOf |-> call[c].pw] \in Hashes
        BY <4>1 DEF Rows, Hashes
      <4>3. CASE Proceed(c, "issue", found[c]) /\ found[c].password # NotAHash
                   /\ found[c].password.hashOf = call[c].pw
        <5>1. found[c].password = [hashOf |-> call[c].pw]
          BY <4>2, <4>3 DEF Hashes
        <5> QED  BY <2>b, <4>1, <4>3, <5>1 DEF Proceed, Present, issues
      <4>4. CASE /\ Refuse(c, 500, "none") \/ Refuse(c, 401, "none")
                 /\ found[c].password # [hashOf |-> call[c].pw]
        <5>1. \E v \in views[c] : \E u \in v : Wrong(c, u)
          BY <4>1, <4>4 DEF Present, Wrong
        <5>2. /\ at'[c] = "done" /\ call' = call /\ views' = views
              /\ answer'[c].status \in {401, 500}
          BY <4>4 DEF Refuse, Answer
        <5>3. LoginJustified(c)'
          BY <5>1, <5>2 DEF LoginJustified, Wrong
        <5> QED  BY <2>b, <4>1, <5>2, <5>3
      <4> QED  BY <3>7, <4>2, <4>3, <4>4, NoneAssumption DEF ComparePasswordAndHash
    <3>8. CASE IssueTokenPair(c)
      <4>1. /\ at'[c] = "done" /\ call' = call /\ views' = views /\ found'[c] = found[c]
            /\ answer'[c].status = 200 /\ tokens \subseteq tokens'
        BY <3>8 DEF IssueTokenPair, Answer
      <4>2. at[c] = "issue"
        BY <3>8 DEF IssueTokenPair
      <4> QED  BY <2>b, <3>a, <4>1, <4>2 DEF LoginJustified, RefreshJustified, Present
    <3>9. CASE IssueFails(c)
      BY <2>b, <3>9, <3>a DEF IssueFails, Refuse, Answer, issues, LoginJustified,
            RefreshJustified
    <3>10. CASE GetUserDetails(c)
      <4>1. PICK u \in Matching(call[c].email) :
               Answer(c, 200, u, "none")
               /\ UNCHANGED <<users, nextId, edits, issues, views>>
        BY <3>10 DEF GetUserDetails
      <4>2. u \in users /\ u.email = call[c].email /\ users \in views[c]
        BY <3>10, <3>a DEF Matching, GetUserDetails
      <4> QED  BY <2>b, <3>10, <3>a, <4>1, <4>2 DEF GetUserDetails, Answer, Present, issues,
                  MeJustified
    <3>11. CASE GetUserDetailsFails(c)
      BY <2>b, <3>11, <3>a DEF GetUserDetailsFails, MeMissing, Matching, Refuse, Answer, issues,
            MeJustified, Absent
    <3> QED  BY <1>2, <3>1, <3>2, <3>3, <3>4, <3>5, <3>6, <3>7, <3>8, <3>9, <3>10, <3>11
             DEF Serve
  <2> QED  BY <2>a, <2>b
<1>3. ASSUME NEW u \in users, UserRemoved(u) \/ RoleChanged(u) PROVE Known(d)'
  <2>1. PICK table : Edit(table)
    BY <1>3 DEF UserRemoved, RoleChanged
  <2>2. Undisturbed(d) /\ tokens' = tokens
    BY <2>1 DEF Edit, Store, Undisturbed, issues, calls
  <2> QED  BY <2>2, <1>d
<1>4. CASE Tick \/ UNCHANGED vars
  <2>1. Undisturbed(d) /\ tokens' = tokens
    BY <1>4 DEF Tick, Undisturbed, calls, vars
  <2> QED  BY <2>1, <1>d
<1> QED  BY <1>1, <1>2, <1>3, <1>4 DEF Next

-----------------------------------------------------------------------------
(* Only issuing adds tokens, and only Tick changes the time.               *)
LEMMA TokensFrame ==
  ASSUME TypeOK, [Next]_vars
  PROVE  \/ /\ tokens' = tokens /\ offset' = offset
            /\ now' \in Int /\ now <= now'
         \/ \E c \in Clients : IssueTokenPair(c)
<1> USE DEF TypeOK
<1>1. ASSUME NEW c \in Clients, NEW i \in Instances, Arrive(c, i)
      PROVE  UNCHANGED <<tokens, offset, now>>
  BY <1>1 DEF Arrive, RegisterAdmin, Login, MeRejected, MeBegin, RefreshRejected,
              RefreshBegin, Begin, Reject, issues
<1>2. ASSUME NEW c \in Clients, Serve(c), ~IssueTokenPair(c)
      PROVE  UNCHANGED <<tokens, offset, now>>
  BY <1>2 DEF Serve, HashPassword, CreateAdmin, CreateRefused, CreateFails, FindUser,
              FindUserFails, ComparePasswordAndHash, IssueFails, GetUserDetails,
              GetUserDetailsFails, MeMissing, Proceed, Refuse, issues
<1>3. ASSUME NEW u \in users, UserRemoved(u) \/ RoleChanged(u)
      PROVE  UNCHANGED <<tokens, offset, now>>
  BY <1>3 DEF UserRemoved, RoleChanged, Edit, issues
<1>4. CASE Tick
  BY <1>4, AuthAssumption DEF Tick
<1>5. CASE UNCHANGED vars
  BY <1>5 DEF vars
<1>6. now \in Int
  BY AuthAssumption
<1> QED  BY <1>1, <1>2, <1>3, <1>4, <1>5, <1>6 DEF Next

(* Every token keeps the dates of the instance that issued it.             *)
LEMMA TokensDatedStep ==
  TypeOK /\ CallsInProgress /\ TokensDated /\ [Next]_vars => TokensDated'
<1> SUFFICES ASSUME TypeOK, CallsInProgress, TokensDated, [Next]_vars
             PROVE  TokensDated'
  OBVIOUS
<1>1. CASE /\ tokens' = tokens /\ offset' = offset
           /\ now' \in Int /\ now <= now'
  <2>1. SUFFICES ASSUME NEW t \in tokens PROVE t.at <= now'
    BY <1>1 DEF TokensDated
  <2>2. t.at <= now /\ t.at \in Int /\ now \in Int
    BY AuthAssumption DEF TokensDated, TypeOK, Tokens
  <2> QED  BY <1>1, <2>2
<1>2. ASSUME NEW c \in Clients, IssueTokenPair(c) PROVE TokensDated'
  <2> DEFINE New == {Token(issuer, found[c], call[c].inst) : issuer \in Issuers}
  <2>1. tokens' = tokens \cup New /\ now' = now /\ offset' = offset
    BY <1>2 DEF IssueTokenPair
  <2>2. call[c].inst \in Instances /\ now \in Int /\ now <= now
    BY AuthAssumption DEF TypeOK, Calls
  <2>3. ASSUME NEW issuer \in Issuers
        PROVE  LET t == Token(issuer, found[c], call[c].inst)
                   i == call[c].inst
               IN  /\ t.at <= now
                   /\ t.nbf = NumericDate(t.at + offset[i])
                   /\ t.exp = NumericDate(t.at + offset[i] +
                                 IF t.iss = "auth-access" THEN AccessTime ELSE RefreshTime)
    BY <2>2 DEF Token, Local, Lifetime
  <2> HIDE DEF New
  <2>4. ASSUME NEW t \in New
        PROVE  /\ t.at <= now
               /\ \E i \in Instances :
                     /\ t.nbf = NumericDate(t.at + offset[i])
                     /\ t.exp = NumericDate(t.at + offset[i] +
                                  IF t.iss = "auth-access" THEN AccessTime ELSE RefreshTime)
    <3>1. PICK issuer \in Issuers : t = Token(issuer, found[c], call[c].inst)
      BY DEF New
    <3> QED  BY <2>2, <2>3, <3>1
  <2> QED  BY <2>1, <2>4 DEF TokensDated
<1> QED  BY <1>1, <1>2, TokensFrame

(* Init satisfies everything.                                              *)
LEMMA AuthInit == Init => TypeOK /\ (\A c \in Clients : Known(c)) /\ TokensDated
<1> SUFFICES ASSUME Init PROVE TypeOK /\ (\A c \in Clients : Known(c)) /\ TokensDated
  OBVIOUS
<1>1. call \in [Clients -> Calls] /\ answer \in [Clients -> Answers]
  BY DEF Init, Calls, Answers, NoAnswer
<1>2. TypeOK
  BY <1>1, AuthAssumption DEF Init, TypeOK, Steps
<1>3. \A c \in Clients : at[c] = "done" /\ call[c].op = "none"
  BY DEF Init
<1>4. \A c \in Clients : Known(c)
  BY <1>3 DEF Known, InProgress, Justified
<1>5. TokensDated
  BY DEF Init, TokensDated
<1> QED  BY <1>2, <1>4, <1>5

(* The state stays well formed.  A row inserted is a row only because      *)
(* registration hashes a password the call holds, and a token is one only  *)
(* because the row it is issued for was found.                             *)
THEOREM TypeCorrect == Spec => []TypeOK
<1> DEFINE Inv == TypeOK /\ (\A c \in Clients : Known(c)) /\ TokensDated
<1>1. Init => Inv
  BY AuthInit
<1>2. Inv /\ [Next]_vars => Inv'
  <2>1. Inv => CallsInProgress
    BY DEF Known, CallsInProgress
  <2> QED  BY <2>1, TypeStep, KnownStep, TokensDatedStep
<1>3. Inv => TypeOK
  OBVIOUS
<1> HIDE DEF Inv
<1> QED  BY <1>1, <1>2, <1>3, PTL DEF Spec

(* AuthInv holds of every reachable state.                                 *)
THEOREM AuthInvariant == Spec => []AuthInv
<1> DEFINE Inv == TypeOK /\ (\A c \in Clients : Known(c)) /\ TokensDated
<1>1. Init => Inv
  BY AuthInit
<1>2. Inv /\ [Next]_vars => Inv'
  <2>1. Inv => CallsInProgress
    BY DEF Known, CallsInProgress
  <2> QED  BY <2>1, TypeStep, KnownStep, TokensDatedStep
<1>3. Inv => AuthInv
  BY DEF AuthInv, Known, AnswersJustified
<1> HIDE DEF Inv
<1> QED  BY <1>1, <1>2, <1>3, PTL DEF Spec

(* Every answer of the service is true of the table at some instant of the *)
(* call.                                                                   *)
THEOREM AnswersAreJustified == Spec => []AnswersJustified
<1>1. AuthInv => AnswersJustified
  BY DEF AuthInv
<1> QED  BY <1>1, AuthInvariant, PTL

(* A token is issued for a row seen while its call was running.            *)
THEOREM IssueIsCurrent == Spec => IssuedFromCurrentRow
<1>1. TypeOK /\ AuthInv /\ [Next]_vars =>
         [\A t \in tokens' \ tokens : \E c \in Clients :
             /\ at[c] = "issue"
             /\ \E v \in views[c] : \E u \in v :
                   /\ u.id = t.id /\ u.email = t.sub
                   /\ t.iss = "auth-access" => u.role = t.role]_vars
  <2> SUFFICES ASSUME TypeOK, AuthInv, [Next]_vars, NEW t \in tokens' \ tokens
               PROVE  \E c \in Clients :
                         /\ at[c] = "issue"
                         /\ \E v \in views[c] : \E u \in v :
                               /\ u.id = t.id /\ u.email = t.sub
                               /\ t.iss = "auth-access" => u.role = t.role
    OBVIOUS
  <2>1. PICK c \in Clients : IssueTokenPair(c)
    BY TokensFrame
  <2>2. PICK issuer \in Issuers : t = Token(issuer, found[c], call[c].inst)
    BY <2>1 DEF IssueTokenPair
  <2>3. at[c] = "issue" /\ Present(c, found[c])
    BY <2>1 DEF IssueTokenPair, AuthInv, InProgress
  <2>4. /\ found[c].id = t.id /\ found[c].email = t.sub
        /\ t.iss = "auth-access" => found[c].role = t.role
    BY <2>2 DEF Token
  <2> QED  BY <2>3, <2>4 DEF Present
<1> QED  BY <1>1, TypeCorrect, AuthInvariant, PTL DEF Spec, IssuedFromCurrentRow

-----------------------------------------------------------------------------
(* Clocks within Drift of true time, read at instants of the model.        *)
LEMMA Skewed ==
  ASSUME TypeOK, NEW i \in Instances
  PROVE  /\ offset[i] \in Int /\ -Drift <= offset[i] /\ offset[i] <= Drift
         /\ now \in Int /\ Local(i) = now + offset[i]
         /\ Drift \in Int /\ ClockSkew \in Int /\ ClockSkew >= 0
BY AuthAssumption DEF TypeOK, Local, ClockSkew

(* An access token is accepted everywhere for the time the client is told. *)
THEOREM LifetimeKept == Spec => []PromisedLifetime
<1>1. TypeOK /\ AuthInv => PromisedLifetime
  <2> SUFFICES ASSUME TypeOK, AuthInv, ClocksAgree, NEW t \in tokens, NEW i \in Instances,
                      t.iss = "auth-access", now < t.at + ExpiresIn * Second
               PROVE  Parses(t, "auth-access", i)
    BY DEF PromisedLifetime
  <2>1. PICK j \in Instances :
           /\ t.nbf = NumericDate(t.at + offset[j])
           /\ t.exp = NumericDate(t.at + offset[j] + AccessTime)
    BY DEF AuthInv, TokensDated
  <2>2. t \in Tokens /\ t.at \in Int /\ t.nbf \in Int /\ t.exp \in Int /\ t.at <= now
    BY AuthAssumption DEF TypeOK, Tokens, AuthInv, TokensDated
  <2>3. ExpiresIn * Second <= AccessTime /\ ExpiresIn * Second \in Int
    <3>1. AccessTime \div Second \in Int /\ Second \in Int /\ Second > 0 /\ AccessTime \in Int
      BY AuthAssumption
    <3>2. AccessTime = Second * (AccessTime \div Second) + (AccessTime % Second)
      BY AuthAssumption
    <3>3. AccessTime % Second >= 0 /\ AccessTime % Second \in Int
      BY AuthAssumption
    <3>4. Second * (AccessTime \div Second) \in Int
      BY <3>1
    <3>5. (AccessTime \div Second) * Second = Second * (AccessTime \div Second)
      BY <3>1
    <3> QED  BY <3>1, <3>2, <3>3, <3>4, <3>5 DEF ExpiresIn
  <2>4. t.at + offset[j] \in Int /\ t.at + offset[j] + AccessTime \in Int
    BY <2>2, Skewed, AuthAssumption
  <2>5. t.nbf <= t.at + offset[j]
    BY <2>1, <2>4, DateBounds
  <2>6. t.at + offset[j] + AccessTime <= t.exp + Second - 1
    BY <2>1, <2>4, DateBounds
  <2>7. t.nbf - ClockSkew <= Local(i) /\ Local(i) < t.exp + ClockSkew
    BY <2>2, <2>3, <2>5, <2>6, Skewed, AuthAssumption DEF ClocksAgree
  <2>8. t # None
    BY <2>2, NoneAssumption
  <2> QED  BY <2>7, <2>8 DEF Parses, InTime
<1> QED  BY <1>1, TypeCorrect, AuthInvariant, PTL

(* No token is accepted longer than leeway and drift allow.                *)
THEOREM AcceptanceEnds == Spec => []NoLateAcceptance
<1>1. TypeOK /\ AuthInv => NoLateAcceptance
  <2> SUFFICES ASSUME TypeOK, AuthInv, NEW t \in tokens, NEW i \in Instances,
                      NEW life,
                      life = IF t.iss = "auth-access" THEN AccessTime ELSE RefreshTime,
                      now >= t.at + life + ClockSkew + 2 * Drift
               PROVE  ~InTime(t, i)
    BY DEF NoLateAcceptance, Parses
  <2>1. PICK j \in Instances : t.exp = NumericDate(t.at + offset[j] + life)
    BY DEF AuthInv, TokensDated
  <2>2. t.at \in Int /\ t.exp \in Int /\ life \in Int
    BY AuthAssumption DEF TypeOK, Tokens
  <2>3. t.exp <= t.at + offset[j] + life
    BY <2>1, <2>2, Skewed, DateBounds
  <2>4. Local(i) >= t.exp + ClockSkew
    BY <2>2, <2>3, Skewed
  <2>5. Local(i) \in Int /\ ClockSkew \in Int
    BY Skewed
  <2> QED  BY <2>2, <2>4, <2>5 DEF InTime
<1> QED  BY <1>1, TypeCorrect, AuthInvariant, PTL
=============================================================================
