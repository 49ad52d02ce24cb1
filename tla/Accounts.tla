------------------------------ MODULE Accounts ------------------------------
(***************************************************************************)
(* Accounts and identities: auth-service with its table of users, the      *)
(* tokens it signs, the gateway that turns a token into the headers other  *)
(* services trust, and room-service, which stores such an identity.        *)
(*                                                                         *)
(* A request that writes is split at its statements; a statement that was  *)
(* sent may take effect although the service has stopped since.  The test  *)
(* accounts have fixed ids and addresses, no password, and exist for       *)
(* dummyLogin and seed, which are there only when the service runs in its  *)
(* test mode; the mode changes when the service is started again.          *)
(***************************************************************************)
EXTENDS Naturals, FiniteSets

CONSTANTS
    Clients,      \* each has one request under way
    Ids,          \* user ids, drawn at random but for the two fixed ones
    DummyId,      \* DummyAdminID and DummyUserID
    Boxes,        \* e-mail addresses
    BadBoxes,     \* those of them mail.ParseAddress does not take
    DummyBox,     \* admin@test.com and user@test.com
    Spellings,    \* how clients write addresses
    Passwords,
    GoodPasswords,  \* those of 8 to 72 bytes
    TTL,          \* tokenTTL
    MaxTime,      \* the clock stops there
    MaxRestarts,  \* how often auth-service is started again
    None

Roles == {"admin", "user"}

\* An address as it is written: in capitals, with blanks around it.
Spelling == [box : Boxes, upper : BOOLEAN, blank : BOOLEAN]

ASSUME AccountsAssumption ==
    /\ DummyId \in [Roles -> Ids] /\ DummyId["admin"] # DummyId["user"]
    /\ DummyBox \in [Roles -> Boxes] /\ DummyBox["admin"] # DummyBox["user"]
    /\ Spellings \subseteq Spelling /\ GoodPasswords \subseteq Passwords
    /\ TTL \in Nat \ {0} /\ MaxTime \in Nat /\ MaxRestarts \in Nat
    /\ None \notin Ids \cup Passwords \cup Nat
    /\ None \notin [email : Spelling, password : Passwords \cup {None}, role : Roles]

Dummies == {DummyId[r] : r \in Roles}

VARIABLES
    users,     \* the table: a row or None for each id
    tokens,    \* the tokens signed so far, the last of each account
    rooms,     \* history: rooms.created_by of the rooms there are
    pc,        \* what the request of a client does next
    req,       \* what it has in hand
    testMode,  \* TEST_TASK_MODE of auth-service
    now,       \* the time
    restarts,
    lastTest,  \* history: when auth-service was last in test mode
    created,   \* history: the registrations answered with 201
    seeded,    \* history: seed was answered with 200
    blocked    \* history: the test accounts whose address was found taken

service == <<testMode, now, restarts, lastTest>>
history == <<created, seeded, blocked>>
avars == <<users, tokens, rooms, pc, req, service, history>>

User == [email : Spelling, password : Passwords \cup {None}, role : Roles]
Token == [id : Ids, role : Roles, exp : Nat]
Registration == [id : Ids, email : Spelling, password : Passwords, role : Roles]
Identity == [id : Ids, role : Roles]

\* An INSERT of the request of c is on its way, for a registration or for a
\* test account; when it is late, the process that sent it has stopped.
Inserting(c) == pc[c] \in {"insert", "lateInsert"}
Ensuring(c) == pc[c] \in {"ensure", "seedAdmin", "seedUser", "lateEnsure"}

ATypeOK ==
    /\ users \in [Ids -> User \cup {None}]
    /\ tokens \subseteq Token
    /\ rooms \subseteq Ids
    /\ pc \in [Clients -> {"idle", "insert", "ensure", "seedAdmin", "seedUser",
                           "lateInsert", "lateEnsure", "create"}]
    /\ DOMAIN req = Clients
    /\ \A c \in Clients : Inserting(c) => req[c] \in Registration
    /\ \A c \in Clients : Ensuring(c) => req[c] \in Roles
    /\ \A c \in Clients : pc[c] = "create" => req[c] \in Identity
    /\ testMode \in BOOLEAN
    /\ now \in Nat /\ restarts \in 0..MaxRestarts
    /\ lastTest \in Nat \cup {None}
    /\ created \subseteq Registration
    /\ seeded \in BOOLEAN
    /\ blocked \subseteq Roles

AInit ==
    /\ users = [i \in Ids |-> None]
    /\ tokens = {} /\ rooms = {}
    /\ pc = [c \in Clients |-> "idle"]
    /\ req = [c \in Clients |-> None]
    /\ testMode \in BOOLEAN
    /\ now = 0 /\ restarts = 0
    /\ lastTest = IF testMode THEN 0 ELSE None
    /\ created = {} /\ seeded = FALSE /\ blocked = {}

-----------------------------------------------------------------------------
(* e-mail addresses *)

\* normalizeEmail: lower case, no blanks around.
Normalized(e) == [box |-> e.box, upper |-> FALSE, blank |-> FALSE]

\* validEmail.
ValidEmail(e) == e.box \notin BadBoxes /\ ~e.blank

\* Equality of the column, which is a CITEXT.
SameEmail(e, f) == e.box = f.box /\ e.blank = f.blank

\* Some account other than i has the address e.
Taken(e, i) ==
    \E j \in Ids : j # i /\ users[j] # None /\ SameEmail(users[j].email, e)

-----------------------------------------------------------------------------
Begin(c, step, r) == /\ pc[c] = "idle"
                     /\ pc' = [pc EXCEPT ![c] = step]
                     /\ req' = [req EXCEPT ![c] = r]

\* The request is answered, or its client gets no answer.
End(c) == /\ pc' = [pc EXCEPT ![c] = "idle"]
          /\ req' = [req EXCEPT ![c] = None]

\* GenerateToken.  The older tokens of an account are forgotten: whenever one of
\* them is valid, so is the new one.
Issue(i, r) ==
    tokens' = {t \in tokens : t.id # i} \cup {[id |-> i, role |-> r, exp |-> now + TTL]}

-----------------------------------------------------------------------------
(* POST /register *)

\* Mutation: administrators register whatever the mode.
MayRegisterAnyone(r) == r \in Roles

MayRegister(r) == r = "user" \/ (r = "admin" /\ testMode)

\* uuid.New: an id that no row and no other request has.
Fresh(i) ==
    /\ i \notin Dummies /\ users[i] = None
    /\ \A c \in Clients : Inserting(c) => req[c].id # i

\* The request is found in order; its password is then hashed.
Register(c) ==
    /\ \E e \in Spellings, p \in GoodPasswords, r \in Roles, i \in Ids :
          /\ MayRegister(r) /\ ValidEmail(Normalized(e)) /\ Fresh(i)
          /\ Begin(c, "insert", [id |-> i, email |-> Normalized(e),
                                 password |-> p, role |-> r])
    /\ UNCHANGED <<users, tokens, rooms, service, history>>

\* INSERT INTO users, when no row has the address; the answer is 201.
Inserted(c) ==
    /\ ~Taken(req[c].email, req[c].id)
    /\ users' = [users EXCEPT ![req[c].id] =
                    [email |-> req[c].email, password |-> req[c].password,
                     role |-> req[c].role]]

InsertUser(c) ==
    /\ pc[c] = "insert" /\ Inserted(c)
    /\ created' = created \cup {req[c]}
    /\ End(c)
    /\ UNCHANGED <<tokens, rooms, service, seeded, blocked>>

\* The row is there, but the client does not learn of it.
InsertUnanswered(c) ==
    /\ Inserting(c) /\ Inserted(c)
    /\ End(c)
    /\ UNCHANGED <<tokens, rooms, service, history>>

\* The address is taken (23505), or the statement fails.
InsertRefused(c) ==
    /\ Inserting(c)
    /\ End(c)
    /\ UNCHANGED <<users, tokens, rooms, service, history>>

-----------------------------------------------------------------------------
(* POST /login *)

\* Mutation: the address is looked up as it was written.
FoundAsWritten(e, i) == users[i] # None /\ SameEmail(users[i].email, e)

\* GetByEmail of the normalized address.
Found(e, i) == users[i] # None /\ SameEmail(users[i].email, Normalized(e))

\* Mutation: an account without a password has every password.
OpensUnset(p, i) == users[i].password \in {p, None}

\* The account has a password and it is p (bcrypt.CompareHashAndPassword).
Opens(p, i) == users[i].password # None /\ users[i].password = p

\* The row is read, the password compared and the token signed.  A login that
\* fails changes nothing.
Login ==
    /\ \E e \in Spellings, p \in Passwords, i \in Ids :
          Found(e, i) /\ Opens(p, i) /\ Issue(i, users[i].role)
    /\ UNCHANGED <<users, rooms, pc, req, service, history>>

-----------------------------------------------------------------------------
(* POST /dummyLogin and /seed *)

DummyUser(r) ==
    [email |-> [box |-> DummyBox[r], upper |-> FALSE, blank |-> FALSE],
     password |-> None, role |-> r]

\* Mutation: ON CONFLICT DO NOTHING, whichever key conflicts.
EnsureUserAnyConflict(r) ==
    IF users[DummyId[r]] # None \/ Taken(DummyUser(r).email, DummyId[r])
    THEN UNCHANGED users
    ELSE users' = [users EXCEPT ![DummyId[r]] = DummyUser(r)]

\* INSERT ... ON CONFLICT (id) DO NOTHING: an error when another account has
\* the address and the test account is not there yet.
EnsureUser(r) ==
    IF users[DummyId[r]] # None
    THEN UNCHANGED users
    ELSE /\ ~Taken(DummyUser(r).email, DummyId[r])
         /\ users' = [users EXCEPT ![DummyId[r]] = DummyUser(r)]

\* The unique index refuses that INSERT.
Conflicts(r) == users[DummyId[r]] = None /\ Taken(DummyUser(r).email, DummyId[r])

\* The gateway forwards it when it was started in test mode itself.
DummyLogin(c) ==
    /\ testMode
    /\ \E r \in Roles : Begin(c, "ensure", r)
    /\ UNCHANGED <<users, tokens, rooms, service, history>>

DummySucceeds(c) ==
    /\ pc[c] = "ensure"
    /\ EnsureUser(req[c])
    /\ Issue(DummyId[req[c]], req[c])
    /\ End(c)
    /\ UNCHANGED <<rooms, service, history>>

Seed(c) ==
    /\ testMode
    /\ Begin(c, "seedAdmin", "admin")
    /\ UNCHANGED <<users, tokens, rooms, service, history>>

\* Mutation: the error of the first INSERT is not looked at.
SeedAdminIgnoresError(c) ==
    /\ pc[c] = "seedAdmin"
    /\ EnsureUser("admin") \/ UNCHANGED users
    /\ pc' = [pc EXCEPT ![c] = "seedUser"]
    /\ req' = [req EXCEPT ![c] = "user"]
    /\ UNCHANGED <<tokens, rooms, service, history>>

SeedAdmin(c) ==
    /\ pc[c] = "seedAdmin"
    /\ EnsureUser("admin")
    /\ pc' = [pc EXCEPT ![c] = "seedUser"]
    /\ req' = [req EXCEPT ![c] = "user"]
    /\ UNCHANGED <<tokens, rooms, service, history>>

SeedUser(c) ==
    /\ pc[c] = "seedUser"
    /\ EnsureUser("user")
    /\ seeded' = TRUE
    /\ End(c)
    /\ UNCHANGED <<tokens, rooms, service, created, blocked>>

\* The address is taken, and the request answered with 500.
EnsureConflicts(c) ==
    /\ Ensuring(c) /\ pc[c] # "lateEnsure"
    /\ Conflicts(req[c])
    /\ blocked' = blocked \cup {req[c]}
    /\ End(c)
    /\ UNCHANGED <<users, tokens, rooms, service, created, seeded>>

\* The statement fails, before or after it took effect, or is not answered.
EnsureFails(c) ==
    /\ Ensuring(c)
    /\ EnsureUser(req[c]) \/ UNCHANGED users
    /\ End(c)
    /\ UNCHANGED <<tokens, rooms, service, history>>

-----------------------------------------------------------------------------
(* api-gateway and room-service *)

\* Mutation: the role is not looked at.
RequireRoleAny(r) == r \in Roles

\* RequireRole("admin"), for POST /rooms/create.
RequireRole(r) == r = "admin"

\* ValidateToken: the signature is ours and the token has not expired.
Valid(t) == t \in tokens /\ now < t.exp

\* RequireAuth puts id and role of the token into the headers.
Authorize(c) ==
    /\ \E t \in tokens :
          /\ Valid(t) /\ RequireRole(t.role)
          /\ Begin(c, "create", [id |-> t.id, role |-> t.role])
    /\ UNCHANGED <<users, tokens, rooms, service, history>>

\* room-service stores the id it was given as created_by.
CreateRoom(c) ==
    /\ pc[c] = "create"
    /\ rooms' = rooms \cup {req[c].id}
    /\ End(c)
    /\ UNCHANGED <<users, tokens, service, history>>

CreateRoomFails(c) ==
    /\ pc[c] = "create"
    /\ End(c)
    /\ UNCHANGED <<users, tokens, rooms, service, history>>

-----------------------------------------------------------------------------
(* time and operation *)

Tick ==
    /\ now < MaxTime
    /\ now' = now + 1
    /\ lastTest' = IF testMode THEN now + 1 ELSE lastTest
    /\ UNCHANGED <<users, tokens, rooms, pc, req, testMode, restarts,
                   history>>

\* auth-service is started again, perhaps in the other mode: the requests that
\* are with it get no answer, but their statements are on their way.
RestartAuth ==
    /\ restarts < MaxRestarts
    /\ restarts' = restarts + 1
    /\ testMode' \in BOOLEAN
    /\ lastTest' = IF testMode' THEN now ELSE lastTest
    /\ pc' = [c \in Clients |-> IF Inserting(c) THEN "lateInsert"
                               ELSE IF Ensuring(c) THEN "lateEnsure" ELSE pc[c]]
    /\ UNCHANGED <<users, tokens, rooms, req, now, history>>

ANext ==
    \/ \E c \in Clients :
          \/ Register(c) \/ InsertUser(c) \/ InsertUnanswered(c) \/ InsertRefused(c)
          \/ DummyLogin(c) \/ DummySucceeds(c)
          \/ Seed(c) \/ SeedAdmin(c) \/ SeedUser(c)
          \/ EnsureConflicts(c) \/ EnsureFails(c)
          \/ Authorize(c) \/ CreateRoom(c) \/ CreateRoomFails(c)
    \/ Login \/ Tick \/ RestartAuth

ASpec == AInit /\ [][ANext]_avars
-----------------------------------------------------------------------------
(* The addresses of all rows and of all requests are normalized, and no two  *)
(* rows have the same one.                                                   *)
Addresses ==
    /\ \A i \in Ids : users[i] # None => users[i].email = Normalized(users[i].email)
    /\ \A c \in Clients :
          Inserting(c) => req[c].email = Normalized(req[c].email)
    /\ \A i \in Ids : users[i] # None => ~Taken(users[i].email, i)

(* The row of a test account is what EnsureUser makes of it, and the other   *)
(* rows have a password.                                                     *)
Rows ==
    /\ \A r \in Roles : users[DummyId[r]] \in {None, DummyUser(r)}
    /\ \A i \in Ids \ Dummies : users[i] # None => users[i].password # None

(* The ids of registrations under way are their own.                         *)
FreshIds ==
    /\ \A c \in Clients :
          Inserting(c) => req[c].id \notin Dummies /\ users[req[c].id] = None
    /\ \A c, d \in Clients :
          Inserting(c) /\ Inserting(d) /\ req[c].id = req[d].id => c = d

(* The test mode is on now or was on until lastTest; the requests that need  *)
(* it came while it was on.                                                  *)
TestMode ==
    /\ testMode => lastTest = now
    /\ lastTest # None => lastTest <= now
    /\ \A c \in Clients : Ensuring(c) => testMode \/ pc[c] = "lateEnsure"
    /\ \A c \in Clients : Ensuring(c) => lastTest # None
    /\ \A c \in Clients :
          Inserting(c) /\ req[c].role = "admin" => lastTest # None
    /\ \A c \in Clients :
          pc[c] = "seedUser" => req[c] = "user" /\ users[DummyId["admin"]] # None
    /\ \A c \in Clients : pc[c] = "seedAdmin" => req[c] = "admin"

(* What the gateway forwards to /rooms/create comes with the right role.      *)
Forwarded == \A c \in Clients : pc[c] = "create" => req[c].role = "admin"

(* Every registration that was answered is the row it says.                  *)
CreatedRows ==
    \A g \in created : users[g.id] = [email |-> g.email, password |-> g.password,
                                      role |-> g.role]

(* A token of a test account was signed while the mode was on.               *)
DummyTokens ==
    \A t \in tokens : t.id \in Dummies => lastTest # None /\ t.exp <= lastTest + TTL

(* Type correctness and what the properties below rest on: the state of the  *)
(* table, of the requests and of the mode belong together at every point of  *)
(* every request (auth.go, user.go).                                         *)
AInv == /\ ATypeOK /\ Addresses /\ Rows /\ FreshIds /\ TestMode /\ Forwarded
        /\ CreatedRows /\ DummyTokens

(* The row with id i is there and has role r.                                *)
Names(i, r) == users[i] # None /\ users[i].role = r

(* Every token, every identity the gateway forwarded and the creator of      *)
(* every room name a row of the table, with the role that row has: dummyLogin*)
(* signs none when the address of its account belongs to somebody else       *)
(* (auth.go:141, user.go:85).                                                *)
TokensNameUsers ==
    /\ \A t \in tokens : Names(t.id, t.role)
    /\ \A c \in Clients : pc[c] = "create" => Names(req[c].id, req[c].role)

(* Rooms are made by administrators, whoever else calls and however long     *)
(* ago the token was checked (main.go:65 of the gateway, handler.go:74).     *)
RoomsByAdmins == \A i \in rooms : Names(i, "admin")

(* As long as auth-service has never been in test mode there is no           *)
(* administrator, no test account, and no room (README.md:65).               *)
NoAdminWithoutTestMode ==
    lastTest = None =>
        /\ \A i \in Ids : users[i] # None => users[i].role = "user" /\ i \notin Dummies
        /\ \A t \in tokens : t.role = "user"
        /\ rooms = {}

(* Whoever was told that an account was made can log in to it, however the   *)
(* address is written, and reaches no other account: neither other           *)
(* registrations, nor test accounts, nor a new start of the service take it  *)
(* away (auth.go:97, user.go:53).                                            *)
AccountsCanLogIn ==
    \A g \in created : \A e \in Spelling :
        e.box = g.email.box =>
            \A i \in Ids : Found(e, i) <=> i = g.id /\ Opens(g.password, i)

(* After seed has answered, both test accounts are there, whatever failed    *)
(* or ran at the same time; and a test account that was once refused because *)
(* its address was taken stays refused, as long as rows are not deleted: it  *)
(* never comes to be half made (auth.go:152-157, user.go:85).                *)
SeedIsHonest ==
    /\ seeded => \A r \in Roles : users[DummyId[r]] # None
    /\ \A r \in blocked : Conflicts(r)

(* A test account is let in only while the mode is on or for one token's     *)
(* time after it was last on: no login opens it later (auth.go:105, 124;     *)
(* jwt.go:103).                                                              *)
Admitted(c) == pc[c] = "idle" /\ pc'[c] = "create"

DummiesEnd ==
    [][\A c \in Clients : Admitted(c) /\ req'[c].id \in Dummies =>
           lastTest # None /\ now < lastTest + TTL]_avars
=============================================================================
