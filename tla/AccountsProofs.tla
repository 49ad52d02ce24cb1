--------------------------- MODULE AccountsProofs ---------------------------
(***************************************************************************)
(* Proofs about Accounts, for any number of clients, ids and addresses.    *)
(* The table of users only ever gets new rows, and few steps give it one   *)
(* (TableChanges): what holds of the rows is shown for such a step, what   *)
(* holds of requests, tokens and the mode action by action.                *)
(***************************************************************************)
EXTENDS Accounts, TLAPS

-----------------------------------------------------------------------------
(* Steps of the table *)

\* The row u is added for i, which a registration has drawn or which is the id
\* of a test account.
Added(i, u) ==
    /\ i \in Ids /\ u \in User
    /\ users[i] = None
    /\ users' = [users EXCEPT ![i] = u]
    /\ u.email = Normalized(u.email)
    /\ ~Taken(u.email, i)
    /\ i \notin Dummies => u.password # None
    /\ i \in Dummies => \E r \in Roles : i = DummyId[r] /\ u = DummyUser(r)
    /\ lastTest = None => u.role = "user" /\ i \notin Dummies

\* What EnsureUser is called with.
LEMMA DummyRows ==
    ASSUME NEW r \in Roles
    PROVE  /\ DummyId[r] \in Ids /\ DummyId[r] \in Dummies
           /\ DummyUser(r) \in User /\ DummyUser(r) # None
           /\ DummyUser(r).password = None /\ DummyUser(r).role = r
           /\ DummyUser(r).email = Normalized(DummyUser(r).email)
<1>1. DummyId[r] \in Ids /\ DummyBox[r] \in Boxes
  BY AccountsAssumption
<1>2. DummyUser(r) \in User
  BY <1>1 DEF DummyUser, User, Spelling
<1>3. None \notin User
  BY AccountsAssumption DEF User
<1>. QED  BY <1>1, <1>2, <1>3 DEF Dummies, DummyUser, Normalized

\* Test accounts of two roles are two accounts.
LEMMA DummiesDiffer ==
    ASSUME NEW r \in Roles, NEW q \in Roles, DummyId[r] = DummyId[q]
    PROVE  r = q
BY AccountsAssumption DEF Roles

\* An INSERT of a registration adds its row.
LEMMA InsertAdds ==
    ASSUME AInv, NEW c \in Clients, Inserting(c), Inserted(c)
    PROVE  Added(req[c].id, [email |-> req[c].email, password |-> req[c].password,
                             role |-> req[c].role])
<1>. DEFINE u == [email |-> req[c].email, password |-> req[c].password,
                  role |-> req[c].role]
<1>1. req[c] \in Registration
  BY DEF AInv, ATypeOK
<1>2. req[c].id \in Ids /\ u \in User
  BY <1>1 DEF Registration, User
<1>3. req[c].id \notin Dummies /\ users[req[c].id] = None
  BY DEF AInv, FreshIds
<1>4. u.email = Normalized(u.email)
  BY DEF AInv, Addresses
<1>5. u.password # None
  BY <1>1, AccountsAssumption DEF Registration
<1>6. lastTest = None => u.role = "user"
  BY <1>1 DEF AInv, TestMode, Registration, Roles
<1>. QED  BY <1>2, <1>3, <1>4, <1>5, <1>6 DEF Added, Inserted

\* EnsureUser adds the row of the test account, unless it is there.
LEMMA EnsureAdds ==
    ASSUME AInv, NEW c \in Clients, Ensuring(c), EnsureUser(req[c])
    PROVE  /\ req[c] \in Roles
           /\ UNCHANGED users \/ Added(DummyId[req[c]], DummyUser(req[c]))
           /\ users'[DummyId[req[c]]] = DummyUser(req[c])
<1>1. req[c] \in Roles
  BY DEF AInv, ATypeOK
<1>2. lastTest # None
  BY DEF AInv, TestMode
<1>3. users \in [Ids -> User \cup {None}]
  BY DEF AInv, ATypeOK
<1>4. users[DummyId[req[c]]] \in {None, DummyUser(req[c])}
  BY <1>1 DEF AInv, Rows
<1>5. CASE users[DummyId[req[c]]] # None
  BY <1>1, <1>4, <1>5 DEF EnsureUser
<1>6. CASE users[DummyId[req[c]]] = None
  <2>1. /\ ~Taken(DummyUser(req[c]).email, DummyId[req[c]])
        /\ users' = [users EXCEPT ![DummyId[req[c]]] = DummyUser(req[c])]
    BY <1>6 DEF EnsureUser
  <2>2. Added(DummyId[req[c]], DummyUser(req[c]))
    BY <1>1, <1>2, <1>6, <2>1, DummyRows DEF Added
  <2>. QED  BY <1>1, <1>3, <2>1, <2>2, DummyRows
<1>. QED  BY <1>5, <1>6

\* A step leaves the table alone or adds one row.
TableChange == UNCHANGED users \/ \E i \in Ids, u \in User : Added(i, u)

LEMMA TableChanges ==
    ASSUME AInv, [ANext]_avars
    PROVE  TableChange
<1>1. CASE \E c \in Clients : InsertUser(c) \/ InsertUnanswered(c)
  <2>1. PICK c \in Clients : InsertUser(c) \/ InsertUnanswered(c)
    BY <1>1
  <2>2. Inserting(c) /\ Inserted(c)
    BY <2>1 DEF InsertUser, InsertUnanswered, Inserting
  <2>. QED  BY <2>2, InsertAdds DEF TableChange, Added
<1>2. CASE \E c \in Clients : DummySucceeds(c) \/ SeedAdmin(c) \/ SeedUser(c)
                              \/ EnsureFails(c)
  <2>1. PICK c \in Clients : DummySucceeds(c) \/ SeedAdmin(c) \/ SeedUser(c)
                             \/ EnsureFails(c)
    BY <1>2
  <2>2. Ensuring(c) /\ (EnsureUser(req[c]) \/ UNCHANGED users)
    <3>1. pc[c] = "seedAdmin" => req[c] = "admin"
      BY DEF AInv, TestMode
    <3>2. pc[c] = "seedUser" => req[c] = "user"
      BY DEF AInv, TestMode
    <3>. QED  BY <2>1, <3>1, <3>2
              DEF DummySucceeds, SeedAdmin, SeedUser, EnsureFails, Ensuring
  <2>3. CASE EnsureUser(req[c])
    BY <2>2, <2>3, EnsureAdds DEF TableChange, Added
  <2>. QED  BY <2>2, <2>3 DEF TableChange
<1>3. CASE \E c \in Clients :
              \/ Register(c) \/ InsertRefused(c) \/ DummyLogin(c) \/ Seed(c)
              \/ EnsureConflicts(c) \/ Authorize(c) \/ CreateRoom(c)
              \/ CreateRoomFails(c)
  BY <1>3 DEF Register, InsertRefused, DummyLogin, Seed, EnsureConflicts, Authorize,
     CreateRoom, CreateRoomFails, TableChange
<1>4. CASE Login \/ Tick \/ RestartAuth
  BY <1>4 DEF Login, Tick, RestartAuth, TableChange
<1>5. CASE UNCHANGED avars
  BY <1>5 DEF avars, TableChange
<1>. QED  BY <1>1, <1>2, <1>3, <1>4, <1>5 DEF ANext

\* Rows never change.
LEMMA RowsStay ==
    ASSUME AInv, [ANext]_avars, NEW i \in Ids, users[i] # None
    PROVE  users'[i] = users[i]
<1>1. users \in [Ids -> User \cup {None}]
  BY DEF AInv, ATypeOK
<1>. QED  BY <1>1, TableChanges DEF TableChange, Added

\* What holds of all rows goes on to hold.
LEMMA RowsStep ==
    ASSUME AInv, [ANext]_avars
    PROVE  /\ users' \in [Ids -> User \cup {None}]
           /\ Rows'
           /\ \A i \in Ids : users'[i] # None =>
                 users'[i].email = Normalized(users'[i].email) /\ ~Taken(users[i].email, i)'
<1>1. users \in [Ids -> User \cup {None}] /\ None \notin User
  BY AccountsAssumption DEF AInv, ATypeOK, User
<1>2. CASE UNCHANGED users
  BY <1>1, <1>2 DEF AInv, Addresses, Rows, Taken
<1>3. CASE \E i \in Ids, u \in User : Added(i, u)
  <2>1. PICK i \in Ids, u \in User : Added(i, u)
    BY <1>3
  <2>2. /\ users' \in [Ids -> User \cup {None}] /\ users'[i] = u
        /\ \A j \in Ids \ {i} : users'[j] = users[j]
    BY <1>1, <2>1 DEF Added
  <2>3. Rows'
    <3>1. ASSUME NEW r \in Roles PROVE users'[DummyId[r]] \in {None, DummyUser(r)}
      BY <2>1, <2>2, <3>1, DummyRows, DummiesDiffer DEF AInv, Rows, Added
    <3>2. \A j \in Ids \ Dummies : users'[j] # None => users'[j].password # None
      BY <2>1, <2>2 DEF AInv, Rows, Added
    <3>. QED  BY <3>1, <3>2 DEF Rows
  <2>4. ASSUME NEW j \in Ids, users'[j] # None
        PROVE  users'[j].email = Normalized(users'[j].email)
    BY <2>1, <2>2, <2>4 DEF AInv, Addresses, Added
  <2>5. ASSUME NEW j \in Ids, users'[j] # None
        PROVE  ~Taken(users[j].email, j)'
    <3>1. SUFFICES ASSUME NEW k \in Ids, k # j, users'[k] # None,
                          SameEmail(users'[k].email, users'[j].email)
                   PROVE  FALSE
      BY DEF Taken
    <3>2. \A m \in Ids : m # i /\ users[m] # None => ~SameEmail(users[m].email, u.email)
      BY <2>1 DEF Added, Taken
    <3>3. \A m, n \in Ids : m # n /\ users[m] # None /\ users[n] # None =>
              ~SameEmail(users[m].email, users[n].email)
      BY DEF AInv, Addresses, Taken
    <3>. QED  BY <2>2, <2>5, <3>1, <3>2, <3>3 DEF SameEmail
  <2>. QED  BY <2>2, <2>3, <2>4, <2>5
<1>. QED  BY <1>2, <1>3, TableChanges DEF TableChange

-----------------------------------------------------------------------------
(* Requests *)

\* What AInv says of the requests.
Requests ==
    /\ pc \in [Clients -> {"idle", "insert", "ensure", "seedAdmin", "seedUser",
                           "lateInsert", "lateEnsure", "create"}]
    /\ DOMAIN req = Clients
    /\ \A c \in Clients : Inserting(c) => req[c] \in Registration
    /\ \A c \in Clients : Ensuring(c) => req[c] \in Roles
    /\ \A c \in Clients : pc[c] = "create" => req[c] \in Identity
    /\ \A c \in Clients : Inserting(c) => req[c].email = Normalized(req[c].email)
    /\ FreshIds /\ Forwarded
    /\ \A c \in Clients : Ensuring(c) => testMode \/ pc[c] = "lateEnsure"
    /\ \A c \in Clients : Ensuring(c) => lastTest # None
    /\ \A c \in Clients : Inserting(c) /\ req[c].role = "admin" => lastTest # None
    /\ \A c \in Clients :
          pc[c] = "seedUser" => req[c] = "user" /\ users[DummyId["admin"]] # None
    /\ \A c \in Clients : pc[c] = "seedAdmin" => req[c] = "admin"

LEMMA RequestsHold == AInv => Requests
BY DEF AInv, ATypeOK, Addresses, FreshIds, TestMode, Requests

\* A request that ends leaves the others as they were.
LEMMA EndStep ==
    ASSUME AInv, [ANext]_avars, NEW c \in Clients, End(c),
           UNCHANGED <<testMode, lastTest>>,
           \/ Inserting(c) /\ users' = [users EXCEPT ![req[c].id] =
                  [email |-> req[c].email, password |-> req[c].password,
                   role |-> req[c].role]]
           \/ Ensuring(c) /\ EnsureUser(req[c])
           \/ UNCHANGED users
    PROVE  Requests'
<1>. USE RequestsHold
<1>1. /\ pc'[c] = "idle"
      /\ \A d \in Clients \ {c} : pc'[d] = pc[d] /\ req'[d] = req[d]
      /\ pc' \in [Clients -> {"idle", "insert", "ensure", "seedAdmin", "seedUser",
                              "lateInsert", "lateEnsure", "create"}]
      /\ DOMAIN req' = Clients
  BY DEF End, Requests
<1>2. \A d \in Clients : /\ Inserting(d)' => d # c /\ Inserting(d) /\ req'[d] = req[d]
                         /\ Ensuring(d)' => d # c /\ Ensuring(d) /\ req'[d] = req[d]
  BY <1>1 DEF Inserting, Ensuring
<1>3. ASSUME NEW d \in Clients, Inserting(d)'
      PROVE  users'[req[d].id] = None
  <2>1. /\ d # c /\ Inserting(d) /\ req[d].id \notin Dummies /\ users[req[d].id] = None
        /\ req[d].id \in Ids
    BY <1>2, <1>3 DEF Requests, FreshIds, Registration
  <2>2. users \in [Ids -> User \cup {None}]
    BY DEF AInv, ATypeOK
  <2>3. CASE Inserting(c) /\ users' = [users EXCEPT ![req[c].id] =
                 [email |-> req[c].email, password |-> req[c].password,
                  role |-> req[c].role]]
    BY <2>1, <2>2, <2>3 DEF Requests, FreshIds
  <2>4. CASE Ensuring(c) /\ EnsureUser(req[c])
    BY <2>1, <2>2, <2>4, EnsureAdds, DummyRows DEF Added
  <2>. QED  BY <2>1, <2>3, <2>4
<1>4. FreshIds'
  BY <1>2, <1>3 DEF Requests, FreshIds
<1>5. \A d \in Clients : pc'[d] = "seedUser" => users'[DummyId["admin"]] # None
  BY <1>1, RowsStay, AccountsAssumption DEF Requests, Roles
<1>. QED  BY <1>1, <1>2, <1>4, <1>5 DEF Requests, Identity, Forwarded

\* A request that begins is in order, and the others stay as they were.
LEMMA BeginStep ==
    ASSUME AInv, NEW c \in Clients,
           Register(c) \/ DummyLogin(c) \/ Seed(c) \/ Authorize(c)
    PROVE  Requests'
<1>. USE RequestsHold
<1>1. CASE Register(c)
  <2>1. PICK e \in Spellings, p \in GoodPasswords, r \in Roles, i \in Ids :
            /\ MayRegister(r) /\ Fresh(i)
            /\ Begin(c, "insert", [id |-> i, email |-> Normalized(e),
                                   password |-> p, role |-> r])
    BY <1>1 DEF Register
  <2>2. /\ pc'[c] = "insert"
        /\ req'[c] = [id |-> i, email |-> Normalized(e), password |-> p, role |-> r]
        /\ \A d \in Clients \ {c} : pc'[d] = pc[d] /\ req'[d] = req[d]
        /\ pc' \in [Clients -> {"idle", "insert", "ensure", "seedAdmin", "seedUser",
                                "lateInsert", "lateEnsure", "create"}]
        /\ DOMAIN req' = Clients
    BY <2>1 DEF Begin, Requests
  <2>3. /\ Normalized(e) \in Spelling
        /\ Normalized(Normalized(e)) = Normalized(e)
        /\ p \in Passwords
    BY AccountsAssumption DEF Spelling, Normalized
  <2>4. req'[c] \in Registration /\ req'[c].email = Normalized(req'[c].email)
    BY <2>2, <2>3 DEF Registration
  <2>5. req'[c].role = "admin" => lastTest # None
    BY <2>1, <2>2, AccountsAssumption DEF MayRegister, AInv, ATypeOK, TestMode
  <2>6. \A d \in Clients : /\ Ensuring(d)' => d # c /\ Ensuring(d)
                           /\ Inserting(d)' => d = c \/ Inserting(d)
    BY <2>2 DEF Ensuring, Inserting
  <2>7. UNCHANGED <<users, testMode, lastTest>>
    BY <1>1 DEF Register, service
  <2>8. FreshIds'
    BY <2>1, <2>2, <2>6, <2>7 DEF Fresh, FreshIds, Requests
  <2>. QED  BY <2>2, <2>4, <2>5, <2>6, <2>7, <2>8 DEF Requests, Identity, Forwarded
<1>2. CASE DummyLogin(c) \/ Seed(c)
  <2>1. /\ testMode /\ pc'[c] \in {"ensure", "seedAdmin"} /\ req'[c] \in Roles
        /\ pc'[c] = "seedAdmin" => req'[c] = "admin"
        /\ \A d \in Clients \ {c} : pc'[d] = pc[d] /\ req'[d] = req[d]
        /\ pc' \in [Clients -> {"idle", "insert", "ensure", "seedAdmin", "seedUser",
                                "lateInsert", "lateEnsure", "create"}]
        /\ DOMAIN req' = Clients
        /\ UNCHANGED <<users, testMode, lastTest>>
    BY <1>2 DEF DummyLogin, Seed, Begin, Requests, Roles, service
  <2>2. lastTest # None
    BY <2>1, AccountsAssumption DEF AInv, ATypeOK, TestMode
  <2>3. \A d \in Clients : /\ Ensuring(d)' => d = c \/ Ensuring(d)
                           /\ Inserting(d)' => d # c /\ Inserting(d)
    BY <2>1 DEF Ensuring, Inserting
  <2>4. FreshIds'
    BY <2>1, <2>3 DEF FreshIds, Requests
  <2>. QED  BY <2>1, <2>2, <2>3, <2>4 DEF Requests, Identity, Forwarded
<1>3. CASE Authorize(c)
  <2>1. /\ pc'[c] = "create" /\ req'[c] \in Identity
        /\ \A d \in Clients \ {c} : pc'[d] = pc[d] /\ req'[d] = req[d]
        /\ pc' \in [Clients -> {"idle", "insert", "ensure", "seedAdmin", "seedUser",
                                "lateInsert", "lateEnsure", "create"}]
        /\ DOMAIN req' = Clients
        /\ req'[c].role = "admin"
        /\ UNCHANGED <<users, testMode, lastTest>>
    BY <1>3 DEF RequireRole, Authorize, Begin, Requests, service, Identity, AInv, ATypeOK, Token
  <2>2. \A d \in Clients : /\ Ensuring(d)' => d # c /\ Ensuring(d)
                           /\ Inserting(d)' => d # c /\ Inserting(d)
    BY <2>1 DEF Ensuring, Inserting
  <2>3. FreshIds'
    BY <2>1, <2>2 DEF FreshIds, Requests
  <2>. QED  BY <2>1, <2>2, <2>3 DEF Requests, Identity, Forwarded
<1>. QED  BY <1>1, <1>2, <1>3

\* The remaining steps: seed goes on to its second account, the service is
\* started again, or no request moves.
LEMMA SeedAdminStep ==
    ASSUME AInv, NEW c \in Clients, SeedAdmin(c)
    PROVE  Requests'
<1>. USE RequestsHold
<1>1. /\ pc[c] = "seedAdmin" /\ pc'[c] = "seedUser" /\ req'[c] = "user"
      /\ req[c] = "admin"
      /\ \A d \in Clients \ {c} : pc'[d] = pc[d] /\ req'[d] = req[d]
      /\ pc' \in [Clients -> {"idle", "insert", "ensure", "seedAdmin", "seedUser",
                              "lateInsert", "lateEnsure", "create"}]
      /\ DOMAIN req' = Clients
      /\ UNCHANGED <<testMode, lastTest>>
  BY DEF SeedAdmin, Requests, service
<1>2. Ensuring(c) /\ EnsureUser(req[c])
  BY <1>1 DEF SeedAdmin, Ensuring
<1>3. users'[DummyId["admin"]] # None /\ users \in [Ids -> User \cup {None}]
  BY <1>1, <1>2, EnsureAdds, DummyRows DEF AInv, ATypeOK
<1>4. \A d \in Clients : /\ Ensuring(d)' => Ensuring(d)
                         /\ Inserting(d)' => d # c /\ Inserting(d)
  BY <1>1, <1>2 DEF Ensuring, Inserting
<1>5. ASSUME NEW d \in Clients, Inserting(d)
      PROVE  users'[req[d].id] = None
  <2>1. req[d].id \notin Dummies /\ users[req[d].id] = None /\ req[d].id \in Ids
    BY <1>5 DEF Requests, FreshIds, Registration
  <2>. QED  BY <1>2, <1>3, <2>1, EnsureAdds, DummyRows DEF Added
<1>6. FreshIds'
  BY <1>1, <1>4, <1>5 DEF FreshIds, Requests
<1>. QED  BY <1>1, <1>2, <1>3, <1>4, <1>6 DEF Requests, Identity, Roles, Forwarded

LEMMA OtherStep ==
    ASSUME AInv, Login \/ Tick \/ RestartAuth \/ UNCHANGED avars
    PROVE  Requests'
<1>. USE RequestsHold
<1>1. CASE RestartAuth
  <2>1. \A d \in Clients :
            /\ Inserting(d)' <=> Inserting(d)
            /\ Ensuring(d)' <=> Ensuring(d)
            /\ Ensuring(d)' => pc'[d] = "lateEnsure"
            /\ pc'[d] = "create" => pc[d] = "create"
            /\ pc'[d] \notin {"seedAdmin", "seedUser"}
    BY <1>1 DEF RestartAuth, Requests, Inserting, Ensuring
  <2>2. pc' \in [Clients -> {"idle", "insert", "ensure", "seedAdmin", "seedUser",
                             "lateInsert", "lateEnsure", "create"}]
    BY <1>1 DEF RestartAuth, Requests
  <2>3. UNCHANGED <<users, req>> /\ (lastTest # None => lastTest' # None)
    BY <1>1, AccountsAssumption DEF RestartAuth, AInv, ATypeOK
  <2>4. FreshIds'
    BY <2>1, <2>3 DEF FreshIds, Requests
  <2>. QED  BY <2>1, <2>2, <2>3, <2>4 DEF Requests, Forwarded
<1>2. CASE Tick
  <2>1. UNCHANGED <<users, pc, req, testMode>> /\ (lastTest # None => lastTest' # None)
    BY <1>2, AccountsAssumption DEF Tick, AInv, ATypeOK
  <2>. QED  BY <2>1 DEF Requests, Forwarded, FreshIds, Inserting, Ensuring
<1>3. CASE Login \/ UNCHANGED avars
  BY <1>3 DEF Login, avars, service, Requests, Forwarded, FreshIds, Inserting, Ensuring
<1>. QED  BY <1>1, <1>2, <1>3

LEMMA RequestsStep ==
    ASSUME AInv, [ANext]_avars
    PROVE  Requests'
<1>1. CASE \E c \in Clients : InsertUser(c) \/ InsertUnanswered(c) \/ InsertRefused(c)
  BY <1>1, EndStep DEF InsertUser, InsertUnanswered, InsertRefused, Inserted, Inserting,
     service
<1>2. CASE \E c \in Clients : DummySucceeds(c) \/ SeedUser(c) \/ EnsureFails(c)
                              \/ EnsureConflicts(c)
  <2>1. PICK c \in Clients : DummySucceeds(c) \/ SeedUser(c) \/ EnsureFails(c)
                             \/ EnsureConflicts(c)
    BY <1>2
  <2>2. End(c) /\ UNCHANGED <<testMode, lastTest>>
    BY <2>1 DEF DummySucceeds, SeedUser, EnsureFails, EnsureConflicts, service
  <2>3. Ensuring(c) /\ (EnsureUser(req[c]) \/ UNCHANGED users)
    BY <2>1, RequestsHold DEF DummySucceeds, SeedUser, EnsureFails, EnsureConflicts,
       Ensuring, Requests
  <2>. QED  BY <2>2, <2>3, EndStep
<1>3. CASE \E c \in Clients : CreateRoom(c) \/ CreateRoomFails(c)
  BY <1>3, EndStep DEF CreateRoom, CreateRoomFails, service
<1>. QED  BY <1>1, <1>2, <1>3, BeginStep, SeedAdminStep, OtherStep DEF ANext

-----------------------------------------------------------------------------
(* The invariant *)

\* AInv holds when the service is first started, in either mode.
LEMMA InitAInv == AInit => AInv
<1>. SUFFICES ASSUME AInit PROVE AInv
  OBVIOUS
<1>1. \A c \in Clients : pc[c] = "idle" /\ ~Inserting(c) /\ ~Ensuring(c)
  BY DEF AInit, Inserting, Ensuring
<1>2. \A i \in Ids : users[i] = None
  BY DEF AInit
<1>3. ATypeOK
  <2>1. /\ users \in [Ids -> User \cup {None}]
        /\ pc \in [Clients -> {"idle", "insert", "ensure", "seedAdmin", "seedUser",
                               "lateInsert", "lateEnsure", "create"}]
    BY DEF AInit
  <2>2. lastTest \in Nat \cup {None} /\ restarts \in 0..MaxRestarts
    BY AccountsAssumption DEF AInit
  <2>. QED  BY <1>1, <2>1, <2>2 DEF AInit, ATypeOK
<1>4. Addresses /\ FreshIds
  BY <1>1, <1>2 DEF Addresses, FreshIds
<1>5. Rows
  BY <1>2, DummyRows DEF Rows
<1>6. TestMode
  BY <1>1, AccountsAssumption DEF AInit, TestMode
<1>. QED  BY <1>3, <1>4, <1>5, <1>6 DEF AInv, AInit, Forwarded, CreatedRows, DummyTokens

\* A login opens no test account, and the token it signs is the row's.
LEMMA LoginRow ==
    ASSUME AInv, NEW i \in Ids, NEW p \in Passwords, users[i] # None, Opens(p, i)
    PROVE  i \notin Dummies /\ users[i].role \in Roles
<1>1. \A r \in Roles : users[DummyId[r]] \in {None, DummyUser(r)}
  BY DEF AInv, Rows
<1>2. users[i] \in User
  BY DEF AInv, ATypeOK
<1>. QED  BY <1>1, <1>2, DummyRows DEF Opens, Dummies, User

\* The tokens after one was signed.
LEMMA IssueStep ==
    ASSUME AInv, NEW i \in Ids, NEW r \in Roles, Issue(i, r),
           i \in Dummies => lastTest = now, UNCHANGED lastTest
    PROVE  tokens' \subseteq Token /\ DummyTokens'
<1>1. now \in Nat /\ tokens \subseteq Token /\ now + TTL \in Nat
  BY AccountsAssumption DEF AInv, ATypeOK
<1>2. tokens' = {t \in tokens : t.id # i}
                    \cup {[id |-> i, role |-> r, exp |-> now + TTL]}
  BY DEF Issue
<1>3. [id |-> i, role |-> r, exp |-> now + TTL] \in Token
  BY <1>1 DEF Token
<1>4. tokens' \subseteq Token
  BY <1>1, <1>2, <1>3
<1>5. ASSUME NEW t \in tokens', t.id \in Dummies
      PROVE  lastTest' # None /\ t.exp <= lastTest' + TTL
  <2>1. CASE t \in tokens
    BY <1>5, <2>1 DEF AInv, DummyTokens
  <2>2. CASE t = [id |-> i, role |-> r, exp |-> now + TTL]
    BY <1>1, <1>5, <2>2, AccountsAssumption
  <2>. QED  BY <1>2, <2>1, <2>2
<1>. QED  BY <1>4, <1>5 DEF DummyTokens

\* The tokens, the mode and the clock.
LEMMA TokensStep ==
    ASSUME AInv, [ANext]_avars
    PROVE  tokens' \subseteq Token /\ DummyTokens'
<1>1. CASE Login
  <2>1. PICK e \in Spellings, p \in Passwords, i \in Ids :
            Found(e, i) /\ Opens(p, i) /\ Issue(i, users[i].role)
    BY <1>1 DEF Login
  <2>. QED  BY <1>1, <2>1, LoginRow, IssueStep DEF Found, Login, service
<1>2. CASE \E c \in Clients : DummySucceeds(c)
  <2>1. PICK c \in Clients : DummySucceeds(c)
    BY <1>2
  <2>2. testMode /\ lastTest = now /\ req[c] \in Roles
    BY <2>1 DEF DummySucceeds, AInv, ATypeOK, TestMode, Ensuring
  <2>. QED  BY <2>1, <2>2, IssueStep, DummyRows DEF DummySucceeds, service
<1>3. CASE Tick \/ RestartAuth
  <2>1. UNCHANGED tokens /\ tokens \subseteq Token
    BY <1>3 DEF Tick, RestartAuth, AInv, ATypeOK
  <2>2. now \in Nat /\ (lastTest # None => lastTest \in Nat /\ lastTest <= now)
    BY AccountsAssumption DEF AInv, ATypeOK, TestMode
  <2>3. lastTest # None => lastTest' # None /\ lastTest' \in Nat /\ lastTest <= lastTest'
    BY <1>3, <2>2, AccountsAssumption DEF Tick, RestartAuth
  <2>4. ASSUME NEW t \in tokens, t.id \in Dummies
        PROVE  lastTest' # None /\ t.exp <= lastTest' + TTL
    BY <2>1, <2>2, <2>3, <2>4, AccountsAssumption DEF AInv, DummyTokens, Token
  <2>. QED  BY <2>1, <2>4 DEF DummyTokens
<1>4. CASE UNCHANGED <<tokens, lastTest>>
  BY <1>4 DEF AInv, ATypeOK, DummyTokens
<1>5. CASE \E c \in Clients :
              \/ Register(c) \/ InsertUser(c) \/ InsertUnanswered(c) \/ InsertRefused(c)
              \/ DummyLogin(c) \/ Seed(c) \/ SeedAdmin(c) \/ SeedUser(c)
              \/ EnsureConflicts(c) \/ EnsureFails(c)
              \/ Authorize(c) \/ CreateRoom(c) \/ CreateRoomFails(c)
  BY <1>4, <1>5 DEF Register, InsertUser, InsertUnanswered, InsertRefused, DummyLogin, Seed,
     SeedAdmin, SeedUser, EnsureConflicts, EnsureFails, Authorize, CreateRoom,
     CreateRoomFails, service
<1>. QED  BY <1>1, <1>2, <1>3, <1>4, <1>5 DEF ANext, avars, service

\* The mode and the clock.
LEMMA ClockStep ==
    ASSUME AInv, [ANext]_avars
    PROVE  /\ testMode' \in BOOLEAN /\ now' \in Nat /\ restarts' \in 0..MaxRestarts
           /\ lastTest' \in Nat \cup {None}
           /\ testMode' => lastTest' = now'
           /\ lastTest' # None => lastTest' <= now'
           /\ lastTest # None => lastTest' # None
<1>1. /\ testMode \in BOOLEAN /\ now \in Nat /\ restarts \in 0..MaxRestarts
      /\ lastTest \in Nat \cup {None} /\ MaxRestarts \in Nat
      /\ testMode => lastTest = now
      /\ lastTest # None => lastTest <= now
      /\ None \notin Nat
  BY AccountsAssumption DEF AInv, ATypeOK, TestMode
<1>2. CASE Tick
  BY <1>1, <1>2 DEF Tick
<1>3. CASE RestartAuth
  BY <1>1, <1>3 DEF RestartAuth
<1>4. CASE UNCHANGED service
  BY <1>1, <1>4 DEF service
<1>5. ASSUME [ANext]_avars, ~Tick, ~RestartAuth
      PROVE  UNCHANGED service
  BY <1>5 DEF ANext, avars, Register, InsertUser, InsertUnanswered, InsertRefused, Login,
     DummyLogin, DummySucceeds, Seed, SeedAdmin, SeedUser, EnsureConflicts, EnsureFails,
     Authorize, CreateRoom, CreateRoomFails
<1>. QED  BY <1>2, <1>3, <1>4, <1>5

\* Registrations are remembered as they were stored.
LEMMA HistoryStep ==
    ASSUME AInv, [ANext]_avars
    PROVE  /\ rooms' \subseteq Ids /\ created' \subseteq Registration
           /\ seeded' \in BOOLEAN /\ blocked' \subseteq Roles
           /\ CreatedRows'
<1>1. /\ rooms \subseteq Ids /\ created \subseteq Registration
      /\ seeded \in BOOLEAN /\ blocked \subseteq Roles
      /\ users \in [Ids -> User \cup {None}] /\ None \notin User
      /\ \A c \in Clients : Inserting(c) => req[c] \in Registration
      /\ \A c \in Clients : Ensuring(c) => req[c] \in Roles
      /\ \A c \in Clients : pc[c] = "create" => req[c] \in Identity
  BY AccountsAssumption DEF AInv, ATypeOK, User
<1>2. ASSUME NEW g \in created
      PROVE  users'[g.id] = [email |-> g.email, password |-> g.password, role |-> g.role]
  <2>1. g.id \in Ids /\ [email |-> g.email, password |-> g.password, role |-> g.role] \in User
    BY <1>1 DEF Registration, User
  <2>2. users[g.id] = [email |-> g.email, password |-> g.password, role |-> g.role]
    BY DEF AInv, CreatedRows
  <2>. QED  BY <1>1, <2>1, <2>2, RowsStay
<1>3. CASE \E c \in Clients : InsertUser(c)
  <2>1. PICK c \in Clients : InsertUser(c)
    BY <1>3
  <2>2. /\ Inserting(c) /\ Inserted(c) /\ created' = created \cup {req[c]}
        /\ UNCHANGED <<rooms, seeded, blocked>>
    BY <2>1 DEF InsertUser, Inserting
  <2>3. users'[req[c].id] = [email |-> req[c].email, password |-> req[c].password,
                             role |-> req[c].role]
    BY <1>1, <2>2 DEF Inserted, Registration
  <2>. QED  BY <1>1, <1>2, <2>2, <2>3 DEF CreatedRows
<1>4. CASE \E c \in Clients : SeedUser(c) \/ EnsureConflicts(c) \/ CreateRoom(c)
  <2>1. UNCHANGED created
    BY <1>4 DEF SeedUser, EnsureConflicts, CreateRoom, history
  <2>2. rooms' \subseteq Ids /\ seeded' \in BOOLEAN /\ blocked' \subseteq Roles
    BY <1>1, <1>4 DEF SeedUser, EnsureConflicts, CreateRoom, history, Identity
  <2>. QED  BY <1>1, <1>2, <2>1, <2>2 DEF CreatedRows
<1>5. CASE UNCHANGED <<rooms, history>>
  BY <1>1, <1>2, <1>5 DEF history, CreatedRows
<1>6. CASE \/ \E c \in Clients :
                 \/ Register(c) \/ InsertUnanswered(c) \/ InsertRefused(c)
                 \/ DummyLogin(c) \/ DummySucceeds(c) \/ Seed(c) \/ SeedAdmin(c)
                 \/ EnsureFails(c) \/ Authorize(c) \/ CreateRoomFails(c)
           \/ Login \/ Tick \/ RestartAuth
  BY <1>5, <1>6 DEF Register, InsertUnanswered, InsertRefused, DummyLogin, DummySucceeds,
     Seed, SeedAdmin, EnsureFails, Authorize, CreateRoomFails, Login, Tick, RestartAuth
<1>. QED  BY <1>3, <1>4, <1>5, <1>6 DEF ANext, avars

LEMMA AInvStep == AInv /\ [ANext]_avars => AInv'
<1>. SUFFICES ASSUME AInv, [ANext]_avars PROVE AInv'
  OBVIOUS
<1>1. ATypeOK'
  BY RowsStep, RequestsStep, TokensStep, ClockStep, HistoryStep DEF ATypeOK, Requests
<1>2. Addresses'
  BY RowsStep, RequestsStep DEF Addresses, Requests
<1>3. FreshIds' /\ TestMode'
  BY RequestsStep, ClockStep DEF TestMode, Requests
<1>. QED  BY <1>1, <1>2, <1>3, RowsStep, RequestsStep, TokensStep, HistoryStep
          DEF AInv, Requests

\* The table, the requests, the tokens and the mode belong together in every
\* reachable state (auth.go, user.go).
THEOREM AccountsInvariance == ASpec => []AInv
BY InitAInv, AInvStep, PTL DEF ASpec

-----------------------------------------------------------------------------
(* Whom tokens and rooms name *)

LEMMA InitNames == AInit => TokensNameUsers /\ RoomsByAdmins
BY DEF AInit, TokensNameUsers, RoomsByAdmins

\* An account keeps its role.
LEMMA NamesStay ==
    ASSUME AInv, [ANext]_avars, NEW i \in Ids, NEW r \in Roles, Names(i, r)
    PROVE  Names(i, r)'
BY RowsStay DEF Names

\* The token that is signed names a row.
LEMMA IssueNames ==
    ASSUME TokensNameUsers, AInv, [ANext]_avars, NEW i \in Ids, NEW r \in Roles,
           Issue(i, r), Names(i, r)'
    PROVE  \A t \in tokens' : Names(t.id, t.role)'
<1>1. tokens \subseteq Token
  BY DEF AInv, ATypeOK
<1>2. ASSUME NEW t \in tokens PROVE Names(t.id, t.role)'
  BY <1>1, NamesStay DEF TokensNameUsers, Token
<1>. QED  BY <1>2 DEF Issue

LEMMA NamesStep ==
    AInv /\ TokensNameUsers /\ RoomsByAdmins /\ [ANext]_avars
        => TokensNameUsers' /\ RoomsByAdmins'
<1>. SUFFICES ASSUME AInv, TokensNameUsers, RoomsByAdmins, [ANext]_avars
              PROVE  TokensNameUsers' /\ RoomsByAdmins'
  OBVIOUS
<1>1. tokens \subseteq Token /\ rooms \subseteq Ids
  BY DEF AInv, ATypeOK
<1>2. \A t \in tokens : Names(t.id, t.role)'
  BY <1>1, NamesStay DEF TokensNameUsers, Token
<1>3. \A i \in rooms : Names(i, "admin")'
  BY <1>1, NamesStay DEF RoomsByAdmins, Roles
<1>4. ASSUME NEW c \in Clients, pc[c] = "create"
      PROVE  users'[req[c].id] # None /\ users'[req[c].id].role = req[c].role
  <2>1. req[c] \in Identity /\ Names(req[c].id, req[c].role)
    BY <1>4 DEF TokensNameUsers, AInv, ATypeOK
  <2>. QED  BY <2>1, RowsStay DEF Names, Identity
<1>5. \A t \in tokens' : Names(t.id, t.role)'
  <2>1. CASE Login
    <3>1. PICK e \in Spellings, p \in Passwords, i \in Ids :
              Found(e, i) /\ Opens(p, i) /\ Issue(i, users[i].role)
      BY <2>1 DEF Login
    <3>2. PICK r \in Roles : r = users[i].role
      BY <3>1, LoginRow DEF Found
    <3>3. Names(i, r)'
      BY <3>1, <3>2, RowsStay DEF Found, Names
    <3>. QED  BY <3>1, <3>2, <3>3, IssueNames
  <2>2. CASE \E c \in Clients : DummySucceeds(c)
    <3>1. PICK c \in Clients : DummySucceeds(c)
      BY <2>2
    <3>2. Ensuring(c) /\ EnsureUser(req[c]) /\ Issue(DummyId[req[c]], req[c])
      BY <3>1 DEF DummySucceeds, Ensuring
    <3>. QED  BY <3>2, EnsureAdds, DummyRows, IssueNames DEF Names
  <2>3. CASE \E c \in Clients :
                \/ Register(c) \/ InsertUser(c) \/ InsertUnanswered(c)
                \/ InsertRefused(c) \/ DummyLogin(c) \/ Seed(c) \/ SeedAdmin(c)
                \/ SeedUser(c) \/ EnsureConflicts(c) \/ EnsureFails(c)
                \/ Authorize(c) \/ CreateRoom(c) \/ CreateRoomFails(c)
    BY <1>2, <2>3 DEF Register, InsertUser, InsertUnanswered, InsertRefused, DummyLogin,
       Seed, SeedAdmin, SeedUser, EnsureConflicts, EnsureFails, Authorize, CreateRoom,
       CreateRoomFails
  <2>. QED  BY <1>2, <2>1, <2>2, <2>3 DEF ANext, Tick, RestartAuth, avars
<1>6. ASSUME NEW c \in Clients, pc'[c] = "create"
      PROVE  Names(req[c].id, req[c].role)'
  <2>1. CASE pc[c] = "create" /\ req'[c] = req[c]
    BY <1>4, <2>1 DEF Names
  <2>2. CASE Authorize(c)
    <3>1. PICK t \in tokens : Begin(c, "create", [id |-> t.id, role |-> t.role])
      BY <2>2 DEF Authorize
    <3>2. req'[c] = [id |-> t.id, role |-> t.role]
      BY <3>1 DEF Begin, AInv, ATypeOK
    <3>. QED  BY <1>2, <3>2 DEF Names
  <2>3. Authorize(c) \/ (pc[c] = "create" /\ req'[c] = req[c])
    <3>1. pc \in [Clients -> {"idle", "insert", "ensure", "seedAdmin", "seedUser",
                              "lateInsert", "lateEnsure", "create"}]
      BY DEF AInv, ATypeOK
    <3>2. DOMAIN req = Clients
      BY DEF AInv, ATypeOK
    <3>3. ASSUME NEW d \in Clients,
                 \/ Register(d) \/ InsertUser(d) \/ InsertUnanswered(d)
                 \/ InsertRefused(d) \/ DummyLogin(d) \/ DummySucceeds(d) \/ Seed(d)
                 \/ SeedAdmin(d) \/ SeedUser(d) \/ EnsureConflicts(d)
                 \/ EnsureFails(d) \/ CreateRoom(d) \/ CreateRoomFails(d)
          PROVE  pc[c] = "create" /\ req'[c] = req[c]
      BY <1>6, <3>1, <3>2, <3>3 DEF Register, InsertUser, InsertUnanswered, InsertRefused,
         DummyLogin, DummySucceeds, Seed, SeedAdmin, SeedUser, EnsureConflicts,
         EnsureFails, CreateRoom, CreateRoomFails, Begin, End
    <3>4. CASE \E d \in Clients : Authorize(d)
      BY <1>6, <3>1, <3>2, <3>4 DEF Authorize, Begin
    <3>5. CASE Login \/ Tick \/ RestartAuth \/ UNCHANGED avars
      BY <1>6, <3>1, <3>5 DEF Login, Tick, RestartAuth, avars
    <3>. QED  BY <3>3, <3>4, <3>5 DEF ANext
  <2>. QED  BY <2>1, <2>2, <2>3
<1>7. RoomsByAdmins'
  <2>1. CASE \E c \in Clients : CreateRoom(c)
    <3>1. PICK c \in Clients : CreateRoom(c)
      BY <2>1
    <3>2. pc[c] = "create" /\ rooms' = rooms \cup {req[c].id}
      BY <3>1 DEF CreateRoom
    <3>3. users'[req[c].id] # None /\ users'[req[c].id].role = "admin"
      BY <1>4, <3>2 DEF AInv, Forwarded
    <3>4. ASSUME NEW i \in {req[c].id} PROVE Names(i, "admin")'
      BY <3>3 DEF Names
    <3>. QED  BY <1>3, <3>2, <3>4 DEF RoomsByAdmins
  <2>2. CASE UNCHANGED rooms
    BY <1>3, <2>2 DEF RoomsByAdmins
  <2>3. ASSUME NEW c \in Clients,
               \/ Register(c) \/ InsertUser(c) \/ InsertUnanswered(c)
               \/ InsertRefused(c) \/ DummyLogin(c) \/ DummySucceeds(c) \/ Seed(c)
               \/ SeedAdmin(c) \/ SeedUser(c) \/ EnsureConflicts(c)
               \/ EnsureFails(c) \/ Authorize(c) \/ CreateRoomFails(c)
        PROVE  UNCHANGED rooms
    BY <2>3 DEF Register, InsertUser, InsertUnanswered, InsertRefused, DummyLogin,
       DummySucceeds, Seed, SeedAdmin, SeedUser, EnsureConflicts, EnsureFails, Authorize,
       CreateRoomFails
  <2>. QED  BY <2>1, <2>2, <2>3 DEF ANext, Login, Tick, RestartAuth, avars
<1>8. TokensNameUsers'
  BY <1>5, <1>6 DEF TokensNameUsers
<1>. QED  BY <1>7, <1>8

\* No token is signed, no identity forwarded and no room stored for an account
\* that is not in the table (DummyLogin, RequireAuth, CreateRoom).
THEOREM TokensAreHonest == ASpec => []TokensNameUsers
BY InitNames, NamesStep, AccountsInvariance, PTL DEF ASpec

\* The creator of every room is an administrator (RequireRole, CreateRoom).
THEOREM RoomsAreOfAdmins == ASpec => []RoomsByAdmins
BY InitNames, NamesStep, AccountsInvariance, PTL DEF ASpec

-----------------------------------------------------------------------------
(* Without the test mode *)

\* The part of NoAdminWithoutTestMode that is inductive.
OnlyUsers == lastTest = None =>
    \A i \in Ids : users[i] # None => users[i].role = "user" /\ i \notin Dummies

LEMMA OnlyUsersStep == AInv /\ OnlyUsers /\ [ANext]_avars => OnlyUsers'
<1>. SUFFICES ASSUME AInv, OnlyUsers, [ANext]_avars, (lastTest = None)',
                     NEW i \in Ids, users'[i] # None
              PROVE  users'[i].role = "user" /\ i \notin Dummies
  BY DEF OnlyUsers
<1>1. lastTest = None
  BY ClockStep
<1>2. users \in [Ids -> User \cup {None}]
  BY DEF AInv, ATypeOK
<1>. QED  BY <1>1, <1>2, TableChanges DEF TableChange, Added, OnlyUsers

\* From the rows follows what can be signed and stored.
LEMMA OnlyUsersEnough ==
    AInv /\ TokensNameUsers /\ RoomsByAdmins /\ OnlyUsers => NoAdminWithoutTestMode
BY DEF AInv, ATypeOK, Token, TokensNameUsers, RoomsByAdmins, Names, OnlyUsers,
   NoAdminWithoutTestMode

\* Administrators and test accounts exist only where the service has been in test
\* mode (Register, auth.go:62; DummyLogin, auth.go:124; Seed, auth.go:149).
THEOREM NoAdminOutsideTestMode == ASpec => []NoAdminWithoutTestMode
<1>1. AInit => OnlyUsers
  BY DEF AInit, OnlyUsers
<1>. QED  BY <1>1, OnlyUsersStep, OnlyUsersEnough, AccountsInvariance, TokensAreHonest,
          RoomsAreOfAdmins, PTL DEF ASpec

-----------------------------------------------------------------------------
(* Registered accounts *)

LEMMA LoginFinds == AInv => AccountsCanLogIn
<1>. SUFFICES ASSUME AInv, NEW g \in created, NEW e \in Spelling, e.box = g.email.box,
                     NEW i \in Ids
              PROVE  Found(e, i) <=> i = g.id /\ Opens(g.password, i)
  BY DEF AccountsCanLogIn
<1>1. g \in Registration /\ None \notin User
  BY AccountsAssumption DEF AInv, ATypeOK, User
<1>2. /\ g.id \in Ids
      /\ users[g.id] = [email |-> g.email, password |-> g.password, role |-> g.role]
      /\ users[g.id] \in User
  BY <1>1 DEF AInv, CreatedRows, Registration, User
<1>3. users[g.id] # None /\ g.password # None
  BY <1>1, <1>2, AccountsAssumption DEF Registration
<1>4. g.email = Normalized(g.email)
  BY <1>2, <1>3 DEF AInv, Addresses
<1>5. SameEmail(users[g.id].email, Normalized(e))
  <2>1. users[g.id].email = g.email
    BY <1>2
  <2>2. g.email.blank = FALSE
    BY <1>4 DEF Normalized
  <2>3. Normalized(e).box = g.email.box /\ Normalized(e).blank = FALSE
    BY DEF Normalized
  <2>. QED  BY <2>1, <2>2, <2>3 DEF SameEmail
<1>6. ASSUME Found(e, i), i # g.id PROVE FALSE
  <2>1. users[i] # None /\ SameEmail(users[i].email, users[g.id].email)
    BY <1>5, <1>6 DEF Found, SameEmail
  <2>. QED  BY <1>2, <1>3, <1>6, <2>1 DEF AInv, Addresses, Taken
<1>7. Opens(g.password, g.id)
  BY <1>2, <1>3 DEF Opens
<1>. QED  BY <1>3, <1>5, <1>6, <1>7 DEF Found

\* An account that was made can be logged in to for ever, by every spelling of
\* its address (Register, Login, GetByEmail).
THEOREM AccountsLast == ASpec => []AccountsCanLogIn
BY LoginFinds, AccountsInvariance, PTL

-----------------------------------------------------------------------------
(* Test accounts *)

\* An address that is taken stays taken, and a test account that it blocks is
\* never made.
LEMMA ConflictsStay ==
    ASSUME AInv, [ANext]_avars, NEW r \in Roles, Conflicts(r)
    PROVE  Conflicts(r)'
<1>1. users \in [Ids -> User \cup {None}]
  BY DEF AInv, ATypeOK
<1>2. users'[DummyId[r]] = None
  <2>1. CASE \E i \in Ids, u \in User : Added(i, u)
    <3>1. PICK i \in Ids, u \in User : Added(i, u)
      BY <2>1
    <3>2. i # DummyId[r]
      BY <3>1, DummyRows, DummiesDiffer DEF Added, Conflicts
    <3>. QED  BY <1>1, <3>1, <3>2, DummyRows DEF Added, Conflicts
  <2>. QED  BY <2>1, TableChanges DEF TableChange, Conflicts
<1>3. PICK j \in Ids : j # DummyId[r] /\ users[j] # None
                       /\ SameEmail(users[j].email, DummyUser(r).email)
  BY DEF Conflicts, Taken
<1>4. users'[j] = users[j]
  BY <1>3, RowsStay
<1>. QED  BY <1>2, <1>3, <1>4 DEF Conflicts, Taken

LEMMA SeedStep == AInv /\ SeedIsHonest /\ [ANext]_avars => SeedIsHonest'
<1>. SUFFICES ASSUME AInv, SeedIsHonest, [ANext]_avars PROVE SeedIsHonest'
  OBVIOUS
<1>1. blocked \subseteq Roles
  BY DEF AInv, ATypeOK
<1>2. \A r \in Roles : users[DummyId[r]] # None => users'[DummyId[r]] # None
  BY RowsStay, DummyRows
<1>3. \A r \in blocked : Conflicts(r)'
  BY <1>1, ConflictsStay DEF SeedIsHonest
<1>4. CASE \E c \in Clients : SeedUser(c)
  <2>1. PICK c \in Clients : SeedUser(c)
    BY <1>4
  <2>2. Ensuring(c) /\ EnsureUser(req[c]) /\ req[c] = "user"
    BY <2>1, RequestsHold DEF SeedUser, Ensuring, Requests
  <2>3. users'[DummyId["user"]] # None
    BY <2>2, EnsureAdds, DummyRows DEF Roles
  <2>4. users'[DummyId["admin"]] # None
    BY <1>2, <2>1, RequestsHold DEF SeedUser, Requests, Roles
  <2>. QED  BY <1>3, <2>1, <2>3, <2>4 DEF SeedUser, SeedIsHonest, Roles
<1>5. CASE \E c \in Clients : EnsureConflicts(c)
  <2>1. PICK c \in Clients : EnsureConflicts(c)
    BY <1>5
  <2>2. /\ Conflicts(req[c]) /\ req[c] \in Roles
        /\ blocked' = blocked \cup {req[c]} /\ UNCHANGED seeded
    BY <2>1 DEF EnsureConflicts, AInv, ATypeOK
  <2>3. \A r \in blocked' : Conflicts(r)'
    BY <1>3, <2>2, ConflictsStay
  <2>. QED  BY <1>2, <2>2, <2>3 DEF SeedIsHonest
<1>6. CASE UNCHANGED <<seeded, blocked>>
  BY <1>2, <1>3, <1>6 DEF SeedIsHonest
<1>7. CASE \/ \E c \in Clients :
                 \/ Register(c) \/ InsertUser(c) \/ InsertUnanswered(c)
                 \/ InsertRefused(c) \/ DummyLogin(c) \/ DummySucceeds(c) \/ Seed(c)
                 \/ SeedAdmin(c) \/ EnsureFails(c) \/ Authorize(c)
                 \/ CreateRoom(c) \/ CreateRoomFails(c)
           \/ Login \/ Tick \/ RestartAuth
  BY <1>6, <1>7 DEF Register, InsertUser, InsertUnanswered, InsertRefused, DummyLogin,
     DummySucceeds, Seed, SeedAdmin, EnsureFails, Authorize, CreateRoom, CreateRoomFails,
     Login, Tick, RestartAuth, history
<1>. QED  BY <1>4, <1>5, <1>6, <1>7 DEF ANext, avars, history

\* What seed answered is true and stays true, and a test account whose address is
\* somebody else's is never made (Seed, EnsureUser).
THEOREM SeedKeepsItsWord == ASpec => []SeedIsHonest
<1>1. AInit => SeedIsHonest
  BY DEF AInit, SeedIsHonest
<1>. QED  BY <1>1, SeedStep, AccountsInvariance, PTL DEF ASpec

\* Only Authorize lets a request in, with a token that is still valid.
LEMMA AdmittedInTime ==
    AInv /\ [ANext]_avars =>
        \A c \in Clients : Admitted(c) /\ req'[c].id \in Dummies =>
            lastTest # None /\ now < lastTest + TTL
<1>. SUFFICES ASSUME AInv, [ANext]_avars, NEW c \in Clients, Admitted(c),
                     req'[c].id \in Dummies
              PROVE  lastTest # None /\ now < lastTest + TTL
  OBVIOUS
<1>1. /\ pc \in [Clients -> {"idle", "insert", "ensure", "seedAdmin", "seedUser",
                             "lateInsert", "lateEnsure", "create"}]
      /\ DOMAIN req = Clients /\ tokens \subseteq Token
      /\ now \in Nat /\ lastTest \in Nat \cup {None} /\ TTL \in Nat
  BY AccountsAssumption DEF AInv, ATypeOK
<1>2. ASSUME NEW d \in Clients,
             \/ Register(d) \/ InsertUser(d) \/ InsertUnanswered(d)
             \/ InsertRefused(d) \/ DummyLogin(d) \/ DummySucceeds(d) \/ Seed(d)
             \/ SeedAdmin(d) \/ SeedUser(d) \/ EnsureConflicts(d)
             \/ EnsureFails(d) \/ CreateRoom(d) \/ CreateRoomFails(d)
      PROVE  FALSE
  BY <1>1, <1>2 DEF Admitted, Register, InsertUser, InsertUnanswered, InsertRefused,
     DummyLogin, DummySucceeds, Seed, SeedAdmin, SeedUser, EnsureConflicts, EnsureFails,
     CreateRoom, CreateRoomFails, Begin, End
<1>3. ~(Login \/ Tick \/ RestartAuth \/ UNCHANGED avars)
  BY <1>1 DEF Admitted, Login, Tick, RestartAuth, avars
<1>4. PICK d \in Clients : Authorize(d)
  BY <1>2, <1>3 DEF ANext
<1>5. PICK t \in tokens : Valid(t) /\ Begin(d, "create", [id |-> t.id, role |-> t.role])
  BY <1>4 DEF Authorize
<1>6. req'[c] = [id |-> t.id, role |-> t.role]
  BY <1>1, <1>5 DEF Admitted, Begin
<1>7. lastTest # None /\ t.exp <= lastTest + TTL /\ t.exp \in Nat
  BY <1>1, <1>6 DEF AInv, DummyTokens, Token
<1>. QED  BY <1>1, <1>5, <1>7 DEF Valid

\* A test account is let in no longer than a token's time after the mode was on
\* (DummyLogin, Login, ValidateToken).
THEOREM TestAccountsEnd == ASpec => DummiesEnd
BY AdmittedInTime, AccountsInvariance, PTL DEF ASpec, DummiesEnd

-----------------------------------------------------------------------------
(* What BookingSaga assumes of accounts *)

\* A row of users is never changed and never removed: the role and the id in the
\* headers of a request stay what they were when the token was signed, however
\* long the request takes (UserRepository has no UPDATE and no DELETE).
THEOREM RowsLast ==
    ASpec => [][\A i \in Ids : users[i] # None => users'[i] = users[i]]_users
<1> DEFINE Lasts == \A i \in Ids : users[i] # None => users'[i] = users[i]
<1>1. AInv /\ [ANext]_avars => [Lasts]_users
  <2>. SUFFICES ASSUME AInv, [ANext]_avars PROVE Lasts
    OBVIOUS
  <2>1. users \in [Ids -> User \cup {None}]
    BY DEF AInv, ATypeOK
  <2>. QED  BY <2>1, TableChanges DEF TableChange, Added
<1>. HIDE DEF Lasts
<1>2. ASpec => [][Lasts]_users
  BY <1>1, AccountsInvariance, PTL DEF ASpec
<1>. QED  BY <1>2 DEF Lasts
=============================================================================
