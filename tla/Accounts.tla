------------------------------ MODULE Accounts ------------------------------
(***************************************************************************)
(* User accounts: registration, login, the Admin and Super Admin routes    *)
(* (src/controllers/authController.js behind src/middleware/               *)
(* authMiddleware.js), the User schema (src/models/User.js) and the        *)
(* seeding of the Super Admin by every server process that starts          *)
(* (src/utils/seedSuperAdmin.js).                                          *)
(*                                                                         *)
(* A request is a call whose pc names the database operation it awaits:    *)
(*   protect -- findById of the token's user, then authorize/isSuperAdmin; *)
(*   find    -- the handler's own findOne or findById, then its checks;    *)
(*   compare -- bcrypt.compare, then the rest of login;                    *)
(*   write   -- User.create or findByIdAndUpdate, then the response.       *)
(* A request that fails the checks before its first await (400, no token)  *)
(* changes nothing and is left out.                                        *)
(***************************************************************************)
CONSTANTS Ids,        \* values of _id
          NoDoc,      \* this _id is not in the collection
          RawNames, RawEmails,  \* what clients type
          NameOf, EmailOf,      \* what the schema's setters make of it
          Blank,                \* the empty string
          SeedName, SeedEmail,  \* the Super Admin's, as stored
          Slots,      \* requests that can be in flight at once
          NoId,       \* no account
          Servers,    \* server processes
          Faults      \* operations may fail, processes may die

Usernames == {NameOf[n] : n \in RawNames} \cup {SeedName}
Addresses == {EmailOf[e] : e \in RawEmails} \cup {SeedEmail}

ASSUME AccountsAssumption ==
  /\ NoId \notin Ids
  /\ DOMAIN NameOf = RawNames /\ DOMAIN EmailOf = RawEmails
  /\ SeedName # Blank /\ SeedEmail # Blank
  /\ Faults \in BOOLEAN

Role     == {"Admin", "Agent"}
Approval == {"Pending", "Approved", "Rejected"}

\* The fields of the User schema that decide something.  Name is not one, and
\* the password is, through comparePassword, an input of login.
UserDoc == [username : Usernames, email : Addresses, role : Role,
            approvalStatus : Approval, isSuperAdmin : BOOLEAN]

ASSUME NoDocAssumption == NoDoc \notin UserDoc

VARIABLES users,   \* the users collection
          calls,   \* the requests in flight
          seeds,   \* how far each server process is with seedSuperAdmin
          tokens   \* the accounts that hold a token that has not expired

vars == <<users, calls, seeds, tokens>>

AdminOps == {"approve", "reject", "promote", "demote"}
Ops      == AdminOps \cup {"register", "login", "none"}

Call == [op : Ops, pc : {"idle", "protect", "find", "compare", "write"},
         actor : Ids \cup {NoId}, target : Ids \cup {NoId},
         username : Usernames, email : Addresses, seen : Approval]

Idle == [op |-> "none", pc |-> "idle", actor |-> NoId, target |-> NoId,
         username |-> SeedName, email |-> SeedEmail, seen |-> "Pending"]

TypeOK ==
  /\ users \in [Ids -> UserDoc \cup {NoDoc}]
  /\ calls \in [Slots -> Call]
  /\ seeds \in [Servers -> {"down", "find", "create", "up"}]
  /\ tokens \subseteq Ids

Init ==
  /\ users = [u \in Ids |-> NoDoc]
  /\ calls = [c \in Slots |-> Idle]
  /\ seeds = [p \in Servers |-> "down"]
  /\ tokens = {}

Accounts == {u \in Ids : users[u] # NoDoc}

\* The required validators.
Invalid(doc) == doc.username = Blank \/ doc.email = Blank

\* Mutant of Duplicate: the schema declares no unique index.
NeverDuplicate(doc) == FALSE

\* The unique indexes on username and email.
Duplicate(doc) == \E u \in Accounts : \/ users[u].username = doc.username
                                      \/ users[u].email = doc.email

\* User.create succeeds, under an _id that is not in use.
Insert(doc) ==
  /\ ~Invalid(doc) /\ ~Duplicate(doc)
  /\ \E u \in Ids \ Accounts : users' = [users EXCEPT ![u] = doc]

\* The accounts that findOne({ $or: [{ email }, { username }] }) can return.
Matching(n, e) == {u \in Accounts : users[u].username = n \/ users[u].email = e}

-----------------------------------------------------------------------------
(* Requests come in, are answered, fail.                                   *)

\* A server process takes requests as soon as it runs, seeded or not.
Start(c, call) ==
  /\ calls[c].pc = "idle"
  /\ \E p \in Servers : seeds[p] # "down"
  /\ calls' = [calls EXCEPT ![c] = call]
  /\ UNCHANGED <<users, seeds, tokens>>

RegisterRequest(c) ==
  \E n \in RawNames, e \in RawEmails :
    Start(c, [Idle EXCEPT !.op = "register", !.pc = "find",
                          !.username = NameOf[n], !.email = EmailOf[e]])

LoginRequest(c) ==
  \E e \in Addresses :
    Start(c, [Idle EXCEPT !.op = "login", !.pc = "find", !.email = e])

\* PATCH /api/auth/{approve,reject,promote,demote}/:userId with a valid token.
AdminRequest(c) ==
  \E op \in AdminOps, u \in tokens, t \in Ids :
    Start(c, [Idle EXCEPT !.op = op, !.pc = "protect", !.actor = u, !.target = t])

At(c, op, pc) == calls[c].op = op /\ calls[c].pc = pc

\* The response is sent.
Finish(c) == calls' = [calls EXCEPT ![c] = Idle]

GoOn(c, pc) == calls' = [calls EXCEPT ![c].pc = pc]

-----------------------------------------------------------------------------
(* register and login.                                                     *)

RegisterFind(c) ==
  /\ At(c, "register", "find")
  /\ \/ /\ Matching(calls[c].username, calls[c].email) # {}
        /\ Finish(c)                                        \* 409
     \/ /\ Matching(calls[c].username, calls[c].email) = {}
        /\ GoOn(c, "write")
  /\ UNCHANGED <<users, seeds, tokens>>

NewAgent(c) == [username |-> calls[c].username, email |-> calls[c].email,
                role |-> "Agent", approvalStatus |-> "Pending",
                isSuperAdmin |-> FALSE]

\* create rejects on a validation error or a duplicate key: 500.
RegisterCreate(c) ==
  /\ At(c, "register", "write")
  /\ \/ /\ Insert(NewAgent(c))
        /\ Finish(c)
     \/ /\ Invalid(NewAgent(c)) \/ Duplicate(NewAgent(c))
        /\ Finish(c)                                        \* 500
        /\ UNCHANGED users
  /\ UNCHANGED <<seeds, tokens>>

LoginFind(c) ==
  /\ At(c, "login", "find")
  /\ \/ /\ \A u \in Accounts : users[u].email # calls[c].email
        /\ Finish(c)
     \/ \E u \in Accounts :
          /\ users[u].email = calls[c].email
          /\ calls' = [calls EXCEPT ![c].pc = "compare", ![c].target = u,
                                    ![c].seen = users[u].approvalStatus]
  /\ UNCHANGED <<users, seeds, tokens>>

\* Mutant of LoginCompare: only a Rejected account is turned away.
LoginComparePending(c) ==
  /\ At(c, "login", "compare")
  /\ \/ Finish(c) /\ UNCHANGED tokens
     \/ /\ calls[c].seen # "Rejected"
        /\ tokens' = tokens \cup {calls[c].target}
        /\ Finish(c)
  /\ UNCHANGED <<users, seeds>>

\* The password matches or not; approvalStatus is the one findOne returned.
LoginCompare(c) ==
  /\ At(c, "login", "compare")
  /\ \/ Finish(c) /\ UNCHANGED tokens
     \/ /\ calls[c].seen \notin {"Pending", "Rejected"}
        /\ tokens' = tokens \cup {calls[c].target}
        /\ Finish(c)
  /\ UNCHANGED <<users, seeds>>

\* The seven days of a token are over.
TokenExpires(u) ==
  /\ u \in tokens
  /\ tokens' = tokens \ {u}
  /\ UNCHANGED <<users, calls, seeds>>

-----------------------------------------------------------------------------
(* The Admin and Super Admin routes.                                       *)

\* authorize('Admin') for approve and reject, isSuperAdmin for the others.
Allowed(doc, op) ==
  IF op \in {"approve", "reject"} THEN doc.role = "Admin" ELSE doc.isSuperAdmin

Protect(c) ==
  /\ calls[c].pc = "protect"
  /\ \/ /\ calls[c].actor \in Accounts
        /\ Allowed(users[calls[c].actor], calls[c].op)
        /\ GoOn(c, "find")
     \/ /\ calls[c].actor \in Accounts =>
             ~Allowed(users[calls[c].actor], calls[c].op)
        /\ Finish(c)
  /\ UNCHANGED <<users, seeds, tokens>>

\* findById(userId) and the handler's checks on what it returned.
Check(c, op, passes) ==
  /\ At(c, op, "find")
  /\ \/ calls[c].target \in Accounts /\ passes /\ GoOn(c, "write")
     \/ ~(calls[c].target \in Accounts /\ passes) /\ Finish(c)
  /\ UNCHANGED <<users, seeds, tokens>>

\* findByIdAndUpdate(userId, ...): doc is what the account becomes.
Store(c, op, doc) ==
  /\ At(c, op, "write")
  /\ users' = [users EXCEPT ![calls[c].target] = doc]
  /\ Finish(c)
  /\ UNCHANGED <<seeds, tokens>>

Target(c) == users[calls[c].target]

ApproveFind(c) ==
  Check(c, "approve", Target(c).role = "Agent" /\ Target(c).approvalStatus # "Approved")

ApproveUpdate(c) ==
  Store(c, "approve", [Target(c) EXCEPT !.approvalStatus = "Approved"])

\* Mutant of RejectFind: the check of the role is dropped.
RejectAnyRole(c) ==
  Check(c, "reject", ~Target(c).isSuperAdmin /\ Target(c).approvalStatus # "Rejected")

RejectFind(c) ==
  Check(c, "reject", Target(c).role = "Agent" /\ Target(c).approvalStatus # "Rejected")

RejectUpdate(c) ==
  Store(c, "reject", [Target(c) EXCEPT !.approvalStatus = "Rejected"])

PromoteFind(c) ==
  Check(c, "promote", ~Target(c).isSuperAdmin /\ Target(c).role # "Admin")

\* Mutant of PromoteUpdate: the approval is left as it was.
PromoteRoleOnly(c) ==
  Store(c, "promote", [Target(c) EXCEPT !.role = "Admin"])

PromoteUpdate(c) ==
  Store(c, "promote", [Target(c) EXCEPT !.role = "Admin", !.approvalStatus = "Approved"])

\* Mutant of DemoteFind: the check for the Super Admin is dropped.
DemoteAnyone(c) ==
  Check(c, "demote", Target(c).role # "Agent")

DemoteFind(c) ==
  Check(c, "demote", ~Target(c).isSuperAdmin /\ Target(c).role # "Agent")

\* Mutant of DemoteUpdate: a role that the schema's enum does not have.
DemoteToUser(c) ==
  Store(c, "demote", [Target(c) EXCEPT !.role = "User"])

DemoteUpdate(c) ==
  Store(c, "demote", [Target(c) EXCEPT !.role = "Agent"])

-----------------------------------------------------------------------------
(* Server processes start, seed the Super Admin, and die.                  *)

Boot(p) ==
  /\ seeds[p] = "down"
  /\ seeds' = [seeds EXCEPT ![p] = "find"]
  /\ UNCHANGED <<users, calls, tokens>>

\* Mutant of SeedFind: any account counts as the Super Admin.
SeedFindAnyone(p) ==
  /\ seeds[p] = "find"
  /\ seeds' = [seeds EXCEPT ![p] = IF Accounts # {} THEN "up" ELSE "create"]
  /\ UNCHANGED <<users, calls, tokens>>

SeedFind(p) ==
  /\ seeds[p] = "find"
  /\ seeds' = [seeds EXCEPT ![p] =
                 IF \E u \in Accounts : users[u].isSuperAdmin THEN "up" ELSE "create"]
  /\ UNCHANGED <<users, calls, tokens>>

SuperAdminDoc == [username |-> SeedName, email |-> SeedEmail, role |-> "Admin",
                  approvalStatus |-> "Approved", isSuperAdmin |-> TRUE]

\* A duplicate key is caught, logged and not tried again.
SeedCreate(p) ==
  /\ seeds[p] = "create"
  /\ \/ Insert(SuperAdminDoc)
     \/ Duplicate(SuperAdminDoc) /\ UNCHANGED users
  /\ seeds' = [seeds EXCEPT ![p] = "up"]
  /\ UNCHANGED <<calls, tokens>>

\* A database operation of seedSuperAdmin rejects: logged and not tried again.
SeedFails(p) ==
  /\ Faults
  /\ seeds[p] \in {"find", "create"}
  /\ seeds' = [seeds EXCEPT ![p] = "up"]
  /\ UNCHANGED <<users, calls, tokens>>

\* connectDB's process.exit(1), a deployment, a crash.
ServerDies(p) ==
  /\ Faults
  /\ seeds[p] # "down"
  /\ seeds' = [seeds EXCEPT ![p] = "down"]
  /\ UNCHANGED <<users, calls, tokens>>

\* The awaited operation of a request rejects (500, or 401 in protect), or its
\* server process dies.  A write that is applied and then not acknowledged is
\* the write itself with another response.
RequestFails(c) ==
  /\ Faults
  /\ calls[c].pc # "idle"
  /\ Finish(c)
  /\ UNCHANGED <<users, seeds, tokens>>

-----------------------------------------------------------------------------

Request(c) == RegisterRequest(c) \/ LoginRequest(c) \/ AdminRequest(c)

Progress(c) ==
  \/ RegisterFind(c) \/ RegisterCreate(c)
  \/ LoginFind(c)    \/ LoginCompare(c)
  \/ Protect(c)
  \/ ApproveFind(c)  \/ ApproveUpdate(c)
  \/ RejectFind(c)   \/ RejectUpdate(c)
  \/ PromoteFind(c)  \/ PromoteUpdate(c)
  \/ DemoteFind(c)   \/ DemoteUpdate(c)
  \/ RequestFails(c)

Seed(p) == SeedFind(p) \/ SeedCreate(p) \/ SeedFails(p)

Next ==
  \/ \E c \in Slots : Request(c) \/ Progress(c)
  \/ \E p \in Servers : Boot(p) \/ Seed(p) \/ ServerDies(p)
  \/ \E u \in Ids : TokenExpires(u)

Spec == Init /\ [][Next]_vars

\* No two requests in flight are about the same account.
NoOverlap ==
  \A c, d \in Slots :
    c # d => calls[c].target = NoId \/ calls[c].target # calls[d].target

\* A process that has started goes on with seedSuperAdmin: the driver answers
\* or reports an error, and Node runs the continuation.
SerialSpec == /\ Init /\ [][Next /\ NoOverlap']_vars
              /\ \A p \in Servers : WF_vars(Seed(p))

-----------------------------------------------------------------------------
(* Properties.                                                             *)

\* However many server processes seed at the same time, and whatever they
\* found before their create, there is at most one Super Admin.
OneSuperAdmin ==
  \A u, v \in Accounts : users[u].isSuperAdmin /\ users[v].isSuperAdmin => u = v

\* No request changes the Super Admin's account once it is there, also not one
\* that read the account earlier (authController.js:187,207).
SuperAdminUntouched ==
  [][\A u \in Accounts : users[u].isSuperAdmin => users'[u] = users[u]]_vars

\* Only accounts that an Admin has decided on get to hold a token: login looks
\* at a copy of the account that is old when it signs, but no decision is ever
\* taken back to Pending.
TokenAfterDecision ==
  \A u \in tokens : u \in Accounts /\ users[u].approvalStatus # "Pending"

\* What getPendingAgents returns.
PendingAgents ==
  {u \in Accounts : users[u].approvalStatus = "Pending" /\ users[u].role = "Agent"}

\* Every account that awaits approval is on the list from which Admins approve.
PendingListed ==
  \A u \in Accounts : users[u].approvalStatus = "Pending" => u \in PendingAgents

\* authController.js:167: only agents are rejected, so an Admin is Approved.
AdminIsApproved ==
  \A u \in Accounts : users[u].role = "Admin" => users[u].approvalStatus = "Approved"

\* Once a server process has started, there is a Super Admin some time later
\* (if no operation fails and nobody has taken the name or address).
SeedSettles ==
  \A p \in Servers :
    seeds[p] # "down" ~> \E u \in Accounts : users[u].isSuperAdmin
=============================================================================
