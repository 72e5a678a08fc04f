--------------------------- MODULE AccountsProofs ---------------------------
(***************************************************************************)
(* Proofs about Accounts, for any number of accounts, requests in flight   *)
(* and server processes, with failures.                                    *)
(*                                                                         *)
(* The properties rest on what is known about an account between the read  *)
(* on which a request decides and its write: accounts are never removed,   *)
(* isSuperAdmin and username never change, and approvalStatus never        *)
(* returns to Pending, so these parts of what was read are not stale.      *)
(***************************************************************************)
EXTENDS Accounts, TLAPS

\* What is known of a request in flight when the collection is us.
CallOK(us, call) ==
  /\ call \in Call
  /\ call.op \in AdminOps /\ call.pc = "write" =>
       call.target \in Ids /\ us[call.target] # NoDoc /\ ~us[call.target].isSuperAdmin
  /\ call.pc = "compare" =>
       /\ call.target \in Ids /\ us[call.target] # NoDoc
       /\ call.seen # "Pending" => us[call.target].approvalStatus # "Pending"

CallsOK == \A c \in Slots : CallOK(users, calls[c])

UniqueNames ==
  \A u, v \in Accounts : users[u].username = users[v].username => u = v

\* What every document is like: the Super Admin's has the seeded name, and a
\* pending account is an Agent's.
DocOK(doc) ==
  /\ doc \in UserDoc
  /\ doc.isSuperAdmin => doc.username = SeedName /\ doc.role = "Admin"
  /\ doc.approvalStatus = "Pending" => doc.role = "Agent"

DocsOK == \A u \in Accounts : DocOK(users[u])

IInv == TypeOK /\ CallsOK /\ UniqueNames /\ DocsOK /\ TokenAfterDecision

\* What findByIdAndUpdate may make of an account that is not the Super Admin's.
Updated(old, new) ==
  /\ DocOK(new)
  /\ new.username = old.username
  /\ ~old.isSuperAdmin /\ ~new.isSuperAdmin
  /\ new.approvalStatus = "Pending" => old.approvalStatus = "Pending"

\* What one step may do to the collection.
UsersStep ==
  \/ UNCHANGED users
  \/ \E doc \in UserDoc : DocOK(doc) /\ Insert(doc)
  \/ \E t \in Accounts, doc \in UserDoc :
       Updated(users[t], doc) /\ users' = [users EXCEPT ![t] = doc]

\* What a step does to each account that is there before it.
LEMMA AccountsStay ==
  ASSUME TypeOK, UsersStep, NEW u \in Accounts
  PROVE  /\ u \in Accounts'
         /\ users'[u] = users[u] \/ Updated(users[u], users'[u])
<1>1. CASE UNCHANGED users
  BY <1>1, Zenon DEF Accounts
<1>2. CASE \E doc \in UserDoc : DocOK(doc) /\ Insert(doc)
  BY <1>2, Zenon DEF Insert, Accounts, TypeOK
<1>3. CASE \E t \in Accounts, doc \in UserDoc :
             Updated(users[t], doc) /\ users' = [users EXCEPT ![t] = doc]
  BY <1>3, NoDocAssumption, Zenon DEF Accounts, TypeOK
<1>4. QED
  BY <1>1, <1>2, <1>3, Zenon DEF UsersStep

\* What was known of a request stays known while others change accounts.
LEMMA CallsStay ==
  ASSUME TypeOK, UsersStep, NEW call, CallOK(users, call)
  PROVE  CallOK(users', call)
BY AccountsStay, Zenon DEF CallOK, Accounts, Updated

\* Every step keeps usernames unique and documents in shape.
LEMMA UsersOK ==
  ASSUME TypeOK, UniqueNames, DocsOK, UsersStep
  PROVE  users' \in [Ids -> UserDoc \cup {NoDoc}] /\ UniqueNames' /\ DocsOK'
<1>1. CASE UNCHANGED users
  BY <1>1, Zenon DEF TypeOK, UniqueNames, DocsOK, Accounts
<1>2. CASE \E doc \in UserDoc : DocOK(doc) /\ Insert(doc)
  BY <1>2 DEF TypeOK, UniqueNames, DocsOK, Accounts, Insert, Duplicate
<1>3. CASE \E t \in Accounts, doc \in UserDoc :
             Updated(users[t], doc) /\ users' = [users EXCEPT ![t] = doc]
  <2>1. PICK t \in Accounts, doc \in UserDoc :
             Updated(users[t], doc) /\ users' = [users EXCEPT ![t] = doc]
    BY <1>3, Zenon
  <2>2. Accounts' = Accounts
    BY <2>1, NoDocAssumption, Zenon DEF Accounts, TypeOK
  <2>3. \A u \in Accounts : users'[u].username = users[u].username
    BY <2>1, Zenon DEF Accounts, TypeOK, Updated
  <2>4. users' \in [Ids -> UserDoc \cup {NoDoc}]
    BY <2>1, Zenon DEF TypeOK
  <2>5. DocsOK'
    BY <2>1, <2>2, Zenon DEF DocsOK, Updated, Accounts, TypeOK
  <2>6. QED
    BY <2>2, <2>3, <2>4, <2>5 DEF UniqueNames
<1>4. QED
  BY <1>1, <1>2, <1>3, Zenon DEF UsersStep

\* A step that changes one call, to one that is in order.
LEMMA OneCall ==
  ASSUME TypeOK, CallsOK, UsersStep, NEW c \in Slots, NEW call,
         CallOK(users', call), calls' = [calls EXCEPT ![c] = call]
  PROVE  calls' \in [Slots -> Call] /\ CallsOK'
<1>1. \A d \in Slots : CallOK(users', calls[d])
  BY CallsStay, Zenon DEF CallsOK
<1>2. call \in Call
  BY Zenon DEF CallOK
<1>3. QED
  BY <1>1, <1>2, Zenon DEF TypeOK, CallsOK

\* A request that is answered is in order.
LEMMA FinishOK ==
  ASSUME TypeOK, CallsOK, UsersStep, NEW c \in Slots, Finish(c)
  PROVE  calls' \in [Slots -> Call] /\ CallsOK'
<1>1. Idle \in Call /\ Idle.pc = "idle"
  BY Zenon DEF Idle, Call, Ops, Usernames, Addresses, Approval
<1>2. CallOK(users', Idle)
  BY <1>1, Zenon DEF CallOK
<1>3. QED
  BY <1>2, OneCall, Zenon DEF Finish

\* A request that goes on to a database operation about which nothing, or as
\* much as CallOK asks, is known.
LEMMA GoOnOK ==
  ASSUME TypeOK, CallsOK, UNCHANGED users, NEW c \in Slots,
         NEW pc \in {"find", "write"}, GoOn(c, pc),
         calls[c].op \in AdminOps /\ pc = "write" =>
           calls[c].target \in Accounts /\ ~users[calls[c].target].isSuperAdmin
  PROVE  calls' \in [Slots -> Call] /\ CallsOK'
<1> DEFINE call == [calls[c] EXCEPT !.pc = pc]
<1>1. call \in Call /\ call.pc = pc /\ call.op = calls[c].op /\ call.target = calls[c].target
  BY Zenon DEF TypeOK, Call
<1>2. CallOK(users', call)
  BY <1>1, Zenon DEF CallOK, Accounts
<1>3. calls' = [calls EXCEPT ![c] = call]
  BY Zenon DEF GoOn, TypeOK, Call
<1> HIDE DEF call
<1>4. QED
  BY <1>2, <1>3, OneCall, Zenon DEF UsersStep

-----------------------------------------------------------------------------
(* The steps.                                                              *)

Steps ==
  /\ UsersStep
  /\ calls' \in [Slots -> Call] /\ CallsOK'
  /\ seeds' \in [Servers -> {"down", "find", "create", "up"}]
  /\ \/ tokens' \subseteq tokens
     \/ \E u \in Accounts : /\ users[u].approvalStatus # "Pending"
                            /\ tokens' = tokens \cup {u}

\* A request that comes in knows nothing yet.
LEMMA StartOK ==
  ASSUME IInv, NEW c \in Slots, NEW call \in Call, call.pc \in {"find", "protect"},
         Start(c, call)
  PROVE  Steps
<1>1. CallOK(users', call)
  BY Zenon DEF CallOK
<1>2. UsersStep
  BY Zenon DEF UsersStep, Start
<1>3. calls' \in [Slots -> Call] /\ CallsOK'
  BY <1>1, <1>2, OneCall, Zenon DEF IInv, Start
<1>4. QED
  BY <1>2, <1>3, Zenon DEF Steps, IInv, TypeOK, Start

\* The three kinds of requests.
LEMMA RequestOK ==
  ASSUME IInv, NEW c \in Slots, Request(c)
  PROVE  Steps
<1>1. CASE RegisterRequest(c)
  <2>1. PICK n \in RawNames, e \in RawEmails :
          Start(c, [Idle EXCEPT !.op = "register", !.pc = "find",
                                !.username = NameOf[n], !.email = EmailOf[e]])
    BY <1>1, Zenon DEF RegisterRequest
  <2>2. [Idle EXCEPT !.op = "register", !.pc = "find",
                     !.username = NameOf[n], !.email = EmailOf[e]] \in Call
    BY Zenon DEF Idle, Call, Ops, Usernames, Addresses, Approval
  <2>3. QED
    BY <2>1, <2>2, StartOK, Zenon DEF Idle
<1>2. CASE LoginRequest(c)
  <2>1. PICK e \in Addresses :
          Start(c, [Idle EXCEPT !.op = "login", !.pc = "find", !.email = e])
    BY <1>2, Zenon DEF LoginRequest
  <2>2. [Idle EXCEPT !.op = "login", !.pc = "find", !.email = e] \in Call
    BY Zenon DEF Idle, Call, Ops, Usernames, Approval
  <2>3. QED
    BY <2>1, <2>2, StartOK, Zenon DEF Idle
<1>3. CASE AdminRequest(c)
  <2>1. PICK op \in AdminOps, u \in tokens, t \in Ids :
          Start(c, [Idle EXCEPT !.op = op, !.pc = "protect", !.actor = u, !.target = t])
    BY <1>3, Zenon DEF AdminRequest
  <2>2. u \in Ids
    BY Zenon DEF IInv, TypeOK
  <2>3. [Idle EXCEPT !.op = op, !.pc = "protect", !.actor = u, !.target = t] \in Call
    BY <2>2, Zenon DEF Idle, Call, Ops, Usernames, Addresses, Approval
  <2>4. QED
    BY <2>1, <2>3, StartOK, Zenon DEF Idle
<1>4. QED
  BY <1>1, <1>2, <1>3, Zenon DEF Request

\* Registration inserts a pending Agent, or nothing.
LEMMA RegisterOK ==
  ASSUME IInv, NEW c \in Slots, RegisterFind(c) \/ RegisterCreate(c)
  PROVE  Steps
<1>1. NewAgent(c) \in UserDoc /\ DocOK(NewAgent(c))
  BY Zenon DEF IInv, TypeOK, Call, NewAgent, UserDoc, Role, Approval, DocOK
<1>2. UsersStep
  BY <1>1, Zenon DEF RegisterFind, RegisterCreate, UsersStep
<1>3. calls' \in [Slots -> Call] /\ CallsOK'
  <2>1. CASE Finish(c)
    BY <2>1, <1>2, FinishOK, Zenon DEF IInv
  <2>2. CASE At(c, "register", "find") /\ GoOn(c, "write") /\ UNCHANGED users
    BY <2>2, GoOnOK, Zenon DEF IInv, At, AdminOps
  <2>3. QED
    BY <2>1, <2>2, Zenon DEF RegisterFind, RegisterCreate
<1>4. UNCHANGED <<seeds, tokens>>
  BY Zenon DEF RegisterFind, RegisterCreate
<1>5. QED
  BY <1>2, <1>3, <1>4, Zenon DEF Steps, IInv, TypeOK

\* login: what it read of the approval is not stale in the one way that counts.
LEMMA LoginOK ==
  ASSUME IInv, NEW c \in Slots, LoginFind(c) \/ LoginCompare(c)
  PROVE  Steps
<1>1. UsersStep /\ UNCHANGED <<users, seeds>>
  BY Zenon DEF LoginFind, LoginCompare, UsersStep
<1>2. CASE LoginFind(c)
  <2>1. CASE Finish(c)
    BY <1>1, <1>2, <2>1, FinishOK, Zenon DEF IInv, Steps, TypeOK, LoginFind
  <2>2. CASE \E u \in Accounts :
               calls' = [calls EXCEPT ![c].pc = "compare", ![c].target = u,
                                      ![c].seen = users[u].approvalStatus]
    <3>1. PICK u \in Accounts :
               calls' = [calls EXCEPT ![c].pc = "compare", ![c].target = u,
                                      ![c].seen = users[u].approvalStatus]
      BY <2>2, Zenon
    <3> DEFINE call == [calls[c] EXCEPT !.pc = "compare", !.target = u,
                                        !.seen = users[u].approvalStatus]
    <3>2. users[u] \in UserDoc /\ u \in Ids /\ users[u] # NoDoc
      BY Zenon DEF IInv, TypeOK, Accounts
    <3>3. users[u].approvalStatus \in Approval
      BY <3>2, Zenon DEF UserDoc
    <3>a. calls[c] \in Call
      BY Zenon DEF IInv, TypeOK
    <3>4. call \in Call /\ call.pc = "compare" /\ call.target = u
                       /\ call.seen = users[u].approvalStatus
      BY <3>2, <3>3, <3>a, Zenon DEF Call
    <3>5. calls' = [calls EXCEPT ![c] = call]
      BY <3>1, Zenon DEF IInv, TypeOK, Call
    <3> HIDE DEF call
    <3>6. CallOK(users', call)
      BY <1>1, <3>2, <3>4, Zenon DEF CallOK
    <3>7. QED
      BY <1>1, <1>2, <3>5, <3>6, OneCall, Zenon DEF IInv, Steps, TypeOK, LoginFind
  <2>3. QED
    BY <1>2, <2>1, <2>2, Zenon DEF LoginFind
<1>3. CASE LoginCompare(c)
  <2>1. calls' \in [Slots -> Call] /\ CallsOK'
    BY <1>1, <1>3, FinishOK, Zenon DEF IInv, LoginCompare
  <2>2. \/ UNCHANGED tokens
        \/ /\ calls[c].target \in Accounts
           /\ users[calls[c].target].approvalStatus # "Pending"
           /\ tokens' = tokens \cup {calls[c].target}
    BY <1>3, Zenon DEF LoginCompare, At, IInv, CallsOK, CallOK, Accounts
  <2>3. QED
    BY <1>1, <2>1, <2>2, Zenon DEF Steps, IInv, TypeOK
<1>4. QED
  BY <1>2, <1>3, Zenon

\* protect and the middleware after it only read.
LEMMA ProtectOK ==
  ASSUME IInv, NEW c \in Slots, Protect(c)
  PROVE  Steps
<1>1. UNCHANGED <<users, seeds, tokens>>
  BY Zenon DEF Protect
<1>2. calls' \in [Slots -> Call] /\ CallsOK'
  <2>1. CASE Finish(c)
    BY <1>1, <2>1, FinishOK, Zenon DEF IInv, UsersStep
  <2>2. CASE GoOn(c, "find")
    BY <1>1, <2>2, GoOnOK, Zenon DEF IInv
  <2>3. QED
    BY <2>1, <2>2, Zenon DEF Protect
<1>3. QED
  BY <1>1, <1>2, Zenon DEF Steps, UsersStep, IInv, TypeOK

\* The checks of the Admin handlers let no Super Admin pass: approve and
\* reject look for the role, promote and demote for isSuperAdmin.
LEMMA CheckOK ==
  ASSUME IInv, NEW c \in Slots,
         ApproveFind(c) \/ RejectFind(c) \/ PromoteFind(c) \/ DemoteFind(c)
  PROVE  Steps
<1>1. UNCHANGED <<users, seeds, tokens>>
  BY Zenon DEF ApproveFind, RejectFind, PromoteFind, DemoteFind, Check
<1>2. \/ Finish(c)
      \/ /\ GoOn(c, "write")
         /\ calls[c].target \in Accounts
         /\ Target(c).role = "Agent" \/ ~Target(c).isSuperAdmin
  BY Zenon DEF ApproveFind, RejectFind, PromoteFind, DemoteFind, Check
<1>3. calls' \in [Slots -> Call] /\ CallsOK'
  <2>1. CASE Finish(c)
    BY <1>1, <2>1, FinishOK, Zenon DEF IInv, UsersStep
  <2>2. CASE /\ GoOn(c, "write")
             /\ calls[c].target \in Accounts
             /\ Target(c).role = "Agent" \/ ~Target(c).isSuperAdmin
    <3>1. ~users[calls[c].target].isSuperAdmin
      BY <2>2, Zenon DEF IInv, DocsOK, DocOK, Target
    <3>2. QED
      BY <1>1, <2>2, <3>1, GoOnOK, Zenon DEF IInv
  <2>3. QED
    BY <1>2, <2>1, <2>2, Zenon
<1>4. QED
  BY <1>1, <1>3, Zenon DEF Steps, UsersStep, IInv, TypeOK

\* The updates of the Admin handlers.
LEMMA StoreOK ==
  ASSUME IInv, NEW c \in Slots,
         ApproveUpdate(c) \/ RejectUpdate(c) \/ PromoteUpdate(c) \/ DemoteUpdate(c)
  PROVE  Steps
<1> DEFINE t == calls[c].target
           old == users[t]
<1>1. /\ calls[c].op \in AdminOps /\ calls[c].pc = "write"
      /\ UNCHANGED <<seeds, tokens>> /\ Finish(c)
  BY Zenon DEF ApproveUpdate, RejectUpdate, PromoteUpdate, DemoteUpdate, Store, At, AdminOps
<1>2. t \in Accounts /\ ~old.isSuperAdmin
  BY <1>1, Zenon DEF IInv, CallsOK, CallOK, Accounts
<1>3. DocOK(old)
  BY <1>2, Zenon DEF IInv, DocsOK
<1>4. PICK doc : /\ users' = [users EXCEPT ![t] = doc]
                 /\ \/ doc = [old EXCEPT !.approvalStatus = "Approved"]
                    \/ doc = [old EXCEPT !.approvalStatus = "Rejected"]
                    \/ doc = [old EXCEPT !.role = "Admin", !.approvalStatus = "Approved"]
                    \/ doc = [old EXCEPT !.role = "Agent"]
  BY Zenon DEF ApproveUpdate, RejectUpdate, PromoteUpdate, DemoteUpdate, Store, Target
<1> HIDE DEF t, old
<1>5. doc \in UserDoc /\ Updated(old, doc)
  BY <1>2, <1>3, <1>4, Zenon DEF UserDoc, Updated, DocOK, Role, Approval
<1>6. UsersStep
  BY <1>2, <1>4, <1>5, Zenon DEF UsersStep, old
<1>7. calls' \in [Slots -> Call] /\ CallsOK'
  BY <1>1, <1>6, FinishOK, Zenon DEF IInv
<1>8. QED
  BY <1>1, <1>6, <1>7, Zenon DEF Steps, IInv, TypeOK

\* A request that fails is answered and changes nothing.
LEMMA RequestFailsOK ==
  ASSUME IInv, NEW c \in Slots, RequestFails(c)
  PROVE  Steps
<1>1. UNCHANGED <<users, seeds, tokens>>
  BY Zenon DEF RequestFails
<1>2. calls' \in [Slots -> Call] /\ CallsOK'
  BY <1>1, FinishOK, Zenon DEF RequestFails, IInv, UsersStep
<1>3. QED
  BY <1>1, <1>2, Zenon DEF Steps, UsersStep, IInv, TypeOK

\* Server processes only insert the Super Admin.
LEMMA ServersOK ==
  ASSUME IInv, NEW p \in Servers, Boot(p) \/ Seed(p) \/ ServerDies(p)
  PROVE  Steps
<1>1. SuperAdminDoc \in UserDoc /\ DocOK(SuperAdminDoc)
  BY Zenon DEF SuperAdminDoc, UserDoc, Usernames, Addresses, Role, Approval, DocOK
<1>2. UsersStep
  BY <1>1, Zenon DEF Boot, Seed, SeedFind, SeedCreate, SeedFails, ServerDies, UsersStep
<1>3. UNCHANGED <<calls, tokens>>
  BY Zenon DEF Boot, Seed, SeedFind, SeedCreate, SeedFails, ServerDies
<1>4. seeds' \in [Servers -> {"down", "find", "create", "up"}]
  BY Zenon DEF Boot, Seed, SeedFind, SeedCreate, SeedFails, ServerDies, IInv, TypeOK
<1>5. calls' \in [Slots -> Call] /\ CallsOK'
  BY <1>2, <1>3, CallsStay, Zenon DEF IInv, TypeOK, CallsOK
<1>6. QED
  BY <1>2, <1>3, <1>4, <1>5, Zenon DEF Steps

\* Every step.
LEMMA NextOK ==
  ASSUME IInv, Next
  PROVE  Steps
<1>1. ASSUME NEW u \in Ids, TokenExpires(u) PROVE Steps
  BY <1>1, Zenon DEF TokenExpires, Steps, UsersStep, IInv, TypeOK, CallsOK
<1>2. ASSUME NEW c \in Slots, Progress(c) PROVE Steps
  BY <1>2, RegisterOK, LoginOK, ProtectOK, CheckOK, StoreOK, RequestFailsOK, Zenon
    DEF Progress
<1>3. QED
  BY <1>1, <1>2, RequestOK, ServersOK, Zenon DEF Next

-----------------------------------------------------------------------------
(* The theorems.                                                           *)

\* The inductive invariant holds of an empty collection and an idle server.
LEMMA InitOK == Init => IInv
<1> SUFFICES ASSUME Init PROVE IInv
  OBVIOUS
<1>1. Idle \in Call /\ Idle.pc = "idle"
  BY Zenon DEF Idle, Call, Ops, Usernames, Addresses, Approval
<1>2. TypeOK /\ CallsOK
  BY <1>1, Zenon DEF Init, TypeOK, CallsOK, CallOK
<1>3. Accounts = {} /\ tokens = {}
  BY Zenon DEF Init, Accounts
<1>4. QED
  BY <1>2, <1>3, Zenon DEF IInv, UniqueNames, DocsOK, TokenAfterDecision

\* Every step preserves the inductive invariant.
LEMMA StepOK == IInv /\ [Next]_vars => IInv'
<1> SUFFICES ASSUME IInv, [Next]_vars PROVE IInv'
  OBVIOUS
<1>1. CASE Next
  <2>1. Steps
    BY <1>1, NextOK, Zenon
  <2>2. users' \in [Ids -> UserDoc \cup {NoDoc}] /\ UniqueNames' /\ DocsOK'
    BY <2>1, UsersOK, Zenon DEF Steps, IInv
  <2>3. TokenAfterDecision'
    <3>1. \A u \in Accounts :
            users[u].approvalStatus # "Pending" =>
              u \in Accounts' /\ users'[u].approvalStatus # "Pending"
      BY <2>1, AccountsStay, Zenon DEF Steps, IInv, Updated
    <3>2. QED
      BY <2>1, <3>1, Zenon DEF Steps, IInv, TokenAfterDecision
  <2>4. tokens' \subseteq Ids
    BY <2>3, Zenon DEF TokenAfterDecision, Accounts
  <2>5. QED
    BY <2>1, <2>2, <2>3, <2>4, Zenon DEF IInv, TypeOK, Steps
<1>2. CASE UNCHANGED vars
  BY <1>2, Zenon DEF vars, IInv, TypeOK, CallsOK, UniqueNames, DocsOK, Accounts,
    TokenAfterDecision
<1>3. QED
  BY <1>1, <1>2, Zenon

\* The collection and the requests of authController.js stay well-formed.
THEOREM TypeCorrect == Spec => []TypeOK
<1>1. IInv => TypeOK
  BY Zenon DEF IInv
<1>2. QED
  BY InitOK, StepOK, <1>1, PTL DEF Spec

\* Any number of server processes that run seedSuperAdmin at the same time
\* leave at most one Super Admin.
THEOREM SingleSuperAdmin == Spec => []OneSuperAdmin
<1>1. IInv => OneSuperAdmin
  BY Zenon DEF IInv, UniqueNames, DocsOK, DocOK, OneSuperAdmin
<1>2. QED
  BY InitOK, StepOK, <1>1, PTL DEF Spec

\* login never gives a token to an account no Admin has decided on.
THEOREM TokensDecided == Spec => []TokenAfterDecision
<1>1. IInv => TokenAfterDecision
  BY Zenon DEF IInv
<1>2. QED
  BY InitOK, StepOK, <1>1, PTL DEF Spec

\* getPendingAgents returns every account that awaits approval.
THEOREM AllPendingListed == Spec => []PendingListed
<1>1. IInv => PendingListed
  BY Zenon DEF IInv, DocsOK, DocOK, PendingListed, PendingAgents
<1>2. QED
  BY InitOK, StepOK, <1>1, PTL DEF Spec

\* No request changes the Super Admin's account.
THEOREM SuperAdminSafe == Spec => SuperAdminUntouched
<1>1. IInv /\ [Next]_vars =>
        [\A u \in Accounts : users[u].isSuperAdmin => users'[u] = users[u]]_vars
  <2> SUFFICES ASSUME IInv, Next, NEW u \in Accounts, users[u].isSuperAdmin
               PROVE  users'[u] = users[u]
    BY Zenon DEF vars
  <2>1. Steps
    BY NextOK, Zenon
  <2>2. QED
    BY <2>1, AccountsStay, Zenon DEF Steps, IInv, Updated
<1>2. QED
  BY InitOK, StepOK, <1>1, PTL DEF Spec, SuperAdminUntouched
-----------------------------------------------------------------------------
(* Requests that do not overlap.                                           *)

\* What a reject knows when it writes: the account is an Agent's still.
Harmless(us, call) ==
  call.op = "reject" /\ call.pc = "write" => us[call.target].role = "Agent"

AllHarmless == \A c \in Slots : Harmless(users, calls[c])

SerialInv == IInv /\ AdminIsApproved /\ NoOverlap /\ AllHarmless

\* What a step may do to the calls.
CallsStep ==
  \/ UNCHANGED calls
  \/ \E c \in Slots, call \in Call : /\ calls' = [calls EXCEPT ![c] = call]
                                     /\ Harmless(users, call)

\* An answered request rejects nobody.
LEMMA FinishHarmless ==
  ASSUME NEW c \in Slots, Finish(c)
  PROVE  CallsStep
<1>1. Idle \in Call /\ Idle.op = "none"
  BY Zenon DEF Idle, Call, Ops, Usernames, Addresses, Approval
<1>2. QED
  BY <1>1, Zenon DEF Finish, CallsStep, Harmless

\* A request that goes on to its find, or to its write after a check.
LEMMA GoOnHarmless ==
  ASSUME TypeOK, NEW c \in Slots, NEW pc \in {"find", "write"}, GoOn(c, pc),
         calls[c].op = "reject" /\ pc = "write" => users[calls[c].target].role = "Agent"
  PROVE  CallsStep
<1> DEFINE call == [calls[c] EXCEPT !.pc = pc]
<1>1. call \in Call /\ call.pc = pc /\ call.op = calls[c].op /\ call.target = calls[c].target
  BY DEF TypeOK, Call
<1>2. calls' = [calls EXCEPT ![c] = call]
  BY Zenon DEF GoOn, TypeOK, Call
<1> HIDE DEF call
<1>3. QED
  BY <1>1, <1>2, Zenon DEF CallsStep, Harmless

\* A request that comes in is not at its write yet.
LEMMA RequestHarmless ==
  ASSUME TypeOK, NEW c \in Slots, Request(c)
  PROVE  CallsStep
<1>1. ASSUME NEW call \in Call, call.pc \in {"find", "protect"}, Start(c, call)
      PROVE  CallsStep
  BY <1>1, Zenon DEF Start, CallsStep, Harmless
<1>2. CASE RegisterRequest(c)
  <2>1. PICK n \in RawNames, e \in RawEmails :
          Start(c, [Idle EXCEPT !.op = "register", !.pc = "find",
                                !.username = NameOf[n], !.email = EmailOf[e]])
    BY <1>2, Zenon DEF RegisterRequest
  <2>2. [Idle EXCEPT !.op = "register", !.pc = "find",
                     !.username = NameOf[n], !.email = EmailOf[e]] \in Call
    BY Zenon DEF Idle, Call, Ops, Usernames, Addresses, Approval
  <2>3. QED
    BY <2>1, <2>2, <1>1, Zenon DEF Idle
<1>3. CASE LoginRequest(c)
  <2>1. PICK e \in Addresses :
          Start(c, [Idle EXCEPT !.op = "login", !.pc = "find", !.email = e])
    BY <1>3, Zenon DEF LoginRequest
  <2>2. [Idle EXCEPT !.op = "login", !.pc = "find", !.email = e] \in Call
    BY Zenon DEF Idle, Call, Ops, Usernames, Approval
  <2>3. QED
    BY <2>1, <2>2, <1>1, Zenon DEF Idle
<1>4. CASE AdminRequest(c)
  <2>1. PICK op \in AdminOps, u \in tokens, t \in Ids :
          Start(c, [Idle EXCEPT !.op = op, !.pc = "protect", !.actor = u, !.target = t])
    BY <1>4, Zenon DEF AdminRequest
  <2>2. [Idle EXCEPT !.op = op, !.pc = "protect", !.actor = u, !.target = t] \in Call
    BY Zenon DEF TypeOK, Idle, Call, Ops, Usernames, Addresses, Approval
  <2>3. QED
    BY <2>1, <2>2, <1>1, Zenon DEF Idle
<1>5. QED
  BY <1>2, <1>3, <1>4, Zenon DEF Request

\* Every step moves one request, and a reject only on an Agent.
LEMMA NextHarmless ==
  ASSUME TypeOK, Next
  PROVE  CallsStep
<1>1. ASSUME NEW c \in Slots, Progress(c) PROVE CallsStep
  <2>1. CASE Finish(c)
    BY <2>1, FinishHarmless, Zenon
  <2>2. CASE GoOn(c, "find")
    BY <2>2, GoOnHarmless, Zenon
  <2>3. CASE RegisterFind(c) /\ GoOn(c, "write")
    BY <2>3, GoOnHarmless, Zenon DEF RegisterFind, At
  <2>4. CASE /\ ApproveFind(c) \/ RejectFind(c) \/ PromoteFind(c) \/ DemoteFind(c)
             /\ GoOn(c, "write") /\ ~Finish(c)
    <3>1. calls[c].op = "reject" => users[calls[c].target].role = "Agent"
      BY <2>4, Zenon DEF ApproveFind, RejectFind, PromoteFind, DemoteFind, Check, At, Target
    <3>2. QED
      BY <2>4, <3>1, GoOnHarmless, Zenon
  <2>5. CASE \E u \in Accounts :
               calls' = [calls EXCEPT ![c].pc = "compare", ![c].target = u,
                                      ![c].seen = users[u].approvalStatus]
    <3>1. PICK u \in Accounts :
               calls' = [calls EXCEPT ![c].pc = "compare", ![c].target = u,
                                      ![c].seen = users[u].approvalStatus]
      BY <2>5, Zenon
    <3> DEFINE call == [calls[c] EXCEPT !.pc = "compare", !.target = u,
                                        !.seen = users[u].approvalStatus]
    <3>2. users[u] \in UserDoc /\ u \in Ids
      BY Zenon DEF TypeOK, Accounts
    <3>3. users[u].approvalStatus \in Approval
      BY <3>2, Zenon DEF UserDoc
    <3>a. calls[c] \in Call
      BY Zenon DEF TypeOK
    <3>4. call \in Call /\ call.pc = "compare"
      BY <3>2, <3>3, <3>a, Zenon DEF Call
    <3>5. calls' = [calls EXCEPT ![c] = call]
      BY <3>1, Zenon DEF TypeOK, Call
    <3> HIDE DEF call
    <3>6. QED
      BY <3>4, <3>5, Zenon DEF CallsStep, Harmless
  <2>6. QED
    BY <1>1, <2>1, <2>2, <2>3, <2>4, <2>5, Zenon
    DEF Progress, RegisterFind, RegisterCreate, LoginFind, LoginCompare, Protect,
        ApproveFind, RejectFind, PromoteFind, DemoteFind, Check, ApproveUpdate,
        RejectUpdate, PromoteUpdate, DemoteUpdate, Store, RequestFails
<1>2. ASSUME NEW p \in Servers, Boot(p) \/ Seed(p) \/ ServerDies(p) PROVE CallsStep
  BY <1>2, Zenon DEF Boot, Seed, SeedFind, SeedCreate, SeedFails, ServerDies, CallsStep
<1>3. ASSUME NEW u \in Ids, TokenExpires(u) PROVE CallsStep
  BY <1>3, Zenon DEF TokenExpires, CallsStep
<1>4. QED
  BY <1>1, <1>2, <1>3, RequestHarmless, Zenon DEF Next

\* An Admin's document says Approved.
Approved(doc) == doc.role = "Admin" => doc.approvalStatus = "Approved"

\* The write of a request is its last step.
OneAnswered == UNCHANGED calls \/ \E c \in Slots : Finish(c)

\* What a step may do to the collection when an Admin is never rejected.
ApprovedStep ==
  \/ UNCHANGED users
  \/ OneAnswered /\ \E doc \in UserDoc : Approved(doc) /\ Insert(doc)
  \/ \E c \in Slots, doc \in UserDoc :
       /\ calls[c].target \in Accounts /\ Approved(doc)
       /\ users' = [users EXCEPT ![calls[c].target] = doc]
       /\ Finish(c)

\* A reject writes on what is an Agent's account still, a promote approves.
LEMMA StoreApproved ==
  ASSUME IInv, AdminIsApproved, AllHarmless, NEW c \in Slots,
         ApproveUpdate(c) \/ RejectUpdate(c) \/ PromoteUpdate(c) \/ DemoteUpdate(c)
  PROVE  ApprovedStep
<1> DEFINE t == calls[c].target
           old == users[t]
<1>1. calls[c].op \in AdminOps /\ calls[c].pc = "write" /\ Finish(c)
  BY Zenon DEF ApproveUpdate, RejectUpdate, PromoteUpdate, DemoteUpdate, Store, At, AdminOps
<1>2. t \in Accounts
  BY <1>1, Zenon DEF IInv, CallsOK, CallOK, Accounts
<1>3. old \in UserDoc /\ Approved(old)
  BY <1>2, Zenon DEF IInv, DocsOK, DocOK, AdminIsApproved, Approved
<1>4. RejectUpdate(c) => old.role = "Agent"
  BY Zenon DEF RejectUpdate, Store, At, AllHarmless, Harmless
<1>5. PICK doc : /\ users' = [users EXCEPT ![t] = doc]
                 /\ \/ doc = [old EXCEPT !.approvalStatus = "Approved"]
                    \/ /\ doc = [old EXCEPT !.approvalStatus = "Rejected"]
                       /\ old.role = "Agent"
                    \/ doc = [old EXCEPT !.role = "Admin", !.approvalStatus = "Approved"]
                    \/ doc = [old EXCEPT !.role = "Agent"]
  BY <1>4, Zenon DEF ApproveUpdate, RejectUpdate, PromoteUpdate, DemoteUpdate, Store, Target
<1> HIDE DEF old
<1>6. doc \in UserDoc /\ Approved(doc)
  BY <1>3, <1>5, Zenon DEF UserDoc, Approved, Role, Approval
<1>7. QED
  BY <1>1, <1>2, <1>5, <1>6, Zenon DEF ApprovedStep

\* Every step.
LEMMA NextApproved ==
  ASSUME IInv, AdminIsApproved, AllHarmless, Next
  PROVE  ApprovedStep
<1>1. ASSUME NEW c \in Slots, RegisterCreate(c) PROVE ApprovedStep
  <2>1. NewAgent(c) \in UserDoc /\ Approved(NewAgent(c))
    BY Zenon DEF NewAgent, Approved, IInv, TypeOK, Call, UserDoc, Role, Approval
  <2>2. QED
    BY <1>1, <2>1, Zenon DEF RegisterCreate, ApprovedStep, OneAnswered
<1>2. ASSUME NEW p \in Servers, SeedCreate(p) PROVE ApprovedStep
  <2>1. SuperAdminDoc \in UserDoc /\ Approved(SuperAdminDoc)
    BY Zenon DEF SuperAdminDoc, Approved, UserDoc, Usernames, Addresses, Role, Approval
  <2>2. QED
    BY <1>2, <2>1, Zenon DEF SeedCreate, ApprovedStep, OneAnswered
<1>3. ASSUME NEW c \in Slots, Progress(c) PROVE ApprovedStep
  <2>1. CASE UNCHANGED users
    BY <2>1, Zenon DEF ApprovedStep
  <2>2. QED
    BY <1>1, <1>3, <2>1, StoreApproved, Zenon
    DEF Progress, RegisterFind, LoginFind, LoginCompare, Protect, ApproveFind,
        RejectFind, PromoteFind, DemoteFind, Check, RequestFails
<1>4. ASSUME NEW c \in Slots, Request(c) PROVE ApprovedStep
  BY <1>4, Zenon DEF Request, RegisterRequest, LoginRequest, AdminRequest, Start, ApprovedStep
<1>5. ASSUME NEW p \in Servers, Boot(p) \/ Seed(p) \/ ServerDies(p) PROVE ApprovedStep
  BY <1>2, <1>5, Zenon DEF Boot, Seed, SeedFind, SeedFails, ServerDies, ApprovedStep
<1>6. ASSUME NEW u \in Ids, TokenExpires(u) PROVE ApprovedStep
  BY <1>6, Zenon DEF TokenExpires, ApprovedStep
<1>7. QED
  BY <1>3, <1>4, <1>5, <1>6, Zenon DEF Next

\* What a reject knows stays true: the account it is about is written by no
\* other request in flight.
LEMMA HarmlessStays ==
  ASSUME IInv, NoOverlap, AllHarmless, CallsStep, ApprovedStep
  PROVE  AllHarmless'
<1> SUFFICES ASSUME NEW d \in Slots, calls'[d].op = "reject", calls'[d].pc = "write"
             PROVE  users'[calls'[d].target].role = "Agent"
  BY Zenon DEF AllHarmless, Harmless
<1>1. CASE UNCHANGED users
  BY <1>1, Zenon DEF CallsStep, AllHarmless, Harmless, IInv, TypeOK
<1>2. Idle.op = "none"
  BY Zenon DEF Idle
<1>3. ASSUME calls'[d] = calls[d]
      PROVE  /\ calls[d].target \in Ids /\ users[calls[d].target] # NoDoc
             /\ users[calls[d].target].role = "Agent"
  BY <1>3, Zenon DEF IInv, CallsOK, CallOK, AdminOps, AllHarmless, Harmless
<1>4. CASE OneAnswered /\ \E doc \in UserDoc : Approved(doc) /\ Insert(doc)
  <2>1. calls'[d] = calls[d]
    BY <1>2, <1>4, Zenon DEF OneAnswered, Finish, IInv, TypeOK
  <2>2. users'[calls[d].target] = users[calls[d].target]
    BY <1>3, <1>4, <2>1, Zenon DEF Insert, Accounts, IInv, TypeOK
  <2>3. QED
    BY <1>3, <2>1, <2>2, Zenon
<1>5. CASE \E c \in Slots, doc \in UserDoc :
             /\ calls[c].target \in Accounts /\ Approved(doc)
             /\ users' = [users EXCEPT ![calls[c].target] = doc]
             /\ Finish(c)
  <2>1. PICK c \in Slots, doc \in UserDoc :
          /\ calls[c].target \in Accounts
          /\ users' = [users EXCEPT ![calls[c].target] = doc]
          /\ Finish(c)
    BY <1>5, Zenon
  <2>2. c # d /\ calls'[d] = calls[d]
    BY <1>2, <2>1, Zenon DEF Finish, IInv, TypeOK
  <2>3. calls[c].target # NoId
    BY <2>1, AccountsAssumption, Zenon DEF Accounts
  <2>4. calls[c].target # calls[d].target
    BY <2>2, <2>3, Zenon DEF NoOverlap
  <2>5. users'[calls[d].target] = users[calls[d].target]
    BY <1>3, <2>1, <2>2, <2>4, Zenon DEF IInv, TypeOK
  <2>6. QED
    BY <1>3, <2>2, <2>5, Zenon
<1>6. QED
  BY <1>1, <1>4, <1>5, Zenon DEF ApprovedStep

\* No step of this kind leaves an Admin who is not approved.
LEMMA ApprovedStays ==
  ASSUME users \in [Ids -> UserDoc \cup {NoDoc}], AdminIsApproved, ApprovedStep
  PROVE  AdminIsApproved'
<1> SUFFICES ASSUME NEW u \in Ids, users'[u] # NoDoc PROVE Approved(users'[u])
  BY Zenon DEF AdminIsApproved, Accounts, Approved
<1>1. users[u] # NoDoc => Approved(users[u])
  BY Zenon DEF AdminIsApproved, Accounts, Approved
<1>2. users'[u] = users[u] \/ Approved(users'[u])
  BY Zenon DEF ApprovedStep, Insert, Accounts
<1>3. QED
  BY <1>1, <1>2, Zenon

\* Requests that do not overlap leave every Admin approved.
LEMMA SerialStep == SerialInv /\ [Next /\ NoOverlap']_vars => SerialInv'
<1> SUFFICES ASSUME SerialInv, [Next /\ NoOverlap']_vars PROVE SerialInv'
  OBVIOUS
<1>1. CASE Next /\ NoOverlap'
  <2>1. IInv'
    BY <1>1, StepOK, Zenon DEF SerialInv
  <2>2. ApprovedStep
    BY <1>1, NextApproved, Zenon DEF SerialInv
  <2>3. CallsStep
    BY <1>1, NextHarmless, Zenon DEF SerialInv, IInv
  <2>4. AllHarmless'
    BY <2>2, <2>3, HarmlessStays, Zenon DEF SerialInv
  <2>5. AdminIsApproved'
    BY <2>2, ApprovedStays, Zenon DEF SerialInv, IInv, TypeOK
  <2>6. QED
    BY <1>1, <2>1, <2>4, <2>5, Zenon DEF SerialInv
<1>2. CASE UNCHANGED vars
  <2>1. IInv'
    BY <1>2, StepOK, Zenon DEF SerialInv
  <2>2. QED
    BY <1>2, <2>1, Zenon DEF vars, SerialInv, AdminIsApproved, Accounts, NoOverlap,
      AllHarmless, Harmless
<1>3. QED
  BY <1>1, <1>2, Zenon

\* authController.js:167, for any number of accounts: as long as no two
\* requests in flight are about the same account, every Admin is Approved.
THEOREM AdminsApproved == SerialSpec => []AdminIsApproved
<1>1. Init => SerialInv
  <2> SUFFICES ASSUME Init PROVE SerialInv
    OBVIOUS
  <2>1. AdminIsApproved
    BY Zenon DEF Init, AdminIsApproved, Accounts
  <2>2. \A c \in Slots : calls[c].op = "none" /\ calls[c].target = NoId
    BY Zenon DEF Init, Idle
  <2>3. NoOverlap /\ AllHarmless
    BY <2>2, Zenon DEF NoOverlap, AllHarmless, Harmless
  <2>4. QED
    BY InitOK, <2>1, <2>3, Zenon DEF SerialInv
<1>2. SerialInv => AdminIsApproved
  BY Zenon DEF SerialInv
<1>3. QED
  BY SerialStep, <1>1, <1>2, PTL DEF SerialSpec

=============================================================================
