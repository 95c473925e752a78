------------------------------ MODULE AuthFlow ------------------------------
(***************************************************************************)
(* Passwordless sign-in: registration, one-time codes, invitations,        *)
(* sessions and household switching.                                       *)
(*                                                                         *)
(* Source: internal/handler/auth.go and the stores under it, and           *)
(* internal/middleware/auth.go.  Every request runs on a goroutine of its  *)
(* own and talks to SQLite one statement at a time with no transaction     *)
(* around the handler, so each statement that writes is a step and other   *)
(* requests run between two of them.  Reads that open a handler are taken  *)
(* with its first step: users and memberships are only ever added          *)
(* (RemoveMember and Delete have no caller), so the pair of reads is worth *)
(* one.  A statement that fails, a rand or mail error and a process that   *)
(* dies all leave the same trace, the steps done so far: Abort.            *)
(*                                                                         *)
(* A code's digits are abstracted to its row (the token column is UNIQUE), *)
(* and a person types the code that is looked up or one that is wrong.  A  *)
(* mail that is lost or late is a code nobody types, so sending it is no   *)
(* step of its own.  Time is abstracted to expiry: a code or a session     *)
(* lapses at any moment, and a code that lapsed, was used or was withdrawn *)
(* is one that is no longer pending.                                       *)
(* Two pending codes of one address may carry the same second in           *)
(* created_at, so "latest" is any of them.                                 *)
(***************************************************************************)
EXTENDS Naturals, Sequences, FiniteSets

CONSTANTS
    Handlers,         \* requests that may be in flight at once
    Emails,           \* addresses; a user is its address (users.email is UNIQUE)
    maxCodeAttempts,  \* wrong codes after which a code is withdrawn (5)
    MaxHouseholds,    \* bound on households created
    MaxCodes,         \* bound on rows of magic_links
    MaxSessions       \* bound on rows of sessions

ASSUME HandlersAssumption == IsFiniteSet(Handlers)
ASSUME AttemptsAssumption == maxCodeAttempts \in Nat \ {0}
ASSUME BoundsAssumption ==
    MaxHouseholds \in Nat /\ MaxCodes \in Nat /\ MaxSessions \in Nat

VARIABLES
    users,     \* rows of users
    created,   \* number of households created; their ids are 1..created
    members,   \* household_members: the role of each address in each household
    seeded,    \* households whose defaults are in place
    codes,     \* rows of magic_links, in order of insertion
    sessions,  \* rows of sessions, in order of insertion
    request,   \* what each handler is doing
    broken     \* history: addresses whose sign-up was cut short half way

vars == <<users, created, members, seeded, codes, sessions, request, broken>>

HouseholdIDs == 1..MaxHouseholds
None == 0                         \* the nil household of a login code
Roles == {"none", "member", "admin"}
Purposes == {"login", "register", "invite"}
Pages == {"verify", "accept"}     \* POST /auth/verify and POST /invite/accept

Code == [email : Emails, purpose : Purposes, household : HouseholdIDs \cup {None},
         by : Emails,             \* who caused it: the inviter, or the owner
         pending : BOOLEAN, attempts : Nat]

Session == [user : Emails, household : HouseholdIDs,
            code : 1..MaxCodes,   \* history: the code that opened it
            live : BOOLEAN]

(***************************************************************************)
(* A request between two statements: the statement that comes next, the    *)
(* address it serves, the household it carries, its purpose or page, the   *)
(* code or session row it refers to and who is behind it.                  *)
(***************************************************************************)
SignUpSteps == {"household", "user", "admin", "seed"}
CreateSteps == {"invalidate", "insert"}
RefuseSteps == {"exhausted", "wrong", "lockout"}
SpentSteps == {"who", "find", "newuser", "join", "session"}
Steps == SignUpSteps \cup CreateSteps \cup RefuseSteps \cup {"matched"}
            \cup SpentSteps \cup {"switch"}

Request == [pc : Steps, email : Emails, household : HouseholdIDs \cup {None},
            kind : Purposes \cup Pages \cup {"switch"}, ref : Nat, by : Emails]

Idle == [pc |-> "idle"]

TypeOK ==
    /\ users \subseteq Emails
    /\ created \in 0..MaxHouseholds
    /\ members \in [HouseholdIDs -> [Emails -> Roles]]
    /\ seeded \subseteq HouseholdIDs
    /\ codes \in Seq(Code) /\ Len(codes) <= MaxCodes
    /\ sessions \in Seq(Session) /\ Len(sessions) <= MaxSessions
    /\ request \in [Handlers -> Request \cup {Idle}]
    /\ broken \subseteq Emails

-----------------------------------------------------------------------------

Pending(e) == {c \in DOMAIN codes : codes[c].email = e /\ codes[c].pending}

HouseholdsOf(e) == {hh \in HouseholdIDs : members[hh][e] # "none"}

Init ==
    /\ users = {} /\ created = 0 /\ seeded = {} /\ broken = {}
    /\ members = [hh \in HouseholdIDs |-> [e \in Emails |-> "none"]]
    /\ codes = <<>> /\ sessions = <<>>
    /\ request = [h \in Handlers |-> Idle]

At(h, pc) == request[h].pc = pc

Goto(h, pc) == request' = [request EXCEPT ![h].pc = pc]

Done(h) == request' = [request EXCEPT ![h] = Idle]

Begin(h, r) == At(h, "idle") /\ request' = [request EXCEPT ![h] = r]

(***************************************************************************)
(* POST /login: unknown addresses and users without a household are        *)
(* turned away without a word; the others are sent a code.                 *)
(***************************************************************************)
Login(h, e) ==
    /\ e \in users /\ HouseholdsOf(e) # {}
    /\ Begin(h, [pc |-> "invalidate", email |-> e, household |-> None,
                 kind |-> "login", ref |-> 0, by |-> e])
    /\ UNCHANGED <<users, created, members, seeded, codes, sessions, broken>>

(***************************************************************************)
(* POST /register for an address not yet known: household, user, admin     *)
(* membership, defaults, then a code.                                      *)
(***************************************************************************)
Register(h, e) ==
    /\ e \notin users
    /\ Begin(h, [pc |-> "household", email |-> e, household |-> None,
                 kind |-> "register", ref |-> 0, by |-> e])
    /\ UNCHANGED <<users, created, members, seeded, codes, sessions, broken>>

CreateHousehold(h) ==
    /\ At(h, "household") /\ created < MaxHouseholds
    /\ created' = created + 1
    /\ request' = [request EXCEPT ![h].pc = "user", ![h].household = created + 1]
    /\ UNCHANGED <<users, members, seeded, codes, sessions, broken>>

(***************************************************************************)
(* The INSERT of a user, by Register and by an accepted invitation; the    *)
(* UNIQUE address makes the slower of two requests fail.                   *)
(***************************************************************************)
(* Fault: a new user is signed in and never joined. *)
CreateUserBug(h) ==
    /\ At(h, "user") \/ At(h, "newuser")
    /\ IF request[h].email \in users
       THEN Done(h) /\ UNCHANGED users
       ELSE /\ users' = users \cup {request[h].email}
            /\ Goto(h, IF At(h, "user") THEN "admin" ELSE "session")
    /\ UNCHANGED <<created, members, seeded, codes, sessions, broken>>

CreateUser(h) ==
    /\ At(h, "user") \/ At(h, "newuser")
    /\ IF request[h].email \in users
       THEN Done(h) /\ UNCHANGED users
       ELSE /\ users' = users \cup {request[h].email}
            /\ Goto(h, IF At(h, "user") THEN "admin" ELSE "join")
    /\ UNCHANGED <<created, members, seeded, codes, sessions, broken>>

AddAdmin(h) ==
    /\ At(h, "admin")
    /\ members' = [members EXCEPT ![request[h].household][request[h].email] = "admin"]
    /\ Goto(h, "seed")
    /\ UNCHANGED <<users, created, seeded, codes, sessions, broken>>

SeedDefaults(h) ==
    /\ At(h, "seed")
    /\ seeded' = seeded \cup {request[h].household}
    /\ Goto(h, "invalidate")
    /\ UNCHANGED <<users, created, members, codes, sessions, broken>>

(***************************************************************************)
(* MagicLinkStore.Create: the UPDATE that withdraws the address's pending  *)
(* codes and the INSERT of the new one, which is then mailed.              *)
(***************************************************************************)
(* Fault: the older codes stay. *)
InvalidateBug(h) ==
    /\ At(h, "invalidate") /\ Goto(h, "insert")
    /\ UNCHANGED <<users, created, members, seeded, codes, sessions, broken>>

Invalidate(h) ==
    /\ At(h, "invalidate")
    /\ codes' = [c \in DOMAIN codes |->
                    IF c \in Pending(request[h].email)
                    THEN [codes[c] EXCEPT !.pending = FALSE] ELSE codes[c]]
    /\ Goto(h, "insert")
    /\ UNCHANGED <<users, created, members, seeded, sessions, broken>>

InsertCode(h) ==
    /\ At(h, "insert") /\ Len(codes) < MaxCodes
    /\ codes' = Append(codes,
                    [email |-> request[h].email, purpose |-> request[h].kind,
                     household |-> request[h].household, by |-> request[h].by,
                     pending |-> TRUE, attempts |-> 0])
    /\ Done(h)
    /\ UNCHANGED <<users, created, members, seeded, sessions, broken>>

(***************************************************************************)
(* validateCode, from the read of the latest pending code c: its attempts  *)
(* and its token are judged as they were when it was read.                 *)
(***************************************************************************)
(* Fault: the lookup does not ask for used_at IS NULL. *)
EnterBug(h, page, c, pc) ==
    /\ Begin(h, [pc |-> pc, email |-> codes[c].email, household |-> None,
                 kind |-> page, ref |-> c, by |-> codes[c].email])
    /\ UNCHANGED <<users, created, members, seeded, codes, sessions, broken>>

Enter(h, page, c, pc) ==
    /\ codes[c].pending
    /\ Begin(h, [pc |-> pc, email |-> codes[c].email, household |-> None,
                 kind |-> page, ref |-> c, by |-> codes[c].email])
    /\ UNCHANGED <<users, created, members, seeded, codes, sessions, broken>>

(* Fault: the count is not looked at before the code. *)
MayTryBug(c) == TRUE

MayTry(c) == codes[c].attempts < maxCodeAttempts

\* The two pages treat a refused code alike, so only one of them is enumerated.
EnterExhausted(h, c) == ~MayTry(c) /\ Enter(h, "verify", c, "exhausted")

EnterWrong(h, c) == MayTry(c) /\ Enter(h, "verify", c, "wrong")

EnterRight(h, page, c) == MayTry(c) /\ Enter(h, page, c, "matched")

(***************************************************************************)
(* IncrementAttempts adds one and reads the count back; when that read     *)
(* fails the handler goes on with 0 and the code stays pending.            *)
(***************************************************************************)
IncrementAttempts(h) ==
    LET c == request[h].ref
        readBack == {codes[c].attempts + 1, 0}
    IN  /\ At(h, "wrong")
        /\ codes' = [codes EXCEPT ![c].attempts = @ + 1]
        /\ \E n \in readBack :
              IF n >= maxCodeAttempts THEN Goto(h, "lockout") ELSE Done(h)
        /\ UNCHANGED <<users, created, members, seeded, sessions, broken>>

MarkUsed(h) ==
    /\ At(h, "exhausted") \/ At(h, "lockout") \/ At(h, "matched")
    /\ codes' = [codes EXCEPT ![request[h].ref].pending = FALSE]
    /\ IF At(h, "matched")
       THEN Goto(h, IF request[h].kind = "verify" THEN "who" ELSE "find")
       ELSE Done(h)
    /\ UNCHANGED <<users, created, members, seeded, sessions, broken>>

(***************************************************************************)
(* Verify after its code is spent: the user must exist and belong          *)
(* somewhere; the code's household wins over the user's first one, and the *)
(* name order of the first one is left open.                               *)
(***************************************************************************)
(* Fault: a code without a household has no fallback. *)
DetermineHouseholdBug(h) ==
    LET e  == request[h].email
        of == codes[request[h].ref].household
    IN  /\ At(h, "who")
        /\ IF e \in users /\ HouseholdsOf(e) # {}
           THEN request' = [request EXCEPT ![h].pc = "session", ![h].household = of]
           ELSE Done(h)
        /\ UNCHANGED <<users, created, members, seeded, codes, sessions, broken>>

DetermineHousehold(h) ==
    LET e  == request[h].email
        of == codes[request[h].ref].household
        choices == IF of = None THEN HouseholdsOf(e) ELSE {of}
    IN  /\ At(h, "who")
        /\ IF e \in users /\ HouseholdsOf(e) # {}
           THEN \E hh \in choices :
                   request' = [request EXCEPT ![h].pc = "session", ![h].household = hh]
           ELSE Done(h)
        /\ UNCHANGED <<users, created, members, seeded, codes, sessions, broken>>

(***************************************************************************)
(* InviteAccept after its code is spent: a code of another purpose is      *)
(* refused; then the user is looked up, or created by CreateUser.          *)
(***************************************************************************)
FindInvited(h) ==
    LET c == codes[request[h].ref]
    IN  /\ At(h, "find")
        /\ IF c.purpose # "invite" \/ c.household = None
           THEN Done(h)
           ELSE request' = [request EXCEPT
                               ![h].pc = IF c.email \in users THEN "join" ELSE "newuser",
                               ![h].household = c.household]
        /\ UNCHANGED <<users, created, members, seeded, codes, sessions, broken>>

(* Fault: an existing membership is overwritten. *)
JoinHouseholdBug(h) ==
    /\ At(h, "join")
    /\ members' = [members EXCEPT ![request[h].household][request[h].email] = "member"]
    /\ Goto(h, "session")
    /\ UNCHANGED <<users, created, seeded, codes, sessions, broken>>

\* An INSERT that meets an existing membership fails and is forgiven.
JoinHousehold(h) ==
    /\ At(h, "join")
    /\ members' = [members EXCEPT ![request[h].household][request[h].email] =
                      IF @ = "none" THEN "member" ELSE @]
    /\ Goto(h, "session")
    /\ UNCHANGED <<users, created, seeded, codes, sessions, broken>>

CreateSession(h) ==
    /\ At(h, "session") /\ Len(sessions) < MaxSessions
    /\ sessions' = Append(sessions,
                      [user |-> request[h].email, household |-> request[h].household,
                       code |-> request[h].ref, live |-> TRUE])
    /\ Done(h)
    /\ UNCHANGED <<users, created, members, seeded, codes, broken>>

(***************************************************************************)
(* RequireAuth: the session is live and its user still belongs to its      *)
(* household; the handler runs with that household and that role.          *)
(***************************************************************************)
Authenticated(s) ==
    sessions[s].live /\ members[sessions[s].household][sessions[s].user] # "none"

RoleOf(s) == members[sessions[s].household][sessions[s].user]

MayInvite(s) == RoleOf(s) = "admin"

Invite(h, s, e) ==
    /\ Authenticated(s) /\ MayInvite(s)
    /\ Begin(h, [pc |-> "invalidate", email |-> e, household |-> sessions[s].household,
                 kind |-> "invite", ref |-> 0, by |-> sessions[s].user])
    /\ UNCHANGED <<users, created, members, seeded, codes, sessions, broken>>

(* Fault: membership is not verified. *)
MaySwitchToBug(s, hh) == TRUE

MaySwitchTo(s, hh) == hh \in HouseholdsOf(sessions[s].user)

SwitchHousehold(h, s, hh) ==
    /\ Authenticated(s) /\ MaySwitchTo(s, hh)
    /\ Begin(h, [pc |-> "switch", email |-> sessions[s].user, household |-> hh,
                 kind |-> "switch", ref |-> s, by |-> sessions[s].user])
    /\ UNCHANGED <<users, created, members, seeded, codes, sessions, broken>>

\* The UPDATE by row id finds nothing when the session has gone meanwhile.
UpdateHouseholdID(h) ==
    /\ At(h, "switch")
    /\ sessions' = [sessions EXCEPT ![request[h].ref].household =
                       IF sessions[request[h].ref].live THEN request[h].household ELSE @]
    /\ Done(h)
    /\ UNCHANGED <<users, created, members, seeded, codes, broken>>

\* POST /logout sits behind RequireAuth and deletes the row by its id.
Logout(s) ==
    /\ Authenticated(s)
    /\ sessions' = [sessions EXCEPT ![s].live = FALSE]
    /\ UNCHANGED <<users, created, members, seeded, codes, request, broken>>

(***************************************************************************)
(* An error return or the end of the process: the rest of the handler does *)
(* not happen.  An address is broken when its user row is in place and its *)
(* membership or the household's defaults are not yet.                     *)
(***************************************************************************)
Abort(h) ==
    /\ ~At(h, "idle")
    /\ broken' = IF request[h].pc \in {"admin", "seed", "join"}
                 THEN broken \cup {request[h].email} ELSE broken
    /\ Done(h)
    /\ UNCHANGED <<users, created, members, seeded, codes, sessions>>

ExpireCode(c) ==
    /\ codes[c].pending
    /\ codes' = [codes EXCEPT ![c].pending = FALSE]
    /\ UNCHANGED <<users, created, members, seeded, sessions, request, broken>>

\* Ninety days pass; the hourly cleanup then deletes the row nobody can use.
ExpireSession(s) ==
    /\ sessions[s].live
    /\ sessions' = [sessions EXCEPT ![s].live = FALSE]
    /\ UNCHANGED <<users, created, members, seeded, codes, request, broken>>

Public(h) ==
    \/ \E e \in Emails : Login(h, e) \/ Register(h, e)
    \/ \E c \in DOMAIN codes :
          \/ EnterExhausted(h, c) \/ EnterWrong(h, c)
          \/ \E page \in Pages : EnterRight(h, page, c)

Protected(h) ==
    \E s \in DOMAIN sessions :
        \/ \E e \in Emails : Invite(h, s, e)
        \/ \E hh \in HouseholdIDs : SwitchHousehold(h, s, hh)

Continue(h) ==
    \/ CreateHousehold(h) \/ CreateUser(h) \/ AddAdmin(h) \/ SeedDefaults(h)
    \/ Invalidate(h) \/ InsertCode(h)
    \/ IncrementAttempts(h) \/ MarkUsed(h)
    \/ DetermineHousehold(h) \/ FindInvited(h) \/ JoinHousehold(h)
    \/ CreateSession(h) \/ UpdateHouseholdID(h)
    \/ Abort(h)

Next ==
    \/ \E h \in Handlers : Public(h) \/ Protected(h) \/ Continue(h)
    \/ \E s \in DOMAIN sessions : Logout(s) \/ ExpireSession(s)
    \/ \E c \in DOMAIN codes : ExpireCode(c)

Spec == Init /\ [][Next]_vars

-----------------------------------------------------------------------------

(***************************************************************************)
(* Nobody joins a household but through an invitation its admin wrote to   *)
(* that address and somebody spent, and its admin is whoever registered    *)
(* it: no interleaving of invitations, switches and codes typed on the     *)
(* wrong page admits anyone else.                                          *)
(***************************************************************************)
MembersWereAdmitted ==
    \A hh \in HouseholdIDs, e \in Emails :
        members[hh][e] = "member" =>
            \E c \in DOMAIN codes :
                /\ codes[c].purpose = "invite" /\ ~codes[c].pending
                /\ codes[c].email = e /\ codes[c].household = hh
                /\ members[hh][codes[c].by] = "admin"

(***************************************************************************)
(* A session belongs to the address of the code that opened it, the code   *)
(* is spent, and the household is one of the user's -- or, when an    *)
(* invitation is typed on the sign-in page, the one invited to, which      *)
(* RequireAuth then refuses on every request.                              *)
(***************************************************************************)
SessionsAreBacked ==
    \A s \in DOMAIN sessions :
        LET c == codes[sessions[s].code] IN
        /\ ~c.pending /\ c.email = sessions[s].user
        /\ \/ sessions[s].household \in HouseholdsOf(sessions[s].user)
           \/ c.purpose = "invite" /\ c.household = sessions[s].household

(***************************************************************************)
(* A code takes at most maxCodeAttempts wrong guesses, plus one for every  *)
(* further request that had read the count before it was full -- even when *)
(* the statement that withdraws the code fails.                            *)
(***************************************************************************)
AttemptsAreBounded ==
    \A c \in DOMAIN codes :
        codes[c].attempts <= maxCodeAttempts + Cardinality(Handlers) - 1

(***************************************************************************)
(* Create withdraws the older codes first: requests that do not overlap    *)
(* leave one pending code per address, and n that overlap at most n, those *)
(* about to be inserted counted in.                                        *)
(***************************************************************************)
Inserting(e) == {h \in Handlers : At(h, "insert") /\ request[h].email = e}

PendingAreBounded ==
    \A e \in Emails :
        Cardinality(Pending(e)) + Cardinality(Inserting(e)) <= Cardinality(Handlers)

(***************************************************************************)
(* A code opens at most as many sessions as requests overlap, those that   *)
(* hold it counted in: MarkUsed stops every request that reads it later.   *)
(***************************************************************************)
OpenedBy(c) == {s \in DOMAIN sessions : sessions[s].code = c}

Holding(c) == {h \in Handlers :
                  /\ request[h].pc \in {"matched"} \cup SpentSteps
                  /\ request[h].ref = c}

OpeningsAreBounded ==
    \A c \in DOMAIN codes :
        Cardinality(OpenedBy(c)) + Cardinality(Holding(c)) <= Cardinality(Handlers)

(***************************************************************************)
(* Only a failure between two statements strands an account: every other   *)
(* user nobody is working on has a household, and the household of every   *)
(* other admin has its defaults, whatever requests overlap with the        *)
(* registration.                                                           *)
(***************************************************************************)
UsersBelongSomewhere ==
    \A e \in users \ broken :
        /\ \/ HouseholdsOf(e) # {}
           \/ \E h \in Handlers :
                 request[h].pc \in {"admin", "join"} /\ request[h].email = e
        /\ \A hh \in HouseholdIDs :
              members[hh][e] = "admin" =>
                  \/ hh \in seeded
                  \/ \E h \in Handlers : At(h, "seed") /\ request[h].household = hh

(***************************************************************************)
(* A code is for one-time use: it opens one session.                       *)
(***************************************************************************)
OneTimeUse == \A c \in DOMAIN codes : Cardinality(OpenedBy(c)) <= 1
=============================================================================
