-------------------------- MODULE AuthFlowProofs ---------------------------
(***************************************************************************)
(* Proofs about AuthFlow, for any number of overlapping requests, any      *)
(* addresses and any bounds: the types, who is a member, what a session    *)
(* stands for, and how often a code can be guessed, doubled and spent.     *)
(***************************************************************************)
EXTENDS AuthFlow, FiniteSetTheorems, TLAPS

(* What the next statement of a request relies on: of the code it looked   *)
(* up, of the session it switches, of the household it founds and of the   *)
(* code it is to create.                                                   *)
FitsCode(r) ==
    /\ r.pc \in RefuseSteps \cup {"matched"} \cup SpentSteps =>
         r.ref \in DOMAIN codes /\ r.email = codes[r.ref].email
    /\ r.pc \in SpentSteps => ~codes[r.ref].pending
    /\ r.pc \in {"newuser", "join"} =>
         /\ codes[r.ref].purpose = "invite"
         /\ r.household = codes[r.ref].household
    /\ r.pc = "session" =>
         /\ r.household \in HouseholdIDs
         /\ \/ members[r.household][r.email] # "none"
            \/ codes[r.ref].purpose = "invite" /\ codes[r.ref].household = r.household

FitsSwitch(r) ==
    r.pc = "switch" =>
        /\ r.ref \in DOMAIN sessions /\ r.email = sessions[r.ref].user
        /\ r.household \in HouseholdIDs /\ members[r.household][r.email] # "none"

FitsSignUp(r) ==
    /\ r.pc \in SignUpSteps => r.kind = "register"
    /\ r.pc \in {"user", "admin", "seed"} => r.household \in 1..created
    /\ r.pc = "seed" => members[r.household][r.email] = "admin"

FitsCreate(r) ==
    r.pc \in CreateSteps =>
        /\ r.kind \in Purposes
        /\ r.kind = "login" => r.household = None
        /\ r.kind = "invite" =>
             r.household \in HouseholdIDs /\ members[r.household][r.by] = "admin"
        /\ r.kind = "register" =>
             r.household \in HouseholdIDs /\ members[r.household][r.email] = "admin"

Fits(r) == FitsCode(r) /\ FitsSwitch(r) /\ FitsSignUp(r) /\ FitsCreate(r)

(* An invitation has an admin behind it, a registration code a founder.    *)
CodesFit ==
    \A c \in DOMAIN codes :
        /\ codes[c].purpose = "login" => codes[c].household = None
        /\ codes[c].purpose = "invite" =>
             /\ codes[c].household \in HouseholdIDs
             /\ members[codes[c].household][codes[c].by] = "admin"
        /\ codes[c].purpose = "register" =>
             /\ codes[c].household \in HouseholdIDs
             /\ members[codes[c].household][codes[c].email] = "admin"

SessionsFit == \A s \in DOMAIN sessions : sessions[s].code \in DOMAIN codes

Core ==
    /\ TypeOK
    /\ \A h \in Handlers : Fits(request[h])
    /\ CodesFit
    /\ SessionsFit
    /\ SessionsAreBacked
    /\ MembersWereAdmitted

(* Rows are added, never removed; what a code or a session is for stays,   *)
(* a spent code stays spent, an admin stays an admin.                      *)
CodesGrow ==
    /\ DOMAIN codes \subseteq DOMAIN codes'
    /\ \A c \in DOMAIN codes :
         /\ codes'[c].email = codes[c].email /\ codes'[c].purpose = codes[c].purpose
         /\ codes'[c].household = codes[c].household /\ codes'[c].by = codes[c].by
         /\ ~codes[c].pending => ~codes'[c].pending

MembersGrow ==
    \A hh \in HouseholdIDs, e \in Emails :
        /\ members[hh][e] = "admin" => members'[hh][e] = "admin"
        /\ members[hh][e] # "none" => members'[hh][e] # "none"

SessionsGrow ==
    /\ DOMAIN sessions \subseteq DOMAIN sessions'
    /\ \A s \in DOMAIN sessions : sessions'[s].user = sessions[s].user

Grows == CodesGrow /\ MembersGrow /\ SessionsGrow /\ created' \in Nat /\ created <= created'

(* A step of request h: it leaves the other requests alone.                *)
Only(h) == \A u \in Handlers \ {h} : request'[u] = request[u]

USE DEF HouseholdIDs, None, Roles, Purposes, Pages

LEMMA Busy ==
    ASSUME TypeOK, NEW h \in Handlers, request[h].pc # "idle"
    PROVE  request[h] \in Request
BY DEF TypeOK, Idle

USE DEF SignUpSteps, CreateSteps, RefuseSteps, SpentSteps, Steps

LEMMA IdleFits == ASSUME NEW h \in Handlers, request'[h] = Idle PROVE Fits(request[h])'
BY DEF Fits, FitsCode, FitsSwitch, FitsSignUp, FitsCreate, Idle

LEMMA Kept ==
    ASSUME TypeOK, NEW u \in Handlers, Fits(request[u]), Grows, request'[u] = request[u]
    PROVE  Fits(request[u])'
<1>1. CASE request[u].pc = "idle"
  BY <1>1, IdleFits DEF TypeOK, Idle, Request
<1>2. CASE request[u].pc # "idle"
  <2> DEFINE r == request[u]
  <2>1. r.email \in Emails /\ r.by \in Emails
    BY <1>2, Busy DEF Request
  <2>2. 1..created \subseteq 1..created' /\ 1..created \subseteq HouseholdIDs
    BY BoundsAssumption DEF TypeOK, Grows
  <2>3. FitsCode(r)'
    <3> DEFINE k == r.ref
    <3>1. CASE k \in DOMAIN codes
      <4>1. /\ k \in DOMAIN codes'
            /\ codes'[k].email = codes[k].email /\ codes'[k].purpose = codes[k].purpose
            /\ codes'[k].household = codes[k].household
            /\ ~codes[k].pending => ~codes'[k].pending
        BY <3>1 DEF Grows, CodesGrow
      <4>2. r.household \in HouseholdIDs /\ members[r.household][r.email] # "none"
              => members'[r.household][r.email] # "none"
        BY <2>1 DEF Grows, MembersGrow
      <4> HIDE DEF HouseholdIDs
      <4> QED
        BY <4>1, <4>2 DEF Fits, FitsCode
    <3>2. CASE k \notin DOMAIN codes
      BY <3>2 DEF Fits, FitsCode
    <3> QED
      BY <3>1, <3>2
  <2>4. FitsSwitch(r)'
    BY <2>1 DEF Fits, FitsSwitch, Grows, SessionsGrow, MembersGrow
  <2>5. FitsSignUp(r)'
    <3>1. r.pc = "seed" => members'[r.household][r.email] = "admin"
      BY <2>1, <2>2 DEF Fits, FitsSignUp, Grows, MembersGrow
    <3> QED
      BY <3>1, <2>2 DEF Fits, FitsSignUp
  <2>6. FitsCreate(r)'
    BY <2>1 DEF Fits, FitsCreate, Grows, MembersGrow
  <2> QED
    BY <2>3, <2>4, <2>5, <2>6 DEF Fits
<1> QED
  BY <1>1, <1>2

LEMMA Rows ==
    ASSUME TypeOK
    PROVE  /\ Len(codes) \in Nat /\ DOMAIN codes = 1..Len(codes)
           /\ Len(sessions) \in Nat /\ DOMAIN sessions = 1..Len(sessions)
           /\ \A c \in DOMAIN codes : codes[c] \in Code
           /\ \A s \in DOMAIN sessions : sessions[s] \in Session
BY DEF TypeOK

LEMMA RowsKept ==
    ASSUME Core, Grows
    PROVE  /\ DOMAIN codes' = DOMAIN codes => CodesFit'
           /\ sessions' = sessions => SessionsFit' /\ SessionsAreBacked'
           /\ members' = members => MembersWereAdmitted'
<1>1. \A c \in DOMAIN codes : codes[c].email \in Emails /\ codes[c].by \in Emails
  BY Rows DEF Core, Code
<1>2. ASSUME DOMAIN codes' = DOMAIN codes PROVE CodesFit'
  <2> SUFFICES ASSUME NEW c \in DOMAIN codes
               PROVE  /\ codes'[c].purpose = "login" => codes'[c].household = None
                      /\ codes'[c].purpose = "invite" =>
                           /\ codes'[c].household \in HouseholdIDs
                           /\ members'[codes'[c].household][codes'[c].by] = "admin"
                      /\ codes'[c].purpose = "register" =>
                           /\ codes'[c].household \in HouseholdIDs
                           /\ members'[codes'[c].household][codes'[c].email] = "admin"
    BY <1>2 DEF CodesFit
  <2> QED
    BY <1>1 DEF Core, CodesFit, Grows, CodesGrow, MembersGrow
<1>3. ASSUME sessions' = sessions PROVE SessionsFit' /\ SessionsAreBacked'
  <2>1. SessionsFit'
    BY <1>3 DEF Core, SessionsFit, Grows, CodesGrow
  <2>2. ASSUME NEW s \in DOMAIN sessions
        PROVE  LET c == codes'[sessions[s].code] IN
               /\ ~c.pending /\ c.email = sessions[s].user
               /\ \/ /\ sessions[s].household \in HouseholdIDs
                     /\ members'[sessions[s].household][sessions[s].user] # "none"
                  \/ c.purpose = "invite" /\ c.household = sessions[s].household
    <3>1. sessions[s].code \in DOMAIN codes /\ sessions[s].user \in Emails
      BY Rows DEF Core, SessionsFit, Session
    <3> DEFINE k == sessions[s].code
               hh == sessions[s].household
    <3>2. /\ ~codes[k].pending /\ codes[k].email = sessions[s].user
          /\ \/ hh \in HouseholdIDs /\ members[hh][sessions[s].user] # "none"
             \/ codes[k].purpose = "invite" /\ codes[k].household = hh
      BY DEF Core, SessionsAreBacked, HouseholdsOf
    <3>3. /\ ~codes'[k].pending /\ codes'[k].email = codes[k].email
          /\ codes'[k].purpose = codes[k].purpose /\ codes'[k].household = codes[k].household
      BY <3>1, <3>2 DEF Grows, CodesGrow
    <3>4. hh \in HouseholdIDs /\ members[hh][sessions[s].user] # "none"
            => members'[hh][sessions[s].user] # "none"
      BY <3>1 DEF Grows, MembersGrow
    <3> QED
      BY <3>2, <3>3, <3>4
  <2> QED
    BY <1>3, <2>1, <2>2 DEF SessionsAreBacked, HouseholdsOf
<1>4. ASSUME members' = members PROVE MembersWereAdmitted'
  <2> SUFFICES ASSUME NEW hh \in HouseholdIDs, NEW e \in Emails, members[hh][e] = "member"
               PROVE  \E c \in DOMAIN codes' :
                        /\ codes'[c].purpose = "invite" /\ ~codes'[c].pending
                        /\ codes'[c].email = e /\ codes'[c].household = hh
                        /\ members'[hh][codes'[c].by] = "admin"
    BY <1>4 DEF MembersWereAdmitted
  <2>1. PICK c \in DOMAIN codes :
             /\ codes[c].purpose = "invite" /\ ~codes[c].pending
             /\ codes[c].email = e /\ codes[c].household = hh
             /\ members[hh][codes[c].by] = "admin"
    BY DEF Core, MembersWereAdmitted
  <2> QED
    BY <1>4, <2>1 DEF Grows, CodesGrow
<1> QED
  BY <1>2, <1>3, <1>4

LEMMA Assemble ==
    ASSUME Core, NEW h \in Handlers, Only(h), Grows, TypeOK', Fits(request[h])',
           CodesFit', SessionsFit', SessionsAreBacked', MembersWereAdmitted'
    PROVE  Core'
<1>1. ASSUME NEW u \in Handlers PROVE Fits(request[u])'
  BY Kept DEF Core, Only
<1> QED
  BY <1>1 DEF Core

LEMMA Quiet ==
    ASSUME Core, NEW h \in Handlers, Only(h), Fits(request[h])',
           request' \in [Handlers -> Request \cup {Idle}], broken' \subseteq Emails,
           UNCHANGED <<users, created, members, seeded, codes, sessions>>
    PROVE  Core'
<1>1. TypeOK'
  BY DEF Core, TypeOK
<1>2. Grows
  BY DEF Core, TypeOK, Grows, CodesGrow, MembersGrow, SessionsGrow
<1> QED
  BY <1>1, <1>2, RowsKept, Assemble

(* How a request moves on. *)
LEMMA GotoType ==
    ASSUME TypeOK, NEW h \in Handlers, ~At(h, "idle"), NEW pc \in Steps, Goto(h, pc)
    PROVE  /\ request' \in [Handlers -> Request \cup {Idle}] /\ Only(h)
           /\ request'[h] = [request[h] EXCEPT !.pc = pc]
           /\ request[h] \in Request
<1>1. request[h] \in Request
  BY Busy DEF At
<1>2. [request[h] EXCEPT !.pc = pc] \in Request
  BY <1>1 DEF Request
<1> QED
  BY <1>1, <1>2 DEF TypeOK, Goto, Only

LEMMA DoneType ==
    ASSUME TypeOK, NEW h \in Handlers, Done(h)
    PROVE  /\ request' \in [Handlers -> Request \cup {Idle}] /\ Only(h)
           /\ Fits(request[h])'
<1>1. request'[h] = Idle
  BY DEF TypeOK, Done
<1> QED
  BY <1>1, IdleFits DEF TypeOK, Done, Only

LEMMA BeginType ==
    ASSUME TypeOK, NEW h \in Handlers, NEW r \in Request, Begin(h, r)
    PROVE  /\ request' \in [Handlers -> Request \cup {Idle}] /\ Only(h)
           /\ request'[h] = r
BY DEF TypeOK, Begin, Only

LEMMA InitCore == Init => Core
<1> SUFFICES ASSUME Init PROVE Core
  OBVIOUS
<1>1. TypeOK
  BY BoundsAssumption DEF Init, TypeOK, Idle
<1>2. \A h \in Handlers : Fits(request[h])
  BY DEF Init, Idle, Fits, FitsCode, FitsSwitch, FitsSignUp, FitsCreate
<1>3. CodesFit /\ SessionsFit /\ SessionsAreBacked /\ MembersWereAdmitted
  BY DEF Init, CodesFit, SessionsFit, SessionsAreBacked, MembersWereAdmitted
<1> QED
  BY <1>1, <1>2, <1>3 DEF Core
-----------------------------------------------------------------------------
(* One lemma for each step that only moves the request on ... *)

LEMMA LoginCore ==
    ASSUME Core, NEW h \in Handlers, NEW e \in Emails, Login(h, e) \/ Register(h, e)
    PROVE  Core'
<1>1. CASE Login(h, e)
  <2> DEFINE r == [pc |-> "invalidate", email |-> e, household |-> None,
                   kind |-> "login", ref |-> 0, by |-> e]
  <2>1. r \in Request
    BY DEF Request
  <2>2. request'[h] = r /\ Only(h) /\ request' \in [Handlers -> Request \cup {Idle}]
    BY <1>1, <2>1, BeginType DEF Login, Core
  <2>3. Fits(request[h])'
    BY <2>2 DEF Fits, FitsCode, FitsSwitch, FitsSignUp, FitsCreate
  <2> QED
    BY <1>1, <2>2, <2>3, Quiet DEF Login, Core, TypeOK
<1>2. CASE Register(h, e)
  <2> DEFINE r == [pc |-> "household", email |-> e, household |-> None,
                   kind |-> "register", ref |-> 0, by |-> e]
  <2>1. r \in Request
    BY DEF Request
  <2>2. request'[h] = r /\ Only(h) /\ request' \in [Handlers -> Request \cup {Idle}]
    BY <1>2, <2>1, BeginType DEF Register, Core
  <2>3. Fits(request[h])'
    BY <2>2 DEF Fits, FitsCode, FitsSwitch, FitsSignUp, FitsCreate
  <2> QED
    BY <1>2, <2>2, <2>3, Quiet DEF Register, Core, TypeOK
<1> QED
  BY <1>1, <1>2

LEMMA EnterCore ==
    ASSUME Core, NEW h \in Handlers, NEW page \in Pages, NEW c \in DOMAIN codes,
           NEW pc \in RefuseSteps \cup {"matched"}, Enter(h, page, c, pc)
    PROVE  /\ Core' /\ Only(h)
           /\ request'[h].pc = pc /\ request'[h].ref = c
<1> DEFINE r == [pc |-> pc, email |-> codes[c].email, household |-> None,
                 kind |-> page, ref |-> c, by |-> codes[c].email]
<1>1. r \in Request
  BY Rows DEF Request, Core, Code
<1>2. request'[h] = r /\ Only(h) /\ request' \in [Handlers -> Request \cup {Idle}]
  BY <1>1, BeginType DEF Enter, Core
<1>3. Fits(request[h])'
  BY <1>2 DEF Enter, Fits, FitsCode, FitsSwitch, FitsSignUp, FitsCreate
<1>4. Core'
  BY <1>2, <1>3, Quiet DEF Enter, Core, TypeOK
<1> QED
  BY <1>2, <1>4

LEMMA InviteCore ==
    ASSUME Core, NEW h \in Handlers, NEW s \in DOMAIN sessions, NEW e \in Emails,
           Invite(h, s, e)
    PROVE  Core'
<1> DEFINE r == [pc |-> "invalidate", email |-> e, household |-> sessions[s].household,
                 kind |-> "invite", ref |-> 0, by |-> sessions[s].user]
<1>1. sessions[s] \in Session
  BY Rows DEF Core
<1>2. r \in Request
  BY <1>1 DEF Request, Session
<1>3. request'[h] = r /\ Only(h) /\ request' \in [Handlers -> Request \cup {Idle}]
  BY <1>2, BeginType DEF Invite, Core
<1>4. Fits(request[h])'
  BY <1>1, <1>3 DEF Invite, MayInvite, RoleOf, Session,
                    Fits, FitsCode, FitsSwitch, FitsSignUp, FitsCreate
<1> QED
  BY <1>3, <1>4, Quiet DEF Invite, Core, TypeOK

LEMMA SwitchCore ==
    ASSUME Core, NEW h \in Handlers, NEW s \in DOMAIN sessions, NEW hh \in HouseholdIDs,
           SwitchHousehold(h, s, hh)
    PROVE  Core'
<1> DEFINE r == [pc |-> "switch", email |-> sessions[s].user, household |-> hh,
                 kind |-> "switch", ref |-> s, by |-> sessions[s].user]
<1>1. sessions[s] \in Session /\ s \in Nat
  BY Rows DEF Core
<1>2. r \in Request
  BY <1>1 DEF Request, Session
<1>3. request'[h] = r /\ Only(h) /\ request' \in [Handlers -> Request \cup {Idle}]
  BY <1>2, BeginType DEF SwitchHousehold, Core
<1>4. Fits(request[h])'
  BY <1>1, <1>3 DEF SwitchHousehold, MaySwitchTo, HouseholdsOf,
                    Fits, FitsCode, FitsSwitch, FitsSignUp, FitsCreate
<1> QED
  BY <1>3, <1>4, Quiet DEF SwitchHousehold, Core, TypeOK

LEMMA AbortCore ==
    ASSUME Core, NEW h \in Handlers, Abort(h)
    PROVE  Core'
<1>1. request[h].email \in Emails
  BY Busy DEF Abort, At, Core, Request
<1>2. broken' \subseteq Emails
  BY <1>1 DEF Abort, Core, TypeOK
<1> QED
  BY <1>2, DoneType, Quiet DEF Abort, Core

LEMMA DetermineCore ==
    ASSUME Core, NEW h \in Handlers, DetermineHousehold(h)
    PROVE  Core'
<1> DEFINE r == request[h]
           of == codes[r.ref].household
<1>1. r \in Request /\ r.pc = "who"
  BY Busy DEF DetermineHousehold, At, Core
<1>2. /\ r.ref \in DOMAIN codes /\ r.email = codes[r.ref].email /\ ~codes[r.ref].pending
      /\ codes[r.ref] \in Code
  BY <1>1, Rows DEF Core, Fits, FitsCode
<1>3. CASE Done(h)
  BY <1>3, DoneType, Quiet DEF DetermineHousehold, Core, TypeOK
<1>4. CASE \E hh \in IF of = None THEN HouseholdsOf(r.email) ELSE {of} :
             request' = [request EXCEPT ![h].pc = "session", ![h].household = hh]
  <2>1. PICK hh \in IF of = None THEN HouseholdsOf(r.email) ELSE {of} :
             request' = [request EXCEPT ![h].pc = "session", ![h].household = hh]
    BY <1>4
  <2>2. of \in HouseholdIDs \cup {None} /\ codes[r.ref].purpose \in Purposes
    BY <1>2 DEF Code
  <2>3. hh \in HouseholdIDs
    BY <2>1, <2>2 DEF HouseholdsOf
  <2>4. \/ members[hh][r.email] # "none"
        \/ codes[r.ref].purpose = "invite" /\ codes[r.ref].household = hh
    <3>1. CASE of = None
      BY <2>1, <3>1 DEF HouseholdsOf
    <3>2. CASE of # None
      <4>1. hh = of
        BY <2>1, <3>2
      <4>2. codes[r.ref].purpose # "login"
        BY <1>2, <3>2 DEF Core, CodesFit
      <4> QED
        BY <1>2, <2>2, <4>1, <4>2 DEF Core, CodesFit
    <3> QED
      BY <3>1, <3>2
  <2>5. [r EXCEPT !.pc = "session", !.household = hh] \in Request
    BY <1>1, <2>3 DEF Request
  <2>6. /\ request' \in [Handlers -> Request \cup {Idle}] /\ Only(h)
        /\ request'[h] = [r EXCEPT !.pc = "session", !.household = hh]
    BY <2>1, <2>5 DEF Core, TypeOK, Only
  <2>7. /\ request'[h].pc = "session" /\ request'[h].household = hh
        /\ request'[h].ref = r.ref /\ request'[h].email = r.email
    BY <1>1, <2>6 DEF Request
  <2>8. Fits(request[h])'
    BY <1>2, <2>3, <2>4, <2>7 DEF DetermineHousehold,
       Fits, FitsCode, FitsSwitch, FitsSignUp, FitsCreate
  <2> QED
    BY <2>6, <2>8, Quiet DEF DetermineHousehold, Core, TypeOK
<1> QED
  BY <1>3, <1>4 DEF DetermineHousehold

LEMMA FindCore ==
    ASSUME Core, NEW h \in Handlers, FindInvited(h)
    PROVE  Core'
<1> DEFINE r == request[h]
           c == codes[r.ref]
           next == [r EXCEPT !.pc = IF c.email \in users THEN "join" ELSE "newuser",
                             !.household = c.household]
<1>1. r \in Request /\ r.pc = "find"
  BY Busy DEF FindInvited, At, Core
<1>2. r.ref \in DOMAIN codes /\ r.email = c.email /\ ~c.pending /\ c \in Code
  BY <1>1, Rows DEF Core, Fits, FitsCode
<1>3. CASE Done(h)
  BY <1>3, DoneType, Quiet DEF FindInvited, Core, TypeOK
<1>4. CASE c.purpose = "invite" /\ request' = [request EXCEPT ![h] = next]
  <2>1. next \in Request
    BY <1>1, <1>2 DEF Request, Code
  <2>2. /\ request' \in [Handlers -> Request \cup {Idle}] /\ Only(h)
        /\ request'[h] = next
    BY <1>4, <2>1 DEF Core, TypeOK, Only
  <2>3. /\ request'[h].pc \in {"newuser", "join"} /\ request'[h].household = c.household
        /\ request'[h].ref = r.ref /\ request'[h].email = r.email
    BY <1>1, <2>2 DEF Request
  <2>4. Fits(request[h])'
    BY <1>2, <1>4, <2>3 DEF FindInvited,
       Fits, FitsCode, FitsSwitch, FitsSignUp, FitsCreate
  <2> QED
    BY <2>2, <2>4, Quiet DEF FindInvited, Core, TypeOK
<1> QED
  BY <1>3, <1>4 DEF FindInvited

-----------------------------------------------------------------------------
(* ... and one for each step that writes. *)

LEMMA CreateHouseholdCore ==
    ASSUME Core, NEW h \in Handlers, CreateHousehold(h)
    PROVE  Core'
<1> DEFINE r == request[h]
           next == [r EXCEPT !.pc = "user", !.household = created + 1]
<1>1. r \in Request /\ r.pc = "household" /\ r.kind = "register"
  BY Busy DEF CreateHousehold, At, Core, Fits, FitsSignUp
<1>2. created' = created + 1 /\ created' \in 1..MaxHouseholds /\ created \in Nat
  BY BoundsAssumption DEF CreateHousehold, Core, TypeOK
<1>3. next \in Request
  BY <1>1, <1>2 DEF Request
<1>4. /\ request' \in [Handlers -> Request \cup {Idle}] /\ Only(h)
      /\ request'[h] = next
  BY <1>3 DEF CreateHousehold, Core, TypeOK, Only
<1>5. request'[h].pc = "user" /\ request'[h].household = created' /\ request'[h].kind = "register"
  BY <1>1, <1>2, <1>4 DEF Request
<1>6. Fits(request[h])'
  BY <1>2, <1>5 DEF Fits, FitsCode, FitsSwitch, FitsSignUp, FitsCreate
<1>7. TypeOK'
  BY <1>2, <1>4, BoundsAssumption DEF CreateHousehold, Core, TypeOK
<1>8. Grows
  BY <1>2 DEF CreateHousehold, Grows, CodesGrow, MembersGrow, SessionsGrow
<1> QED
  BY <1>4, <1>6, <1>7, <1>8, RowsKept, Assemble DEF CreateHousehold

LEMMA CreateUserCore ==
    ASSUME Core, NEW h \in Handlers, CreateUser(h)
    PROVE  Core'
<1> DEFINE r == request[h]
           pc == IF At(h, "user") THEN "admin" ELSE "join"
<1>1. r \in Request /\ r.pc \in {"user", "newuser"}
  BY Busy DEF CreateUser, At, Core
<1>2. r.email \in Emails
  BY <1>1 DEF Request
<1>3. Grows
  BY DEF CreateUser, Core, TypeOK, Grows, CodesGrow, MembersGrow, SessionsGrow
<1>4. /\ request' \in [Handlers -> Request \cup {Idle}] /\ Only(h)
      /\ Fits(request[h])'
  <2>1. CASE Done(h)
    BY <2>1, DoneType DEF Core
  <2>2. CASE Goto(h, pc)
    <3>1. /\ request' \in [Handlers -> Request \cup {Idle}] /\ Only(h)
          /\ request'[h] = [r EXCEPT !.pc = pc]
      BY <1>1, <2>2, GotoType DEF At, Core
    <3>2. /\ request'[h].pc = pc /\ request'[h].ref = r.ref /\ request'[h].kind = r.kind
          /\ request'[h].household = r.household /\ request'[h].email = r.email
      BY <1>1, <3>1 DEF Request
    <3>3. Fits(request[h])'
      BY <1>1, <3>2 DEF CreateUser, At, Core, Fits, FitsCode, FitsSwitch, FitsSignUp, FitsCreate
    <3> QED
      BY <3>1, <3>3
  <2> QED
    BY <2>1, <2>2 DEF CreateUser
<1>5. TypeOK'
  BY <1>2, <1>4 DEF CreateUser, Core, TypeOK
<1> QED
  BY <1>3, <1>4, <1>5, RowsKept, Assemble DEF CreateUser

LEMMA AddAdminCore ==
    ASSUME Core, NEW h \in Handlers, AddAdmin(h)
    PROVE  Core'
<1> DEFINE r == request[h]
<1>1. r \in Request /\ r.pc = "admin" /\ r.kind = "register" /\ r.household \in 1..created
  BY Busy DEF AddAdmin, At, Core, Fits, FitsSignUp
<1>2. r.email \in Emails /\ r.household \in HouseholdIDs
  BY <1>1, BoundsAssumption DEF Request, Core, TypeOK
<1>3. /\ request' \in [Handlers -> Request \cup {Idle}] /\ Only(h)
      /\ request'[h] = [r EXCEPT !.pc = "seed"]
  BY <1>1, GotoType DEF AddAdmin, At, Core
<1>4. /\ request'[h].pc = "seed" /\ request'[h].kind = r.kind
      /\ request'[h].household = r.household /\ request'[h].email = r.email
  BY <1>1, <1>3 DEF Request
<1>5. /\ members' \in [HouseholdIDs -> [Emails -> Roles]]
      /\ members'[r.household][r.email] = "admin"
      /\ \A hh \in HouseholdIDs, e \in Emails :
            members'[hh][e] # "admin" => members'[hh][e] = members[hh][e]
  BY <1>2 DEF AddAdmin, Core, TypeOK
<1>6. MembersGrow
  BY <1>5 DEF MembersGrow
<1>7. Grows
  BY <1>6 DEF AddAdmin, Core, TypeOK, Grows, CodesGrow, SessionsGrow
<1>8. TypeOK'
  BY <1>3, <1>5 DEF AddAdmin, Core, TypeOK
<1>9. Fits(request[h])'
  BY <1>1, <1>4, <1>5 DEF AddAdmin, Fits, FitsCode, FitsSwitch, FitsSignUp, FitsCreate
<1>10. MembersWereAdmitted'
  <2> SUFFICES ASSUME NEW hh \in HouseholdIDs, NEW e \in Emails, members'[hh][e] = "member"
               PROVE  \E c \in DOMAIN codes :
                        /\ codes[c].purpose = "invite" /\ ~codes[c].pending
                        /\ codes[c].email = e /\ codes[c].household = hh
                        /\ members'[hh][codes[c].by] = "admin"
    BY DEF AddAdmin, MembersWereAdmitted
  <2>1. PICK c \in DOMAIN codes :
             /\ codes[c].purpose = "invite" /\ ~codes[c].pending
             /\ codes[c].email = e /\ codes[c].household = hh
             /\ members[hh][codes[c].by] = "admin"
    BY <1>5 DEF Core, MembersWereAdmitted
  <2>2. codes[c].by \in Emails
    BY Rows DEF Core, Code
  <2> QED
    BY <1>6, <2>1, <2>2 DEF MembersGrow
<1> QED
  BY <1>3, <1>7, <1>8, <1>9, <1>10, RowsKept, Assemble DEF AddAdmin

LEMMA SeedDefaultsCore ==
    ASSUME Core, NEW h \in Handlers, SeedDefaults(h)
    PROVE  Core'
<1> DEFINE r == request[h]
<1>1. /\ r \in Request /\ r.pc = "seed" /\ r.kind = "register" /\ r.household \in 1..created
      /\ members[r.household][r.email] = "admin"
  BY Busy DEF SeedDefaults, At, Core, Fits, FitsSignUp
<1>2. r.household \in HouseholdIDs
  BY <1>1, BoundsAssumption DEF Core, TypeOK
<1>3. /\ request' \in [Handlers -> Request \cup {Idle}] /\ Only(h)
      /\ request'[h] = [r EXCEPT !.pc = "invalidate"]
  BY <1>1, GotoType DEF SeedDefaults, At, Core
<1>4. /\ request'[h].pc = "invalidate" /\ request'[h].kind = r.kind
      /\ request'[h].household = r.household /\ request'[h].email = r.email
  BY <1>1, <1>3 DEF Request
<1>5. Fits(request[h])'
  BY <1>1, <1>2, <1>4 DEF SeedDefaults, Fits, FitsCode, FitsSwitch, FitsSignUp, FitsCreate
<1>6. Grows
  BY DEF SeedDefaults, Core, TypeOK, Grows, CodesGrow, MembersGrow, SessionsGrow
<1>7. TypeOK'
  BY <1>2, <1>3 DEF SeedDefaults, Core, TypeOK
<1> QED
  BY <1>3, <1>5, <1>6, <1>7, RowsKept, Assemble DEF SeedDefaults

(* A step that only writes pending or attempts of rows of magic_links. *)
LEMMA CodesTouched ==
    ASSUME Core, codes' \in Seq(Code), Len(codes') = Len(codes),
           \A c \in DOMAIN codes :
               /\ codes'[c].email = codes[c].email /\ codes'[c].purpose = codes[c].purpose
               /\ codes'[c].household = codes[c].household /\ codes'[c].by = codes[c].by
               /\ ~codes[c].pending => ~codes'[c].pending,
           UNCHANGED <<users, created, members, seeded, sessions, broken>>
    PROVE  /\ Grows
           /\ CodesFit' /\ SessionsFit' /\ SessionsAreBacked' /\ MembersWereAdmitted'
           /\ request' \in [Handlers -> Request \cup {Idle}] => TypeOK'
<1>1. DOMAIN codes' = DOMAIN codes
  BY Rows DEF Core
<1>2. Grows
  BY <1>1 DEF Core, TypeOK, Grows, CodesGrow, MembersGrow, SessionsGrow
<1>3. request' \in [Handlers -> Request \cup {Idle}] => TypeOK'
  BY DEF Core, TypeOK
<1> QED
  BY <1>1, <1>2, <1>3, RowsKept

LEMMA InvalidateCore ==
    ASSUME Core, NEW h \in Handlers, Invalidate(h)
    PROVE  Core'
<1> DEFINE r == request[h]
<1>1. r \in Request /\ r.pc = "invalidate"
  BY Busy DEF Invalidate, At, Core
<1>2. \A c \in DOMAIN codes :
        codes'[c] = IF c \in Pending(r.email)
                    THEN [codes[c] EXCEPT !.pending = FALSE] ELSE codes[c]
  BY DEF Invalidate
<1>3. \A c \in DOMAIN codes : codes'[c] \in Code
  BY <1>2, Rows DEF Core, Code
<1>4. codes' \in Seq(Code) /\ Len(codes') = Len(codes)
  <2>1. codes' \in [1..Len(codes) -> Code] /\ Len(codes) \in Nat
    BY <1>3, Rows DEF Core, Invalidate
  <2> QED
    BY <2>1
<1>5. \A c \in DOMAIN codes :
        /\ codes'[c].email = codes[c].email /\ codes'[c].purpose = codes[c].purpose
        /\ codes'[c].household = codes[c].household /\ codes'[c].by = codes[c].by
        /\ ~codes[c].pending => ~codes'[c].pending
  BY <1>2, Rows DEF Core, Code
<1>6. /\ request' \in [Handlers -> Request \cup {Idle}] /\ Only(h)
      /\ request'[h] = [r EXCEPT !.pc = "insert"]
  BY <1>1, GotoType DEF Invalidate, At, Core
<1>7. /\ request'[h].pc = "insert" /\ request'[h].kind = r.kind /\ request'[h].by = r.by
      /\ request'[h].household = r.household /\ request'[h].email = r.email
  BY <1>1, <1>6 DEF Request
<1>8. Fits(request[h])'
  BY <1>1, <1>7 DEF Invalidate, Core, Fits, FitsCode, FitsSwitch, FitsSignUp, FitsCreate
<1> QED
  BY <1>4, <1>5, <1>6, <1>8, CodesTouched, Assemble DEF Invalidate

LEMMA InsertCodeCore ==
    ASSUME Core, NEW h \in Handlers, InsertCode(h)
    PROVE  Core'
<1> DEFINE r == request[h]
           row == [email |-> r.email, purpose |-> r.kind, household |-> r.household,
                   by |-> r.by, pending |-> TRUE, attempts |-> 0]
           n == Len(codes) + 1
<1>1. /\ r \in Request /\ r.pc = "insert" /\ r.kind \in Purposes
      /\ r.kind = "login" => r.household = None
      /\ r.kind = "invite" =>
           r.household \in HouseholdIDs /\ members[r.household][r.by] = "admin"
      /\ r.kind = "register" =>
           r.household \in HouseholdIDs /\ members[r.household][r.email] = "admin"
  BY Busy DEF InsertCode, At, Core, Fits, FitsCreate
<1>2. row \in Code
  BY <1>1 DEF Request, Code
<1>3. /\ codes' \in Seq(Code) /\ Len(codes') = n /\ n <= MaxCodes
      /\ DOMAIN codes' = DOMAIN codes \cup {n} /\ n \notin DOMAIN codes
      /\ codes'[n] = row /\ \A c \in DOMAIN codes : codes'[c] = codes[c]
  BY <1>2, Rows, BoundsAssumption DEF InsertCode, Core, TypeOK
<1>4. Grows
  BY <1>3 DEF InsertCode, Core, TypeOK, Grows, CodesGrow, MembersGrow, SessionsGrow
<1>5. /\ request' \in [Handlers -> Request \cup {Idle}] /\ Only(h)
      /\ Fits(request[h])'
  BY DoneType DEF InsertCode, Core
<1>6. TypeOK'
  BY <1>3, <1>5 DEF InsertCode, Core, TypeOK
<1>7. CodesFit'
  <2> SUFFICES ASSUME NEW c \in DOMAIN codes'
               PROVE  /\ codes'[c].purpose = "login" => codes'[c].household = None
                      /\ codes'[c].purpose = "invite" =>
                           /\ codes'[c].household \in HouseholdIDs
                           /\ members[codes'[c].household][codes'[c].by] = "admin"
                      /\ codes'[c].purpose = "register" =>
                           /\ codes'[c].household \in HouseholdIDs
                           /\ members[codes'[c].household][codes'[c].email] = "admin"
    BY DEF InsertCode, CodesFit
  <2>1. CASE c = n
    BY <1>1, <1>3, <2>1
  <2>2. CASE c \in DOMAIN codes
    BY <1>3, <2>2 DEF Core, CodesFit
  <2> QED
    BY <1>3, <2>1, <2>2
<1> QED
  BY <1>4, <1>5, <1>6, <1>7, RowsKept, Assemble DEF InsertCode

LEMMA IncrementCore ==
    ASSUME Core, NEW h \in Handlers, IncrementAttempts(h)
    PROVE  /\ Core' /\ Only(h)
           /\ request'[h].pc \in {"idle", "lockout"}
<1> DEFINE r == request[h]
<1>1. r \in Request /\ r.pc = "wrong" /\ r.ref \in DOMAIN codes /\ r.email = codes[r.ref].email
  BY Busy DEF IncrementAttempts, At, Core, Fits, FitsCode
<1>2. /\ codes' = [codes EXCEPT ![r.ref].attempts = @ + 1]
      /\ [codes[r.ref] EXCEPT !.attempts = @ + 1] \in Code
  BY <1>1, Rows DEF IncrementAttempts, Core, Code
<1>3. codes' \in Seq(Code) /\ Len(codes') = Len(codes)
  BY <1>1, <1>2 DEF Core, TypeOK
<1>4. \A c \in DOMAIN codes :
        /\ codes'[c].email = codes[c].email /\ codes'[c].purpose = codes[c].purpose
        /\ codes'[c].household = codes[c].household /\ codes'[c].by = codes[c].by
        /\ ~codes[c].pending => ~codes'[c].pending
  BY <1>1, <1>2, Rows DEF Core, Code
<1>5. /\ request' \in [Handlers -> Request \cup {Idle}] /\ Only(h)
      /\ Fits(request[h])' /\ request'[h].pc \in {"idle", "lockout"}
  <2>1. CASE Done(h)
    BY <2>1, DoneType DEF Core, Done, TypeOK, Idle
  <2>2. CASE Goto(h, "lockout")
    <3>1. /\ request' \in [Handlers -> Request \cup {Idle}] /\ Only(h)
          /\ request'[h] = [r EXCEPT !.pc = "lockout"]
      BY <1>1, <2>2, GotoType DEF At, Core
    <3>2. /\ request'[h].pc = "lockout" /\ request'[h].ref = r.ref
          /\ request'[h].email = r.email
      BY <1>1, <3>1 DEF Request
    <3>3. Fits(request[h])'
      BY <1>1, <1>3, <1>4, <3>2, Rows DEF Core, Fits, FitsCode, FitsSwitch, FitsSignUp, FitsCreate
    <3> QED
      BY <3>1, <3>2, <3>3
  <2> QED
    BY <2>1, <2>2 DEF IncrementAttempts
<1> QED
  BY <1>3, <1>4, <1>5, CodesTouched, Assemble DEF IncrementAttempts

LEMMA MarkUsedCore ==
    ASSUME Core, NEW h \in Handlers, MarkUsed(h)
    PROVE  /\ Core' /\ Only(h)
           /\ request[h].pc \in {"exhausted", "lockout", "matched"}
           /\ \/ request'[h].pc = "idle"
              \/ /\ request[h].pc = "matched" /\ request'[h].pc \in {"who", "find"}
                 /\ request'[h].ref = request[h].ref
<1> DEFINE r == request[h]
<1>1. /\ r \in Request /\ r.pc \in {"exhausted", "lockout", "matched"}
      /\ r.ref \in DOMAIN codes /\ r.email = codes[r.ref].email
  BY Busy DEF MarkUsed, At, Core, Fits, FitsCode
<1>2. /\ codes' = [codes EXCEPT ![r.ref].pending = FALSE]
      /\ [codes[r.ref] EXCEPT !.pending = FALSE] \in Code
  BY <1>1, Rows DEF MarkUsed, Core, Code
<1>3. codes' \in Seq(Code) /\ Len(codes') = Len(codes)
  BY <1>1, <1>2 DEF Core, TypeOK
<1>4. \A c \in DOMAIN codes :
        /\ codes'[c].email = codes[c].email /\ codes'[c].purpose = codes[c].purpose
        /\ codes'[c].household = codes[c].household /\ codes'[c].by = codes[c].by
        /\ ~codes[c].pending => ~codes'[c].pending
  BY <1>1, <1>2, Rows DEF Core, Code
<1>5. r.ref \in DOMAIN codes' /\ ~codes'[r.ref].pending
  BY <1>1, <1>2, <1>3, Rows DEF Core, Code
<1>6. /\ request' \in [Handlers -> Request \cup {Idle}] /\ Only(h)
      /\ Fits(request[h])'
      /\ \/ request'[h].pc = "idle"
         \/ /\ r.pc = "matched" /\ request'[h].pc \in {"who", "find"}
            /\ request'[h].ref = r.ref
  <2>1. CASE Done(h)
    BY <2>1, DoneType DEF Core, Done, TypeOK, Idle
  <2>2. ASSUME NEW pc \in {"who", "find"}, r.pc = "matched", Goto(h, pc)
        PROVE  /\ request' \in [Handlers -> Request \cup {Idle}] /\ Only(h)
               /\ Fits(request[h])' /\ request'[h].pc = pc /\ request'[h].ref = r.ref
    <3>1. /\ request' \in [Handlers -> Request \cup {Idle}] /\ Only(h)
          /\ request'[h] = [r EXCEPT !.pc = pc]
      BY <1>1, <2>2, GotoType DEF At, Core
    <3>2. /\ request'[h].pc = pc /\ request'[h].ref = r.ref
          /\ request'[h].email = r.email
      BY <1>1, <3>1 DEF Request
    <3>3. Fits(request[h])'
      BY <1>1, <1>4, <1>5, <3>2 DEF Fits, FitsCode, FitsSwitch, FitsSignUp, FitsCreate
    <3> QED
      BY <3>1, <3>2, <3>3
  <2> QED
    BY <2>1, <2>2 DEF MarkUsed, At
<1> QED
  BY <1>1, <1>3, <1>4, <1>6, CodesTouched, Assemble DEF MarkUsed

LEMMA JoinHouseholdCore ==
    ASSUME Core, NEW h \in Handlers, JoinHousehold(h)
    PROVE  Core'
<1> DEFINE r == request[h]
           k == r.ref
<1>1. /\ r \in Request /\ r.pc = "join" /\ k \in DOMAIN codes /\ r.email = codes[k].email
      /\ ~codes[k].pending /\ codes[k].purpose = "invite"
      /\ r.household = codes[k].household
  BY Busy DEF JoinHousehold, At, Core, Fits, FitsCode
<1>2. /\ r.household \in HouseholdIDs /\ members[r.household][codes[k].by] = "admin"
      /\ r.email \in Emails /\ codes[k].by \in Emails
  BY <1>1, Rows DEF Core, CodesFit, Code
<1>3. /\ members' \in [HouseholdIDs -> [Emails -> Roles]]
      /\ members'[r.household][r.email] # "none"
      /\ \A hh \in HouseholdIDs, e \in Emails :
            \/ members'[hh][e] = members[hh][e]
            \/ /\ hh = r.household /\ e = r.email
               /\ members[hh][e] = "none" /\ members'[hh][e] = "member"
  BY <1>2 DEF JoinHousehold, Core, TypeOK
<1>4. MembersGrow
  BY <1>3 DEF MembersGrow
<1>5. Grows
  BY <1>4 DEF JoinHousehold, Core, TypeOK, Grows, CodesGrow, SessionsGrow
<1>6. /\ request' \in [Handlers -> Request \cup {Idle}] /\ Only(h)
      /\ request'[h] = [r EXCEPT !.pc = "session"]
  BY <1>1, GotoType DEF JoinHousehold, At, Core
<1>7. /\ request'[h].pc = "session" /\ request'[h].ref = k
      /\ request'[h].household = r.household /\ request'[h].email = r.email
  BY <1>1, <1>6 DEF Request
<1>8. Fits(request[h])'
  BY <1>1, <1>2, <1>3, <1>7 DEF JoinHousehold, Fits, FitsCode, FitsSwitch, FitsSignUp, FitsCreate
<1>9. TypeOK'
  BY <1>3, <1>6 DEF JoinHousehold, Core, TypeOK
<1>10. MembersWereAdmitted'
  <2> SUFFICES ASSUME NEW hh \in HouseholdIDs, NEW e \in Emails, members'[hh][e] = "member"
               PROVE  \E c \in DOMAIN codes :
                        /\ codes[c].purpose = "invite" /\ ~codes[c].pending
                        /\ codes[c].email = e /\ codes[c].household = hh
                        /\ members'[hh][codes[c].by] = "admin"
    BY DEF JoinHousehold, MembersWereAdmitted
  <2>1. PICK c \in DOMAIN codes :
             /\ codes[c].purpose = "invite" /\ ~codes[c].pending
             /\ codes[c].email = e /\ codes[c].household = hh
             /\ members[hh][codes[c].by] = "admin"
    <3>1. CASE members'[hh][e] = members[hh][e]
      BY <3>1 DEF Core, MembersWereAdmitted
    <3>2. CASE hh = r.household /\ e = r.email
      BY <1>1, <1>2, <3>2
    <3> QED
      BY <1>3, <3>1, <3>2
  <2>2. codes[c].by \in Emails
    BY Rows DEF Core, Code
  <2> QED
    BY <1>4, <2>1, <2>2 DEF MembersGrow
<1> QED
  BY <1>5, <1>6, <1>8, <1>9, <1>10, RowsKept, Assemble DEF JoinHousehold

(* What one row of sessions has to satisfy. *)
Backed(s) ==
    LET c == codes[s.code] IN
    /\ s.code \in DOMAIN codes
    /\ ~c.pending /\ c.email = s.user
    /\ \/ s.household \in HouseholdIDs /\ members[s.household][s.user] # "none"
       \/ c.purpose = "invite" /\ c.household = s.household

LEMMA SessionsTouched ==
    ASSUME Core, sessions' \in Seq(Session), Len(sessions') <= MaxSessions,
           DOMAIN sessions \subseteq DOMAIN sessions',
           \A s \in DOMAIN sessions : sessions'[s].user = sessions[s].user,
           \A s \in DOMAIN sessions' : Backed(sessions'[s]),
           UNCHANGED <<users, created, members, seeded, codes, broken>>,
           request' \in [Handlers -> Request \cup {Idle}]
    PROVE  Grows /\ TypeOK' /\ CodesFit' /\ SessionsFit' /\ SessionsAreBacked'
           /\ MembersWereAdmitted'
<1>1. Grows
  BY DEF Core, TypeOK, Grows, CodesGrow, MembersGrow, SessionsGrow
<1>2. TypeOK'
  BY DEF Core, TypeOK
<1>3. SessionsFit' /\ SessionsAreBacked'
  BY DEF SessionsFit, SessionsAreBacked, Backed, HouseholdsOf
<1> QED
  BY <1>1, <1>2, <1>3, RowsKept

LEMMA AllBacked ==
    ASSUME Core PROVE \A s \in DOMAIN sessions : Backed(sessions[s])
BY DEF Core, SessionsFit, SessionsAreBacked, Backed, HouseholdsOf

LEMMA CreateSessionCore ==
    ASSUME Core, NEW h \in Handlers, CreateSession(h)
    PROVE  Core'
<1> DEFINE r == request[h]
           row == [user |-> r.email, household |-> r.household,
                   code |-> r.ref, live |-> TRUE]
           n == Len(sessions) + 1
<1>1. /\ r \in Request /\ r.pc = "session" /\ r.ref \in DOMAIN codes
      /\ r.email = codes[r.ref].email /\ ~codes[r.ref].pending
      /\ r.household \in HouseholdIDs
      /\ \/ members[r.household][r.email] # "none"
         \/ codes[r.ref].purpose = "invite" /\ codes[r.ref].household = r.household
  BY Busy DEF CreateSession, At, Core, Fits, FitsCode
<1>2. row \in Session /\ Backed(row)
  BY <1>1, Rows, BoundsAssumption DEF Request, Session, Backed, Core, TypeOK
<1>3. /\ sessions' \in Seq(Session) /\ Len(sessions') = n /\ n <= MaxSessions
      /\ DOMAIN sessions' = DOMAIN sessions \cup {n} /\ n \notin DOMAIN sessions
      /\ sessions'[n] = row /\ \A s \in DOMAIN sessions : sessions'[s] = sessions[s]
  BY <1>2, Rows, BoundsAssumption DEF CreateSession, Core, TypeOK
<1>4. \A s \in DOMAIN sessions' : Backed(sessions'[s])
  BY <1>2, <1>3, AllBacked
<1>5. /\ request' \in [Handlers -> Request \cup {Idle}] /\ Only(h)
      /\ Fits(request[h])'
  BY DoneType DEF CreateSession, Core
<1> QED
  BY <1>3, <1>4, <1>5, SessionsTouched, Assemble DEF CreateSession

LEMMA UpdateHouseholdCore ==
    ASSUME Core, NEW h \in Handlers, UpdateHouseholdID(h)
    PROVE  Core'
<1> DEFINE r == request[h]
           to == IF sessions[r.ref].live THEN r.household ELSE sessions[r.ref].household
<1>1. /\ r \in Request /\ r.pc = "switch"
      /\ r.ref \in DOMAIN sessions /\ r.email = sessions[r.ref].user
      /\ r.household \in HouseholdIDs /\ members[r.household][r.email] # "none"
  BY Busy DEF UpdateHouseholdID, At, Core, Fits, FitsSwitch
<1>2. sessions' = [sessions EXCEPT ![r.ref].household = to]
  BY <1>1 DEF UpdateHouseholdID
<1>3. /\ [sessions[r.ref] EXCEPT !.household = to] \in Session
      /\ Backed([sessions[r.ref] EXCEPT !.household = to])
  BY <1>1, AllBacked, Rows DEF Core, Session, Backed
<1>4. /\ sessions' \in Seq(Session) /\ Len(sessions') = Len(sessions)
      /\ sessions'[r.ref] = [sessions[r.ref] EXCEPT !.household = to]
      /\ \A s \in DOMAIN sessions : s # r.ref => sessions'[s] = sessions[s]
  BY <1>1, <1>2, <1>3 DEF Core, TypeOK
<1>5. /\ \A s \in DOMAIN sessions' : Backed(sessions'[s])
      /\ \A s \in DOMAIN sessions : sessions'[s].user = sessions[s].user
      /\ DOMAIN sessions' = DOMAIN sessions
  <2>1. DOMAIN sessions' = DOMAIN sessions
    BY <1>2
  <2>2. \A s \in DOMAIN sessions : sessions'[s].user = sessions[s].user
    BY <1>1, <1>4, Rows DEF Core, Session
  <2>3. \A s \in DOMAIN sessions : Backed(sessions'[s])
    BY <1>3, <1>4, AllBacked
  <2> QED
    BY <2>1, <2>2, <2>3
<1>6. /\ request' \in [Handlers -> Request \cup {Idle}] /\ Only(h)
      /\ Fits(request[h])'
  BY DoneType DEF UpdateHouseholdID, Core
<1> QED
  BY <1>4, <1>5, <1>6, SessionsTouched, Assemble DEF UpdateHouseholdID, Core, TypeOK

LEMMA LeaveCore ==
    ASSUME Core, NEW s \in DOMAIN sessions, Logout(s) \/ ExpireSession(s)
    PROVE  Core'
<1>1. /\ sessions' = [sessions EXCEPT ![s].live = FALSE]
      /\ UNCHANGED <<users, created, members, seeded, codes, request, broken>>
  BY DEF Logout, ExpireSession
<1>2. /\ [sessions[s] EXCEPT !.live = FALSE] \in Session
      /\ Backed([sessions[s] EXCEPT !.live = FALSE])
  BY AllBacked, Rows DEF Core, Session, Backed
<1>3. /\ sessions' \in Seq(Session) /\ Len(sessions') = Len(sessions)
      /\ sessions'[s] = [sessions[s] EXCEPT !.live = FALSE]
      /\ \A t \in DOMAIN sessions : t # s => sessions'[t] = sessions[t]
  BY <1>1, <1>2 DEF Core, TypeOK
<1>4. /\ \A t \in DOMAIN sessions' : Backed(sessions'[t])
      /\ \A t \in DOMAIN sessions : sessions'[t].user = sessions[t].user
      /\ DOMAIN sessions' = DOMAIN sessions
  <2>1. DOMAIN sessions' = DOMAIN sessions
    BY <1>1
  <2>2. \A t \in DOMAIN sessions : sessions'[t].user = sessions[t].user
    BY <1>3, Rows DEF Core, Session
  <2>3. \A t \in DOMAIN sessions : Backed(sessions'[t])
    BY <1>2, <1>3, AllBacked
  <2> QED
    BY <2>1, <2>2, <2>3
<1>5. Grows /\ TypeOK' /\ CodesFit' /\ SessionsFit' /\ SessionsAreBacked' /\ MembersWereAdmitted'
  BY <1>1, <1>3, <1>4, SessionsTouched DEF Core, TypeOK
<1> QED
  BY <1>1, <1>5, Kept DEF Core

LEMMA ExpireCodeCore ==
    ASSUME Core, NEW c \in DOMAIN codes, ExpireCode(c)
    PROVE  Core'
<1>1. /\ codes' = [codes EXCEPT ![c].pending = FALSE]
      /\ [codes[c] EXCEPT !.pending = FALSE] \in Code
  BY Rows DEF ExpireCode, Core, Code
<1>2. codes' \in Seq(Code) /\ Len(codes') = Len(codes)
  BY <1>1 DEF Core, TypeOK
<1>3. \A k \in DOMAIN codes :
        /\ codes'[k].email = codes[k].email /\ codes'[k].purpose = codes[k].purpose
        /\ codes'[k].household = codes[k].household /\ codes'[k].by = codes[k].by
        /\ ~codes[k].pending => ~codes'[k].pending
  BY <1>1, Rows DEF Core, Code
<1> QED
  BY <1>2, <1>3, CodesTouched, Kept DEF ExpireCode, Core, TypeOK

LEMMA NextCore == Core /\ [Next]_vars => Core'
<1> SUFFICES ASSUME Core, [Next]_vars PROVE Core'
  OBVIOUS
<1>1. CASE UNCHANGED vars
  <2>1. Grows /\ TypeOK' /\ request' = request
    BY <1>1 DEF vars, Core, TypeOK, Grows, CodesGrow, MembersGrow, SessionsGrow
  <2> QED
    BY <1>1, <2>1, RowsKept, Kept DEF vars, Core
<1>2. ASSUME NEW h \in Handlers, Public(h) PROVE Core'
  <2>1. ASSUME NEW e \in Emails, Login(h, e) \/ Register(h, e) PROVE Core'
    BY <2>1, LoginCore
  <2>2. ASSUME NEW c \in DOMAIN codes, NEW page \in Pages,
               EnterExhausted(h, c) \/ EnterWrong(h, c) \/ EnterRight(h, page, c)
        PROVE Core'
    BY <2>2, EnterCore DEF EnterExhausted, EnterWrong, EnterRight
  <2> QED
    BY <1>2, <2>1, <2>2 DEF Public
<1>3. ASSUME NEW h \in Handlers, Protected(h) PROVE Core'
  BY <1>3, InviteCore, SwitchCore DEF Protected
<1>4. ASSUME NEW h \in Handlers, Continue(h) PROVE Core'
  BY <1>4, CreateHouseholdCore, CreateUserCore, AddAdminCore, SeedDefaultsCore,
     InvalidateCore, InsertCodeCore, IncrementCore, MarkUsedCore, DetermineCore,
     FindCore, JoinHouseholdCore, CreateSessionCore, UpdateHouseholdCore, AbortCore
     DEF Continue
<1>5. ASSUME NEW s \in DOMAIN sessions, Logout(s) \/ ExpireSession(s) PROVE Core'
  BY <1>5, LeaveCore
<1>6. ASSUME NEW c \in DOMAIN codes, ExpireCode(c) PROVE Core'
  BY <1>6, ExpireCodeCore
<1> QED
  BY <1>1, <1>2, <1>3, <1>4, <1>5, <1>6 DEF Next

LEMMA CoreAlways == Spec => []Core
BY InitCore, NextCore, PTL DEF Spec

(***************************************************************************)
(* The variables keep their types.                                         *)
(***************************************************************************)
THEOREM AuthTypes == Spec => []TypeOK
<1>1. Core => TypeOK
  BY DEF Core
<1> QED
  BY <1>1, CoreAlways, PTL

(***************************************************************************)
(* Every member was invited by the admin of the household.                 *)
(***************************************************************************)
THEOREM MembersAreInvited == Spec => []MembersWereAdmitted
<1>1. Core => MembersWereAdmitted
  BY DEF Core
<1> QED
  BY <1>1, CoreAlways, PTL

(***************************************************************************)
(* Every session rests on a spent code of its user and on a membership, or *)
(* on an invitation.                                                       *)
(***************************************************************************)
THEOREM SessionsRestOnCodes == Spec => []SessionsAreBacked
<1>1. Core => SessionsAreBacked
  BY DEF Core
<1> QED
  BY <1>1, CoreAlways, PTL

-----------------------------------------------------------------------------

Guessing(c) == {h \in Handlers : At(h, "wrong") /\ request[h].ref = c}

GuessesFit ==
    \A c \in DOMAIN codes :
        codes[c].attempts + Cardinality(Guessing(c))
            <= maxCodeAttempts + Cardinality(Handlers) - 1

LEMMA Smaller ==
    ASSUME NEW T, IsFiniteSet(T), NEW S, S \subseteq T
    PROVE  /\ IsFiniteSet(S) /\ Cardinality(S) \in Nat /\ Cardinality(T) \in Nat
           /\ Cardinality(S) <= Cardinality(T)
BY FS_Subset, FS_CardinalityType

LEMMA CountedAreFinite ==
    ASSUME TypeOK
    PROVE  /\ IsFiniteSet(DOMAIN codes) /\ IsFiniteSet(DOMAIN sessions)
           /\ \A c : /\ IsFiniteSet(Guessing(c)) /\ IsFiniteSet(Holding(c))
                     /\ IsFiniteSet(OpenedBy(c))
           /\ \A e : IsFiniteSet(Pending(e)) /\ IsFiniteSet(Inserting(e))
<1>1. IsFiniteSet(DOMAIN codes) /\ IsFiniteSet(DOMAIN sessions)
  BY Rows, FS_Interval
<1>2. ASSUME NEW c
      PROVE  /\ IsFiniteSet(Guessing(c)) /\ IsFiniteSet(Holding(c))
             /\ IsFiniteSet(OpenedBy(c))
  <2>1. /\ Guessing(c) \subseteq Handlers /\ Holding(c) \subseteq Handlers
        /\ OpenedBy(c) \subseteq DOMAIN sessions
    BY DEF Guessing, Holding, OpenedBy
  <2> QED
    BY <1>1, <2>1, Smaller, HandlersAssumption
<1>3. ASSUME NEW e PROVE IsFiniteSet(Pending(e)) /\ IsFiniteSet(Inserting(e))
  <2>1. Pending(e) \subseteq DOMAIN codes /\ Inserting(e) \subseteq Handlers
    BY DEF Pending, Inserting
  <2> QED
    BY <1>1, <2>1, Smaller, HandlersAssumption
<1> QED
  BY <1>1, <1>2, <1>3

(* Each count stays within its bound when nothing is added to it ... *)
LEMMA GuessesStay ==
    ASSUME TypeOK, TypeOK', GuessesFit, NEW c \in DOMAIN codes, c \in DOMAIN codes',
           codes'[c].attempts = codes[c].attempts, Guessing(c)' \subseteq Guessing(c)
    PROVE  codes'[c].attempts + Cardinality(Guessing(c)')
               <= maxCodeAttempts + Cardinality(Handlers) - 1
<1>1. Cardinality(Guessing(c)') <= Cardinality(Guessing(c))
      /\ Cardinality(Guessing(c)') \in Nat /\ Cardinality(Guessing(c)) \in Nat
  BY CountedAreFinite, Smaller
<1>2. codes[c].attempts \in Nat
  BY Rows DEF Code
<1>3. Cardinality(Handlers) \in Nat /\ maxCodeAttempts \in Nat
  BY FS_CardinalityType, HandlersAssumption, AttemptsAssumption
<1> QED
  BY <1>1, <1>2, <1>3 DEF GuessesFit

LEMMA PendingStay ==
    ASSUME TypeOK, PendingAreBounded, NEW e \in Emails,
           Pending(e)' \subseteq Pending(e), Inserting(e)' \subseteq Inserting(e)
    PROVE  Cardinality(Pending(e)') + Cardinality(Inserting(e)') <= Cardinality(Handlers)
<1>1. /\ Cardinality(Pending(e)') <= Cardinality(Pending(e))
      /\ Cardinality(Pending(e)') \in Nat /\ Cardinality(Pending(e)) \in Nat
  BY CountedAreFinite, Smaller
<1>2. /\ Cardinality(Inserting(e)') <= Cardinality(Inserting(e))
      /\ Cardinality(Inserting(e)') \in Nat /\ Cardinality(Inserting(e)) \in Nat
  BY CountedAreFinite, Smaller
<1>3. Cardinality(Handlers) \in Nat
  BY FS_CardinalityType, HandlersAssumption
<1> QED
  BY <1>1, <1>2, <1>3 DEF PendingAreBounded

LEMMA OpeningsStay ==
    ASSUME TypeOK, OpeningsAreBounded, NEW c \in DOMAIN codes,
           OpenedBy(c)' \subseteq OpenedBy(c), Holding(c)' \subseteq Holding(c)
    PROVE  Cardinality(OpenedBy(c)') + Cardinality(Holding(c)') <= Cardinality(Handlers)
<1>1. /\ Cardinality(OpenedBy(c)') <= Cardinality(OpenedBy(c))
      /\ Cardinality(OpenedBy(c)') \in Nat /\ Cardinality(OpenedBy(c)) \in Nat
  BY CountedAreFinite, Smaller
<1>2. /\ Cardinality(Holding(c)') <= Cardinality(Holding(c))
      /\ Cardinality(Holding(c)') \in Nat /\ Cardinality(Holding(c)) \in Nat
  BY CountedAreFinite, Smaller
<1>3. Cardinality(Handlers) \in Nat
  BY FS_CardinalityType, HandlersAssumption
<1> QED
  BY <1>1, <1>2, <1>3 DEF OpeningsAreBounded

(* ... and when it starts anew, with whatever requests there are. *)
LEMMA Afresh ==
    ASSUME NEW S, S \subseteq Handlers
    PROVE  Cardinality({}) + Cardinality(S) <= Cardinality(Handlers)
           /\ Cardinality(S) \in Nat /\ Cardinality(Handlers) \in Nat
BY Smaller, HandlersAssumption, FS_EmptySet

(* ... and when one request passes from one count into the other. *)
LEMMA Passed ==
    ASSUME NEW S, NEW T, IsFiniteSet(S), IsFiniteSet(T), NEW x, NEW y \in T,
           Cardinality(S) + Cardinality(T) <= Cardinality(Handlers)
    PROVE  Cardinality(S \cup {x}) + Cardinality(T \ {y}) <= Cardinality(Handlers)
<1>1. /\ Cardinality(S) \in Nat /\ Cardinality(T) \in Nat
      /\ Cardinality(Handlers) \in Nat
  BY FS_CardinalityType, HandlersAssumption
<1>2. Cardinality(S \cup {x}) = Cardinality(S) \/ Cardinality(S \cup {x}) = Cardinality(S) + 1
  BY FS_AddElement
<1>3. Cardinality(T \ {y}) = Cardinality(T) - 1
  BY FS_RemoveElement
<1> QED
  BY <1>1, <1>2, <1>3

Counted == GuessesFit /\ PendingAreBounded /\ OpeningsAreBounded

HoldSteps == {"matched"} \cup SpentSteps

(* A step that adds nothing to a count: of request h, and of the tables.   *)
AddsNoRequest(h) ==
    /\ Only(h)
    /\ request'[h].pc \notin {"wrong", "insert"}
    /\ request'[h].pc \in HoldSteps =>
         request[h].pc \in HoldSteps /\ request'[h].ref = request[h].ref

AddsNoRow ==
    /\ DOMAIN codes' = DOMAIN codes
    /\ \A c \in DOMAIN codes :
         /\ codes'[c].email = codes[c].email /\ codes'[c].attempts = codes[c].attempts
         /\ ~codes[c].pending => ~codes'[c].pending
    /\ DOMAIN sessions' = DOMAIN sessions
    /\ \A s \in DOMAIN sessions : sessions'[s].code = sessions[s].code

LEMMA SameRequests ==
    ASSUME NEW h \in Handlers, Only(h)
    PROVE  /\ \A c : request'[h].pc # "wrong" => Guessing(c)' \subseteq Guessing(c)
           /\ \A e : request'[h].pc # "insert" => Inserting(e)' \subseteq Inserting(e)
           /\ AddsNoRequest(h) => \A c : Holding(c)' \subseteq Holding(c)
<1>1. ASSUME NEW c, request'[h].pc # "wrong" PROVE Guessing(c)' \subseteq Guessing(c)
  BY <1>1 DEF Only, Guessing, At
<1>2. ASSUME NEW e, request'[h].pc # "insert" PROVE Inserting(e)' \subseteq Inserting(e)
  BY <1>2 DEF Only, Inserting, At
<1>3. ASSUME NEW c, AddsNoRequest(h) PROVE Holding(c)' \subseteq Holding(c)
  <2> SUFFICES ASSUME NEW u \in Holding(c)' PROVE u \in Holding(c)
    OBVIOUS
  <2>1. u \in Handlers /\ request'[u].pc \in HoldSteps /\ request'[u].ref = c
    BY DEF Holding, HoldSteps
  <2>2. request[u].pc \in HoldSteps /\ request[u].ref = c
    BY <1>3, <2>1 DEF Only, AddsNoRequest
  <2> QED
    BY <2>1, <2>2 DEF Holding, HoldSteps
<1> QED
  BY <1>1, <1>2, <1>3

LEMMA SameRows ==
    ASSUME AddsNoRow
    PROVE  /\ \A e : Pending(e)' \subseteq Pending(e)
           /\ \A c : OpenedBy(c)' \subseteq OpenedBy(c)
BY DEF AddsNoRow, Pending, OpenedBy

LEMMA QuietCounts ==
    ASSUME Core, Core', Counted, AddsNoRow,
           \A c : Guessing(c)' \subseteq Guessing(c) /\ Holding(c)' \subseteq Holding(c),
           \A e : Inserting(e)' \subseteq Inserting(e)
    PROVE  Counted'
<1>1. GuessesFit'
  <2> SUFFICES ASSUME NEW c \in DOMAIN codes'
               PROVE  codes'[c].attempts + Cardinality(Guessing(c)')
                        <= maxCodeAttempts + Cardinality(Handlers) - 1
    BY DEF GuessesFit
  <2> QED
    BY GuessesStay DEF Core, Counted, AddsNoRow
<1>2. PendingAreBounded'
  <2> SUFFICES ASSUME NEW e \in Emails
               PROVE  Cardinality(Pending(e)') + Cardinality(Inserting(e)')
                        <= Cardinality(Handlers)
    BY DEF PendingAreBounded
  <2> QED
    BY SameRows, PendingStay DEF Core, Counted
<1>3. OpeningsAreBounded'
  <2> SUFFICES ASSUME NEW c \in DOMAIN codes'
               PROVE  Cardinality(OpenedBy(c)') + Cardinality(Holding(c)')
                        <= Cardinality(Handlers)
    BY DEF OpeningsAreBounded
  <2> QED
    BY SameRows, OpeningsStay DEF Core, Counted, AddsNoRow
<1> QED
  BY <1>1, <1>2, <1>3 DEF Counted

LEMMA StillCounts ==
    ASSUME Core, Core', Counted, AddsNoRow, NEW h \in Handlers, AddsNoRequest(h)
    PROVE  Counted'
BY SameRequests, QuietCounts DEF AddsNoRequest

(* What Done, Goto and Begin make of a request. *)
LEMMA Finish ==
    ASSUME TypeOK, NEW h \in Handlers, Done(h)
    PROVE  Only(h) /\ request'[h].pc = "idle"
BY DEF TypeOK, Done, Only, Idle

LEMMA Proceed ==
    ASSUME TypeOK, NEW h \in Handlers, request[h].pc # "idle", NEW pc \in Steps, Goto(h, pc)
    PROVE  /\ Only(h) /\ request[h] \in Request
           /\ request'[h].pc = pc /\ request'[h].ref = request[h].ref
           /\ request'[h].email = request[h].email
           /\ request'[h].household = request[h].household
<1>1. /\ Only(h) /\ request[h] \in Request
      /\ request'[h] = [request[h] EXCEPT !.pc = pc]
  BY GotoType DEF At
<1> QED
  BY <1>1 DEF Request

LEMMA Started ==
    ASSUME TypeOK, NEW h \in Handlers, NEW r, Begin(h, r)
    PROVE  Only(h) /\ request'[h] = r /\ request[h].pc = "idle"
BY DEF TypeOK, Begin, Only, At

LEMMA RowsUnchanged ==
    ASSUME UNCHANGED <<codes, sessions>> PROVE AddsNoRow
BY DEF AddsNoRow

(* A request that starts at pc. *)
Starts(h, pc) == \E r : r.pc = pc /\ Begin(h, r)

LEMMA Opened ==
    ASSUME NEW h \in Handlers
    PROVE  /\ \A e \in Emails : Login(h, e) => Starts(h, "invalidate")
           /\ \A e \in Emails : Register(h, e) => Starts(h, "household")
           /\ \A c \in DOMAIN codes : EnterExhausted(h, c) => Starts(h, "exhausted")
           /\ Protected(h) => Starts(h, "invalidate") \/ Starts(h, "switch")
<1>1. ASSUME NEW e \in Emails, Login(h, e) PROVE Starts(h, "invalidate")
  BY <1>1 DEF Login, Starts
<1>2. ASSUME NEW e \in Emails, Register(h, e) PROVE Starts(h, "household")
  BY <1>2 DEF Register, Starts
<1>3. ASSUME NEW c \in DOMAIN codes, EnterExhausted(h, c) PROVE Starts(h, "exhausted")
  BY <1>3 DEF EnterExhausted, Enter, Starts
<1>4. ASSUME NEW s \in DOMAIN sessions, NEW e \in Emails, Invite(h, s, e)
      PROVE Starts(h, "invalidate")
  BY <1>4 DEF Invite, Starts
<1>5. ASSUME NEW s \in DOMAIN sessions, NEW hh \in HouseholdIDs, SwitchHousehold(h, s, hh)
      PROVE Starts(h, "switch")
  BY <1>5 DEF SwitchHousehold, Starts
<1> QED
  BY <1>1, <1>2, <1>3, <1>4, <1>5 DEF Protected

LEMMA StartAddsNothing ==
    ASSUME TypeOK, NEW h \in Handlers,
           NEW pc \in {"invalidate", "household", "exhausted", "switch"}, Starts(h, pc)
    PROVE  AddsNoRequest(h)
<1>1. PICK r : r.pc = pc /\ Begin(h, r)
  BY DEF Starts
<1> QED
  BY <1>1, Started DEF AddsNoRequest, HoldSteps

LEMMA BeginCounts ==
    ASSUME Core, Core', Counted, NEW h \in Handlers,
           \/ \E e \in Emails : Login(h, e) \/ Register(h, e)
           \/ \E c \in DOMAIN codes : EnterExhausted(h, c)
           \/ Protected(h)
    PROVE  Counted'
<1>1. AddsNoRequest(h)
  BY Opened, StartAddsNothing DEF Core
<1>2. UNCHANGED <<codes, sessions>>
  BY DEF Login, Register, EnterExhausted, Enter, Protected, Invite, SwitchHousehold
<1> QED
  BY <1>1, <1>2, RowsUnchanged, StillCounts

(* The steps that move on without adding to a count. *)
MovesOn(h) ==
    \/ CreateHousehold(h) \/ CreateUser(h) \/ AddAdmin(h) \/ SeedDefaults(h)
    \/ DetermineHousehold(h) \/ FindInvited(h) \/ JoinHousehold(h) \/ Abort(h)

LEMMA MovesOnCounts ==
    ASSUME Core, Core', Counted, NEW h \in Handlers, MovesOn(h)
    PROVE  Counted'
<1> DEFINE r == request[h]
<1>1. ASSUME Done(h) PROVE AddsNoRequest(h)
  BY <1>1, Finish DEF AddsNoRequest, HoldSteps, Core
<1>2. ASSUME r.pc \in {"user", "newuser", "admin", "seed", "join"}
      PROVE  \A pc \in {"admin", "join", "seed", "invalidate", "session"} :
                Goto(h, pc) /\ (pc \in {"join", "session"} => r.pc \in HoldSteps)
                  => AddsNoRequest(h)
  BY <1>2, Proceed DEF AddsNoRequest, HoldSteps, Core
<1>3. AddsNoRequest(h)
  <2>1. CASE CreateHousehold(h)
    <3>1. Only(h) /\ request'[h].pc = "user"
      BY <2>1, Busy DEF CreateHousehold, At, Only, Core, TypeOK, Request
    <3> QED
      BY <3>1 DEF AddsNoRequest, HoldSteps
  <2>2. CASE CreateUser(h)
    BY <1>1, <1>2, <2>2 DEF CreateUser, At, HoldSteps
  <2>3. CASE AddAdmin(h)
    BY <1>2, <2>3 DEF AddAdmin, At
  <2>4. CASE SeedDefaults(h)
    BY <1>2, <2>4 DEF SeedDefaults, At
  <2>5. CASE DetermineHousehold(h)
    <3>1. r.pc = "who" /\ r \in Request
      BY <2>5, Busy DEF DetermineHousehold, At, Core
    <3>2. ASSUME NEW hh, request' = [request EXCEPT ![h].pc = "session", ![h].household = hh]
          PROVE  Only(h) /\ request'[h].pc = "session" /\ request'[h].ref = r.ref
      BY <3>1, <3>2 DEF Only, Core, TypeOK, Request
    <3> QED
      BY <1>1, <2>5, <3>1, <3>2 DEF DetermineHousehold, AddsNoRequest, HoldSteps
  <2>6. CASE FindInvited(h)
    <3>1. r.pc = "find" /\ r \in Request
      BY <2>6, Busy DEF FindInvited, At, Core
    <3>2. ASSUME NEW pc \in {"join", "newuser"}, NEW hh,
                 request' = [request EXCEPT ![h].pc = pc, ![h].household = hh]
          PROVE  Only(h) /\ request'[h].pc = pc /\ request'[h].ref = r.ref
      BY <3>1, <3>2 DEF Only, Core, TypeOK, Request
    <3> QED
      BY <1>1, <2>6, <3>1, <3>2 DEF FindInvited, AddsNoRequest, HoldSteps
  <2>7. CASE JoinHousehold(h)
    BY <1>2, <2>7 DEF JoinHousehold, At, HoldSteps
  <2>8. CASE Abort(h)
    BY <1>1, <2>8 DEF Abort
  <2> QED
    BY <2>1, <2>2, <2>3, <2>4, <2>5, <2>6, <2>7, <2>8 DEF MovesOn
<1>4. UNCHANGED <<codes, sessions>>
  BY DEF MovesOn, CreateHousehold, CreateUser, AddAdmin, SeedDefaults,
         DetermineHousehold, FindInvited, JoinHousehold, Abort
<1> QED
  BY <1>3, <1>4, RowsUnchanged, StillCounts

LEMMA MarkUsedCounts ==
    ASSUME Core, Core', Counted, NEW h \in Handlers, MarkUsed(h)
    PROVE  Counted'
<1>1. AddsNoRequest(h)
  BY MarkUsedCore DEF AddsNoRequest, HoldSteps
<1>2. request[h].ref \in DOMAIN codes
  BY MarkUsedCore DEF Core, Fits, FitsCode
<1>3. \A c \in DOMAIN codes :
         /\ codes'[c].email = codes[c].email /\ codes'[c].attempts = codes[c].attempts
         /\ ~codes[c].pending => ~codes'[c].pending
  BY <1>2, Rows DEF MarkUsed, Core, Code
<1>4. AddsNoRow
  BY <1>3 DEF MarkUsed, AddsNoRow
<1> QED
  BY <1>1, <1>4, StillCounts

LEMMA UpdateHouseholdCounts ==
    ASSUME Core, Core', Counted, NEW h \in Handlers, UpdateHouseholdID(h)
    PROVE  Counted'
<1>1. AddsNoRequest(h)
  BY Finish DEF UpdateHouseholdID, AddsNoRequest, HoldSteps, Core
<1>2. request[h].ref \in DOMAIN sessions
  BY DEF UpdateHouseholdID, At, Core, Fits, FitsSwitch
<1>3. \A s \in DOMAIN sessions : sessions'[s].code = sessions[s].code
  BY <1>2, Rows DEF UpdateHouseholdID, Core, Session
<1>4. AddsNoRow
  BY <1>3 DEF UpdateHouseholdID, AddsNoRow
<1> QED
  BY <1>1, <1>4, StillCounts

LEMMA IdleCounts ==
    ASSUME Core, Core', Counted, AddsNoRow, request' = request
    PROVE  Counted'
<1>1. /\ \A c : Guessing(c)' \subseteq Guessing(c) /\ Holding(c)' \subseteq Holding(c)
      /\ \A e : Inserting(e)' \subseteq Inserting(e)
  BY DEF Guessing, Holding, Inserting, At
<1> QED
  BY <1>1, QuietCounts

LEMMA TimeCounts ==
    ASSUME Core, Core', Counted,
           \/ \E s \in DOMAIN sessions : Logout(s) \/ ExpireSession(s)
           \/ \E c \in DOMAIN codes : ExpireCode(c)
           \/ UNCHANGED vars
    PROVE  Counted'
<1>1. CASE \E s \in DOMAIN sessions : Logout(s) \/ ExpireSession(s)
  <2>1. PICK s \in DOMAIN sessions : Logout(s) \/ ExpireSession(s)
    BY <1>1
  <2>2. \A t \in DOMAIN sessions : sessions'[t].code = sessions[t].code
    BY <2>1, Rows DEF Logout, ExpireSession, Core, Session
  <2> QED
    BY <2>1, <2>2, IdleCounts DEF Logout, ExpireSession, AddsNoRow
<1>2. CASE \E c \in DOMAIN codes : ExpireCode(c)
  <2>1. PICK c \in DOMAIN codes : ExpireCode(c)
    BY <1>2
  <2>2. \A k \in DOMAIN codes :
           /\ codes'[k].email = codes[k].email /\ codes'[k].attempts = codes[k].attempts
           /\ ~codes[k].pending => ~codes'[k].pending
    BY <2>1, Rows DEF ExpireCode, Core, Code
  <2> QED
    BY <2>1, <2>2, IdleCounts DEF ExpireCode, AddsNoRow
<1>3. CASE UNCHANGED vars
  BY <1>3, RowsUnchanged, IdleCounts DEF vars
<1> QED
  BY <1>1, <1>2, <1>3

(* A request that begins to guess: the count it read was not yet full.     *)
LEMMA EnterWrongCounts ==
    ASSUME Core, Core', Counted, NEW h \in Handlers, NEW c \in DOMAIN codes,
           EnterWrong(h, c)
    PROVE  Counted'
<1>1. /\ Only(h) /\ request'[h].pc = "wrong" /\ request'[h].ref = c
      /\ codes' = codes /\ sessions' = sessions
      /\ codes[c].attempts < maxCodeAttempts
  BY EnterCore DEF EnterWrong, Enter, MayTry
<1>2. GuessesFit'
  <2> SUFFICES ASSUME NEW k \in DOMAIN codes
               PROVE  codes[k].attempts + Cardinality(Guessing(k)')
                        <= maxCodeAttempts + Cardinality(Handlers) - 1
    BY <1>1 DEF GuessesFit
  <2>1. CASE k = c
    <3>1. Guessing(c)' \subseteq Handlers
      BY DEF Guessing
    <3>2. /\ Cardinality(Guessing(c)') <= Cardinality(Handlers)
          /\ Cardinality(Guessing(c)') \in Nat /\ Cardinality(Handlers) \in Nat
      BY <3>1, Smaller, HandlersAssumption
    <3> QED
      BY <1>1, <2>1, <3>2, Rows, AttemptsAssumption DEF Core, Code
  <2>2. CASE k # c
    <3>1. Guessing(k)' \subseteq Guessing(k)
      BY <1>1, <2>2 DEF Only, Guessing, At
    <3> QED
      BY <1>1, <3>1, GuessesStay DEF Core, Counted
  <2> QED
    BY <2>1, <2>2
<1>3. PendingAreBounded'
  <2>1. \A e : Inserting(e)' \subseteq Inserting(e) /\ Pending(e)' = Pending(e)
    BY <1>1, SameRequests DEF Pending
  <2> QED
    BY <2>1, PendingStay DEF Core, Counted, PendingAreBounded
<1>4. OpeningsAreBounded'
  <2>1. \A k : Holding(k)' \subseteq Holding(k) /\ OpenedBy(k)' = OpenedBy(k)
    BY <1>1 DEF Only, Holding, OpenedBy
  <2> QED
    BY <1>1, <2>1, OpeningsStay DEF Core, Counted, OpeningsAreBounded
<1> QED
  BY <1>2, <1>3, <1>4 DEF Counted

(* A request that begins to hold a code: a pending code opened nothing.    *)
LEMMA EnterRightCounts ==
    ASSUME Core, Core', Counted, NEW h \in Handlers, NEW page \in Pages,
           NEW c \in DOMAIN codes, EnterRight(h, page, c)
    PROVE  Counted'
<1>1. /\ Only(h) /\ request'[h].pc = "matched" /\ request'[h].ref = c
      /\ codes' = codes /\ sessions' = sessions /\ codes[c].pending
  BY EnterCore DEF EnterRight, Enter
<1>2. GuessesFit'
  <2>1. \A k : Guessing(k)' \subseteq Guessing(k)
    BY <1>1, SameRequests
  <2> QED
    BY <1>1, <2>1, GuessesStay DEF Core, Counted, GuessesFit
<1>3. PendingAreBounded'
  <2>1. \A e : Inserting(e)' \subseteq Inserting(e) /\ Pending(e)' = Pending(e)
    BY <1>1, SameRequests DEF Pending
  <2> QED
    BY <2>1, PendingStay DEF Core, Counted, PendingAreBounded
<1>4. OpeningsAreBounded'
  <2> SUFFICES ASSUME NEW k \in DOMAIN codes
               PROVE  Cardinality(OpenedBy(k)') + Cardinality(Holding(k)')
                        <= Cardinality(Handlers)
    BY <1>1 DEF OpeningsAreBounded
  <2>1. CASE k = c
    <3>1. OpenedBy(c)' = {}
      BY <1>1 DEF OpenedBy, Core, SessionsAreBacked
    <3>2. Holding(c)' \subseteq Handlers
      BY DEF Holding
    <3> QED
      BY <2>1, <3>1, <3>2, Afresh
  <2>2. CASE k # c
    <3>1. Holding(k)' \subseteq Holding(k) /\ OpenedBy(k)' = OpenedBy(k)
      BY <1>1, <2>2 DEF Only, Holding, OpenedBy
    <3> QED
      BY <3>1, OpeningsStay DEF Core, Counted
  <2> QED
    BY <2>1, <2>2
<1> QED
  BY <1>2, <1>3, <1>4 DEF Counted

LEMMA IncrementCounts ==
    ASSUME Core, Core', Counted, NEW h \in Handlers, IncrementAttempts(h),
           NEW c, request[h].ref = c
    PROVE  Counted'
<1>1. /\ Only(h) /\ request[h].pc = "wrong" /\ request'[h].pc \in {"idle", "lockout"}
      /\ c \in DOMAIN codes
  BY IncrementCore DEF IncrementAttempts, At, Core, Fits, FitsCode
<1>2. /\ DOMAIN codes' = DOMAIN codes /\ sessions' = sessions
      /\ codes'[c].attempts = codes[c].attempts + 1
      /\ \A k \in DOMAIN codes :
            /\ codes'[k].email = codes[k].email /\ codes'[k].pending = codes[k].pending
            /\ k # c => codes'[k].attempts = codes[k].attempts
  BY <1>1, Rows DEF IncrementAttempts, Core, Code
<1>3. GuessesFit'
  <2> SUFFICES ASSUME NEW k \in DOMAIN codes
               PROVE  codes'[k].attempts + Cardinality(Guessing(k)')
                        <= maxCodeAttempts + Cardinality(Handlers) - 1
    BY <1>2 DEF GuessesFit
  <2>1. CASE k = c
    <3>1. Guessing(c)' = Guessing(c) \ {h} /\ h \in Guessing(c)
      BY <1>1 DEF Only, Guessing, At
    <3>2. /\ Cardinality(Guessing(c)') = Cardinality(Guessing(c)) - 1
          /\ Cardinality(Guessing(c)) \in Nat
      BY <3>1, CountedAreFinite, FS_RemoveElement, FS_CardinalityType DEF Core
    <3>3. Cardinality(Handlers) \in Nat /\ codes[c].attempts \in Nat
      BY <1>1, FS_CardinalityType, HandlersAssumption, Rows DEF Core, Code
    <3> QED
      BY <1>1, <1>2, <2>1, <3>2, <3>3, AttemptsAssumption DEF Counted, GuessesFit
  <2>2. CASE k # c
    BY <1>1, <1>2, <2>2, SameRequests, GuessesStay DEF Core, Counted
  <2> QED
    BY <2>1, <2>2
<1>4. PendingAreBounded'
  <2>1. \A e : Inserting(e)' \subseteq Inserting(e) /\ Pending(e)' \subseteq Pending(e)
    BY <1>1, <1>2, SameRequests DEF Pending
  <2> QED
    BY <2>1, PendingStay DEF Core, Counted, PendingAreBounded
<1>5. OpeningsAreBounded'
  <2>1. \A k : Holding(k)' \subseteq Holding(k) /\ OpenedBy(k)' = OpenedBy(k)
    BY <1>1, <1>2 DEF Only, Holding, OpenedBy
  <2> QED
    BY <1>2, <2>1, OpeningsStay DEF Core, Counted, OpeningsAreBounded
<1> QED
  BY <1>3, <1>4, <1>5 DEF Counted

(* The older codes go; whoever is about to insert is a request.            *)
LEMMA InvalidateCounts ==
    ASSUME Core, Core', Counted, NEW h \in Handlers, Invalidate(h),
           NEW e, request[h].email = e
    PROVE  Counted'
<1>1. /\ Only(h) /\ request[h].pc = "invalidate" /\ request'[h].pc = "insert"
      /\ request'[h].email = e
  BY Proceed DEF Invalidate, At, Core
<1>2. /\ DOMAIN codes' = DOMAIN codes /\ sessions' = sessions
      /\ \A k \in DOMAIN codes :
            /\ codes'[k].email = codes[k].email /\ codes'[k].attempts = codes[k].attempts
            /\ codes'[k].pending = (codes[k].pending /\ codes[k].email # e)
  <2>1. DOMAIN codes' = DOMAIN codes /\ sessions' = sessions
    BY DEF Invalidate
  <2>2. ASSUME NEW k \in DOMAIN codes
        PROVE  /\ codes'[k].email = codes[k].email /\ codes'[k].attempts = codes[k].attempts
               /\ codes'[k].pending = (codes[k].pending /\ codes[k].email # e)
    <3>1. codes[k] \in Code
      BY Rows DEF Core
    <3>2. codes'[k] = IF k \in Pending(e) THEN [codes[k] EXCEPT !.pending = FALSE] ELSE codes[k]
      BY DEF Invalidate
    <3>3. CASE k \in Pending(e)
      BY <3>1, <3>2, <3>3 DEF Code, Pending
    <3>4. CASE k \notin Pending(e)
      BY <3>1, <3>2, <3>4 DEF Code, Pending
    <3> QED
      BY <3>3, <3>4
  <2> QED
    BY <2>1, <2>2
<1>3. GuessesFit'
  BY <1>1, <1>2, SameRequests, GuessesStay DEF Core, Counted, GuessesFit
<1>4. PendingAreBounded'
  <2> SUFFICES ASSUME NEW x \in Emails
               PROVE  Cardinality(Pending(x)') + Cardinality(Inserting(x)')
                        <= Cardinality(Handlers)
    BY DEF PendingAreBounded
  <2>1. CASE x = e
    <3>1. Pending(x)' = {} /\ Inserting(x)' \subseteq Handlers
      BY <1>2, <2>1 DEF Pending, Inserting
    <3> QED
      BY <3>1, Afresh
  <2>2. CASE x # e
    <3>1. Pending(x)' \subseteq Pending(x) /\ Inserting(x)' \subseteq Inserting(x)
      BY <1>1, <1>2, <2>2 DEF Pending, Inserting, Only, At
    <3> QED
      BY <3>1, PendingStay DEF Core, Counted
  <2> QED
    BY <2>1, <2>2
<1>5. OpeningsAreBounded'
  <2>1. \A k : Holding(k)' \subseteq Holding(k) /\ OpenedBy(k)' = OpenedBy(k)
    BY <1>1, <1>2 DEF Only, Holding, OpenedBy
  <2> QED
    BY <1>2, <2>1, OpeningsStay DEF Core, Counted, OpeningsAreBounded
<1> QED
  BY <1>3, <1>4, <1>5 DEF Counted

(* A request that inserted becomes one more pending code; nobody guessed   *)
(* or holds the new code before it is there.                               *)
LEMMA InsertCounts ==
    ASSUME Core, Core', Counted, NEW h \in Handlers, InsertCode(h),
           NEW e, request[h].email = e, NEW n, n = Len(codes) + 1
    PROVE  Counted'
<1>1. /\ Only(h) /\ request[h].pc = "insert" /\ request'[h].pc = "idle"
      /\ e \in Emails
  BY Finish, Busy DEF InsertCode, At, Core, Request
<1>2. /\ DOMAIN codes' = DOMAIN codes \cup {n} /\ n \notin DOMAIN codes
      /\ sessions' = sessions
      /\ codes'[n].email = e /\ codes'[n].pending /\ codes'[n].attempts = 0
      /\ \A k \in DOMAIN codes : codes'[k] = codes[k]
  BY Rows DEF InsertCode, Core, TypeOK
<1>3. GuessesFit'
  <2> SUFFICES ASSUME NEW k \in DOMAIN codes'
               PROVE  codes'[k].attempts + Cardinality(Guessing(k)')
                        <= maxCodeAttempts + Cardinality(Handlers) - 1
    BY DEF GuessesFit
  <2>1. CASE k = n
    <3>1. Guessing(k)' \subseteq Handlers
      BY DEF Guessing
    <3>2. /\ Cardinality(Guessing(k)') <= Cardinality(Handlers)
          /\ Cardinality(Guessing(k)') \in Nat /\ Cardinality(Handlers) \in Nat
      BY <3>1, Smaller, HandlersAssumption
    <3> QED
      BY <1>2, <2>1, <3>2, AttemptsAssumption
  <2>2. CASE k \in DOMAIN codes
    BY <1>1, <1>2, <2>2, SameRequests, GuessesStay DEF Core, Counted
  <2> QED
    BY <1>2, <2>1, <2>2
<1>4. PendingAreBounded'
  <2> SUFFICES ASSUME NEW x \in Emails
               PROVE  Cardinality(Pending(x)') + Cardinality(Inserting(x)')
                        <= Cardinality(Handlers)
    BY DEF PendingAreBounded
  <2>1. CASE x = e
    <3>1. /\ Pending(x)' = Pending(x) \cup {n} /\ h \in Inserting(x)
          /\ Inserting(x)' = Inserting(x) \ {h}
      BY <1>1, <1>2, <2>1 DEF Pending, Inserting, Only, At
    <3> QED
      BY <3>1, CountedAreFinite, Passed DEF Core, Counted, PendingAreBounded
  <2>2. CASE x # e
    <3>1. Pending(x)' \subseteq Pending(x) /\ Inserting(x)' \subseteq Inserting(x)
      BY <1>1, <1>2, <2>2 DEF Pending, Inserting, Only, At
    <3> QED
      BY <3>1, PendingStay DEF Core, Counted
  <2> QED
    BY <2>1, <2>2
<1>5. OpeningsAreBounded'
  <2> SUFFICES ASSUME NEW k \in DOMAIN codes'
               PROVE  Cardinality(OpenedBy(k)') + Cardinality(Holding(k)')
                        <= Cardinality(Handlers)
    BY DEF OpeningsAreBounded
  <2>1. CASE k = n
    <3>1. OpenedBy(k)' = {} /\ Holding(k)' \subseteq Handlers
      BY <1>2, <2>1 DEF OpenedBy, Holding, Core, SessionsFit
    <3> QED
      BY <3>1, Afresh
  <2>2. CASE k \in DOMAIN codes
    <3>1. Holding(k)' \subseteq Holding(k) /\ OpenedBy(k)' = OpenedBy(k)
      BY <1>1, <1>2 DEF Only, Holding, OpenedBy
    <3> QED
      BY <2>2, <3>1, OpeningsStay DEF Core, Counted
  <2> QED
    BY <1>2, <2>1, <2>2
<1> QED
  BY <1>3, <1>4, <1>5 DEF Counted

(* A request that holds a code becomes one more session of it.             *)
LEMMA CreateSessionCounts ==
    ASSUME Core, Core', Counted, NEW h \in Handlers, CreateSession(h),
           NEW c, request[h].ref = c, NEW n, n = Len(sessions) + 1
    PROVE  Counted'
<1>1. /\ Only(h) /\ request[h].pc = "session" /\ request'[h].pc = "idle"
      /\ c \in DOMAIN codes /\ codes' = codes
  BY Finish DEF CreateSession, At, Core, Fits, FitsCode
<1>2. /\ DOMAIN sessions' = DOMAIN sessions \cup {n} /\ n \notin DOMAIN sessions
      /\ sessions'[n].code = c
      /\ \A s \in DOMAIN sessions : sessions'[s] = sessions[s]
  BY Rows DEF CreateSession, Core, TypeOK
<1>3. GuessesFit'
  BY <1>1, SameRequests, GuessesStay DEF Core, Counted, GuessesFit
<1>4. PendingAreBounded'
  <2>1. \A e : Inserting(e)' \subseteq Inserting(e) /\ Pending(e)' = Pending(e)
    BY <1>1, SameRequests DEF Pending
  <2> QED
    BY <2>1, PendingStay DEF Core, Counted, PendingAreBounded
<1>5. OpeningsAreBounded'
  <2> SUFFICES ASSUME NEW k \in DOMAIN codes
               PROVE  Cardinality(OpenedBy(k)') + Cardinality(Holding(k)')
                        <= Cardinality(Handlers)
    BY <1>1 DEF OpeningsAreBounded
  <2>1. CASE k = c
    <3>1. /\ OpenedBy(k)' = OpenedBy(k) \cup {n} /\ h \in Holding(k)
          /\ Holding(k)' = Holding(k) \ {h}
      BY <1>1, <1>2, <2>1 DEF OpenedBy, Holding, Only
    <3> QED
      BY <3>1, CountedAreFinite, Passed DEF Core, Counted, OpeningsAreBounded
  <2>2. CASE k # c
    <3>1. OpenedBy(k)' = OpenedBy(k) /\ Holding(k)' \subseteq Holding(k)
      BY <1>1, <1>2, <2>2 DEF OpenedBy, Holding, Only
    <3> QED
      BY <3>1, OpeningsStay DEF Core, Counted
  <2> QED
    BY <2>1, <2>2
<1> QED
  BY <1>3, <1>4, <1>5 DEF Counted

LEMMA InitCounted == Init => Counted
<1> SUFFICES ASSUME Init PROVE Counted
  OBVIOUS
<1>1. /\ DOMAIN codes = {} /\ DOMAIN sessions = {}
      /\ \A h \in Handlers : request[h].pc = "idle"
  BY DEF Init, Idle
<1>2. \A e \in Emails : Pending(e) = {} /\ Inserting(e) \subseteq Handlers
  BY <1>1 DEF Pending, Inserting
<1> QED
  BY <1>1, <1>2, Afresh DEF Counted, GuessesFit, PendingAreBounded, OpeningsAreBounded

LEMMA NextCounted == Core /\ Counted /\ [Next]_vars => Counted'
<1> SUFFICES ASSUME Core, Counted, [Next]_vars PROVE Counted'
  OBVIOUS
<1>1. Core'
  BY NextCore
<1>2. ASSUME NEW h \in Handlers, Public(h) PROVE Counted'
  <2>1. CASE \E e \in Emails : Login(h, e) \/ Register(h, e)
    BY <1>1, <2>1, BeginCounts
  <2>2. ASSUME NEW c \in DOMAIN codes, NEW page \in Pages,
               EnterExhausted(h, c) \/ EnterWrong(h, c) \/ EnterRight(h, page, c)
        PROVE  Counted'
    BY <1>1, <2>2, BeginCounts, EnterWrongCounts, EnterRightCounts
  <2> QED
    BY <1>2, <2>1, <2>2 DEF Public
<1>3. ASSUME NEW h \in Handlers, Protected(h) PROVE Counted'
  BY <1>1, <1>3, BeginCounts
<1>4. ASSUME NEW h \in Handlers, Continue(h) PROVE Counted'
  BY <1>1, <1>4, MovesOnCounts, InvalidateCounts, InsertCounts, IncrementCounts,
     MarkUsedCounts, CreateSessionCounts, UpdateHouseholdCounts DEF Continue, MovesOn
<1> QED
  BY <1>1, <1>2, <1>3, <1>4, TimeCounts DEF Next

LEMMA CountedAlways == Spec => []Counted
<1>1. Init => Core /\ Counted
  BY InitCore, InitCounted
<1>2. (Core /\ Counted) /\ [Next]_vars => (Core /\ Counted)'
  BY NextCore, NextCounted
<1> QED
  BY <1>1, <1>2, PTL DEF Spec

(* A household has one founder, who is its only admin; until then it is    *)
(* the business of one request.                                            *)
FoundingSteps == {"user", "admin", "seed"}

Founded ==
    /\ \A hh \in HouseholdIDs, e \in Emails :
         members[hh][e] = "admin" => hh <= created /\ e \in users
    /\ \A h \in Handlers : request[h].pc = "admin" => request[h].email \in users
    /\ \A hh \in HouseholdIDs : \A d, e \in Emails :
         members[hh][d] = "admin" /\ members[hh][e] = "admin" => d = e
    /\ \A h \in Handlers, e \in Emails :
         request[h].pc \in {"user", "admin"} => members[request[h].household][e] # "admin"
    /\ \A h, u \in Handlers :
         /\ request[h].pc \in FoundingSteps /\ request[u].pc \in FoundingSteps
         /\ request[h].household = request[u].household
         => h = u

NoNewAdmin ==
    \A hh \in HouseholdIDs, e \in Emails :
        members'[hh][e] = "admin" => members[hh][e] = "admin"

LEMMA HouseholdsExist ==
    ASSUME Core, NEW h \in Handlers, request[h].pc \in FoundingSteps
    PROVE  /\ request[h] \in Request /\ request[h].email \in Emails
           /\ request[h].household \in 1..created /\ request[h].household \in HouseholdIDs
<1>1. request[h] \in Request
  BY Busy DEF Core, FoundingSteps
<1>2. request[h].household \in 1..created
  BY DEF Core, Fits, FitsSignUp, FoundingSteps
<1> QED
  BY <1>1, <1>2, BoundsAssumption DEF Request, Core, TypeOK

LEMMA FoundedKept ==
    ASSUME Core, Founded, created' = created, users \subseteq users', NoNewAdmin,
           \A u \in Handlers :
               /\ request'[u].pc = "admin" => request'[u].email \in users'
               /\ request'[u].pc \in FoundingSteps =>
                    /\ request[u].pc \in FoundingSteps
                    /\ request'[u].household = request[u].household
               /\ request'[u].pc \in {"user", "admin"} => request[u].pc \in {"user", "admin"}
    PROVE  Founded'
<1>1. \A u \in Handlers : request[u].pc \in FoundingSteps => request[u].household \in HouseholdIDs
  BY HouseholdsExist
<1>2. ASSUME NEW u \in Handlers, NEW e \in Emails, request'[u].pc \in {"user", "admin"}
      PROVE  members'[request'[u].household][e] # "admin"
  <2>1. /\ request[u].pc \in {"user", "admin"} /\ request[u].pc \in FoundingSteps
        /\ request'[u].household = request[u].household
    BY <1>2 DEF FoundingSteps
  <2> QED
    BY <1>1, <2>1 DEF Founded, NoNewAdmin
<1>3. \A hh \in HouseholdIDs, e \in Emails :
         members'[hh][e] = "admin" => hh <= created' /\ e \in users'
  BY DEF Founded, NoNewAdmin
<1>4. \A hh \in HouseholdIDs : \A d, e \in Emails :
         members'[hh][d] = "admin" /\ members'[hh][e] = "admin" => d = e
  BY DEF Founded, NoNewAdmin
<1>5. \A h, u \in Handlers :
         /\ request'[h].pc \in FoundingSteps /\ request'[u].pc \in FoundingSteps
         /\ request'[h].household = request'[u].household
         => h = u
  BY DEF Founded
<1> QED
  BY <1>2, <1>3, <1>4, <1>5 DEF Founded

(* What is still to do is done, still to do, or given up by a failure.     *)
Handed ==
    /\ users' = users /\ seeded \subseteq seeded' /\ broken \subseteq broken'
    /\ \A hh \in HouseholdIDs, e \in Emails :
         members'[hh][e] = "admin" =>
            \/ members[hh][e] = "admin"
            \/ \E u \in Handlers : request'[u].pc = "seed" /\ request'[u].household = hh
    /\ \A u \in Handlers :
         /\ request[u].pc \in {"admin", "join"} =>
              \/ request'[u].pc = request[u].pc /\ request'[u].email = request[u].email
              \/ request[u].email \in broken'
              \/ \E hh \in HouseholdIDs : members'[hh][request[u].email] # "none"
         /\ request[u].pc = "seed" =>
              \/ request'[u].pc = "seed" /\ request'[u].household = request[u].household
              \/ request[u].household \in seeded'
              \/ \A e \in Emails :
                   members'[request[u].household][e] = "admin" => e \in broken'

LEMMA BelongKept ==
    ASSUME UsersBelongSomewhere, MembersGrow, users \subseteq Emails, Handed
    PROVE  UsersBelongSomewhere'
<1> SUFFICES ASSUME NEW e \in users, e \notin broken'
             PROVE  /\ \/ HouseholdsOf(e)' # {}
                       \/ \E h \in Handlers :
                            request'[h].pc \in {"admin", "join"} /\ request'[h].email = e
                    /\ \A hh \in HouseholdIDs :
                         members'[hh][e] = "admin" =>
                            \/ hh \in seeded'
                            \/ \E h \in Handlers :
                                 request'[h].pc = "seed" /\ request'[h].household = hh
  BY DEF UsersBelongSomewhere, At, Handed
<1>1. /\ e \in Emails /\ e \notin broken
      /\ HouseholdsOf(e) \subseteq HouseholdsOf(e)'
  BY DEF HouseholdsOf, MembersGrow, Handed
<1>2. \/ HouseholdsOf(e)' # {}
      \/ \E h \in Handlers : request'[h].pc \in {"admin", "join"} /\ request'[h].email = e
  <2>1. CASE HouseholdsOf(e) # {}
    BY <1>1, <2>1
  <2>2. ASSUME NEW u \in Handlers, request[u].pc \in {"admin", "join"}, request[u].email = e
        PROVE  \/ HouseholdsOf(e)' # {}
               \/ request'[u].pc \in {"admin", "join"} /\ request'[u].email = e
    BY <2>2 DEF Handed, HouseholdsOf
  <2> QED
    BY <1>1, <2>1, <2>2 DEF UsersBelongSomewhere
<1>3. ASSUME NEW hh \in HouseholdIDs, members'[hh][e] = "admin", hh \notin seeded'
      PROVE  \E h \in Handlers : request'[h].pc = "seed" /\ request'[h].household = hh
  <2>1. CASE members[hh][e] = "admin"
    <3>1. PICK u \in Handlers : request[u].pc = "seed" /\ request[u].household = hh
      BY <1>1, <1>3, <2>1 DEF UsersBelongSomewhere, At, Handed
    <3> QED
      BY <1>1, <1>3, <3>1 DEF Handed
  <2> QED
    BY <1>1, <1>3, <2>1 DEF Handed
<1> QED
  BY <1>2, <1>3

LEMMA BelongUntouched ==
    ASSUME UsersBelongSomewhere, MembersGrow, NoNewAdmin,
           users' = users, seeded \subseteq seeded', broken' = broken, users \subseteq Emails,
           \A u \in Handlers :
               /\ request[u].pc \in {"admin", "join"} =>
                    request'[u].pc = request[u].pc /\ request'[u].email = request[u].email
               /\ request[u].pc = "seed" =>
                    request'[u].pc = "seed" /\ request'[u].household = request[u].household
    PROVE  UsersBelongSomewhere'
BY BelongKept DEF Handed, NoNewAdmin

(* Most steps have nothing to do with it. *)
Elsewhere(h) ==
    /\ Only(h)
    /\ request[h].pc \notin FoundingSteps \cup {"join"}
    /\ request'[h].pc \notin FoundingSteps
    /\ UNCHANGED <<users, created, members, seeded, broken>>

Settled == Founded /\ UsersBelongSomewhere

LEMMA ElsewhereSettled ==
    ASSUME Core, Settled, NEW h \in Handlers, Elsewhere(h)
    PROVE  Settled'
<1>1. NoNewAdmin /\ MembersGrow
  BY DEF Elsewhere, NoNewAdmin, MembersGrow
<1>2. Founded'
  <2>1. \A u \in Handlers : request'[u].pc = "admin" =>
           u # h /\ request'[u] = request[u] /\ request'[u].email \in users'
    BY DEF Settled, Founded, Elsewhere, Only, FoundingSteps
  <2> QED
    BY <1>1, <2>1, FoundedKept DEF Settled, Elsewhere, Only, FoundingSteps
<1>3. UsersBelongSomewhere'
  BY <1>1, BelongUntouched DEF Settled, Elsewhere, Only, FoundingSteps, Core, TypeOK
<1> QED
  BY <1>2, <1>3 DEF Settled

LEMMA StartElsewhere ==
    ASSUME TypeOK, NEW h \in Handlers,
           NEW pc \in {"invalidate", "household", "exhausted", "wrong", "matched", "switch"},
           Starts(h, pc), UNCHANGED <<users, created, members, seeded, broken>>
    PROVE  Elsewhere(h)
<1>1. PICK r : r.pc = pc /\ Begin(h, r)
  BY DEF Starts
<1> QED
  BY <1>1, Started DEF Elsewhere, FoundingSteps

LEMMA PublicElsewhere ==
    ASSUME TypeOK, NEW h \in Handlers, Public(h) \/ Protected(h)
    PROVE  Elsewhere(h)
<1>1. \E pc \in {"invalidate", "household", "exhausted", "wrong", "matched", "switch"} :
         Starts(h, pc)
  <2>1. ASSUME NEW c \in DOMAIN codes, EnterWrong(h, c) PROVE Starts(h, "wrong")
    BY <2>1 DEF EnterWrong, Enter, Starts
  <2>2. ASSUME NEW c \in DOMAIN codes, NEW page \in Pages, EnterRight(h, page, c)
        PROVE  Starts(h, "matched")
    BY <2>2 DEF EnterRight, Enter, Starts
  <2> QED
    BY <2>1, <2>2, Opened DEF Public
<1>2. UNCHANGED <<users, created, members, seeded, broken>>
  BY DEF Public, Protected, Login, Register, EnterExhausted, EnterWrong, EnterRight, Enter,
         Invite, SwitchHousehold
<1> QED
  BY <1>1, <1>2, StartElsewhere

WorksOnCode(h) ==
    \/ Invalidate(h) \/ InsertCode(h) \/ IncrementAttempts(h) \/ MarkUsed(h)
    \/ DetermineHousehold(h) \/ FindInvited(h)
    \/ CreateSession(h) \/ UpdateHouseholdID(h)

LEMMA CodeElsewhere ==
    ASSUME Core, NEW h \in Handlers, WorksOnCode(h)
    PROVE  Elsewhere(h)
<1>1. UNCHANGED <<users, created, members, seeded, broken>>
  BY DEF WorksOnCode, Invalidate, InsertCode, IncrementAttempts, MarkUsed,
         DetermineHousehold, FindInvited, CreateSession, UpdateHouseholdID
<1>2. /\ Only(h) /\ request[h].pc \notin FoundingSteps \cup {"join"}
      /\ request'[h].pc \notin FoundingSteps
  <2>1. CASE Invalidate(h)
    BY <2>1, Proceed DEF Invalidate, At, Core, FoundingSteps
  <2>2. CASE InsertCode(h) \/ CreateSession(h) \/ UpdateHouseholdID(h)
    BY <2>2, Finish DEF InsertCode, CreateSession, UpdateHouseholdID, At, Core, FoundingSteps
  <2>3. CASE IncrementAttempts(h)
    BY <2>3, IncrementCore DEF IncrementAttempts, At, FoundingSteps
  <2>4. CASE MarkUsed(h)
    BY <2>4, MarkUsedCore DEF FoundingSteps
  <2>5. CASE DetermineHousehold(h)
    <3>1. request[h].pc = "who"
      BY <2>5 DEF DetermineHousehold, At
    <3>2. Only(h) /\ request'[h].pc \in {"idle", "session"}
      <4>1. CASE Done(h)
        BY <4>1, Finish DEF Core
      <4>2. ASSUME NEW hh, request' = [request EXCEPT ![h].pc = "session", ![h].household = hh]
            PROVE  Only(h) /\ request'[h].pc = "session"
        BY <3>1, <4>2, Busy DEF Only, Core, TypeOK, Request
      <4> QED
        BY <2>5, <4>1, <4>2 DEF DetermineHousehold
    <3> QED
      BY <3>1, <3>2 DEF FoundingSteps
  <2>6. CASE FindInvited(h)
    <3>1. request[h].pc = "find"
      BY <2>6 DEF FindInvited, At
    <3>2. Only(h) /\ request'[h].pc \in {"idle", "join", "newuser"}
      <4>1. CASE Done(h)
        BY <4>1, Finish DEF Core
      <4>2. ASSUME NEW pc \in {"join", "newuser"}, NEW hh,
                   request' = [request EXCEPT ![h].pc = pc, ![h].household = hh]
            PROVE  Only(h) /\ request'[h].pc = pc
        BY <3>1, <4>2, Busy DEF Only, Core, TypeOK, Request
      <4> QED
        BY <2>6, <4>1, <4>2 DEF FindInvited
    <3> QED
      BY <3>1, <3>2 DEF FoundingSteps
  <2> QED
    BY <2>1, <2>2, <2>3, <2>4, <2>5, <2>6 DEF WorksOnCode
<1> QED
  BY <1>1, <1>2 DEF Elsewhere

LEMMA CreateHouseholdSettled ==
    ASSUME Core, Settled, NEW h \in Handlers, CreateHousehold(h)
    PROVE  Settled'
<1>1. /\ created \in Nat /\ created' = created + 1
      /\ UNCHANGED <<users, members, seeded, broken>>
  BY DEF CreateHousehold, Core, TypeOK
<1>2. /\ Only(h) /\ request[h].pc = "household" /\ request'[h].pc = "user"
      /\ request'[h].household = created + 1
  BY Busy DEF CreateHousehold, At, Only, Core, TypeOK, Request
<1>3. \A u \in Handlers : request[u].pc \in FoundingSteps =>
         request[u].household \in Nat /\ request[u].household <= created
  BY <1>1, HouseholdsExist
<1>4. created + 1 \in HouseholdIDs
  BY <1>1, BoundsAssumption DEF CreateHousehold, Core, TypeOK
<1>5. Founded'
  <2>1. \A hh \in HouseholdIDs, e \in Emails :
           members'[hh][e] = "admin" => hh <= created' /\ e \in users'
    BY <1>1, BoundsAssumption DEF Settled, Founded
  <2>2. \A hh \in HouseholdIDs : \A d, e \in Emails :
           members'[hh][d] = "admin" /\ members'[hh][e] = "admin" => d = e
    BY <1>1 DEF Settled, Founded
  <2>3. ASSUME NEW u \in Handlers, NEW e \in Emails, request'[u].pc \in {"user", "admin"}
        PROVE  members'[request'[u].household][e] # "admin"
    <3>1. CASE u = h
      BY <1>1, <1>2, <1>4, <3>1 DEF Settled, Founded
    <3>2. CASE u # h
      BY <1>1, <1>2, <2>3, <3>2 DEF Only, Settled, Founded
    <3> QED
      BY <3>1, <3>2
  <2>4. ASSUME NEW u \in Handlers, NEW v \in Handlers,
               request'[u].pc \in FoundingSteps, request'[v].pc \in FoundingSteps,
               request'[u].household = request'[v].household
        PROVE  u = v
    <3>1. \A w \in Handlers \ {h} : request'[w].pc \in FoundingSteps =>
             request'[w].household # created + 1
      BY <1>1, <1>2, <1>3 DEF Only
    <3>2. CASE u = h \/ v = h
      BY <1>2, <2>4, <3>1, <3>2
    <3>3. CASE u # h /\ v # h
      BY <1>2, <2>4, <3>3 DEF Only, Settled, Founded
    <3> QED
      BY <3>2, <3>3
  <2>5. \A u \in Handlers : request'[u].pc = "admin" => request'[u].email \in users'
    BY <1>1, <1>2 DEF Only, Settled, Founded
  <2> QED
    BY <2>1, <2>2, <2>3, <2>4, <2>5 DEF Founded
<1>6. UsersBelongSomewhere'
  <2>1. NoNewAdmin /\ MembersGrow
    BY <1>1 DEF NoNewAdmin, MembersGrow
  <2> QED
    BY <1>1, <1>2, <2>1, BelongUntouched DEF Only, Settled, Core, TypeOK
<1> QED
  BY <1>5, <1>6 DEF Settled

LEMMA CreateUserSettled ==
    ASSUME Core, Settled, NEW h \in Handlers, CreateUser(h),
           NEW e, request[h].email = e
    PROVE  Settled'
<1>1. /\ request[h].pc \in {"user", "newuser"} /\ e \in Emails
      /\ UNCHANGED <<created, members, seeded, broken>>
  BY Busy DEF CreateUser, At, Core, Request
<1>2. NoNewAdmin /\ MembersGrow
  BY <1>1 DEF NoNewAdmin, MembersGrow
<1>3. /\ Only(h)
      /\ \/ request'[h].pc = "idle" /\ users' = users
         \/ /\ request'[h].pc = (IF request[h].pc = "user" THEN "admin" ELSE "join")
            /\ request'[h].email = e /\ request'[h].household = request[h].household
            /\ users' = users \cup {e}
  BY <1>1, Finish, Proceed DEF CreateUser, At, Core
<1>4. Founded'
  <2>1. users \subseteq users'
    BY <1>3
  <2>2. \A u \in Handlers : request'[u].pc = "admin" => request'[u].email \in users'
    BY <1>3, <2>1 DEF Only, Settled, Founded
  <2> QED
    BY <1>1, <1>2, <1>3, <2>1, <2>2, FoundedKept DEF Only, Settled, FoundingSteps
<1>5. CASE users' = users
  BY <1>1, <1>2, <1>3, <1>4, <1>5, BelongUntouched DEF Only, Settled, Core, TypeOK
<1>6. CASE /\ request'[h].pc \in {"admin", "join"} /\ request'[h].email = e
           /\ users' = users \cup {e} /\ e \notin users
  <2>1. ASSUME NEW x \in users, x \notin broken
        PROVE  \/ HouseholdsOf(x)' # {}
               \/ \E u \in Handlers :
                    request'[u].pc \in {"admin", "join"} /\ request'[u].email = x
    <3>1. CASE HouseholdsOf(x) # {}
      BY <1>1, <3>1 DEF HouseholdsOf
    <3>2. ASSUME NEW u \in Handlers, request[u].pc \in {"admin", "join"}, request[u].email = x
          PROVE  u # h /\ request'[u] = request[u]
      BY <1>1, <1>3, <3>2 DEF Only
    <3> QED
      BY <2>1, <3>1, <3>2 DEF Settled, UsersBelongSomewhere
  <2>2. ASSUME NEW x \in users', x \notin broken, NEW hh \in HouseholdIDs,
               members'[hh][x] = "admin", hh \notin seeded'
        PROVE  \E u \in Handlers : request'[u].pc = "seed" /\ request'[u].household = hh
    <3>1. CASE x \in users
      <4>1. PICK u \in Handlers : request[u].pc = "seed" /\ request[u].household = hh
        BY <1>1, <2>2, <3>1 DEF Settled, UsersBelongSomewhere, At
      <4> QED
        BY <1>1, <1>3, <4>1 DEF Only
    <3>2. CASE x = e
      <4>1. members[hh][e] # "admin"
        BY <1>1, <1>6 DEF Settled, Founded
      <4> QED
        BY <1>1, <2>2, <3>2, <4>1
    <3> QED
      BY <1>6, <2>2, <3>1, <3>2
  <2> QED
    BY <1>1, <1>4, <1>6, <2>1, <2>2 DEF Settled, UsersBelongSomewhere, At
<1> QED
  BY <1>1, <1>3, <1>5, <1>6 DEF CreateUser

LEMMA AddAdminSettled ==
    ASSUME Core, Settled, NEW h \in Handlers, AddAdmin(h),
           NEW e, request[h].email = e, NEW hh, request[h].household = hh
    PROVE  Settled'
<1>1. /\ request[h].pc = "admin" /\ request[h].pc \in FoundingSteps
      /\ UNCHANGED <<users, created, seeded, broken>>
  BY DEF AddAdmin, At, FoundingSteps
<1>2. e \in Emails /\ e \in users /\ hh \in 1..created /\ hh \in HouseholdIDs /\ created \in Nat
  BY <1>1, HouseholdsExist DEF Settled, Founded, Core, TypeOK
<1>3. /\ Only(h) /\ request'[h].pc = "seed"
      /\ request'[h].email = e /\ request'[h].household = hh
  BY <1>1, Proceed DEF AddAdmin, Core
<1>4. \A g \in HouseholdIDs, x \in Emails :
         members'[g][x] = IF g = hh /\ x = e THEN "admin" ELSE members[g][x]
  BY <1>2 DEF AddAdmin, Core, TypeOK
<1>5. Founded'
  <2>1. \A g \in HouseholdIDs, x \in Emails :
           members'[g][x] = "admin" => g <= created' /\ x \in users'
    BY <1>1, <1>2, <1>4 DEF Settled, Founded
  <2>2. \A u \in Handlers : request'[u].pc = "admin" => request'[u].email \in users'
    BY <1>1, <1>3 DEF Only, Settled, Founded
  <2>3. ASSUME NEW g \in HouseholdIDs, NEW x \in Emails, NEW y \in Emails,
               members'[g][x] = "admin", members'[g][y] = "admin"
        PROVE  x = y
    <3>1. \A z \in Emails : members[hh][z] # "admin"
      BY <1>1 DEF Settled, Founded
    <3>2. CASE g = hh
      BY <1>4, <2>3, <3>1, <3>2
    <3>3. CASE g # hh
      BY <1>4, <2>3, <3>3 DEF Settled, Founded
    <3> QED
      BY <3>2, <3>3
  <2>4. ASSUME NEW u \in Handlers, NEW x \in Emails, request'[u].pc \in {"user", "admin"}
        PROVE  members'[request'[u].household][x] # "admin"
    <3>1. u # h /\ request'[u] = request[u] /\ request[u].pc \in FoundingSteps
      BY <1>3, <2>4 DEF Only, FoundingSteps
    <3>2. request[u].household \in HouseholdIDs /\ request[u].household # hh
      BY <1>1, <3>1, HouseholdsExist DEF Settled, Founded
    <3> QED
      BY <1>4, <2>4, <3>1, <3>2 DEF Settled, Founded
  <2>5. ASSUME NEW u \in Handlers, NEW v \in Handlers,
               request'[u].pc \in FoundingSteps, request'[v].pc \in FoundingSteps,
               request'[u].household = request'[v].household
        PROVE  u = v
    <3>1. \A w \in Handlers : request'[w].pc \in FoundingSteps =>
             request[w].pc \in FoundingSteps /\ request'[w].household = request[w].household
      BY <1>1, <1>3 DEF Only
    <3> QED
      BY <2>5, <3>1 DEF Settled, Founded
  <2> QED
    BY <2>1, <2>2, <2>3, <2>4, <2>5 DEF Founded
<1>6. UsersBelongSomewhere'
  <2>1. MembersGrow
    BY <1>4 DEF MembersGrow
  <2>2. Handed
    BY <1>1, <1>2, <1>3, <1>4 DEF Handed, Only
  <2> QED
    BY <2>1, <2>2, BelongKept DEF Settled, Core, TypeOK
<1> QED
  BY <1>5, <1>6 DEF Settled

LEMMA SeedDefaultsSettled ==
    ASSUME Core, Settled, NEW h \in Handlers, SeedDefaults(h)
    PROVE  Settled'
<1>1. /\ request[h].pc = "seed" /\ UNCHANGED <<users, created, members, broken>>
      /\ seeded' = seeded \cup {request[h].household}
  BY DEF SeedDefaults, At
<1>2. NoNewAdmin /\ MembersGrow
  BY <1>1 DEF NoNewAdmin, MembersGrow
<1>3. Only(h) /\ request'[h].pc = "invalidate"
  BY <1>1, Proceed DEF SeedDefaults, Core
<1>4. \A u \in Handlers : request'[u].pc = "admin" => request'[u].email \in users'
  BY <1>1, <1>3 DEF Only, Settled, Founded
<1>5. Founded'
  BY <1>1, <1>2, <1>3, <1>4, FoundedKept DEF Settled, Only, FoundingSteps
<1>6. Handed
  BY <1>1, <1>3 DEF Handed, Only
<1> QED
  BY <1>2, <1>5, <1>6, BelongKept DEF Settled, Core, TypeOK

LEMMA JoinHouseholdSettled ==
    ASSUME Core, Settled, NEW h \in Handlers, JoinHousehold(h),
           NEW e, request[h].email = e, NEW hh, request[h].household = hh
    PROVE  Settled'
<1>1. request[h].pc = "join" /\ UNCHANGED <<users, created, seeded, broken>>
  BY DEF JoinHousehold, At
<1>2. e \in Emails /\ hh \in HouseholdIDs
  <2>1. request[h] \in Request
    BY <1>1, Busy DEF Core
  <2>2. hh \in HouseholdIDs
    BY <1>1 DEF Core, Fits, FitsCode, CodesFit
  <2> QED
    BY <2>1, <2>2 DEF Request
<1>3. Only(h) /\ request'[h].pc = "session"
  BY <1>1, Proceed DEF JoinHousehold, Core
<1>4. \A g \in HouseholdIDs, x \in Emails :
         members'[g][x] = IF g = hh /\ x = e /\ members[g][x] = "none"
                          THEN "member" ELSE members[g][x]
  BY <1>2 DEF JoinHousehold, Core, TypeOK
<1>5. NoNewAdmin /\ MembersGrow /\ members'[hh][e] # "none"
  BY <1>2, <1>4 DEF NoNewAdmin, MembersGrow
<1>6. \A u \in Handlers : request'[u].pc = "admin" => request'[u].email \in users'
  BY <1>1, <1>3 DEF Only, Settled, Founded
<1>7. Founded'
  BY <1>1, <1>3, <1>5, <1>6, FoundedKept DEF Settled, Only, FoundingSteps
<1>8. Handed
  BY <1>1, <1>2, <1>3, <1>5 DEF Handed, Only, NoNewAdmin
<1> QED
  BY <1>5, <1>7, <1>8, BelongKept DEF Settled, Core, TypeOK

LEMMA AbortSettled ==
    ASSUME Core, Settled, NEW h \in Handlers, Abort(h)
    PROVE  Settled'
<1>1. /\ UNCHANGED <<users, created, members, seeded>> /\ broken \subseteq broken'
      /\ request[h].pc \in {"admin", "seed", "join"} => request[h].email \in broken'
  BY DEF Abort
<1>2. NoNewAdmin /\ MembersGrow
  BY <1>1 DEF NoNewAdmin, MembersGrow
<1>3. Only(h) /\ request'[h].pc = "idle"
  BY Finish DEF Abort, Core
<1>4. \A u \in Handlers : request'[u].pc = "admin" => request'[u].email \in users'
  BY <1>1, <1>3 DEF Only, Settled, Founded
<1>5. Founded'
  BY <1>1, <1>2, <1>3, <1>4, FoundedKept DEF Settled, Only, FoundingSteps
<1>6. ASSUME request[h].pc = "seed", NEW e \in Emails,
             members[request[h].household][e] = "admin"
      PROVE  e = request[h].email
  <2>1. /\ request[h].email \in Emails /\ request[h].household \in HouseholdIDs
        /\ members[request[h].household][request[h].email] = "admin"
    BY <1>6, HouseholdsExist DEF Core, Fits, FitsSignUp, FoundingSteps
  <2> QED
    BY <1>6, <2>1 DEF Settled, Founded
<1>7. Handed
  BY <1>1, <1>3, <1>6 DEF Handed, Only
<1> QED
  BY <1>2, <1>5, <1>7, BelongKept DEF Settled, Core, TypeOK

LEMMA StillSettled ==
    ASSUME Core, Settled, UNCHANGED <<users, created, members, seeded, request, broken>>
    PROVE  Settled'
BY DEF Settled, Founded, UsersBelongSomewhere, HouseholdsOf, At

LEMMA InitSettled == Init => Settled
<1> SUFFICES ASSUME Init PROVE Settled
  OBVIOUS
<1>1. /\ \A h \in Handlers : request[h].pc = "idle"
      /\ \A hh \in HouseholdIDs, e \in Emails : members[hh][e] = "none"
      /\ users = {}
  BY DEF Init, Idle
<1> QED
  BY <1>1 DEF Settled, Founded, UsersBelongSomewhere, FoundingSteps

LEMMA NextSettled == Core /\ Settled /\ [Next]_vars => Settled'
<1> SUFFICES ASSUME Core, Settled, [Next]_vars PROVE Settled'
  OBVIOUS
<1>1. ASSUME NEW h \in Handlers, Public(h) \/ Protected(h) PROVE Settled'
  BY <1>1, PublicElsewhere, ElsewhereSettled DEF Core
<1>2. ASSUME NEW h \in Handlers, WorksOnCode(h) PROVE Settled'
  BY <1>2, CodeElsewhere, ElsewhereSettled
<1>3. ASSUME NEW h \in Handlers, Continue(h) PROVE Settled'
  BY <1>2, <1>3, CreateHouseholdSettled, CreateUserSettled, AddAdminSettled,
     SeedDefaultsSettled, JoinHouseholdSettled, AbortSettled DEF Continue, WorksOnCode
<1>4. CASE \/ \E s \in DOMAIN sessions : Logout(s) \/ ExpireSession(s)
           \/ \E c \in DOMAIN codes : ExpireCode(c)
           \/ UNCHANGED vars
  BY <1>4, StillSettled DEF Logout, ExpireSession, ExpireCode, vars
<1> QED
  BY <1>1, <1>3, <1>4 DEF Next

LEMMA SettledAlways == Spec => []Settled
<1>1. Init => Core /\ Settled
  BY InitCore, InitSettled
<1>2. (Core /\ Settled) /\ [Next]_vars => (Core /\ Settled)'
  BY NextCore, NextSettled
<1> QED
  BY <1>1, <1>2, PTL DEF Spec

(***************************************************************************)
(* A request that read the count before the limit may still add to it, and *)
(* there are only so many requests.                                        *)
(***************************************************************************)
THEOREM GuessesAreBounded == Spec => []AttemptsAreBounded
<1>1. Core /\ Counted => AttemptsAreBounded
  <2> SUFFICES ASSUME Core, Counted, NEW c \in DOMAIN codes
               PROVE  codes[c].attempts <= maxCodeAttempts + Cardinality(Handlers) - 1
    BY DEF AttemptsAreBounded
  <2>1. codes[c] \in Code
    BY DEF Core, TypeOK
  <2>2. Cardinality(Handlers) \in Nat /\ Cardinality(Guessing(c)) \in Nat
    BY CountedAreFinite, FS_CardinalityType, HandlersAssumption DEF Core
  <2> QED
    BY <2>1, <2>2, AttemptsAssumption DEF Code, Counted, GuessesFit
<1> QED
  BY <1>1, CoreAlways, CountedAlways, PTL

(***************************************************************************)
(* An address has no more pending codes than there are requests at once.   *)
(***************************************************************************)
THEOREM FewCodesPend == Spec => []PendingAreBounded
<1>1. Counted => PendingAreBounded
  BY DEF Counted
<1> QED
  BY <1>1, CountedAlways, PTL

(***************************************************************************)
(* A code opens no more sessions than there are requests at once.          *)
(***************************************************************************)
THEOREM CodesAreSpent == Spec => []OpeningsAreBounded
<1>1. Counted => OpeningsAreBounded
  BY DEF Counted
<1> QED
  BY <1>1, CountedAlways, PTL

(***************************************************************************)
(* Unless a handler failed on its behalf, a user has a household or a      *)
(* request at work on one, and an admin's household its defaults.          *)
(***************************************************************************)
THEOREM NobodyIsStranded == Spec => []UsersBelongSomewhere
<1>1. Settled => UsersBelongSomewhere
  BY DEF Settled
<1> QED
  BY <1>1, SettledAlways, PTL
=============================================================================
