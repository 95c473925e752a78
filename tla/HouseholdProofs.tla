-------------------------- MODULE HouseholdProofs --------------------------
(***************************************************************************)
(* What is proved of the household's board and its lists, for any number   *)
(* of requests, members, chores, rewards, items, notes and devices.        *)
(*                                                                         *)
(* Names are unique because the table's constraint is part of both         *)
(* statements that write one.  That a new member starts clean rests on     *)
(* ids: whatever refers to a member holds an id below nextMember, which a  *)
(* deletion does not lower, unless a request named it in advance (IInv).   *)
(*                                                                         *)
(* Rewards keep the ledger's promise because a request's two queries see   *)
(* less than there is to see: the completions it adds up are some of those *)
(* the member ever made, so what it reads as earned was earned (BooksInv), *)
(* and the redemptions are those the ledger has booked.  So every step is  *)
(* a step of Ledger or none (HouseholdStep), and what LedgerProofs proves  *)
(* of its one abstract account holds of the tables.  Points and prices are *)
(* sums over sets of rows; a sum is the value of the one function that     *)
(* adds a row picked from each set (IsSum), and what it does when a row    *)
(* comes or goes follows by taking a smallest set for which it does not.   *)
(*                                                                         *)
(* The boards are functions of the tables, true of every typed state; what *)
(* is to be shown is how the server's midnight lies between those of UTC   *)
(* (DueByBoardDay), for any offset of its zone.                            *)
(*                                                                         *)
(* Of the lists: a row's mark is what its history says it is unless two    *)
(* toggles crossed, and a toggle under way read the mark the row still has *)
(* (MarksInv).  The groceries' page is again a function of the tables.     *)
(***************************************************************************)
EXTENDS Household, Lists, TLAPS, FiniteSetTheorems

Known == 0..(nextMember - 1)     \* the ids given out, and nobody's
Referred == Known \cup guessed

MembersInv ==
    /\ nextMember \in 1..(MaxMembers + 1)
    /\ DOMAIN member = MemberIDs
    /\ \A id \in MemberIDs : member[id] # NoRow =>
          id \in Known /\ {"name", "pin", "order"} \subseteq DOMAIN member[id]

DevicesInv == DOMAIN active = Devices /\ \A d \in Devices : active[d] \in Known

ChoreRefsInv ==
    /\ DOMAIN chore = ChoreIDs
    /\ \A c \in ChoreIDs : chore[c] # NoRow => chore[c].assignedTo \in Referred

RecordsInv == \A r \in completion \cup redemption : r.by \in Referred

InName(r) == r.op \in InTheNameOf => "by" \in DOMAIN r /\ r.by \in Referred

RequestsInv ==
    /\ DOMAIN request = Handlers
    /\ \A h \in Handlers : "op" \in DOMAIN request[h] /\ InName(request[h])

RefsInv == DevicesInv /\ ChoreRefsInv /\ RecordsInv /\ RequestsInv

IInv == MembersInv /\ NamesAreUnique /\ RefsInv

-----------------------------------------------------------------------------
LEMMA NoRowHasNoName ==
    ASSUME NEW r, "name" \in DOMAIN r
    PROVE  r # NoRow
BY DEF NoRow

LEMMA SetMemberKeeps ==
    ASSUME NEW id \in MemberIDs, NEW column, NEW value,
           MembersInv, NamesAreUnique, SetMember(id, column, value), UNCHANGED nextMember,
           column = "name" => UniqueName(value, id)
    PROVE  MembersInv' /\ NamesAreUnique'
<1> USE DEF MembersInv
<1>1. CASE member[id] = NoRow
    BY <1>1 DEF SetMember, NamesAreUnique, Members, Known
<1>2. CASE member[id] # NoRow
    <2> DEFINE row == [member[id] EXCEPT ![column] = value]
    <2>1. member' = [member EXCEPT ![id] = row]
        BY <1>2 DEF SetMember
    <2>2. DOMAIN row = DOMAIN member[id] /\ row # NoRow
        BY <1>2, NoRowHasNoName
    <2>3. row.name = IF column = "name" THEN value ELSE member[id].name
        BY <1>2
    <2> HIDE DEF row
    <2>4. MembersInv'
        BY <1>2, <2>1, <2>2 DEF Known
    <2>5. Members' = Members
        BY <1>2, <2>1, <2>2 DEF Members
    <2>6. NamesAreUnique'
        BY <1>2, <2>1, <2>3, <2>5 DEF NamesAreUnique, UniqueName, NameExists, Members
    <2> QED
        BY <2>4, <2>6
<1> QED
    BY <1>1, <1>2

LEMMA InsertMemberKeeps ==
    ASSUME NEW name, NEW order, MembersInv, NamesAreUnique, InsertMember(name, order)
    PROVE  MembersInv' /\ NamesAreUnique' /\ Known \subseteq Known'
<1> USE DEF MembersInv
<1> DEFINE row == [name |-> name, pin |-> Nobody, order |-> order]
<1>1. /\ nextMember \in MemberIDs /\ nextMember' = nextMember + 1
      /\ member' = [member EXCEPT ![nextMember] = row]
      /\ \A id \in Members \ {Nobody} : member[id].name # name
    BY DEF InsertMember, UniqueName, NameExists
<1>2. {"name", "pin", "order"} = DOMAIN row /\ row # NoRow /\ row.name = name
    BY NoRowHasNoName
<1> HIDE DEF row
<1>3. MembersInv' /\ Known \subseteq Known'
    BY <1>1, <1>2, FamilyAssumption DEF Known, MemberIDs
<1>4. /\ Members' = Members \cup {nextMember}
      /\ nextMember \notin Members
      /\ Nobody \notin Members
    BY <1>1, <1>2, FamilyAssumption DEF Members, MemberIDs, Known, Nobody
<1>5. \A id \in Members' : member'[id].name = IF id = nextMember THEN name ELSE member[id].name
    BY <1>1, <1>2, <1>4 DEF Members
<1>6. NamesAreUnique'
    BY <1>1, <1>4, <1>5 DEF NamesAreUnique
<1> QED
    BY <1>3, <1>6

LEMMA DeleteMemberKeeps ==
    ASSUME NEW id \in MemberIDs, MembersInv, NamesAreUnique, DeleteMemberRow(id),
           UNCHANGED nextMember
    PROVE  MembersInv' /\ NamesAreUnique'
BY DEF MembersInv, NamesAreUnique, DeleteMemberRow, Members, Known

LEMMA SortKeeps ==
    ASSUME NEW ids, MembersInv, NamesAreUnique, UpdateSortOrder(ids)
    PROVE  MembersInv' /\ NamesAreUnique'
<1> USE DEF MembersInv
<1>1. /\ nextMember' = nextMember
      /\ DOMAIN member' = MemberIDs
      /\ \A id \in MemberIDs :
            \/ member'[id] = member[id]
            \/ /\ member[id] # NoRow
               /\ \E n : member'[id] = [member[id] EXCEPT !.order = n]
    BY DEF UpdateSortOrder
<1>2. \A id \in MemberIDs : member[id] # NoRow =>
          /\ DOMAIN member'[id] = DOMAIN member[id]
          /\ member'[id].name = member[id].name
          /\ member'[id] # NoRow
    BY <1>1, NoRowHasNoName
<1>3. MembersInv'
    BY <1>1, <1>2 DEF Known
<1>4. Members' = Members
    BY <1>1, <1>2 DEF Members
<1>5. NamesAreUnique'
    BY <1>2, <1>4 DEF NamesAreUnique, Members
<1> QED
    BY <1>3, <1>5

-----------------------------------------------------------------------------
(* A request's next step, whatever it is, is in nobody's name or in the    *)
(* name of someone known.                                                  *)
LEMMA RequestKeeps ==
    ASSUME RequestsInv, Referred \subseteq Referred', NEW h \in Handlers, NEW r,
           "op" \in DOMAIN r,
           r.op \in InTheNameOf => "by" \in DOMAIN r /\ r.by \in Referred',
           request' = [request EXCEPT ![h] = r]
    PROVE  RequestsInv'
<1> USE DEF RequestsInv, InName
<1>1. DOMAIN request' = Handlers
    OBVIOUS
<1>2. ASSUME NEW g \in Handlers
      PROVE  request'[g] = IF g = h THEN r ELSE request[g]
    OBVIOUS
<1>3. ASSUME NEW g \in Handlers
      PROVE  "op" \in DOMAIN request'[g] /\ InName(request[g])' 
    BY <1>2, <1>3
<1> QED
    BY <1>1, <1>3

LEMMA DoneKeeps ==
    ASSUME RequestsInv, Referred \subseteq Referred', NEW h \in Handlers, Done(h)
    PROVE  RequestsInv'
<1>1. "op" \in DOMAIN Idle /\ Idle.op \notin InTheNameOf
    BY DEF Idle, InTheNameOf
<1> QED
    BY <1>1, RequestKeeps DEF Done

LEMMA RefsKept ==
    ASSUME RefsInv, Known \subseteq Known', Referred \subseteq Referred', RequestsInv',
           UNCHANGED <<active, chore, completion, redemption>>
    PROVE  RefsInv'
BY DEF RefsInv, DevicesInv, ChoreRefsInv, RecordsInv

-----------------------------------------------------------------------------
(* The steps of FamilyMembers: only SetActiveUser and VerifyPINAndSetUser  *)
(* touch a cookie, and neither names someone who is not there.             *)
LEMMA FamilyTakesRequest ==
    ASSUME IInv, NEW h \in Handlers, NEW r, "op" \in DOMAIN r, r.op \notin InTheNameOf,
           Begin(h, r) \/ Continue(h, r), Referred \subseteq Referred'
    PROVE  RequestsInv'
BY RequestKeeps DEF Begin, Continue, IInv, RefsInv

LEMMA MemberCreationKeeps ==
    ASSUME IInv, MemberCreation, UNCHANGED <<chore, completion, redemption, guessed>>
    PROVE  IInv'
<1> USE DEF IInv
<1>1. ASSUME NEW h \in Handlers, NEW name \in Names, MemberCreateCheck(h, name)
      PROVE  IInv'
    <2>1. RequestsInv' /\ UNCHANGED familyVars
        BY <1>1, FamilyTakesRequest DEF MemberCreateCheck, InTheNameOf, familyVars, Known, Referred
    <2> QED
        BY <2>1, RefsKept DEF familyVars, MembersInv, NamesAreUnique, Members, Known, Referred
<1>2. ASSUME NEW h \in Handlers, MemberCreateOrder(h)
      PROVE  IInv'
    <2>1. RequestsInv' /\ UNCHANGED familyVars
        BY <1>2, FamilyTakesRequest DEF MemberCreateOrder, InTheNameOf, familyVars, Known, Referred
    <2> QED
        BY <2>1, RefsKept DEF familyVars, MembersInv, NamesAreUnique, Members, Known, Referred
<1>3. ASSUME NEW h \in Handlers, MemberCreateInsert(h)
      PROVE  IInv'
    <2>1. MembersInv' /\ NamesAreUnique' /\ Known \subseteq Known'
        BY <1>3, InsertMemberKeeps DEF MemberCreateInsert
    <2>2. Referred \subseteq Referred'
        BY <2>1 DEF Referred
    <2>3. RequestsInv'
        BY <1>3, <2>2, DoneKeeps DEF MemberCreateInsert, RefsInv
    <2> QED
        BY <1>3, <2>1, <2>2, <2>3, RefsKept DEF MemberCreateInsert
<1> QED
    BY <1>1, <1>2, <1>3 DEF MemberCreation

(* A step that leaves ids, cookies and the other tables alone: what is     *)
(* left to show is what it does to the members and the requests.           *)
LEMMA MemberStepKeeps ==
    ASSUME IInv, MembersInv', NamesAreUnique', RequestsInv' \/ UNCHANGED request,
           UNCHANGED <<nextMember, active, chore, completion, redemption, guessed>>
    PROVE  IInv'
<1>1. Known' = Known /\ Referred' = Referred
    BY DEF Known, Referred
<1>2. RequestsInv'
    BY <1>1 DEF IInv, RefsInv, RequestsInv, InName
<1> QED
    BY <1>1, <1>2, RefsKept DEF IInv

LEMMA MemberChangeKeeps ==
    ASSUME IInv, MemberChange \/ MemberDeletion, UNCHANGED <<chore, completion, redemption, guessed>>
    PROVE  IInv'
<1> USE DEF IInv
<1>0. \A id \in Issued : id \in MemberIDs
    BY FamilyAssumption DEF Issued, MemberIDs, MembersInv
<1>1. ASSUME NEW h \in Handlers, NEW id \in Issued, NEW name \in Names,
             ApiMemberRename(h, id, name) \/ FamilyMemberRename(h, id, name)
      PROVE  IInv'
    <2>1. RequestsInv' /\ UNCHANGED familyVars
        BY <1>1, FamilyTakesRequest
           DEF ApiMemberRename, FamilyMemberRename, InTheNameOf, familyVars, Known, Referred
    <2> QED
        BY <2>1, RefsKept DEF familyVars, MembersInv, NamesAreUnique, Members, Known, Referred
<1>2. ASSUME NEW h \in Handlers, MemberRenameWrite(h)
      PROVE  IInv'
    <2>1. RequestsInv'
        BY <1>2, DoneKeeps DEF MemberRenameWrite, RefsInv, Known, Referred
    <2>2. CASE request[h].id \in MemberIDs
        BY <1>2, <2>1, <2>2, SetMemberKeeps, MemberStepKeeps DEF MemberRenameWrite
    <2>3. CASE request[h].id \notin MemberIDs
        <3>1. MembersInv' /\ NamesAreUnique'
            BY <1>2, <2>3
               DEF MemberRenameWrite, SetMember, MembersInv, NamesAreUnique, Members, Known, Referred
        <3> QED
            BY <1>2, <2>1, <3>1, MemberStepKeeps DEF MemberRenameWrite
    <2> QED
        BY <2>2, <2>3
<1>3. ASSUME NEW ids, UpdateSortOrder(ids)
      PROVE  IInv'
    BY <1>3, SortKeeps, MemberStepKeeps DEF UpdateSortOrder
<1>4. ASSUME NEW id \in Issued, ApiMemberDelete(id) \/ FamilyMemberDelete(id)
      PROVE  IInv'
    BY <1>0, <1>4, DeleteMemberKeeps, MemberStepKeeps DEF ApiMemberDelete, FamilyMemberDelete
<1> QED
    BY <1>1, <1>2, <1>3, <1>4 DEF MemberChange, MemberDeletion

LEMMA PinChangeKeeps ==
    ASSUME IInv, PinChange, UNCHANGED <<chore, completion, redemption, guessed>>
    PROVE  IInv'
<1> USE DEF IInv
<1>0. \A id \in Issued : id \in MemberIDs
    BY FamilyAssumption DEF Issued, MemberIDs, MembersInv
<1>1. ASSUME NEW id \in MemberIDs, NEW pin, SetMember(id, "pin", pin),
             UNCHANGED <<nextMember, active>>, RequestsInv' \/ UNCHANGED request
      PROVE  IInv'
    BY <1>1, SetMemberKeeps, MemberStepKeeps
<1>2. ASSUME NEW id \in Issued, NEW pin \in Pins, ApiSetPIN(id, pin) \/ PINSetup(id, pin)
      PROVE  IInv'
    BY <1>0, <1>1, <1>2 DEF ApiSetPIN, PINSetup
<1>3. ASSUME NEW id \in Issued, ApiClearPIN(id)
      PROVE  IInv'
    BY <1>0, <1>1, <1>3 DEF ApiClearPIN
<1>4. ASSUME NEW h \in Handlers, NEW id \in Issued, NEW pin \in Pins,
             PINVerifyThenAct(h, id, pin)
      PROVE  IInv'
    <2>1. RequestsInv' /\ UNCHANGED familyVars
        BY <1>4, FamilyTakesRequest DEF PINVerifyThenAct, InTheNameOf, familyVars, Known, Referred
    <2> QED
        BY <2>1, RefsKept DEF familyVars, MembersInv, NamesAreUnique, Members, Known, Referred
<1>5. ASSUME NEW h \in Handlers, PINVerifiedClear(h)
      PROVE  IInv'
    <2>1. RequestsInv'
        BY <1>5, DoneKeeps DEF PINVerifiedClear, RefsInv, Known, Referred
    <2>2. CASE request[h].id \in MemberIDs
        BY <1>1, <1>5, <2>1, <2>2 DEF PINVerifiedClear
    <2>3. CASE request[h].id \notin MemberIDs
        <3>1. MembersInv' /\ NamesAreUnique'
            BY <1>5, <2>3
               DEF PINVerifiedClear, SetMember, MembersInv, NamesAreUnique, Members, Known, Referred
        <3> QED
            BY <1>5, <2>1, <3>1, MemberStepKeeps DEF PINVerifiedClear
    <2> QED
        BY <2>2, <2>3
<1> QED
    BY <1>2, <1>3, <1>4, <1>5 DEF PinChange

LEMMA UserChoiceKeeps ==
    ASSUME IInv, UserChoice, UNCHANGED <<chore, completion, redemption, guessed>>
    PROVE  IInv'
<1> USE DEF IInv
<1>1. PICK d \in Devices, id \in Issued :
          /\ active' = [active EXCEPT ![d] = id]
          /\ UNCHANGED <<member, nextMember, request>>
    BY DEF UserChoice, SetActiveUser, VerifyPINAndSetUser
<1>2. Known' = Known /\ Referred' = Referred /\ id \in Known
    BY <1>1 DEF Known, Referred, Issued, MembersInv
<1>3. DevicesInv'
    BY <1>1, <1>2 DEF RefsInv, DevicesInv
<1>4. MembersInv' /\ NamesAreUnique'
    BY <1>1, <1>2 DEF MembersInv, NamesAreUnique, Members
<1>5. ChoreRefsInv' /\ RecordsInv' /\ RequestsInv'
    BY <1>1, <1>2 DEF RefsInv, ChoreRefsInv, RecordsInv, RequestsInv, InName
<1> QED
    BY <1>3, <1>4, <1>5 DEF RefsInv

LEMMA FamilyKeeps ==
    ASSUME IInv, FamilyNext, UNCHANGED <<choreVars, rewardVars, guessed>>
    PROVE  IInv'
BY MemberCreationKeeps, MemberChangeKeeps, PinChangeKeeps, UserChoiceKeeps
   DEF FamilyNext, choreVars, rewardVars

-----------------------------------------------------------------------------
(* The steps of Chores and Rewards, for which members and cookies are what *)
(* they are.                                                               *)
LEMMA BoardStepKeeps ==
    ASSUME IInv, UNCHANGED familyVars, Referred \subseteq Referred',
           UNCHANGED chore \/ ChoreRefsInv',
           UNCHANGED <<completion, redemption>> \/ RecordsInv',
           UNCHANGED request \/ RequestsInv'
    PROVE  IInv'
<1> USE DEF IInv, RefsInv, familyVars
<1>1. Known' = Known
    BY DEF Known
<1>2. MembersInv' /\ NamesAreUnique' /\ DevicesInv'
    BY <1>1 DEF MembersInv, NamesAreUnique, Members, DevicesInv
<1>3. ChoreRefsInv'
    BY DEF ChoreRefsInv
<1>4. RecordsInv'
    BY DEF RecordsInv
<1>5. RequestsInv'
    BY DEF RequestsInv, InName
<1> QED
    BY <1>2, <1>3, <1>4, <1>5

(* Who is named was given an id or is remembered as a guess.               *)
LEMMA NamedAreReferred ==
    ASSUME IInv, NEW m \in 0..MaxMembers, Named(m), UNCHANGED nextMember
    PROVE  m \in Referred' /\ Referred \subseteq Referred'
BY FamilyAssumption DEF Named, Referred, Known, Issued, Nobody, IInv, MembersInv

LEMMA GuessesStay ==
    ASSUME UNCHANGED <<nextMember, guessed>>
    PROVE  Referred' = Referred
BY DEF Referred, Known

LEMMA AreaKeeps ==
    ASSUME IInv, AreaActions, UNCHANGED <<familyVars, rewardVars, guessed>>
    PROVE  IInv'
<1>0. Referred' = Referred /\ UNCHANGED redemption
    BY GuessesStay DEF familyVars, rewardVars
<1>1. ASSUME NEW id, ChoreAreaDelete(id) \/ \E name \in AreaNames : ChoreAreaCreate(name)
      PROVE  IInv'
    BY <1>0, <1>1, BoardStepKeeps DEF ChoreAreaDelete, ChoreAreaCreate
<1>2. ASSUME NEW h \in Handlers, NEW id, NEW name \in AreaNames, ChoreAreaUpdate(h, id, name)
      PROVE  IInv'
    <2>1. RequestsInv'
        BY <1>0, <1>2, GuessesStay, FamilyTakesRequest DEF ChoreAreaUpdate, InTheNameOf
    <2> QED
        BY <1>0, <1>2, <2>1, GuessesStay, BoardStepKeeps DEF ChoreAreaUpdate, choreVars
<1>3. ASSUME NEW h \in Handlers, ChoreAreaUpdateWrite(h)
      PROVE  IInv'
    <2>1. RequestsInv'
        BY <1>0, <1>3, GuessesStay, DoneKeeps DEF ChoreAreaUpdateWrite, IInv, RefsInv
    <2> QED
        BY <1>0, <1>3, <2>1, GuessesStay, BoardStepKeeps DEF ChoreAreaUpdateWrite
<1> QED
    BY <1>1, <1>2, <1>3 DEF AreaActions

LEMMA ChoreRowKeeps ==
    ASSUME IInv, NEW id, Referred \subseteq Referred',
           \/ DeleteChoreRow(id)
           \/ \E row \in ChoreInputs :
                /\ row.assignedTo \in Referred'
                /\ InsertChore(row) \/ UpdateChoreRow(id, row)
    PROVE  ChoreRefsInv'
<1> USE DEF IInv, RefsInv, ChoreRefsInv
<1>1. CASE DeleteChoreRow(id)
    BY <1>1 DEF DeleteChoreRow
<1>2. ASSUME NEW row \in ChoreInputs, row.assignedTo \in Referred',
             InsertChore(row) \/ UpdateChoreRow(id, row)
      PROVE  ChoreRefsInv'
    BY <1>2 DEF InsertChore, UpdateChoreRow
<1> QED
    BY <1>1, <1>2

LEMMA ChoreActionsKeep ==
    ASSUME IInv, ChoreActions, UNCHANGED <<familyVars, rewardVars>>
    PROVE  IInv'
<1>1. UNCHANGED <<completion, redemption, request>>
    BY DEF ChoreActions, ApiChoreCreate, ChoreCreate, ApiChoreUpdate, ChoreUpdate,
           ApiChoreDelete, ChoreDelete, rewardVars
<1>2. ASSUME NEW row \in ChoreInputs, Named(row.assignedTo), NEW id,
             InsertChore(row) \/ UpdateChoreRow(id, row)
      PROVE  IInv'
    <2>1. row.assignedTo \in Referred' /\ Referred \subseteq Referred'
        BY <1>2, NamedAreReferred DEF ChoreInputs, familyVars
    <2>2. ChoreRefsInv'
        BY <1>2, <2>1, ChoreRowKeeps
    <2> QED
        BY <1>1, <2>1, <2>2, BoardStepKeeps
<1>3. ASSUME NEW id, DeleteChoreRow(id), UNCHANGED guessed
      PROVE  IInv'
    <2>1. Referred' = Referred
        BY <1>3, GuessesStay DEF familyVars
    <2>2. ChoreRefsInv'
        BY <1>3, <2>1, ChoreRowKeeps
    <2> QED
        BY <1>1, <2>1, <2>2, BoardStepKeeps
<1> QED
    BY <1>2, <1>3
       DEF ChoreActions, ApiChoreCreate, ChoreCreate, ApiChoreUpdate, ChoreUpdate,
           ApiChoreDelete, ChoreDelete

LEMMA CompletingKeeps ==
    ASSUME IInv, UNCHANGED <<familyVars, rewardVars>>,
           Completing \/ ((Undoing \/ TimePasses) /\ UNCHANGED guessed)
    PROVE  IInv'
<1>0. UNCHANGED <<nextMember, redemption>>
    BY DEF familyVars, rewardVars
<1>1. ASSUME NEW h \in Handlers, NEW id, NEW by \in Referred', CompleteLookup(h, id, by),
             Referred \subseteq Referred'
      PROVE  IInv'
    <2> DEFINE r == [op |-> "complete", chore |-> id, by |-> by, points |-> chore[id].points]
    <2>1. {"op", "by"} \subseteq DOMAIN r /\ r.by = by
        OBVIOUS
    <2>2. request' = [request EXCEPT ![h] = r]
        BY <1>1 DEF CompleteLookup, Begin
    <2> HIDE DEF r
    <2>3. RequestsInv'
        BY <1>1, <2>1, <2>2, RequestKeeps DEF IInv, RefsInv
    <2> QED
        BY <1>0, <1>1, <2>3, BoardStepKeeps DEF CompleteLookup, choreVars
<1>2. ASSUME NEW h \in Handlers, CompleteInsert(h), UNCHANGED guessed
      PROVE  IInv'
    <2>1. request[h].by \in Referred
        BY <1>2 DEF CompleteInsert, At, IInv, RefsInv, RequestsInv, InName, InTheNameOf
    <2>2. RecordsInv'
        BY <1>0, <1>2, <2>1, GuessesStay DEF CompleteInsert, CreateCompletion, RecordsInv, IInv, RefsInv
    <2>3. RequestsInv'
        BY <1>0, <1>2, GuessesStay, DoneKeeps DEF CompleteInsert, IInv, RefsInv
    <2> QED
        BY <1>0, <1>2, <2>2, <2>3, GuessesStay, BoardStepKeeps DEF CompleteInsert
<1>3. ASSUME NEW r, ApiUndoComplete(r), UNCHANGED guessed
      PROVE  IInv'
    <2>1. RecordsInv'
        BY <1>0, <1>3, GuessesStay DEF ApiUndoComplete, DeleteCompletion, RecordsInv, IInv, RefsInv
    <2> QED
        BY <1>0, <1>3, <2>1, GuessesStay, BoardStepKeeps DEF ApiUndoComplete
<1>4. ASSUME NEW h \in Handlers, NEW id, ChoreUndoComplete(h, id), UNCHANGED guessed
      PROVE  IInv'
    <2>1. RequestsInv'
        BY <1>0, <1>4, GuessesStay, FamilyTakesRequest DEF ChoreUndoComplete, InTheNameOf
    <2> QED
        BY <1>0, <1>4, <2>1, GuessesStay, BoardStepKeeps DEF ChoreUndoComplete, choreVars
<1>5. ASSUME NEW h \in Handlers, UndoDelete(h), UNCHANGED guessed
      PROVE  IInv'
    <2>1. RecordsInv'
        BY <1>0, <1>5, GuessesStay DEF UndoDelete, DeleteCompletion, RecordsInv, IInv, RefsInv
    <2>2. RequestsInv'
        BY <1>0, <1>5, GuessesStay, DoneKeeps DEF UndoDelete, IInv, RefsInv
    <2> QED
        BY <1>0, <1>5, <2>1, <2>2, GuessesStay, BoardStepKeeps DEF UndoDelete
<1>6. CASE TimePasses /\ UNCHANGED guessed
    BY <1>0, <1>6, GuessesStay, GuessesStay, BoardStepKeeps DEF TimePasses
<1>7. CASE Completing
    <2>1. \A by \in 0..MaxMembers : Named(by) => by \in Referred' /\ Referred \subseteq Referred'
        BY <1>0, NamedAreReferred
    <2>2. \A d \in Devices : UNCHANGED guessed =>
              activeUserFromCookie(d) \in Referred' /\ Referred \subseteq Referred'
        BY <1>0, GuessesStay DEF activeUserFromCookie, IInv, RefsInv, DevicesInv, Referred
    <2> QED
        BY <1>1, <1>2, <1>7, <2>1, <2>2 DEF Completing, ApiChoreComplete, ChoreComplete
<1>8. CASE Undoing /\ UNCHANGED guessed
    BY <1>3, <1>4, <1>5, <1>8 DEF Undoing
<1> QED
    BY <1>6, <1>7, <1>8

LEMMA ChoresKeep ==
    ASSUME IInv, ChoresNext, UNCHANGED <<familyVars, rewardVars>>
    PROVE  IInv'
BY AreaKeeps, ChoreActionsKeep, CompletingKeeps DEF ChoresNext

LEMMA RewardsKeep ==
    ASSUME IInv, RewardsNext, UNCHANGED <<familyVars, choreVars>>
    PROVE  IInv'
<1>0. UNCHANGED <<nextMember, chore, completion>>
    BY DEF familyVars, choreVars
<1>1. CASE RewardActions /\ UNCHANGED guessed
    BY <1>0, <1>1, GuessesStay, BoardStepKeeps
       DEF RewardActions, ApiRewardCreate, RewardCreate, ApiRewardUpdate, RewardUpdate,
           ApiRewardDelete, RewardDelete
<1>2. ASSUME NEW h \in Handlers, NEW id, NEW by \in Referred', RedeemLookup(h, id, by),
             Referred \subseteq Referred'
      PROVE  IInv'
    <2> DEFINE r == [op |-> IF by = Nobody THEN "redeem" ELSE "earned",
                     reward |-> id, by |-> by, cost |-> reward[id].cost]
    <2>1. {"op", "by"} \subseteq DOMAIN r /\ r.by = by
        OBVIOUS
    <2>2. request' = [request EXCEPT ![h] = r]
        BY <1>2 DEF RedeemLookup, Begin
    <2> HIDE DEF r
    <2>3. RequestsInv'
        BY <1>2, <2>1, <2>2, RequestKeeps DEF IInv, RefsInv
    <2> QED
        BY <1>0, <1>2, <2>3, GuessesStay, BoardStepKeeps DEF RedeemLookup, rewardVars
<1>3. ASSUME NEW h \in Handlers, BalanceEarned(h), UNCHANGED guessed
      PROVE  IInv'
    <2>1. request[h].by \in Referred
        BY <1>3 DEF BalanceEarned, At, IInv, RefsInv, RequestsInv, InName, InTheNameOf
    <2> DEFINE r == [op |-> "spent", reward |-> request[h].reward, by |-> request[h].by,
                     cost |-> request[h].cost, earned |-> Earned(request[h].by)]
    <2>2. {"op", "by"} \subseteq DOMAIN r /\ r.by = request[h].by
        OBVIOUS
    <2>3. request' = [request EXCEPT ![h] = r]
        BY <1>3 DEF BalanceEarned, Continue
    <2> HIDE DEF r
    <2>4. RequestsInv'
        BY <1>0, <1>3, <2>1, <2>2, <2>3, GuessesStay, RequestKeeps DEF IInv, RefsInv
    <2> QED
        BY <1>0, <1>3, <2>4, GuessesStay, BoardStepKeeps DEF BalanceEarned, rewardVars
<1>4. ASSUME NEW h \in Handlers, BalanceSpent(h), UNCHANGED guessed
      PROVE  IInv'
    <2>1. request[h].by \in Referred
        BY <1>4 DEF BalanceSpent, At, IInv, RefsInv, RequestsInv, InName, InTheNameOf
    <2>2. CASE Done(h)
        <3>1. RequestsInv'
            BY <1>0, <1>4, <2>2, GuessesStay, DoneKeeps DEF IInv, RefsInv
        <3> QED
            BY <1>0, <1>4, <3>1, GuessesStay, BoardStepKeeps DEF BalanceSpent, rewardVars
    <2> DEFINE r == [op |-> "redeem", reward |-> request[h].reward, by |-> request[h].by,
                     cost |-> request[h].cost]
    <2>3. CASE Continue(h, r)
        <3>1. {"op", "by"} \subseteq DOMAIN r /\ r.by = request[h].by
            OBVIOUS
        <3>2. request' = [request EXCEPT ![h] = r]
            BY <2>3 DEF Continue
        <3> HIDE DEF r
        <3>3. RequestsInv'
            BY <1>0, <1>4, <2>1, <3>1, <3>2, GuessesStay, RequestKeeps DEF IInv, RefsInv
        <3> QED
            BY <1>0, <1>4, <3>3, GuessesStay, BoardStepKeeps DEF BalanceSpent, rewardVars
    <2> QED
        BY <1>4, <2>2, <2>3 DEF BalanceSpent
<1>5. ASSUME NEW h \in Handlers, RedeemInsert(h), UNCHANGED guessed
      PROVE  IInv'
    <2>1. request[h].by \in Referred
        BY <1>5 DEF RedeemInsert, At, IInv, RefsInv, RequestsInv, InName, InTheNameOf
    <2>2. RecordsInv'
        BY <1>0, <1>5, <2>1, GuessesStay DEF RedeemInsert, Redeem, RecordsInv, IInv, RefsInv
    <2>3. RequestsInv'
        BY <1>0, <1>5, GuessesStay, DoneKeeps DEF RedeemInsert, IInv, RefsInv
    <2> QED
        BY <1>0, <1>5, <2>2, <2>3, GuessesStay, BoardStepKeeps DEF RedeemInsert
<1>6. CASE Redeeming
    <2>1. \A by \in 0..MaxMembers : Named(by) => by \in Referred' /\ Referred \subseteq Referred'
        BY <1>0, NamedAreReferred
    <2>2. \A d \in Devices : UNCHANGED guessed =>
              activeUserFromCookie(d) \in Referred' /\ Referred \subseteq Referred'
        BY <1>0, GuessesStay DEF activeUserFromCookie, IInv, RefsInv, DevicesInv, Referred
    <2> QED
        BY <1>2, <1>3, <1>4, <1>5, <1>6, <2>1, <2>2 DEF Redeeming, ApiRedeem, RewardRedeem
<1> QED
    BY <1>1, <1>6 DEF RewardsNext

LEMMA InitIInv == Init => IInv
<1> SUFFICES ASSUME Init PROVE IInv
    OBVIOUS
<1> USE DEF Init, FamilyInit, ChoresInit, RewardsInit, RequestsInit
<1>1. MembersInv /\ NamesAreUnique
    BY FamilyAssumption DEF MembersInv, NamesAreUnique, Members, MemberIDs
<1>2. DevicesInv
    BY DEF DevicesInv, Known, Nobody
<1>3. ChoreRefsInv /\ RecordsInv
    BY DEF ChoreRefsInv, RecordsInv
<1>4. RequestsInv
    BY DEF RequestsInv, InName, Idle, InTheNameOf
<1> QED
    BY <1>1, <1>2, <1>3, <1>4 DEF IInv, RefsInv

LEMMA StepIInv == IInv /\ [Next]_vars => IInv'
<1> SUFFICES ASSUME IInv, [Next]_vars PROVE IInv'
    OBVIOUS
<1>1. CASE UNCHANGED vars
    <2>1. Referred' = Referred
        BY <1>1, GuessesStay DEF vars, familyVars
    <2> QED
        BY <1>1, <2>1, BoardStepKeeps DEF vars, choreVars, rewardVars
<1>2. CASE FamilyNext /\ UNCHANGED <<choreVars, rewardVars, guessed>>
    BY <1>2, FamilyKeeps
<1>3. CASE ChoresNext /\ UNCHANGED <<familyVars, rewardVars>>
    BY <1>3, ChoresKeep
<1>4. CASE RewardsNext /\ UNCHANGED <<familyVars, choreVars>>
    BY <1>4, RewardsKeep
<1>5. ASSUME NEW h \in Handlers, Abandon(h),
             UNCHANGED <<familyVars, choreVars, rewardVars, guessed>>
      PROVE  IInv'
    <2>1. Referred' = Referred
        BY <1>5, GuessesStay DEF familyVars
    <2>2. RequestsInv'
        BY <1>5, <2>1, DoneKeeps DEF Abandon, IInv, RefsInv
    <2> QED
        BY <1>5, <2>1, <2>2, BoardStepKeeps DEF choreVars, rewardVars
<1> QED
    BY <1>1, <1>2, <1>3, <1>4, <1>5 DEF Next

-----------------------------------------------------------------------------
(* Two members never have one name (InsertMember, MemberRenameWrite).      *)
THEOREM NamesStayUnique == Spec => []NamesAreUnique
<1>1. IInv => NamesAreUnique
    BY DEF IInv
<1> QED
    BY <1>1, InitIInv, StepIInv, PTL DEF Spec

(* A row of family_members appears under the next id only.                 *)
LEMMA NewMemberIsNext ==
    ASSUME IInv, Next, NEW m \in MemberIDs, member[m] = NoRow, member'[m] # NoRow
    PROVE  m = nextMember
<1>1. CASE UNCHANGED familyVars
    BY <1>1 DEF familyVars
<1>2. CASE FamilyNext
    <2>1. CASE MemberCreation
        BY <2>1 DEF MemberCreation, MemberCreateCheck, MemberCreateOrder,
                    MemberCreateInsert, InsertMember, familyVars, IInv, MembersInv
    <2>2. CASE MemberChange
        BY <2>2 DEF MemberChange, ApiMemberRename, FamilyMemberRename, MemberRenameWrite,
                    UpdateSortOrder, SetMember, familyVars, IInv, MembersInv
    <2>3. CASE MemberDeletion
        BY <2>3 DEF MemberDeletion, ApiMemberDelete, FamilyMemberDelete, DeleteMemberRow,
                    IInv, MembersInv
    <2>4. CASE PinChange
        BY <2>4 DEF PinChange, ApiSetPIN, PINSetup, ApiClearPIN, PINVerifyThenAct,
                    PINVerifiedClear, SetMember, familyVars, IInv, MembersInv
    <2>5. CASE UserChoice
        BY <2>5 DEF UserChoice, SetActiveUser, VerifyPINAndSetUser
    <2> QED
        BY <1>2, <2>1, <2>2, <2>3, <2>4, <2>5 DEF FamilyNext
<1> QED
    BY <1>1, <1>2 DEF Next

(* A new member starts without chores, completions, redemptions, devices   *)
(* and requests, whoever was deleted before (FamilyMemberDelete), but for  *)
(* those that guessed its id.                                              *)
THEOREM NewMembersAreClean == Spec => NewMemberStartsClean
<1>1. ASSUME IInv, Next
      PROVE  \A m \in MemberIDs \ guessed : (member[m] = NoRow /\ member'[m] # NoRow) =>
                /\ \A c \in ChoreRows : chore[c].assignedTo # m
                /\ \A r \in completion \cup redemption : r.by # m
                /\ \A d \in Devices : active[d] # m
                /\ \A h \in Handlers : request[h].op \in InTheNameOf => request[h].by # m
    <2> SUFFICES ASSUME NEW m \in MemberIDs \ guessed, member[m] = NoRow, member'[m] # NoRow
                 PROVE  /\ \A c \in ChoreRows : chore[c].assignedTo # m
                        /\ \A r \in completion \cup redemption : r.by # m
                        /\ \A d \in Devices : active[d] # m
                        /\ \A h \in Handlers :
                              request[h].op \in InTheNameOf => request[h].by # m
        OBVIOUS
    <2>1. m \notin Known /\ m \notin Referred
        BY <1>1, NewMemberIsNext DEF IInv, MembersInv, Known, Referred
    <2>2. \A c \in ChoreRows : chore[c].assignedTo # m
        BY <1>1, <2>1 DEF IInv, RefsInv, ChoreRefsInv, ChoreRows
    <2>3. \A r \in completion \cup redemption : r.by # m
        BY <1>1, <2>1 DEF IInv, RefsInv, RecordsInv
    <2>4. \A d \in Devices : active[d] # m
        BY <1>1, <2>1 DEF IInv, RefsInv, DevicesInv
    <2>5. \A h \in Handlers : request[h].op \in InTheNameOf => request[h].by # m
        BY <1>1, <2>1 DEF IInv, RefsInv, RequestsInv, InName
    <2> QED
        BY <2>2, <2>3, <2>4, <2>5
<1> QED
    BY <1>1, InitIInv, StepIInv, PTL DEF Spec, NewMemberStartsClean

(***************************************************************************)
(* Sums over finite sets.                                                  *)
(***************************************************************************)
Pick(s) == CHOOSE x \in s : TRUE

(* it adds f over each subset of S. *)
IsSum(it, f, S) ==
    it = [s \in SUBSET S |-> IF s = {} THEN 0 ELSE f[Pick(s)] + it[s \ {Pick(s)}]]

Total(f, S) == (CHOOSE it : IsSum(it, f, S))[S]

(* Of some subsets of a finite set, one is smallest: the induction over    *)
(* finite sets that the provers can use.                                   *)
LEMMA SmallestSet ==
    ASSUME NEW S, IsFiniteSet(S), NEW B, B \subseteq SUBSET S, B # {}
    PROVE  \E U \in B : \A V \in B : V \subseteq U => V = U
<1>1. IsWellFoundedOn(StrictSubsetOrdering(S), SUBSET S)
    BY FS_StrictSubsetOrderingWellFounded, FS_FiniteSubsetsOfFinite
<1>2. PICK U \in B : \A V \in B : ~ (<<V, U>> \in StrictSubsetOrdering(S))
    BY <1>1, WFMin
<1> QED
    BY <1>2 DEF StrictSubsetOrdering

(* There is one such function.                                             *)
LEMMA SumUnique ==
    ASSUME NEW S, IsFiniteSet(S), NEW f, NEW i, NEW j, IsSum(i, f, S), IsSum(j, f, S)
    PROVE  i = j
<1> DEFINE B == {s \in SUBSET S : i[s] # j[s]}
<1>1. SUFFICES ASSUME B # {} PROVE FALSE
    BY DEF IsSum
<1>2. \E U \in B : \A V \in B : V \subseteq U => V = U
    <2>1. B \subseteq SUBSET S
        OBVIOUS
    <2> HIDE DEF B
    <2> QED
        BY <1>1, <2>1, SmallestSet
<1>3. PICK U \in B : \A V \in B : V \subseteq U => V = U
    BY <1>2
<1>4. U # {} /\ Pick(U) \in U
    BY <1>3 DEF IsSum, Pick
<1>5. U \ {Pick(U)} \notin B
    BY <1>3, <1>4
<1>6. i[U \ {Pick(U)}] = j[U \ {Pick(U)}]
    BY <1>5
<1> QED
    BY <1>3, <1>6 DEF IsSum

(* Below a subset it is that subset's.                                     *)
LEMMA SumRestrict ==
    ASSUME NEW S, NEW T \in SUBSET S, NEW f, NEW i, IsSum(i, f, S)
    PROVE  IsSum([s \in SUBSET T |-> i[s]], f, T)
BY DEF IsSum, Pick

LEMMA SumExists ==
    ASSUME NEW S, IsFiniteSet(S), NEW f
    PROVE  \E it : IsSum(it, f, S)
<1> DEFINE B == {s \in SUBSET S : ~ \E it : IsSum(it, f, s)}
<1>1. SUFFICES ASSUME B # {} PROVE FALSE
    OBVIOUS
<1>2. \E U \in B : \A V \in B : V \subseteq U => V = U
    <2>1. B \subseteq SUBSET S
        OBVIOUS
    <2> HIDE DEF B
    <2> QED
        BY <1>1, <2>1, SmallestSet
<1>3. PICK U \in B : \A V \in B : V \subseteq U => V = U
    BY <1>2
<1>4. \A s \in SUBSET U : s # U => \E it : IsSum(it, f, s)
    BY <1>3
<1> DEFINE Low(s) == CHOOSE it : IsSum(it, f, s)
           it == [s \in SUBSET U |->
                    IF s = {} THEN 0
                    ELSE f[Pick(s)] + Low(s \ {Pick(s)})[s \ {Pick(s)}]]
<1>5. \A s \in SUBSET U : s # U => IsSum(Low(s), f, s)
    BY <1>4
<1> HIDE DEF Low
<1>6. ASSUME NEW s \in SUBSET U, s # {}
      PROVE  Low(s \ {Pick(s)})[s \ {Pick(s)}] = it[s \ {Pick(s)}]
    <2> DEFINE t == s \ {Pick(s)}
    <2>1. t # U /\ t \in SUBSET U
        BY <1>6 DEF Pick
    <2>2. IsSum(Low(t), f, t)
        BY <2>1, <1>5
    <2> SUFFICES Low(t)[t] = it[t]
        OBVIOUS
    <2>3. CASE t = {}
        BY <2>2, <2>3 DEF IsSum
    <2>4. CASE t # {}
        <3> DEFINE u == t \ {Pick(t)}
        <3>1. u \in SUBSET t /\ u # U /\ u \in SUBSET U /\ IsFiniteSet(u)
            BY <2>1, <2>4, FS_Subset DEF Pick
        <3>2. Low(t)[t] = f[Pick(t)] + Low(t)[u]
            BY <2>2, <2>4 DEF IsSum
        <3>3. IsSum([r \in SUBSET u |-> Low(t)[r]], f, u)
            <4>1. PICK i : i = Low(t)
                OBVIOUS
            <4>2. IsSum(i, f, t) /\ u \in SUBSET t
                BY <2>2, <3>1, <4>1
            <4> HIDE DEF t, u
            <4>3. IsSum([r \in SUBSET u |-> i[r]], f, u)
                BY <4>2, SumRestrict
            <4> QED
                BY <4>1, <4>3
        <3>4. IsSum(Low(u), f, u)
            BY <3>1, <1>5
        <3>5. Low(u) = [r \in SUBSET u |-> Low(t)[r]]
            BY <3>1, <3>3, <3>4, SumUnique
        <3>6. Low(u)[u] = Low(t)[u]
            BY <3>5
        <3>7. it[t] = f[Pick(t)] + Low(u)[u]
            BY <2>1, <2>4
        <3> QED
            BY <3>2, <3>6, <3>7
    <2> QED
        BY <2>3, <2>4
<1>7. it = [s \in SUBSET U |-> IF s = {} THEN 0 ELSE f[Pick(s)] + it[s \ {Pick(s)}]]
    BY <1>6
<1>8. IsSum(it, f, U)
    BY <1>7 DEF IsSum
<1> QED
    BY <1>3, <1>8

(* Total is what each such function says.                                  *)
LEMMA TotalIsSum ==
    ASSUME NEW S, IsFiniteSet(S), NEW f, NEW it, IsSum(it, f, S)
    PROVE  \A T \in SUBSET S : Total(f, T) = it[T]
<1> TAKE T \in SUBSET S
<1> DEFINE j == CHOOSE i : IsSum(i, f, T)
<1>1. IsFiniteSet(T)
    BY FS_Subset
<1>2. IsSum(j, f, T)
    BY <1>1, SumExists
<1> HIDE DEF j
<1>3. IsSum([s \in SUBSET T |-> it[s]], f, T)
    BY SumRestrict
<1>4. j = [s \in SUBSET T |-> it[s]]
    BY <1>1, <1>2, <1>3, SumUnique
<1> QED
    BY <1>4 DEF Total, j

LEMMA TotalOfNone ==
    ASSUME NEW f
    PROVE  Total(f, {}) = 0
<1>1. PICK it : IsSum(it, f, {})
    BY SumExists, FS_EmptySet
<1>2. Total(f, {}) = it[{}]
    BY <1>1, TotalIsSum, FS_EmptySet
<1> QED
    BY <1>1, <1>2 DEF IsSum

LEMMA TotalPicks ==
    ASSUME NEW S, IsFiniteSet(S), NEW f, S # {}
    PROVE  Pick(S) \in S /\ Total(f, S) = f[Pick(S)] + Total(f, S \ {Pick(S)})
<1>1. PICK it : IsSum(it, f, S)
    BY SumExists
<1>2. Total(f, S) = it[S] /\ Total(f, S \ {Pick(S)}) = it[S \ {Pick(S)}]
    BY <1>1, TotalIsSum
<1> QED
    BY <1>1, <1>2 DEF IsSum, Pick

LEMMA TotalType ==
    ASSUME NEW S, IsFiniteSet(S), NEW f, \A x \in S : f[x] \in Int
    PROVE  Total(f, S) \in Int
<1> DEFINE B == {s \in SUBSET S : Total(f, s) \notin Int}
<1>1. SUFFICES ASSUME B # {} PROVE FALSE
    OBVIOUS
<1>2. \E U \in B : \A V \in B : V \subseteq U => V = U
    <2>1. B \subseteq SUBSET S
        OBVIOUS
    <2> HIDE DEF B
    <2> QED
        BY <1>1, <2>1, SmallestSet
<1>3. PICK U \in B : \A V \in B : V \subseteq U => V = U
    BY <1>2
<1>4. U # {} /\ IsFiniteSet(U)
    <2>1. Total(f, {}) \in Int
        BY TotalOfNone
    <2>2. U \subseteq S
        OBVIOUS
    <2> QED
        BY <2>1, <2>2, FS_Subset
<1>5. Pick(U) \in U /\ Total(f, U) = f[Pick(U)] + Total(f, U \ {Pick(U)})
    BY <1>4, TotalPicks
<1>6. Total(f, U \ {Pick(U)}) \in Int
    BY <1>3, <1>5
<1> QED
    BY <1>5, <1>6

(* The picks do not matter: any element may be the one taken out.          *)
LEMMA TotalTakes ==
    ASSUME NEW S, IsFiniteSet(S), NEW f, \A x \in S : f[x] \in Int, NEW x \in S
    PROVE  Total(f, S) = f[x] + Total(f, S \ {x})
<1> DEFINE B == {s \in SUBSET S : \E y \in s : Total(f, s) # f[y] + Total(f, s \ {y})}
<1>1. SUFFICES ASSUME B # {} PROVE FALSE
    OBVIOUS
<1>2. \E U \in B : \A V \in B : V \subseteq U => V = U
    <2>1. B \subseteq SUBSET S
        OBVIOUS
    <2> HIDE DEF B
    <2> QED
        BY <1>1, <2>1, SmallestSet
<1>3. PICK U \in B : \A V \in B : V \subseteq U => V = U
    BY <1>2
<1>4. PICK y \in U : Total(f, U) # f[y] + Total(f, U \ {y})
    OBVIOUS
<1>5. U \in SUBSET S /\ U # {} /\ IsFiniteSet(U)
    BY <1>4, FS_Subset
<1> DEFINE p == Pick(U)
<1>6. p \in U /\ Total(f, U) = f[p] + Total(f, U \ {p})
    BY <1>5, TotalPicks
<1> HIDE DEF p
<1>7. p # y
    BY <1>4, <1>6
<1>8. Total(f, U \ {p}) = f[y] + Total(f, (U \ {p}) \ {y})
    BY <1>3, <1>6, <1>7
<1>9. Total(f, U \ {y}) = f[p] + Total(f, (U \ {y}) \ {p})
    BY <1>3, <1>6, <1>7
<1>10. (U \ {p}) \ {y} = (U \ {y}) \ {p} /\ IsFiniteSet((U \ {p}) \ {y})
    BY <1>5, FS_Subset
<1>11. Total(f, (U \ {p}) \ {y}) \in Int
    BY <1>5, <1>10, TotalType
<1>12. f[p] \in Int /\ f[y] \in Int
    BY <1>5, <1>6
<1> HIDE DEF B
<1>13. PICK rest \in Int : rest = Total(f, (U \ {p}) \ {y})
    BY <1>11
<1>14. Total(f, U) = f[p] + (f[y] + rest)
    BY <1>6, <1>8, <1>13
<1>15. Total(f, U \ {y}) = f[p] + rest
    BY <1>9, <1>10, <1>13
<1>16. f[p] + (f[y] + rest) = f[y] + (f[p] + rest)
    BY <1>12, <1>13
<1> QED
    BY <1>4, <1>14, <1>15, <1>16

(* One element more adds its value.                                        *)
LEMMA TotalAdds ==
    ASSUME NEW S, IsFiniteSet(S), NEW f, \A y \in S : f[y] \in Int,
           NEW x, x \notin S, f[x] \in Int
    PROVE  Total(f, S \cup {x}) = Total(f, S) + f[x]
<1> DEFINE T == S \cup {x}
<1>1. IsFiniteSet(T) /\ T \ {x} = S /\ \A y \in T : f[y] \in Int
    BY FS_AddElement
<1>2. Total(f, T) = f[x] + Total(f, T \ {x})
    <2> HIDE DEF T
    <2>1. x \in T
        BY DEF T
    <2> QED
        BY <1>1, <2>1, TotalTakes
<1>3. Total(f, S) \in Int
    BY TotalType
<1>4. Total(f, T) = f[x] + Total(f, S)
    BY <1>1, <1>2
<1>5. f[x] + Total(f, S) = Total(f, S) + f[x]
    BY <1>3
<1> QED
    BY <1>4, <1>5

(***************************************************************************)
(* Types.                                                                  *)
(***************************************************************************)
LEMMA MaxOf ==
    ASSUME NEW S, IsFiniteSet(S), S # {}, \A x \in S : x \in Int
    PROVE  Max(S) \in S /\ \A y \in S : Max(S) >= y
<1> DEFINE B == {s \in SUBSET S : s # {} /\ ~ \E x \in s : \A y \in s : x >= y}
<1>1. SUFFICES ASSUME B # {} PROVE FALSE
    <2>1. \E x \in S : \A y \in S : x >= y
        BY <1>1
    <2> QED
        BY <2>1 DEF Max
<1>2. \E U \in B : \A V \in B : V \subseteq U => V = U
    <2>1. B \subseteq SUBSET S
        OBVIOUS
    <2> HIDE DEF B
    <2> QED
        BY <1>1, <2>1, SmallestSet
<1>3. PICK U \in B : \A V \in B : V \subseteq U => V = U
    BY <1>2
<1>4. PICK z \in U : TRUE
    OBVIOUS
<1>5. U \ {z} \notin B
    BY <1>3, <1>4
<1>6. CASE U \ {z} = {}
    BY <1>4, <1>6
<1>7. CASE U \ {z} # {}
    <2>1. PICK x \in U \ {z} : \A y \in U \ {z} : x >= y
        BY <1>5, <1>7
    <2> QED
        BY <1>4, <2>1
<1> QED
    BY <1>6, <1>7

LEMMA RequestShapes ==
    ASSUME NEW r \in RequestTypes
    PROVE  /\ r.op = "memberOrder" => r.name \in Names
           /\ r.op = "memberInsert" => r.name \in Names /\ r.order \in 0..MaxMembers
           /\ r.op = "memberName" => r.id \in MemberIDs /\ r.name \in Names
           /\ r.op = "pinClear" => r.id \in MemberIDs
           /\ r.op = "areaName" => r.id \in AreaIDs /\ r.name \in AreaNames
           /\ r.op = "complete" =>
                 r.chore \in ChoreIDs /\ r.by \in 0..MaxMembers /\ r.points \in Points
           /\ r.op = "undo" => r.completion \in 1..MaxCompletions
           /\ r.op = "redeem" =>
                 r.reward \in RewardIDs /\ r.by \in 0..MaxMembers /\ r.cost \in Costs
           /\ r.op \in {"earned", "spent"} =>
                 r.reward \in RewardIDs /\ r.by \in MemberIDs /\ r.cost \in Costs
           /\ r.op = "spent" => r.earned \in Int
BY DEF RequestTypes, Idle

LEMMA RequestTyped ==
    ASSUME request \in [Handlers -> RequestTypes], NEW h \in Handlers,
           NEW r \in RequestTypes, Begin(h, r) \/ Continue(h, r)
    PROVE  request' \in [Handlers -> RequestTypes]
BY DEF Begin, Continue

LEMMA DoneTyped ==
    ASSUME request \in [Handlers -> RequestTypes], NEW h \in Handlers, Done(h)
    PROVE  request' \in [Handlers -> RequestTypes]
BY DEF Done, RequestTypes

(* Sort orders stay below the number of members ever created, also those   *)
(* that a request computed some time ago.                                  *)
OrdersInv ==
    /\ \A m \in Members : member[m].order < nextMember - 1
    /\ \A h \in Handlers :
          request[h].op = "memberInsert" => request[h].order < nextMember

TypesInv == TypeOK /\ OrdersInv

LEMMA NextOrderType ==
    ASSUME TypesInv
    PROVE  NextOrder \in 0..MaxMembers /\ NextOrder < nextMember
<1> USE DEF TypesInv, TypeOK, FamilyTypeOK
<1> DEFINE orders == {member[id].order : id \in Members}
<1>1. \A id \in Members : member[id] \in MemberRow
    BY DEF Members
<1>2. orders \subseteq 0..MaxMembers
    BY <1>1 DEF MemberRow
<1>3. IsFiniteSet(orders)
    <2>1. IsFiniteSet(0..MaxMembers)
        BY FS_Interval, FamilyAssumption
    <2> QED
        BY <1>2, <2>1, FS_Subset, Zenon
<1> DEFINE Fits(n) == /\ \A id \in Members : member[id].order < n
                      /\ n > 0 => \E id \in Members : member[id].order = n - 1
<1>4. \E n \in 0..MaxMembers : Fits(n) /\ n < nextMember
    <2>1. CASE Members = {}
        <3>1. 0 \in 0..MaxMembers /\ Fits(0) /\ 0 < nextMember
            BY <2>1, FamilyAssumption
        <3> QED
            BY <3>1
    <2>2. CASE Members # {}
        <3>1. Max(orders) \in orders /\ \A y \in orders : Max(orders) >= y
            <4>1. orders # {} /\ orders \subseteq Int
                BY <2>2, <1>2
            <4> HIDE DEF orders
            <4> QED
                BY <4>1, <1>3, MaxOf
        <3>2. PICK m \in Members : member[m].order = Max(orders)
            BY <3>1
        <3> DEFINE n == member[m].order + 1
        <3>3. member[m].order \in 0..MaxMembers /\ member[m].order < nextMember - 1
            BY <1>1 DEF OrdersInv, MemberRow
        <3>4. n \in 0..MaxMembers /\ n < nextMember /\ n > 0
            BY <3>3, FamilyAssumption
        <3>5. \A id \in Members : member[id].order < n
            <4>1. ASSUME NEW id \in Members PROVE member[id].order < n
                <5>1. member[id].order \in orders /\ member[id].order \in 0..MaxMembers
                    BY <1>1 DEF MemberRow
                <5>2. member[m].order >= member[id].order
                    BY <3>1, <3>2, <5>1
                <5> QED
                    BY <3>3, <5>1, <5>2
            <4> QED
                BY <4>1
        <3>6. Fits(n)
            BY <3>3, <3>5
        <3> QED
            BY <3>4, <3>6
    <2> QED
        BY <2>1, <2>2
<1>5. ASSUME NEW n \in 0..MaxMembers, Fits(n)
      PROVE  n < nextMember
    <2>1. CASE n = 0
        BY <2>1
    <2>2. CASE n > 0
        BY <1>1, <1>5, <2>2 DEF OrdersInv, MemberRow
    <2> QED
        BY <2>1, <2>2
<1>6. NextOrder \in 0..MaxMembers /\ Fits(NextOrder)
    BY <1>4 DEF NextOrder
<1> QED
    BY <1>5, <1>6

(* A step that changes no member and no type. *)
LEMMA OrdersKept ==
    ASSUME TypesInv, UNCHANGED <<member, nextMember>>,
           \A h \in Handlers : request'[h] = request[h] \/ request'[h].op # "memberInsert"
    PROVE  OrdersInv'
BY DEF TypesInv, OrdersInv, Members

LEMMA OtherRequest ==
    ASSUME TypesInv, NEW h \in Handlers, NEW r, r.op # "memberInsert",
           Begin(h, r) \/ Continue(h, r)
    PROVE  \A g \in Handlers : request'[g] = request[g] \/ request'[g].op # "memberInsert"
BY DEF TypesInv, TypeOK, Begin, Continue

LEMMA DoneRequest ==
    ASSUME TypesInv, NEW h \in Handlers, Done(h)
    PROVE  \A g \in Handlers : request'[g] = request[g] \/ request'[g].op # "memberInsert"
BY DEF TypesInv, TypeOK, Done, Idle

LEMMA IssuedAreIDs ==
    ASSUME TypesInv
    PROVE  \A id \in Issued : id \in MemberIDs
BY FamilyAssumption DEF TypesInv, TypeOK, FamilyTypeOK, Issued, MemberIDs

LEMMA SetMemberTypes ==
    ASSUME TypesInv, NEW id \in MemberIDs, NEW column, NEW value, SetMember(id, column, value),
           UNCHANGED <<nextMember, active>>,
           \/ column = "name" /\ value \in Names
           \/ column = "pin" /\ value \in Pins \cup {Nobody}
    PROVE  FamilyTypeOK' /\ \A m \in Members' : m \in Members /\ member'[m].order = member[m].order
<1> USE DEF TypesInv, TypeOK, FamilyTypeOK
<1>1. CASE member[id] = NoRow
    BY <1>1 DEF SetMember, Members
<1>2. CASE member[id] # NoRow
    <2> DEFINE row == [member[id] EXCEPT ![column] = value]
    <2>1. member[id] \in MemberRow
        BY <1>2
    <2>2. row \in MemberRow /\ row.order = member[id].order
        BY <2>1 DEF MemberRow
    <2>3. member' = [member EXCEPT ![id] = row]
        BY <1>2 DEF SetMember
    <2> HIDE DEF row
    <2> QED
        BY <1>2, <2>1, <2>2, <2>3 DEF Members
<1> QED
    BY <1>1, <1>2

LEMMA MemberCreationTypes ==
    ASSUME TypesInv, MemberCreation
    PROVE  FamilyTypeOK' /\ request' \in [Handlers -> RequestTypes] /\ OrdersInv'
<1> USE DEF TypesInv
<1>1. request \in [Handlers -> RequestTypes]
    BY DEF TypeOK
<1>2. ASSUME NEW h \in Handlers, NEW name \in Names, MemberCreateCheck(h, name)
      PROVE  FamilyTypeOK' /\ request' \in [Handlers -> RequestTypes] /\ OrdersInv'
    <2> DEFINE r == [op |-> "memberOrder", name |-> name]
    <2>1. r \in RequestTypes /\ r.op # "memberInsert"
        BY DEF RequestTypes
    <2>2. Begin(h, r) /\ UNCHANGED familyVars
        BY <1>2 DEF MemberCreateCheck
    <2> HIDE DEF r
    <2> QED
        BY <1>1, <2>1, <2>2, RequestTyped, OtherRequest, OrdersKept
           DEF TypeOK, FamilyTypeOK, familyVars
<1>3. ASSUME NEW h \in Handlers, MemberCreateOrder(h)
      PROVE  FamilyTypeOK' /\ request' \in [Handlers -> RequestTypes] /\ OrdersInv'
    <2> DEFINE r == [op |-> "memberInsert", name |-> request[h].name, order |-> NextOrder]
    <2>1. request[h].name \in Names
        BY <1>1, <1>3, RequestShapes DEF MemberCreateOrder, At
    <2>2. NextOrder \in 0..MaxMembers /\ NextOrder < nextMember
        BY NextOrderType
    <2>3. r \in RequestTypes /\ r.order < nextMember
        BY <2>1, <2>2 DEF RequestTypes
    <2>4. Continue(h, r) /\ UNCHANGED familyVars
        BY <1>3 DEF MemberCreateOrder
    <2> HIDE DEF r
    <2>5. request' \in [Handlers -> RequestTypes]
        BY <1>1, <2>3, <2>4, RequestTyped
    <2>6. OrdersInv'
        BY <1>1, <2>3, <2>4 DEF OrdersInv, Continue, familyVars, Members
    <2> QED
        BY <2>4, <2>5, <2>6 DEF TypeOK, FamilyTypeOK, familyVars
<1>4. ASSUME NEW h \in Handlers, MemberCreateInsert(h)
      PROVE  FamilyTypeOK' /\ request' \in [Handlers -> RequestTypes] /\ OrdersInv'
    <2> DEFINE row == [name |-> request[h].name, pin |-> Nobody, order |-> request[h].order]
    <2>1. request[h].name \in Names /\ request[h].order \in 0..MaxMembers
        BY <1>1, <1>4, RequestShapes DEF MemberCreateInsert, At
    <2>2. row \in MemberRow /\ row.order = request[h].order
        BY <2>1 DEF MemberRow
    <2>3. /\ nextMember \in MemberIDs /\ nextMember' = nextMember + 1
          /\ member' = [member EXCEPT ![nextMember] = row]
          /\ active' = active
        BY <1>4 DEF MemberCreateInsert, InsertMember
    <2>4. row.order < nextMember
        BY <1>4, <2>2 DEF MemberCreateInsert, At, OrdersInv
    <2> HIDE DEF row
    <2>5. FamilyTypeOK'
        BY <2>2, <2>3, FamilyAssumption DEF TypeOK, FamilyTypeOK, MemberIDs
    <2>6. request' \in [Handlers -> RequestTypes]
        BY <1>1, <1>4, DoneTyped DEF MemberCreateInsert
    <2>7. \A g \in Handlers : request'[g] = request[g] \/ request'[g].op # "memberInsert"
        BY <1>4, DoneRequest DEF MemberCreateInsert
    <2>8. nextMember \in Int
        BY DEF TypeOK, FamilyTypeOK
    <2>9. ASSUME NEW m \in Members'
          PROVE  member'[m].order < nextMember' - 1
        <3>1. CASE m = nextMember
            BY <2>2, <2>3, <2>4, <2>8, <3>1, <2>1 DEF TypeOK, FamilyTypeOK
        <3>2. CASE m # nextMember
            <4>1. m \in Members /\ member'[m] = member[m]
                BY <2>3, <2>9, <3>2 DEF TypeOK, FamilyTypeOK, Members
            <4>2. member[m].order \in 0..MaxMembers /\ member[m].order < nextMember - 1
                BY <4>1 DEF TypeOK, FamilyTypeOK, Members, OrdersInv, MemberRow
            <4> QED
                BY <2>3, <2>8, <4>1, <4>2, FamilyAssumption
        <3> QED
            BY <3>1, <3>2
    <2>10. ASSUME NEW g \in Handlers, request'[g].op = "memberInsert"
           PROVE  request'[g].order < nextMember'
        <3>1. request'[g] = request[g] /\ request[g].order \in 0..MaxMembers
            BY <1>1, <2>7, <2>10, RequestShapes
        <3> QED
            BY <2>3, <2>8, <2>10, <3>1, FamilyAssumption DEF OrdersInv
    <2> QED
        BY <2>5, <2>6, <2>9, <2>10 DEF OrdersInv
<1> QED
    BY <1>2, <1>3, <1>4 DEF MemberCreation

LEMMA MinOf ==
    ASSUME NEW S, IsFiniteSet(S), S # {}, \A x \in S : x \in Int
    PROVE  Min(S) \in S /\ \A y \in S : Min(S) <= y
<1> DEFINE T == {-x : x \in S}
<1>1. IsFiniteSet(T)
    <2>1. [x \in S |-> -x] \in Surjection(S, T)
        BY DEF Surjection
    <2> HIDE DEF T
    <2> QED
        BY <2>1, FS_Surjection DEF ExistsSurjection
<1>2. T # {} /\ \A x \in T : x \in Int
    OBVIOUS
<1>3. Max(T) \in T /\ \A y \in T : Max(T) >= y
    <2> HIDE DEF T
    <2> QED
        BY <1>1, <1>2, MaxOf
<1>4. PICK x \in S : Max(T) = -x
    BY <1>3
<1>5. \A y \in S : x <= y
    <2> TAKE y \in S
    <2>1. -y \in T /\ Max(T) >= -y
        BY <1>3
    <2> QED
        BY <1>4, <2>1
<1> QED
    BY <1>5 DEF Min

LEMMA ListedOnce ==
    ASSUME NEW S, IsFiniteSet(S)
    PROVE  SetToSeq(S) \in [1..Cardinality(S) -> S] /\ IsInjective(SetToSeq(S))
<1>1. \E f \in [1..Cardinality(S) -> S] : IsInjective(f)
    BY FS_CardinalityType DEF ExistsBijection, Bijection, Injection, Surjection
<1> QED
    BY <1>1 DEF SetToSeq

PlaceIn(ids, id) == SelectInSeq(ids, LAMBDA x : x = id)

LEMMA PlacesOf ==
    ASSUME NEW n \in Nat, NEW S, NEW ids \in [1..n -> S], NEW id, Contains(ids, id)
    PROVE  PlaceIn(ids, id) \in 1..n
<1>1. Len(ids) = n
    OBVIOUS
<1> DEFINE I == {i \in 1..Len(ids) : ids[i] = id}
<1>2. I \subseteq 1..n /\ I # {} /\ \A x \in I : x \in Int
    BY <1>1 DEF Contains
<1>3. IsFiniteSet(I)
    <2>1. IsFiniteSet(1..n)
        BY FS_Interval
    <2> QED
        BY <1>2, <2>1, FS_Subset, Zenon
<1>4. Min(I) \in I
    <2> HIDE DEF I
    <2> QED
        BY <1>2, <1>3, MinOf
<1>5. PlaceIn(ids, id) = Min(I)
    BY <1>2 DEF PlaceIn, SelectInSeq
<1> QED
    BY <1>2, <1>4, <1>5

LEMMA SortTypes ==
    ASSUME TypesInv, NEW S \in SUBSET Issued,
           UpdateSortOrder(SetToSeq(S)) \/ UpdateSortOrder(Reverse(SetToSeq(S)))
    PROVE  FamilyTypeOK' /\ OrdersInv' /\ UNCHANGED request
<1> USE DEF TypesInv, TypeOK, FamilyTypeOK
<1>1. IsFiniteSet(Issued) /\ Cardinality(Issued) = nextMember - 1
    BY FS_Interval, FamilyAssumption DEF Issued
<1>2. IsFiniteSet(S) /\ Cardinality(S) \in Nat /\ Cardinality(S) <= nextMember - 1
    BY <1>1, FS_Subset, FS_CardinalityType
<1>3. PICK n : n = Cardinality(S)
    OBVIOUS
<1>4. PICK ids \in [1..n -> S] : UpdateSortOrder(ids)
    <2>1. SetToSeq(S) \in [1..n -> S] /\ n \in Nat
        BY <1>2, <1>3, ListedOnce
    <2>2. Reverse(SetToSeq(S)) \in [1..n -> S]
        BY <2>1 DEF Reverse
    <2> QED
        BY <2>1, <2>2
<1>5. n \in Nat /\ n <= nextMember - 1 /\ n <= MaxMembers
    BY <1>2, <1>3, FamilyAssumption
<1>6. \A id \in MemberIDs : Contains(ids, id) => PlaceIn(ids, id) \in 1..n
    BY <1>5, PlacesOf
<1>7. /\ member' = [id \in MemberIDs |->
                    IF member[id] # NoRow /\ Contains(ids, id)
                    THEN [member[id] EXCEPT !.order = PlaceIn(ids, id) - 1]
                    ELSE member[id]]
      /\ UNCHANGED <<nextMember, active, request>>
    BY <1>4 DEF UpdateSortOrder, PlaceIn
<1>8. ASSUME NEW id \in MemberIDs
      PROVE  /\ member'[id] \in MemberRow \cup {NoRow}
             /\ member'[id] # NoRow => member[id] # NoRow /\ member'[id].order < nextMember - 1
    <2>1. CASE member[id] # NoRow /\ Contains(ids, id)
        <3>1. member[id] \in MemberRow
            BY <2>1
        <3>2. PlaceIn(ids, id) - 1 \in 0..MaxMembers /\ PlaceIn(ids, id) - 1 < nextMember - 1
            BY <1>5, <1>6, <2>1, FamilyAssumption
        <3>3. member'[id] = [member[id] EXCEPT !.order = PlaceIn(ids, id) - 1]
            BY <1>7, <2>1
        <3> QED
            BY <2>1, <3>1, <3>2, <3>3 DEF MemberRow
    <2>2. CASE ~(member[id] # NoRow /\ Contains(ids, id))
        <3>1. member'[id] = member[id]
            BY <1>7, <2>2
        <3> QED
            BY <3>1 DEF OrdersInv, Members
    <2> QED
        BY <2>1, <2>2
<1>9. FamilyTypeOK'
    BY <1>7, <1>8
<1>10. OrdersInv'
    BY <1>7, <1>8 DEF OrdersInv, Members
<1> QED
    BY <1>7, <1>9, <1>10

RequestsTyped == request \in [Handlers -> RequestTypes]

LEMMA MemberChangeTypes ==
    ASSUME TypesInv, MemberChange \/ MemberDeletion
    PROVE  FamilyTypeOK' /\ RequestsTyped' /\ OrdersInv'
<1> USE DEF TypesInv, RequestsTyped
<1>1. RequestsTyped /\ FamilyTypeOK /\ \A id \in Issued : id \in MemberIDs
    BY IssuedAreIDs DEF TypeOK
<1>2. ASSUME NEW h \in Handlers, NEW id \in Issued, NEW name \in Names,
             ApiMemberRename(h, id, name) \/ FamilyMemberRename(h, id, name)
      PROVE  FamilyTypeOK' /\ RequestsTyped' /\ OrdersInv'
    <2> DEFINE r == [op |-> "memberName", id |-> id, name |-> name]
    <2>1. r \in RequestTypes /\ r.op # "memberInsert"
        BY <1>1 DEF RequestTypes
    <2>2. Begin(h, r) /\ UNCHANGED familyVars
        BY <1>2 DEF ApiMemberRename, FamilyMemberRename
    <2> HIDE DEF r
    <2> QED
        BY <1>1, <2>1, <2>2, RequestTyped, OtherRequest, OrdersKept DEF FamilyTypeOK, familyVars
<1>3. ASSUME NEW h \in Handlers, MemberRenameWrite(h)
      PROVE  FamilyTypeOK' /\ RequestsTyped' /\ OrdersInv'
    <2>1. request[h].id \in MemberIDs /\ request[h].name \in Names
        BY <1>1, <1>3, RequestShapes DEF MemberRenameWrite, At
    <2>2. /\ FamilyTypeOK'
          /\ \A m \in Members' : m \in Members /\ member'[m].order = member[m].order
        BY <1>3, <2>1, SetMemberTypes DEF MemberRenameWrite
    <2>3. RequestsTyped'
        BY <1>1, <1>3, DoneTyped DEF MemberRenameWrite
    <2>4. \A g \in Handlers : request'[g] = request[g] \/ request'[g].op # "memberInsert"
        BY <1>3, DoneRequest DEF MemberRenameWrite
    <2>5. OrdersInv'
        BY <1>3, <2>2, <2>4 DEF OrdersInv, MemberRenameWrite
    <2> QED
        BY <2>2, <2>3, <2>5
<1>4. ASSUME NEW id \in Issued, ApiMemberDelete(id) \/ FamilyMemberDelete(id)
      PROVE  FamilyTypeOK' /\ RequestsTyped' /\ OrdersInv'
    BY <1>1, <1>4
       DEF ApiMemberDelete, FamilyMemberDelete, DeleteMemberRow, FamilyTypeOK, OrdersInv, Members
<1>5. ASSUME NEW S \in SUBSET Issued,
             UpdateSortOrder(SetToSeq(S)) \/ UpdateSortOrder(Reverse(SetToSeq(S)))
      PROVE  FamilyTypeOK' /\ RequestsTyped' /\ OrdersInv'
    BY <1>1, <1>5, SortTypes
<1> QED
    BY <1>2, <1>3, <1>4, <1>5 DEF MemberChange, MemberDeletion

LEMMA PinTypes ==
    ASSUME TypesInv, PinChange \/ UserChoice
    PROVE  FamilyTypeOK' /\ RequestsTyped' /\ OrdersInv'
<1> USE DEF TypesInv, RequestsTyped
<1>1. RequestsTyped /\ FamilyTypeOK /\ \A id \in Issued : id \in MemberIDs
    BY IssuedAreIDs DEF TypeOK
<1>2. ASSUME NEW id \in MemberIDs, NEW pin \in Pins \cup {Nobody}, SetMember(id, "pin", pin),
             UNCHANGED <<nextMember, active>>,
             \A g \in Handlers : request'[g] = request[g] \/ request'[g].op # "memberInsert"
      PROVE  FamilyTypeOK' /\ OrdersInv'
    <2>1. /\ FamilyTypeOK'
          /\ \A m \in Members' : m \in Members /\ member'[m].order = member[m].order
        BY <1>2, SetMemberTypes
    <2> QED
        BY <1>2, <2>1 DEF OrdersInv
<1>3. ASSUME NEW id \in Issued, NEW pin \in Pins, ApiSetPIN(id, pin) \/ PINSetup(id, pin)
      PROVE  FamilyTypeOK' /\ RequestsTyped' /\ OrdersInv'
    BY <1>1, <1>2, <1>3 DEF ApiSetPIN, PINSetup
<1>4. ASSUME NEW id \in Issued, ApiClearPIN(id)
      PROVE  FamilyTypeOK' /\ RequestsTyped' /\ OrdersInv'
    BY <1>1, <1>2, <1>4 DEF ApiClearPIN
<1>5. ASSUME NEW h \in Handlers, NEW id \in Issued, NEW pin \in Pins,
             PINVerifyThenAct(h, id, pin)
      PROVE  FamilyTypeOK' /\ RequestsTyped' /\ OrdersInv'
    <2> DEFINE r == [op |-> "pinClear", id |-> id]
    <2>1. r \in RequestTypes /\ r.op # "memberInsert"
        BY <1>1 DEF RequestTypes
    <2>2. Begin(h, r) /\ UNCHANGED familyVars
        BY <1>5 DEF PINVerifyThenAct
    <2> HIDE DEF r
    <2> QED
        BY <1>1, <2>1, <2>2, RequestTyped, OtherRequest, OrdersKept DEF FamilyTypeOK, familyVars
<1>6. ASSUME NEW h \in Handlers, PINVerifiedClear(h)
      PROVE  FamilyTypeOK' /\ RequestsTyped' /\ OrdersInv'
    <2>1. request[h].id \in MemberIDs
        BY <1>1, <1>6, RequestShapes DEF PINVerifiedClear, At
    <2>2. RequestsTyped'
        BY <1>1, <1>6, DoneTyped DEF PINVerifiedClear
    <2>3. \A g \in Handlers : request'[g] = request[g] \/ request'[g].op # "memberInsert"
        BY <1>6, DoneRequest DEF PINVerifiedClear
    <2> QED
        BY <1>2, <1>6, <2>1, <2>2, <2>3 DEF PINVerifiedClear
<1>7. CASE UserChoice
    <2>1. PICK d \in Devices, id \in Issued :
              active' = [active EXCEPT ![d] = id] /\ UNCHANGED <<member, nextMember, request>>
        BY <1>7 DEF UserChoice, SetActiveUser, VerifyPINAndSetUser
    <2> QED
        BY <1>1, <2>1 DEF FamilyTypeOK, OrdersInv, Members
<1> QED
    BY <1>3, <1>4, <1>5, <1>6, <1>7 DEF PinChange

LEMMA FamilyTypes ==
    ASSUME TypesInv, FamilyNext
    PROVE  FamilyTypeOK' /\ RequestsTyped' /\ OrdersInv'
BY MemberCreationTypes, MemberChangeTypes, PinTypes DEF FamilyNext, RequestsTyped

(* For the steps of Chores and Rewards.                                    *)
LEMMA BoardRequestTypes ==
    ASSUME TypesInv, UNCHANGED familyVars, NEW h \in Handlers,
           \/ Done(h)
           \/ \E r \in RequestTypes :
                 r.op # "memberInsert" /\ (Begin(h, r) \/ Continue(h, r))
    PROVE  FamilyTypeOK' /\ RequestsTyped' /\ OrdersInv'
<1>1. FamilyTypeOK'
    BY DEF TypesInv, TypeOK, FamilyTypeOK, familyVars
<1>2. RequestsTyped'
    BY DoneTyped, RequestTyped DEF TypesInv, TypeOK, RequestsTyped
<1>3. \A g \in Handlers : request'[g] = request[g] \/ request'[g].op # "memberInsert"
    BY DoneRequest, OtherRequest
<1>4. OrdersInv'
    BY <1>3, OrdersKept DEF familyVars
<1> QED
    BY <1>1, <1>2, <1>4

LEMMA BoardQuietTypes ==
    ASSUME TypesInv, UNCHANGED <<familyVars, request>>
    PROVE  FamilyTypeOK' /\ RequestsTyped' /\ OrdersInv'
BY OrdersKept DEF TypesInv, TypeOK, FamilyTypeOK, familyVars, RequestsTyped

LEMMA AreaTypes ==
    ASSUME TypesInv, AreaActions, UNCHANGED familyVars
    PROVE  ChoresTypeOK' /\ FamilyTypeOK' /\ RequestsTyped' /\ OrdersInv'
<1> DEFINE Goal == ChoresTypeOK' /\ FamilyTypeOK' /\ RequestsTyped' /\ OrdersInv'
<1>1. RequestsTyped /\ ChoresTypeOK /\ \A id \in 1..(nextArea - 1) : id \in AreaIDs
    BY ChoresAssumption DEF TypesInv, TypeOK, RequestsTyped, ChoresTypeOK, AreaIDs
<1>2. ASSUME NEW name \in AreaNames, ChoreAreaCreate(name)
      PROVE  Goal
    BY <1>1, <1>2, BoardQuietTypes, ChoresAssumption DEF ChoreAreaCreate, ChoresTypeOK, AreaIDs
<1>3. ASSUME NEW id \in 1..(nextArea - 1), ChoreAreaDelete(id)
      PROVE  Goal
    BY <1>1, <1>3, BoardQuietTypes DEF ChoreAreaDelete, ChoresTypeOK
<1>4. ASSUME NEW h \in Handlers, NEW id \in 1..(nextArea - 1), NEW name \in AreaNames,
             ChoreAreaUpdate(h, id, name)
      PROVE  Goal
    <2>1. [op |-> "areaName", id |-> id, name |-> name] \in RequestTypes
        BY <1>1 DEF RequestTypes
    <2> QED
        BY <1>1, <1>4, <2>1, BoardRequestTypes DEF ChoreAreaUpdate, ChoresTypeOK, choreVars
<1>5. ASSUME NEW h \in Handlers, ChoreAreaUpdateWrite(h)
      PROVE  Goal
    <2>1. request[h].id \in AreaIDs /\ request[h].name \in AreaNames
        BY <1>1, <1>5, RequestShapes DEF ChoreAreaUpdateWrite, At, RequestsTyped
    <2> QED
        BY <1>1, <1>5, <2>1, BoardRequestTypes DEF ChoreAreaUpdateWrite, ChoresTypeOK
<1> QED
    BY <1>2, <1>3, <1>4, <1>5 DEF AreaActions

LEMMA ChoreRowTypes ==
    ASSUME TypesInv, ChoreActions, UNCHANGED familyVars
    PROVE  ChoresTypeOK' /\ FamilyTypeOK' /\ RequestsTyped' /\ OrdersInv'
<1>1. ChoresTypeOK
    BY DEF TypesInv, TypeOK
<1>2. ChoreInputs \subseteq ChoreRow
    BY ChoresAssumption, FamilyAssumption
       DEF TypesInv, TypeOK, ChoresTypeOK, FamilyTypeOK, ChoreInputs, ChoreRow
<1>3. PICK id :
          \/ DeleteChoreRow(id) /\ UNCHANGED nextChore
          \/ \E row \in ChoreInputs :
                InsertChore(row) \/ (UpdateChoreRow(id, row) /\ UNCHANGED nextChore)
    BY DEF ChoreActions, ApiChoreCreate, ChoreCreate, ApiChoreUpdate, ChoreUpdate,
           ApiChoreDelete, ChoreDelete
<1>4. /\ chore' \in [ChoreIDs -> ChoreRow \cup {NoRow}]
      /\ nextChore' \in 1..(MaxChores + 1)
    <2>1. CASE DeleteChoreRow(id) /\ UNCHANGED nextChore
        BY <1>1, <2>1 DEF DeleteChoreRow, ChoresTypeOK
    <2>2. ASSUME NEW row \in ChoreInputs, InsertChore(row)
          PROVE  /\ chore' \in [ChoreIDs -> ChoreRow \cup {NoRow}]
                 /\ nextChore' \in 1..(MaxChores + 1)
        BY <1>1, <1>2, <2>2, ChoresAssumption DEF InsertChore, ChoresTypeOK, ChoreIDs
    <2>3. ASSUME NEW row \in ChoreInputs, UpdateChoreRow(id, row), UNCHANGED nextChore
          PROVE  /\ chore' \in [ChoreIDs -> ChoreRow \cup {NoRow}]
                 /\ nextChore' \in 1..(MaxChores + 1)
        BY <1>1, <1>2, <2>3 DEF UpdateChoreRow, ChoresTypeOK
    <2> QED
        BY <1>3, <2>1, <2>2, <2>3
<1>5. UNCHANGED <<area, nextArea, completion, nextCompletion, now, request>>
    BY DEF ChoreActions, ApiChoreCreate, ChoreCreate, ApiChoreUpdate, ChoreUpdate,
           ApiChoreDelete, ChoreDelete
<1> QED
    BY <1>1, <1>4, <1>5, BoardQuietTypes DEF ChoresTypeOK

LEMMA CompletionTypes ==
    ASSUME TypesInv, Completing \/ Undoing \/ TimePasses, UNCHANGED familyVars
    PROVE  ChoresTypeOK' /\ FamilyTypeOK' /\ RequestsTyped' /\ OrdersInv'
<1> DEFINE Goal == ChoresTypeOK' /\ FamilyTypeOK' /\ RequestsTyped' /\ OrdersInv'
<1>1. /\ RequestsTyped /\ ChoresTypeOK
      /\ \A id \in 1..(nextChore - 1) : id \in ChoreIDs
      /\ \A d \in Devices : active[d] \in 0..MaxMembers
    BY ChoresAssumption, FamilyAssumption
       DEF TypesInv, TypeOK, RequestsTyped, ChoresTypeOK, FamilyTypeOK, ChoreIDs, MemberIDs, Nobody
<1>2. ASSUME NEW h \in Handlers, NEW id \in ChoreIDs, NEW by \in 0..MaxMembers,
             CompleteLookup(h, id, by)
      PROVE  Goal
    <2>1. chore[id] \in ChoreRow
        BY <1>1, <1>2 DEF CompleteLookup, ChoresTypeOK
    <2>2. [op |-> "complete", chore |-> id, by |-> by, points |-> chore[id].points]
              \in RequestTypes
        BY <2>1 DEF RequestTypes, ChoreRow
    <2> QED
        BY <1>1, <1>2, <2>2, BoardRequestTypes DEF CompleteLookup, ChoresTypeOK, choreVars
<1>3. ASSUME NEW h \in Handlers, CompleteInsert(h)
      PROVE  Goal
    <2> DEFINE row == [id |-> nextCompletion, chore |-> request[h].chore, by |-> request[h].by,
                       points |-> request[h].points, at |-> now]
    <2>1. /\ request[h].chore \in ChoreIDs /\ request[h].by \in 0..MaxMembers
          /\ request[h].points \in Points
        BY <1>1, <1>3, RequestShapes DEF CompleteInsert, At, RequestsTyped
    <2>2. nextCompletion \in 1..MaxCompletions /\ nextCompletion' = nextCompletion + 1
        BY <1>1, <1>3, ChoresAssumption DEF CompleteInsert, CreateCompletion, ChoresTypeOK
    <2>3. row \in CompletionRow /\ completion' = completion \cup {row}
        BY <1>1, <1>3, <2>1, <2>2
           DEF CompleteInsert, CreateCompletion, CompletionRow, ChoresTypeOK
    <2> HIDE DEF row
    <2>4. ChoresTypeOK'
        BY <1>1, <1>3, <2>2, <2>3, ChoresAssumption DEF CompleteInsert, ChoresTypeOK
    <2> QED
        BY <1>3, <2>4, BoardRequestTypes DEF CompleteInsert
<1>4. ASSUME NEW r, ApiUndoComplete(r)
      PROVE  Goal
    BY <1>1, <1>4, BoardQuietTypes DEF ApiUndoComplete, DeleteCompletion, ChoresTypeOK
<1>5. ASSUME NEW h \in Handlers, NEW id \in ChoreIDs, ChoreUndoComplete(h, id)
      PROVE  Goal
    <2>1. PICK r \in LastCompletions(id) :
              Begin(h, [op |-> "undo", chore |-> id, completion |-> r.id])
        BY <1>5 DEF ChoreUndoComplete
    <2>2. r \in CompletionRow
        BY <1>1 DEF LastCompletions, CompletionsOf, ChoresTypeOK
    <2>3. [op |-> "undo", chore |-> id, completion |-> r.id] \in RequestTypes
        BY <2>2 DEF RequestTypes, CompletionRow
    <2> QED
        BY <1>1, <1>5, <2>1, <2>3, BoardRequestTypes DEF ChoreUndoComplete, ChoresTypeOK, choreVars
<1>6. ASSUME NEW h \in Handlers, UndoDelete(h)
      PROVE  Goal
    BY <1>1, <1>6, BoardRequestTypes DEF UndoDelete, DeleteCompletion, ChoresTypeOK
<1>7. CASE TimePasses
    BY <1>1, <1>7, BoardQuietTypes, ChoresAssumption DEF TimePasses, ChoresTypeOK
<1>8. CASE Completing
    BY <1>1, <1>2, <1>3, <1>8
       DEF Completing, ApiChoreComplete, ChoreComplete, activeUserFromCookie
<1>9. CASE Undoing
    BY <1>1, <1>4, <1>5, <1>6, <1>9 DEF Undoing
<1> QED
    BY <1>7, <1>8, <1>9

-----------------------------------------------------------------------------
(* What a completion and a redemption are worth, and that the sums the     *)
(* queries return are totals of these (GetPointsEarned, GetPointsSpent).   *)
Worth == [r \in CompletionRow |-> r.points]
Price == [r \in RedemptionRow |-> r.spent]

LEMMA PointsTotal ==
    ASSUME NEW rows, IsFiniteSet(rows), rows \subseteq CompletionRow, NEW m
    PROVE  /\ PointsOf(m, rows) = Total(Worth, {r \in rows : r.by = m})
           /\ PointsOf(m, rows) \in Int
<1> DEFINE S == {r \in rows : r.by = m}
           P(it) == it = [s \in SUBSET S |-> IF s = {} THEN 0
                 ELSE (CHOOSE x \in s : TRUE).points + it[s \ {CHOOSE x \in s : TRUE}]]
<1>1. IsFiniteSet(S) /\ S \subseteq CompletionRow
    BY FS_Subset
<1>2. \A x \in S : Worth[x] = x.points /\ Worth[x] \in Int
    BY <1>1, ChoresAssumption DEF Worth, CompletionRow
<1>3. ASSUME NEW it PROVE P(it) <=> IsSum(it, Worth, S)
    <2>1. \A s \in SUBSET S : s # {} =>
             (CHOOSE x \in s : TRUE).points = Worth[CHOOSE x \in s : TRUE]
        BY <1>2
    <2> HIDE DEF S
    <2> QED
        BY <2>1 DEF IsSum, Pick
<1>4. (CHOOSE it : P(it)) = CHOOSE it : IsSum(it, Worth, S)
    <2> HIDE DEF P
    <2> QED
        BY <1>3, Zenon
<1>5. PointsOf(m, rows) = Total(Worth, S)
    BY <1>4 DEF PointsOf, MapThenSumSet, MapThenFoldSet, Total
<1>6. Total(Worth, S) \in Int
    <2> HIDE DEF S
    <2> QED
        BY <1>1, <1>2, TotalType
<1> QED
    BY <1>5, <1>6

PriceOf(rows) == MapThenSumSet(LAMBDA r : r.spent, rows)

LEMMA PriceTotal ==
    ASSUME NEW rows, IsFiniteSet(rows), rows \subseteq RedemptionRow
    PROVE  PriceOf(rows) = Total(Price, rows) /\ PriceOf(rows) \in Int
<1> DEFINE P(it) == it = [s \in SUBSET rows |-> IF s = {} THEN 0
                 ELSE (CHOOSE x \in s : TRUE).spent + it[s \ {CHOOSE x \in s : TRUE}]]
<1>1. \A x \in rows : Price[x] = x.spent /\ Price[x] \in Int
    BY RewardsAssumption DEF Price, RedemptionRow
<1>2. ASSUME NEW it PROVE P(it) <=> IsSum(it, Price, rows)
    <2>1. \A s \in SUBSET rows : s # {} =>
             (CHOOSE x \in s : TRUE).spent = Price[CHOOSE x \in s : TRUE]
        BY <1>1
    <2> QED
        BY <2>1 DEF IsSum, Pick
<1>3. (CHOOSE it : P(it)) = CHOOSE it : IsSum(it, Price, rows)
    <2> HIDE DEF P
    <2> QED
        BY <1>2, Zenon
<1>4. PriceOf(rows) = Total(Price, rows)
    BY <1>3 DEF PriceOf, MapThenSumSet, MapThenFoldSet, Total
<1> QED
    BY <1>1, <1>4, TotalType

LEMMA SpentIsPrice ==
    ASSUME NEW m
    PROVE  /\ Spent(m) = PriceOf({r \in redemption : r.by = m})
           /\ Spent(m)' = PriceOf({r \in redemption' : r.by = m})
<1>1. Spent(m) = PriceOf({r \in redemption : r.by = m})
    BY DEF Spent, PriceOf
<1>2. Spent(m)' = PriceOf({r \in redemption' : r.by = m})
    BY DEF Spent, PriceOf, MapThenSumSet, MapThenFoldSet
<1> QED
    BY <1>1, <1>2

(***************************************************************************)
(* The books: rows are finitely many and numbered upwards, and no set of   *)
(* completions a member still has is worth more than the member ever       *)
(* earned - nor is what a request under way read as earned.                *)
(***************************************************************************)
CompletionsBy(m) == {r \in completion : r.by = m}
RedemptionsBy(m) == {r \in redemption : r.by = m}

RowsInv ==
    /\ IsFiniteSet(completion) /\ IsFiniteSet(redemption)
    /\ \A r \in completion : r.id < nextCompletion
    /\ \A r \in redemption : r.id <= Cardinality(redemption)

EarnedInv ==
    \A m \in MemberIDs : \A X \in SUBSET CompletionsBy(m) : Total(Worth, X) <= ever[m]

ReadInv ==
    \A h \in Handlers :
        request[h].op = "spent" => request[h].earned <= ever[request[h].by]

BooksInv == RowsInv /\ EarnedInv /\ ReadInv

LEMMA WorthOfRow ==
    ASSUME NEW r \in CompletionRow
    PROVE  Worth[r] = r.points /\ r.points \in Int
BY ChoresAssumption DEF Worth, CompletionRow

LEMMA PriceOfRow ==
    ASSUME NEW r \in RedemptionRow
    PROVE  Price[r] = r.spent /\ r.spent \in Int
BY RewardsAssumption DEF Price, RedemptionRow

(* One row more. *)
LEMMA PointsOfOne ==
    ASSUME NEW row \in CompletionRow, NEW m
    PROVE  PointsOf(m, {row}) = IF row.by = m THEN row.points ELSE 0
<1>1. IsFiniteSet({row}) /\ {row} \subseteq CompletionRow /\ IsFiniteSet({})
    BY FS_Singleton, FS_EmptySet
<1>2. PointsOf(m, {row}) = Total(Worth, {r \in {row} : r.by = m})
    BY <1>1, PointsTotal
<1>3. CASE row.by = m
    <2>1. PICK none : none = {}
        OBVIOUS
    <2>2. {r \in {row} : r.by = m} = none \cup {row}
        BY <1>3, <2>1
    <2>3. IsFiniteSet(none) /\ row \notin none /\ \A y \in none : Worth[y] \in Int
        BY <1>1, <2>1
    <2>4. Total(Worth, none \cup {row}) = Total(Worth, none) + Worth[row]
        BY <2>3, WorthOfRow, TotalAdds
    <2>5. Total(Worth, none) = 0
        BY <2>1, TotalOfNone
    <2>6. PointsOf(m, {row}) = Total(Worth, none \cup {row})
        BY <1>2, <2>2
    <2>7. Worth[row] = row.points /\ row.points \in Int
        BY WorthOfRow
    <2> QED
        BY <1>3, <2>4, <2>5, <2>6, <2>7
<1>4. CASE row.by # m
    <2>1. {r \in {row} : r.by = m} = {}
        BY <1>4
    <2> QED
        BY <1>2, <1>4, <2>1, TotalOfNone
<1> QED
    BY <1>3, <1>4

(* What a step does to the history: nothing, or it adds the points of a    *)
(* new completion.                                                         *)
Gain(row, m) == IF row.by = m /\ row.points > 0 THEN row.points ELSE 0

LEMMA NothingEarned ==
    ASSUME TypeOK, RememberEarned, completion' \subseteq completion
    PROVE  ever' = ever
<1>1. {r \in completion' \ completion : r.points > 0} = {}
    OBVIOUS
<1> QED
    BY <1>1 DEF RememberEarned

LEMMA PointsEarned ==
    ASSUME TypeOK, RememberEarned, NEW row \in CompletionRow, row \notin completion,
           completion' = completion \cup {row}
    PROVE  ever' = [m \in MemberIDs |-> ever[m] + Gain(row, m)]
<1>1. ever \in [MemberIDs -> Nat]
    BY DEF TypeOK, RewardsTypeOK
<1> DEFINE new == {r \in completion' \ completion : r.points > 0}
<1>2. CASE row.points > 0
    <2>1. new = {row}
        BY <1>2
    <2>2. ever' = [m \in MemberIDs |-> ever[m] + PointsOf(m, {row})]
        BY <2>1 DEF RememberEarned
    <2>3. \A m \in MemberIDs : PointsOf(m, {row}) = Gain(row, m)
        BY <1>2, PointsOfOne DEF Gain
    <2> QED
        BY <2>2, <2>3
<1>3. CASE ~(row.points > 0)
    <2>1. new = {}
        BY <1>3
    <2>2. ever' = ever
        BY <2>1 DEF RememberEarned
    <2>3. \A m \in MemberIDs : ever[m] + Gain(row, m) = ever[m]
        BY <1>1, <1>3 DEF Gain
    <2> QED
        BY <1>1, <2>2, <2>3
<1> QED
    BY <1>2, <1>3

LEMMA GainIsNatural ==
    ASSUME NEW row \in CompletionRow, NEW m
    PROVE  Gain(row, m) \in Nat
BY WorthOfRow DEF Gain

(* What a member has earned now is one such set. *)
LEMMA EarnedNow ==
    ASSUME TypeOK, BooksInv, NEW m \in MemberIDs
    PROVE  Earned(m) \in Int /\ Earned(m) <= ever[m]
<1>1. IsFiniteSet(completion) /\ completion \subseteq CompletionRow
    BY DEF TypeOK, ChoresTypeOK, BooksInv, RowsInv
<1>2. Earned(m) = Total(Worth, CompletionsBy(m)) /\ Earned(m) \in Int
    BY <1>1, PointsTotal DEF Earned, CompletionsBy
<1> QED
    BY <1>2 DEF BooksInv, EarnedInv

(* A step that records no completion. *)
LEMMA QuietBooks ==
    ASSUME TypesInv, BooksInv, RememberEarned,
           completion' \subseteq completion, nextCompletion' = nextCompletion,
           \A h \in Handlers : request'[h] = request[h] \/ request'[h].op # "spent"
    PROVE  /\ ever' = ever /\ EarnedInv' /\ ReadInv'
           /\ IsFiniteSet(completion') /\ \A r \in completion' : r.id < nextCompletion'
<1>1. ever' = ever
    BY NothingEarned DEF TypesInv
<1>2. EarnedInv'
    BY <1>1 DEF BooksInv, EarnedInv, CompletionsBy
<1>3. ReadInv'
    BY <1>1 DEF BooksInv, ReadInv
<1>4. IsFiniteSet(completion')
    BY FS_Subset DEF BooksInv, RowsInv
<1> QED
    BY <1>1, <1>2, <1>3, <1>4 DEF BooksInv, RowsInv

(* CompleteInsert. *)
LEMMA InsertBooks ==
    ASSUME TypesInv, BooksInv, RememberEarned, NEW row \in CompletionRow,
           row.id = nextCompletion, completion' = completion \cup {row},
           nextCompletion' = nextCompletion + 1, UNCHANGED redemption,
           \A h \in Handlers : request'[h] = request[h] \/ request'[h].op # "spent"
    PROVE  /\ BooksInv'
           /\ ever' = [m \in MemberIDs |-> ever[m] + Gain(row, m)]
<1> USE DEF BooksInv
<1>1. /\ nextCompletion \in Int /\ completion \subseteq CompletionRow
      /\ ever \in [MemberIDs -> Nat] /\ request \in [Handlers -> RequestTypes]
      /\ \A r \in CompletionRow : r.id \in Int
    BY DEF TypesInv, TypeOK, ChoresTypeOK, RewardsTypeOK, CompletionRow
<1>2. row \notin completion
    BY <1>1 DEF RowsInv
<1>3. ever' = [m \in MemberIDs |-> ever[m] + Gain(row, m)]
    BY <1>2, PointsEarned DEF TypesInv
<1>4. \A m \in MemberIDs :
          Gain(row, m) \in Nat /\ ever[m] \in Nat /\ ever'[m] = ever[m] + Gain(row, m)
    BY <1>1, <1>3, GainIsNatural
<1>5. RowsInv'
    <2>1. IsFiniteSet(completion')
        BY FS_AddElement DEF RowsInv
    <2>2. \A r \in completion' : r.id < nextCompletion'
        BY <1>1 DEF RowsInv
    <2> QED
        BY <2>1, <2>2 DEF RowsInv
<1>6. ASSUME NEW m \in MemberIDs, NEW X \in SUBSET CompletionsBy(m)'
      PROVE  Total(Worth, X) <= ever'[m]
    <2> DEFINE Y == X \ {row}
    <2>1. Y \in SUBSET CompletionsBy(m) /\ Y \subseteq completion
        BY <1>2 DEF CompletionsBy
    <2>2. IsFiniteSet(Y) /\ \A y \in Y : Worth[y] \in Int
        BY <1>1, <2>1, FS_Subset, WorthOfRow DEF RowsInv
    <2>3. Total(Worth, Y) <= ever[m] /\ Total(Worth, Y) \in Int
        BY <2>1, <2>2, TotalType DEF EarnedInv
    <2>4. CASE row \in X
        <3>1. X = Y \cup {row} /\ row \notin Y /\ row.by = m
            BY <1>6, <2>4 DEF CompletionsBy
        <3>2. Worth[row] = row.points /\ row.points \in Int
            BY WorthOfRow
        <3>3. Total(Worth, Y \cup {row}) = Total(Worth, Y) + Worth[row]
            <4> HIDE DEF Y
            <4> QED
                BY <2>2, <3>1, <3>2, TotalAdds
        <3>4. row.points <= Gain(row, m)
            BY <3>1, <3>2 DEF Gain
        <3> HIDE DEF Y
        <3> QED
            BY <1>4, <2>3, <3>1, <3>2, <3>3, <3>4
    <2>5. CASE row \notin X
        <3>1. X = Y
            BY <2>5
        <3> HIDE DEF Y
        <3> QED
            BY <1>4, <2>3, <3>1
    <2> QED
        BY <2>4, <2>5
<1>7. ReadInv'
    <2>1. ASSUME NEW h \in Handlers, request'[h].op = "spent"
          PROVE  request'[h].earned <= ever'[request'[h].by]
        <3>1. request'[h] = request[h] /\ request[h].by \in MemberIDs /\ request[h].earned \in Int
            BY <1>1, <2>1, RequestShapes
        <3>2. request[h].earned <= ever[request[h].by]
            BY <2>1, <3>1 DEF ReadInv
        <3> QED
            BY <1>4, <3>1, <3>2
    <2> QED
        BY <2>1 DEF ReadInv
<1> QED
    BY <1>3, <1>5, <1>6, <1>7 DEF EarnedInv

-----------------------------------------------------------------------------
(* Steps that touch neither the books nor an approval.                     *)
QuietRequests ==
    \A g \in Handlers :
        \/ request'[g] = request[g]
        \/ request[g].op # "redeem" /\ request'[g].op \notin {"spent", "redeem"}

LEMMA SameApprovals ==
    ASSUME \A g \in Handlers :
              \/ request'[g] = request[g]
              \/ /\ request[g].op = "redeem" => request[g].by = Nobody
                 /\ request'[g].op = "redeem" => request'[g].by = Nobody
    PROVE  UNCHANGED [h \in Handlers |-> Approval(h)]
BY DEF Approval

LEMMA SameDebits ==
    ASSUME UNCHANGED redemption
    PROVE  UNCHANGED [m \in MemberIDs |-> Spent(m)]
<1>1. \A m \in MemberIDs : Spent(m)' = Spent(m)
    BY SpentIsPrice
<1> QED
    BY <1>1

LEMMA QuietStep ==
    ASSUME TypesInv, BooksInv, RememberEarned, QuietRequests, UNCHANGED redemption,
           completion' \subseteq completion, nextCompletion' = nextCompletion
    PROVE  BooksInv' /\ ever' = ever /\ UNCHANGED L!ledgerVars
<1>1. \A h \in Handlers : request'[h] = request[h] \/ request'[h].op # "spent"
    BY DEF QuietRequests
<1>2. /\ ever' = ever /\ EarnedInv' /\ ReadInv'
      /\ IsFiniteSet(completion') /\ \A r \in completion' : r.id < nextCompletion'
    BY <1>1, QuietBooks
<1>3. RowsInv'
    BY <1>2 DEF BooksInv, RowsInv
<1>4. UNCHANGED [h \in Handlers |-> Approval(h)]
    BY SameApprovals DEF QuietRequests
<1>5. UNCHANGED L!ledgerVars
    BY <1>2, <1>4, SameDebits DEF L!ledgerVars
<1> QED
    BY <1>2, <1>3, <1>5 DEF BooksInv

LEMMA BeginIsQuiet ==
    ASSUME TypesInv, NEW h \in Handlers, NEW r, Begin(h, r), r.op \notin {"spent", "redeem"}
    PROVE  QuietRequests
BY DEF TypesInv, TypeOK, QuietRequests, Begin, Idle

LEMMA ContinueIsQuiet ==
    ASSUME TypesInv, NEW h \in Handlers, NEW r, Continue(h, r) \/ Done(h),
           request[h].op # "redeem", r.op \notin {"spent", "redeem"}
    PROVE  QuietRequests
BY DEF TypesInv, TypeOK, QuietRequests, Continue, Done, Idle

LEMMA FamilyIsQuiet ==
    ASSUME TypesInv, FamilyNext
    PROVE  QuietRequests
<1>1. CASE MemberCreation
    <2>1. ASSUME NEW h \in Handlers, NEW name \in Names, MemberCreateCheck(h, name)
          PROVE  QuietRequests
        BY <2>1, BeginIsQuiet DEF MemberCreateCheck
    <2>2. ASSUME NEW h \in Handlers, MemberCreateOrder(h) \/ MemberCreateInsert(h)
          PROVE  QuietRequests
        BY <2>2, ContinueIsQuiet DEF MemberCreateOrder, MemberCreateInsert, At, Done
    <2> QED
        BY <1>1, <2>1, <2>2 DEF MemberCreation
<1>2. CASE MemberChange
    <2>1. ASSUME NEW h \in Handlers, NEW id \in Issued, NEW name \in Names,
                 ApiMemberRename(h, id, name) \/ FamilyMemberRename(h, id, name)
          PROVE  QuietRequests
        BY <2>1, BeginIsQuiet DEF ApiMemberRename, FamilyMemberRename
    <2>2. ASSUME NEW h \in Handlers, MemberRenameWrite(h)
          PROVE  QuietRequests
        BY <2>2, ContinueIsQuiet DEF MemberRenameWrite, At, Done, Idle
    <2>3. ASSUME NEW ids, UpdateSortOrder(ids)
          PROVE  QuietRequests
        BY <2>3 DEF UpdateSortOrder, QuietRequests
    <2> QED
        BY <1>2, <2>1, <2>2, <2>3 DEF MemberChange
<1>3. CASE MemberDeletion
    BY <1>3 DEF MemberDeletion, ApiMemberDelete, FamilyMemberDelete, QuietRequests
<1>4. CASE PinChange
    <2>1. ASSUME NEW id, NEW pin, ApiSetPIN(id, pin) \/ PINSetup(id, pin) \/ ApiClearPIN(id)
          PROVE  QuietRequests
        BY <2>1 DEF ApiSetPIN, PINSetup, ApiClearPIN, QuietRequests
    <2>2. ASSUME NEW h \in Handlers, NEW id, NEW pin, PINVerifyThenAct(h, id, pin)
          PROVE  QuietRequests
        BY <2>2, BeginIsQuiet DEF PINVerifyThenAct
    <2>3. ASSUME NEW h \in Handlers, PINVerifiedClear(h)
          PROVE  QuietRequests
        BY <2>3, ContinueIsQuiet DEF PINVerifiedClear, At, Done, Idle
    <2> QED
        BY <1>4, <2>1, <2>2, <2>3 DEF PinChange
<1>5. CASE UserChoice
    BY <1>5 DEF UserChoice, SetActiveUser, VerifyPINAndSetUser, QuietRequests
<1> QED
    BY <1>1, <1>2, <1>3, <1>4, <1>5 DEF FamilyNext

LEMMA BoardIsQuiet ==
    ASSUME TypesInv, ChoresNext, ~ \E h \in Handlers : CompleteInsert(h)
    PROVE  /\ QuietRequests
           /\ completion' \subseteq completion /\ nextCompletion' = nextCompletion
<1>1. CASE AreaActions
    <2>1. ASSUME NEW id, ChoreAreaDelete(id) \/ \E name \in AreaNames : ChoreAreaCreate(name)
          PROVE  QuietRequests /\ UNCHANGED <<completion, nextCompletion>>
        BY <2>1 DEF ChoreAreaDelete, ChoreAreaCreate, QuietRequests
    <2>2. ASSUME NEW h \in Handlers, NEW id, NEW name, ChoreAreaUpdate(h, id, name)
          PROVE  QuietRequests /\ UNCHANGED <<completion, nextCompletion>>
        BY <2>2, BeginIsQuiet DEF ChoreAreaUpdate, choreVars
    <2>3. ASSUME NEW h \in Handlers, ChoreAreaUpdateWrite(h)
          PROVE  QuietRequests /\ UNCHANGED <<completion, nextCompletion>>
        BY <2>3, ContinueIsQuiet DEF ChoreAreaUpdateWrite, At, Done, Idle
    <2> QED
        BY <1>1, <2>1, <2>2, <2>3 DEF AreaActions
<1>2. CASE ChoreActions
    BY <1>2 DEF ChoreActions, ApiChoreCreate, ChoreCreate, ApiChoreUpdate, ChoreUpdate,
                ApiChoreDelete, ChoreDelete, QuietRequests
<1>3. CASE Completing
    <2>1. ASSUME NEW h \in Handlers, NEW id, NEW by, CompleteLookup(h, id, by)
          PROVE  QuietRequests /\ UNCHANGED <<completion, nextCompletion>>
        BY <2>1, BeginIsQuiet DEF CompleteLookup, choreVars
    <2> QED
        BY <1>3, <2>1 DEF Completing, ApiChoreComplete, ChoreComplete
<1>4. CASE Undoing
    <2>1. ASSUME NEW r, ApiUndoComplete(r)
          PROVE  QuietRequests /\ completion' \subseteq completion /\ UNCHANGED nextCompletion
        BY <2>1 DEF ApiUndoComplete, DeleteCompletion, QuietRequests
    <2>2. ASSUME NEW h \in Handlers, NEW id, ChoreUndoComplete(h, id)
          PROVE  QuietRequests /\ UNCHANGED <<completion, nextCompletion>>
        BY <2>2, BeginIsQuiet DEF ChoreUndoComplete, choreVars
    <2>3. ASSUME NEW h \in Handlers, UndoDelete(h)
          PROVE  QuietRequests /\ completion' \subseteq completion /\ UNCHANGED nextCompletion
        BY <2>3, ContinueIsQuiet DEF UndoDelete, DeleteCompletion, At, Done, Idle
    <2> QED
        BY <1>4, <2>1, <2>2, <2>3 DEF Undoing
<1>5. CASE TimePasses
    BY <1>5 DEF TimePasses, QuietRequests
<1> QED
    BY <1>1, <1>2, <1>3, <1>4, <1>5 DEF ChoresNext

(***************************************************************************)
(* Every step of the household is a step of the ledger, or none.           *)
(***************************************************************************)
Ledgered == [L!LedgerNext]_(L!ledgerVars)

Kept == TypesInv' /\ BooksInv' /\ Ledgered

LEMMA RewardTablesStay ==
    ASSUME TypesInv, UNCHANGED rewardVars, ever' \in [MemberIDs -> Nat]
    PROVE  RewardsTypeOK'
BY DEF TypesInv, TypeOK, RewardsTypeOK, rewardVars

LEMMA ChoreTablesStay ==
    ASSUME TypesInv, UNCHANGED choreVars
    PROVE  ChoresTypeOK'
BY DEF TypesInv, TypeOK, ChoresTypeOK, choreVars

LEMMA EverTyped == TypesInv => ever \in [MemberIDs -> Nat]
BY DEF TypesInv, TypeOK, RewardsTypeOK

LEMMA FamilyStep ==
    ASSUME TypesInv, BooksInv, FamilyNext, UNCHANGED <<choreVars, rewardVars>>, RememberEarned,
           guessed' \subseteq MemberIDs
    PROVE  Kept
<1>1. FamilyTypeOK' /\ RequestsTyped' /\ OrdersInv'
    BY FamilyTypes
<1>2. BooksInv' /\ ever' = ever /\ UNCHANGED L!ledgerVars
    BY FamilyIsQuiet, QuietStep DEF choreVars, rewardVars
<1>3. TypesInv'
    BY <1>1, <1>2, RewardTablesStay, ChoreTablesStay, EverTyped DEF TypesInv, TypeOK, RequestsTyped
<1> QED
    BY <1>2, <1>3 DEF Kept, Ledgered

LEMMA BoardTypes ==
    ASSUME TypesInv, ChoresNext, UNCHANGED familyVars
    PROVE  ChoresTypeOK' /\ FamilyTypeOK' /\ RequestsTyped' /\ OrdersInv'
BY AreaTypes, ChoreRowTypes, CompletionTypes DEF ChoresNext

LEMMA EarnStep ==
    ASSUME TypesInv, BooksInv, NEW h \in Handlers, CompleteInsert(h), UNCHANGED rewardVars,
           RememberEarned
    PROVE  BooksInv' /\ ever' \in [MemberIDs -> Nat] /\ Ledgered
<1>1. /\ request \in [Handlers -> RequestTypes] /\ nextCompletion \in 1..(MaxCompletions + 1)
      /\ now \in 0..MaxTime /\ ever \in [MemberIDs -> Nat]
    BY DEF TypesInv, TypeOK, ChoresTypeOK, RewardsTypeOK
<1> DEFINE r == [id |-> nextCompletion, chore |-> request[h].chore, by |-> request[h].by,
                 points |-> request[h].points, at |-> now]
<1>2. /\ request[h].op = "complete" /\ request[h].chore \in ChoreIDs
      /\ request[h].by \in 0..MaxMembers /\ request[h].points \in Points
    BY <1>1, RequestShapes DEF CompleteInsert, At
<1>3. nextCompletion \in 1..MaxCompletions /\ nextCompletion' = nextCompletion + 1
    BY <1>1, ChoresAssumption DEF CompleteInsert, CreateCompletion
<1>4. r \in CompletionRow /\ r.id = nextCompletion /\ r.points \in Points
    BY <1>1, <1>2, <1>3 DEF CompletionRow
<1>5. completion' = completion \cup {r}
    BY DEF CompleteInsert, CreateCompletion
<1>6. PICK row : row = r
    OBVIOUS
<1> HIDE DEF r
<1>7. UNCHANGED redemption
    BY DEF rewardVars
<1>8. QuietRequests
    BY <1>2, ContinueIsQuiet DEF CompleteInsert, Done, Idle
<1>9. \A g \in Handlers : request'[g] = request[g] \/ request'[g].op # "spent"
    BY <1>8 DEF QuietRequests
<1>10. BooksInv' /\ ever' = [m \in MemberIDs |-> ever[m] + Gain(row, m)]
    BY <1>3, <1>4, <1>5, <1>6, <1>7, <1>9, InsertBooks
<1>11. \A m \in MemberIDs : Gain(row, m) \in Nat
    BY <1>4, <1>6, GainIsNatural
<1>12. ever' \in [MemberIDs -> Nat]
    BY <1>1, <1>10, <1>11
<1>13. /\ UNCHANGED [g \in Handlers |-> Approval(g)]
       /\ UNCHANGED [m \in MemberIDs |-> Spent(m)]
    BY <1>7, <1>8, SameApprovals, SameDebits DEF QuietRequests
<1>14. CASE row.by \in MemberIDs /\ row.points > 0
    <2>1. \A m \in MemberIDs :
              ever[m] + Gain(row, m) = IF m = row.by THEN ever[m] + row.points ELSE ever[m]
        BY <1>1, <1>14 DEF Gain
    <2>2. ever' = [ever EXCEPT ![row.by] = @ + row.points]
        BY <1>1, <1>10, <1>14, <2>1
    <2>3. row.points \in {p \in Points : p > 0}
        BY <1>4, <1>6, <1>14
    <2>4. L!Earn(row.by, row.points)
        BY <1>13, <2>2 DEF L!Earn
    <2> QED
        BY <1>10, <1>12, <1>14, <2>3, <2>4 DEF Ledgered, L!LedgerNext
<1>15. CASE ~(row.by \in MemberIDs /\ row.points > 0)
    <2>1. ever' = ever
        BY <1>1, <1>10, <1>15 DEF Gain
    <2> QED
        BY <1>10, <1>12, <1>13, <2>1 DEF Ledgered, L!ledgerVars
<1> QED
    BY <1>14, <1>15

LEMMA BoardStep ==
    ASSUME TypesInv, BooksInv, ChoresNext, UNCHANGED <<familyVars, rewardVars>>, RememberEarned,
           guessed' \subseteq MemberIDs
    PROVE  Kept
<1>1. ChoresTypeOK' /\ FamilyTypeOK' /\ RequestsTyped' /\ OrdersInv'
    BY BoardTypes
<1>2. BooksInv' /\ ever' \in [MemberIDs -> Nat] /\ Ledgered
    <2>1. CASE \E h \in Handlers : CompleteInsert(h)
        BY <2>1, EarnStep
    <2>2. CASE ~ \E h \in Handlers : CompleteInsert(h)
        BY <2>2, BoardIsQuiet, QuietStep, EverTyped DEF rewardVars, Ledgered
    <2> QED
        BY <2>1, <2>2
<1>3. TypesInv'
    BY <1>1, <1>2, RewardTablesStay DEF TypesInv, TypeOK, RequestsTyped
<1> QED
    BY <1>2, <1>3 DEF Kept

LEMMA RewardRowStep ==
    ASSUME TypesInv, BooksInv, RewardActions, UNCHANGED <<familyVars, choreVars>>, RememberEarned,
           guessed' \subseteq MemberIDs
    PROVE  Kept
<1>1. RewardsTypeOK
    BY DEF TypesInv, TypeOK
<1>2. UNCHANGED <<redemption, request>>
    BY DEF RewardActions, ApiRewardCreate, RewardCreate, ApiRewardUpdate, RewardUpdate,
           ApiRewardDelete, RewardDelete
<1>3. PICK id :
          \/ DeleteRewardRow(id) /\ UNCHANGED nextReward
          \/ \E row \in RewardRow :
                InsertReward(row) \/ (UpdateRewardRow(id, row) /\ UNCHANGED nextReward)
    BY DEF RewardActions, ApiRewardCreate, RewardCreate, ApiRewardUpdate, RewardUpdate,
           ApiRewardDelete, RewardDelete
<1>4. /\ reward' \in [RewardIDs -> RewardRow \cup {NoRow}]
      /\ nextReward' \in 1..(MaxRewards + 1)
    <2>1. CASE DeleteRewardRow(id) /\ UNCHANGED nextReward
        BY <1>1, <2>1 DEF DeleteRewardRow, RewardsTypeOK
    <2>2. ASSUME NEW row \in RewardRow, InsertReward(row)
          PROVE  /\ reward' \in [RewardIDs -> RewardRow \cup {NoRow}]
                 /\ nextReward' \in 1..(MaxRewards + 1)
        BY <1>1, <2>2, RewardsAssumption DEF InsertReward, RewardsTypeOK, RewardIDs
    <2>3. ASSUME NEW row \in RewardRow, UpdateRewardRow(id, row), UNCHANGED nextReward
          PROVE  /\ reward' \in [RewardIDs -> RewardRow \cup {NoRow}]
                 /\ nextReward' \in 1..(MaxRewards + 1)
        BY <1>1, <2>3 DEF UpdateRewardRow, RewardsTypeOK
    <2> QED
        BY <1>3, <2>1, <2>2, <2>3
<1>5. BooksInv' /\ ever' = ever /\ UNCHANGED L!ledgerVars
    BY <1>2, QuietStep DEF QuietRequests, choreVars
<1>6. RewardsTypeOK'
    BY <1>1, <1>2, <1>4, <1>5 DEF RewardsTypeOK
<1>7. TypesInv'
    BY <1>2, <1>6, ChoreTablesStay, BoardQuietTypes DEF TypesInv, TypeOK, RequestsTyped
<1> QED
    BY <1>5, <1>7 DEF Kept, Ledgered

(* The check of the balance, in two queries, and the insert.               *)
LEMMA LookupStep ==
    ASSUME TypesInv, BooksInv, NEW h \in Handlers, NEW id \in RewardIDs,
           NEW by \in 0..MaxMembers, RedeemLookup(h, id, by),
           UNCHANGED <<familyVars, choreVars>>, RememberEarned,
           guessed' \subseteq MemberIDs
    PROVE  Kept
<1> DEFINE r == [op |-> IF by = Nobody THEN "redeem" ELSE "earned",
                 reward |-> id, by |-> by, cost |-> reward[id].cost]
<1>1. reward[id] \in RewardRow
    BY DEF TypesInv, TypeOK, RewardsTypeOK, RedeemLookup
<1>2. r \in RequestTypes /\ r.op \notin {"memberInsert", "spent"}
    BY <1>1, FamilyAssumption DEF RequestTypes, RewardRow, MemberIDs, Nobody
<1>3. Begin(h, r) /\ UNCHANGED rewardVars /\ UNCHANGED completion /\ UNCHANGED nextCompletion
    BY DEF RedeemLookup, choreVars
<1>4. r.op = "redeem" => r.by = Nobody
    OBVIOUS
<1> HIDE DEF r
<1>5. request' = [request EXCEPT ![h] = r] /\ request[h] = Idle
    BY <1>3 DEF Begin
<1>6. \A g \in Handlers :
         /\ request'[g] = request[g] \/ request'[g].op # "spent"
         /\ \/ request'[g] = request[g]
            \/ /\ request[g].op = "redeem" => request[g].by = Nobody
               /\ request'[g].op = "redeem" => request'[g].by = Nobody
    BY <1>2, <1>4, <1>5 DEF TypesInv, TypeOK, Idle
<1>7. /\ ever' = ever /\ EarnedInv' /\ ReadInv'
      /\ IsFiniteSet(completion') /\ \A q \in completion' : q.id < nextCompletion'
    BY <1>3, <1>6, QuietBooks
<1>8. BooksInv'
    BY <1>3, <1>7 DEF BooksInv, RowsInv, rewardVars
<1>9. UNCHANGED L!ledgerVars
    BY <1>3, <1>6, <1>7, SameApprovals, SameDebits DEF L!ledgerVars, rewardVars
<1>10. FamilyTypeOK' /\ RequestsTyped' /\ OrdersInv'
    BY <1>2, <1>3, BoardRequestTypes
<1>11. TypesInv'
    BY <1>3, <1>7, <1>10, RewardTablesStay, ChoreTablesStay, EverTyped
       DEF TypesInv, TypeOK, RequestsTyped
<1> QED
    BY <1>8, <1>9, <1>11 DEF Kept, Ledgered

LEMMA EarnedStep ==
    ASSUME TypesInv, BooksInv, NEW h \in Handlers, BalanceEarned(h),
           UNCHANGED <<familyVars, choreVars>>, RememberEarned,
           guessed' \subseteq MemberIDs
    PROVE  Kept
<1> DEFINE r == [op |-> "spent", reward |-> request[h].reward, by |-> request[h].by,
                 cost |-> request[h].cost, earned |-> Earned(request[h].by)]
<1>1. request \in [Handlers -> RequestTypes] /\ request[h].op = "earned"
    BY DEF TypesInv, TypeOK, BalanceEarned, At
<1>2. request[h].reward \in RewardIDs /\ request[h].by \in MemberIDs /\ request[h].cost \in Costs
    BY <1>1, RequestShapes
<1>3. Earned(request[h].by) \in Int /\ Earned(request[h].by) <= ever[request[h].by]
    BY <1>2, EarnedNow DEF TypesInv
<1>4. r \in RequestTypes /\ r.op = "spent" /\ r.by \in MemberIDs /\ r.earned <= ever[r.by]
    BY <1>2, <1>3 DEF RequestTypes
<1>5. Continue(h, r) /\ UNCHANGED rewardVars /\ UNCHANGED <<completion, nextCompletion, redemption>>
    BY DEF BalanceEarned, choreVars, rewardVars
<1> HIDE DEF r
<1>6. request' = [request EXCEPT ![h] = r]
    BY <1>5 DEF Continue
<1>7. ever' = ever
    BY <1>5, NothingEarned DEF TypesInv
<1>8. ReadInv'
    <2>1. ASSUME NEW g \in Handlers, request'[g].op = "spent"
          PROVE  request'[g].earned <= ever'[request'[g].by]
        BY <1>1, <1>4, <1>6, <1>7, <2>1 DEF BooksInv, ReadInv
    <2> QED
        BY <2>1 DEF ReadInv
<1>9. BooksInv'
    BY <1>5, <1>7, <1>8 DEF BooksInv, RowsInv, EarnedInv, CompletionsBy
<1>10. UNCHANGED [g \in Handlers |-> Approval(g)]
    BY <1>1, <1>4, <1>6, SameApprovals
<1>11. UNCHANGED L!ledgerVars
    BY <1>5, <1>7, <1>10, SameDebits DEF L!ledgerVars
<1>12. FamilyTypeOK' /\ RequestsTyped' /\ OrdersInv'
    <2>1. r.op # "memberInsert"
        BY <1>4
    <2> QED
        BY <1>4, <1>5, <2>1, BoardRequestTypes
<1>13. TypesInv'
    BY <1>5, <1>7, <1>12, RewardTablesStay, ChoreTablesStay, EverTyped
       DEF TypesInv, TypeOK, RequestsTyped
<1> QED
    BY <1>9, <1>11, <1>13 DEF Kept, Ledgered

LEMMA ApprovalStep ==
    ASSUME TypesInv, BooksInv, NEW h \in Handlers, BalanceSpent(h),
           UNCHANGED <<familyVars, choreVars>>, RememberEarned,
           guessed' \subseteq MemberIDs
    PROVE  Kept
<1> DEFINE r == [op |-> "redeem", reward |-> request[h].reward, by |-> request[h].by,
                 cost |-> request[h].cost]
           m == request[h].by
<1>1. request \in [Handlers -> RequestTypes] /\ request[h].op = "spent"
    BY DEF TypesInv, TypeOK, BalanceSpent, At
<1>2. /\ request[h].reward \in RewardIDs /\ request[h].by \in MemberIDs
      /\ request[h].cost \in Costs /\ request[h].earned \in Int
    BY <1>1, RequestShapes
<1>3. r \in RequestTypes /\ r.op = "redeem" /\ r.by = m /\ r.cost = request[h].cost
    BY <1>2, FamilyAssumption DEF RequestTypes, MemberIDs
<1>4. UNCHANGED rewardVars /\ UNCHANGED <<completion, nextCompletion, redemption>>
    BY DEF BalanceSpent, choreVars, rewardVars
<1>5. \/ Done(h)
      \/ Continue(h, r) /\ ~(request[h].earned - Spent(m) < request[h].cost)
    BY DEF BalanceSpent
<1> HIDE DEF r
<1>6. \A g \in Handlers : request'[g] = request[g] \/ request'[g].op # "spent"
    BY <1>1, <1>3, <1>5 DEF Done, Continue, Idle
<1>7. /\ ever' = ever /\ EarnedInv' /\ ReadInv'
      /\ IsFiniteSet(completion') /\ \A q \in completion' : q.id < nextCompletion'
    BY <1>4, <1>6, QuietBooks
<1>8. BooksInv'
    BY <1>4, <1>7 DEF BooksInv, RowsInv
<1>9. FamilyTypeOK' /\ RequestsTyped' /\ OrdersInv'
    <2>1. r.op # "memberInsert"
        BY <1>3
    <2> QED
        BY <1>3, <1>5, <2>1, BoardRequestTypes
<1>10. TypesInv'
    BY <1>4, <1>7, <1>9, RewardTablesStay, ChoreTablesStay, EverTyped
       DEF TypesInv, TypeOK, RequestsTyped
<1>11. Ledgered
    <2>1. CASE Done(h)
        <3>1. UNCHANGED [g \in Handlers |-> Approval(g)]
            BY <1>1, <2>1, SameApprovals DEF Done, Idle
        <3> QED
            BY <1>4, <1>7, <3>1, SameDebits DEF L!ledgerVars, Ledgered
    <2>2. CASE Continue(h, r) /\ ~(request[h].earned - Spent(m) < request[h].cost)
        <3>1. Approval(h) = L!Nothing
            BY <1>1 DEF Approval, L!Nothing
        <3>2. m # Nobody
            BY <1>2, FamilyAssumption DEF MemberIDs, Nobody
        <3>3. \A g \in Handlers : Approval(g)' =
                  IF g = h THEN [account |-> m, cost |-> request[h].cost] ELSE Approval(g)
            BY <1>1, <1>3, <2>2, <3>2 DEF Approval, Continue
        <3>4. [g \in Handlers |-> Approval(g)]' =
                  [[g \in Handlers |-> Approval(g)] EXCEPT ![h] =
                      [account |-> m, cost |-> request[h].cost]]
            BY <3>3
        <3>5. Spent(m) \in Int
            <4>1. {q \in redemption : q.by = m} \subseteq RedemptionRow
                BY DEF TypesInv, TypeOK, RewardsTypeOK
            <4>2. IsFiniteSet({q \in redemption : q.by = m})
                BY FS_Subset DEF BooksInv, RowsInv
            <4> QED
                BY <4>1, <4>2, PriceTotal, SpentIsPrice
        <3>6. request[h].cost <= ever[m] - Spent(m)
            <4>1. request[h].earned <= ever[m] /\ ever[m] \in Int
                BY <1>1, <1>2, EverTyped DEF BooksInv, ReadInv
            <4>2. request[h].cost \in Int
                BY <1>2, RewardsAssumption
            <4> QED
                BY <1>2, <2>2, <3>5, <4>1, <4>2
        <3>7. [g \in MemberIDs |-> Spent(g)][m] = Spent(m)
            BY <1>2
        <3>8. L!Approve(h, m, request[h].cost)
            BY <1>4, <1>7, <3>1, <3>4, <3>6, <3>7, SameDebits DEF L!Approve, L!Balance
        <3> QED
            BY <1>2, <3>8 DEF Ledgered, L!LedgerNext
    <2> QED
        BY <1>5, <2>1, <2>2
<1> QED
    BY <1>8, <1>10, <1>11 DEF Kept

(* What a new redemption costs is added to what its member spent.          *)
LEMMA SpentNow ==
    ASSUME TypesInv, BooksInv, NEW row \in RedemptionRow, row \notin redemption,
           redemption' = redemption \cup {row}, NEW m
    PROVE  /\ Spent(m) \in Int
           /\ Spent(m)' = IF row.by = m THEN Spent(m) + row.spent ELSE Spent(m)
<1>1. IsFiniteSet(redemption) /\ redemption \subseteq RedemptionRow
    BY DEF TypesInv, TypeOK, RewardsTypeOK, BooksInv, RowsInv
<1> DEFINE S == {r \in redemption : r.by = m}
           T == {r \in redemption' : r.by = m}
<1>2. IsFiniteSet(S) /\ S \subseteq RedemptionRow /\ row \notin S
    BY <1>1, FS_Subset
<1>3. Spent(m) = PriceOf(S) /\ Spent(m)' = PriceOf(T)
    BY SpentIsPrice
<1>4. PriceOf(S) = Total(Price, S) /\ PriceOf(S) \in Int
    BY <1>2, PriceTotal
<1>5. CASE row.by = m
    <2>1. T = S \cup {row}
        BY <1>5
    <2> HIDE DEF S, T
    <2>2. IsFiniteSet(T) /\ T \subseteq RedemptionRow
        BY <1>2, <2>1, FS_AddElement
    <2>3. PriceOf(T) = Total(Price, T)
        BY <2>2, PriceTotal
    <2>4. Total(Price, S \cup {row}) = Total(Price, S) + Price[row]
        BY <1>2, PriceOfRow, TotalAdds
    <2> QED
        BY <1>3, <1>4, <1>5, <2>1, <2>3, <2>4, PriceOfRow
<1>6. CASE row.by # m
    <2>1. T = S
        BY <1>6
    <2> QED
        BY <1>3, <1>4, <1>6, <2>1
<1> QED
    BY <1>5, <1>6

LEMMA RedeemStep ==
    ASSUME TypesInv, BooksInv, NEW h \in Handlers, RedeemInsert(h),
           UNCHANGED <<familyVars, choreVars>>, RememberEarned,
           guessed' \subseteq MemberIDs
    PROVE  Kept
<1> DEFINE r == [id |-> Cardinality(redemption) + 1, reward |-> request[h].reward,
                 by |-> request[h].by, spent |-> request[h].cost]
<1>1. /\ request \in [Handlers -> RequestTypes] /\ request[h].op = "redeem"
      /\ IsFiniteSet(redemption) /\ redemption \subseteq RedemptionRow
      /\ Cardinality(redemption) < MaxRedemptions
    BY DEF TypesInv, TypeOK, RewardsTypeOK, BooksInv, RowsInv, RedeemInsert, Redeem, At
<1>2. /\ request[h].reward \in RewardIDs /\ request[h].by \in 0..MaxMembers
      /\ request[h].cost \in Costs
    BY <1>1, RequestShapes
<1>3. Cardinality(redemption) \in Nat
    BY <1>1, FS_CardinalityType
<1>4. r \in RedemptionRow /\ r.id = Cardinality(redemption) + 1
    BY <1>1, <1>2, <1>3, RewardsAssumption DEF RedemptionRow
<1>5. redemption' = redemption \cup {r} /\ Done(h) /\ UNCHANGED <<reward, nextReward>>
    BY DEF RedeemInsert, Redeem
<1>6. r.by = request[h].by /\ r.spent = request[h].cost
    OBVIOUS
<1>7. PICK row : row = r
    OBVIOUS
<1> HIDE DEF r
<1>8. row \in RedemptionRow /\ row \notin redemption
    BY <1>3, <1>4, <1>7 DEF BooksInv, RowsInv
<1>9. UNCHANGED <<completion, nextCompletion>>
    BY DEF choreVars
<1>10. \A g \in Handlers : request'[g] = request[g] \/ request'[g].op # "spent"
    BY <1>1, <1>5 DEF Done, Idle
<1>11. /\ ever' = ever /\ EarnedInv' /\ ReadInv'
       /\ IsFiniteSet(completion') /\ \A q \in completion' : q.id < nextCompletion'
    BY <1>9, <1>10, QuietBooks
<1>12. RowsInv'
    <2>1. IsFiniteSet(redemption') /\ Cardinality(redemption') = Cardinality(redemption) + 1
        BY <1>1, <1>5, <1>7, <1>8, FS_AddElement
    <2>2. \A q \in redemption : q.id \in Int /\ q.id <= Cardinality(redemption)
        BY <1>1 DEF BooksInv, RowsInv, RedemptionRow
    <2>3. \A q \in redemption' : q.id <= Cardinality(redemption')
        BY <1>3, <1>4, <1>5, <2>1, <2>2
    <2> QED
        BY <1>11, <2>1, <2>3 DEF RowsInv
<1>13. BooksInv'
    BY <1>11, <1>12 DEF BooksInv
<1>14. TypesInv'
    <2>1. FamilyTypeOK' /\ RequestsTyped' /\ OrdersInv'
        BY <1>5, BoardRequestTypes
    <2>2. RewardsTypeOK'
        BY <1>1, <1>4, <1>5, <1>11 DEF TypesInv, TypeOK, RewardsTypeOK
    <2> QED
        BY <2>1, <2>2, ChoreTablesStay DEF TypesInv, TypeOK, RequestsTyped
<1>15. \A m \in MemberIDs :
           /\ Spent(m) \in Int
           /\ Spent(m)' = IF row.by = m THEN Spent(m) + row.spent ELSE Spent(m)
    BY <1>5, <1>7, <1>8, SpentNow
<1>16. Ledgered
    <2>1. CASE request[h].by = Nobody
        <3>1. UNCHANGED [m \in MemberIDs |-> Spent(m)]
            <4>1. \A m \in MemberIDs : row.by # m
                BY <1>6, <1>7, <2>1 DEF Nobody, MemberIDs
            <4> QED
                BY <1>15, <4>1
        <3>2. UNCHANGED [g \in Handlers |-> Approval(g)]
            BY <1>1, <1>5, <2>1, SameApprovals DEF Done, Idle
        <3> QED
            BY <1>11, <3>1, <3>2 DEF Ledgered, L!ledgerVars
    <2>2. CASE request[h].by # Nobody
        <3> DEFINE approved == [g \in Handlers |-> Approval(g)]
                   debit == [m \in MemberIDs |-> Spent(m)]
        <3>1. approved[h] = [account |-> row.by, cost |-> row.spent]
            BY <1>1, <1>6, <1>7, <2>2 DEF Approval
        <3>2. approved[h] # L!Nothing
            BY <3>1 DEF L!Nothing
        <3>3. approved' = [approved EXCEPT ![h] = L!Nothing]
            <4>1. \A g \in Handlers :
                      Approval(g)' = IF g = h THEN L!Nothing ELSE Approval(g)
                BY <1>1, <1>5 DEF Approval, Done, Idle, L!Nothing
            <4> QED
                BY <4>1
        <3>4. debit' = [debit EXCEPT ![row.by] = @ + row.spent]
            <4>1. row.by \in MemberIDs
                BY <1>2, <1>6, <1>7, <2>2, FamilyAssumption DEF Nobody, MemberIDs
            <4>2. \A m \in MemberIDs :
                      Spent(m)' = IF m = row.by THEN Spent(m) + row.spent ELSE Spent(m)
                BY <1>15
            <4> QED
                BY <4>1, <4>2
        <3>5. L!Book(h)
            <4>1. approved[h].account = row.by /\ approved[h].cost = row.spent
                BY <3>1
            <4> HIDE DEF approved, debit
            <4>2. debit' = [debit EXCEPT ![approved[h].account] = @ + approved[h].cost]
                BY <3>4, <4>1
            <4> USE DEF approved, debit
            <4> QED
                BY <1>11, <3>2, <3>3, <4>2 DEF L!Book
        <3> QED
            BY <3>5 DEF Ledgered, L!LedgerNext
    <2> QED
        BY <2>1, <2>2
<1> QED
    BY <1>13, <1>14, <1>16 DEF Kept

LEMMA AbandonStep ==
    ASSUME TypesInv, BooksInv, NEW h \in Handlers, Abandon(h),
           UNCHANGED <<familyVars, choreVars, rewardVars>>, RememberEarned,
           guessed' \subseteq MemberIDs
    PROVE  Kept
<1>1. request \in [Handlers -> RequestTypes] /\ Done(h)
    BY DEF TypesInv, TypeOK, Abandon
<1>2. UNCHANGED <<completion, nextCompletion, redemption>>
    BY DEF choreVars, rewardVars
<1>3. \A g \in Handlers : request'[g] = request[g] \/ request'[g].op # "spent"
    BY <1>1 DEF Done, Idle
<1>4. /\ ever' = ever /\ EarnedInv' /\ ReadInv'
      /\ IsFiniteSet(completion') /\ \A q \in completion' : q.id < nextCompletion'
    BY <1>2, <1>3, QuietBooks
<1>5. BooksInv'
    BY <1>2, <1>4 DEF BooksInv, RowsInv
<1>6. TypesInv'
    BY <1>1, <1>4, BoardRequestTypes, RewardTablesStay, ChoreTablesStay, EverTyped
       DEF TypesInv, TypeOK, RequestsTyped
<1>7. UNCHANGED [m \in MemberIDs |-> Spent(m)]
    BY <1>2, SameDebits
<1>8. CASE request[h].op = "redeem" /\ request[h].by # Nobody
    <2>1. \A g \in Handlers : Approval(g)' = IF g = h THEN L!Nothing ELSE Approval(g)
        BY <1>1 DEF Approval, Done, Idle, L!Nothing
    <2>2. Approval(h) # L!Nothing
        BY <1>8 DEF Approval, L!Nothing
    <2>3. L!Withdraw(h)
        BY <1>4, <1>7, <2>1, <2>2 DEF L!Withdraw
    <2> QED
        BY <1>5, <1>6, <2>3 DEF Kept, Ledgered, L!LedgerNext
<1>9. CASE ~(request[h].op = "redeem" /\ request[h].by # Nobody)
    <2>1. UNCHANGED [g \in Handlers |-> Approval(g)]
        BY <1>1, <1>9, SameApprovals DEF Done, Idle
    <2> QED
        BY <1>4, <1>5, <1>6, <1>7, <2>1 DEF Kept, Ledgered, L!ledgerVars
<1> QED
    BY <1>8, <1>9

LEMMA RedeemingStep ==
    ASSUME TypesInv, BooksInv, Redeeming, UNCHANGED <<familyVars, choreVars>>, RememberEarned,
           guessed' \subseteq MemberIDs
    PROVE  Kept
<1>1. /\ \A id \in 1..(nextReward - 1) : id \in RewardIDs
      /\ \A d \in Devices : active[d] \in 0..MaxMembers
    <2>1. nextReward \in 1..(MaxRewards + 1)
        BY DEF TypesInv, TypeOK, RewardsTypeOK
    <2>2. \A d \in Devices : active[d] \in 0..MaxMembers
        <3>1. MemberIDs \cup {Nobody} \subseteq 0..MaxMembers
            BY FamilyAssumption DEF MemberIDs, Nobody
        <3> QED
            BY <3>1 DEF TypesInv, TypeOK, FamilyTypeOK
    <2> QED
        BY <2>1, <2>2, RewardsAssumption DEF RewardIDs
<1>2. ASSUME NEW h \in Handlers, NEW id \in RewardIDs, NEW by \in 0..MaxMembers,
             ApiRedeem(h, id, by)
      PROVE  Kept
    BY <1>1, <1>2, LookupStep DEF ApiRedeem
<1>3. ASSUME NEW h \in Handlers, NEW id \in RewardIDs, NEW d \in Devices,
             RewardRedeem(h, id, d)
      PROVE  Kept
    BY <1>1, <1>3, LookupStep DEF RewardRedeem, activeUserFromCookie
<1> QED
    BY <1>1, <1>2, <1>3, EarnedStep, ApprovalStep, RedeemStep DEF Redeeming

(* A guess names a member.                                                 *)
LEMMA GuessesTyped ==
    ASSUME TypesInv, Next
    PROVE  guessed' \subseteq MemberIDs
<1>1. guessed \subseteq MemberIDs /\ nextMember \in 1..(MaxMembers + 1)
    BY DEF TypesInv, TypeOK, FamilyTypeOK
<1>2. ASSUME NEW m \in 0..MaxMembers, Named(m)
      PROVE  guessed' \subseteq MemberIDs
    <2>1. m # Nobody => m \in MemberIDs
        BY FamilyAssumption DEF MemberIDs, Nobody
    <2> QED
        BY ONLY <1>1, <1>2, <2>1 DEF Named
<1>3. CASE UNCHANGED guessed
    BY <1>1, <1>3
<1>4. CASE ChoreActions
    BY <1>2, <1>3, <1>4 DEF ChoreActions, ChoreInputs
<1>5. CASE Completing
    BY <1>2, <1>3, <1>5 DEF Completing
<1>6. CASE Redeeming
    BY <1>2, <1>3, <1>6 DEF Redeeming
<1> QED
    BY <1>3, <1>4, <1>5, <1>6 DEF Next, ChoresNext, RewardsNext

LEMMA HouseholdStep ==
    ASSUME TypesInv, BooksInv, [Next]_vars
    PROVE  Kept
<1>1. CASE UNCHANGED vars
    <2> USE <1>1 DEF vars, choreVars, rewardVars, familyVars
    <2>1. TypesInv'
        BY DEF TypesInv, TypeOK, OrdersInv, FamilyTypeOK, ChoresTypeOK, RewardsTypeOK, Members
    <2>2. BooksInv'
        BY DEF BooksInv, RowsInv, EarnedInv, ReadInv, CompletionsBy
    <2>3. UNCHANGED L!ledgerVars
        BY SameApprovals, SameDebits DEF L!ledgerVars
    <2> QED
        BY <2>1, <2>2, <2>3 DEF Kept, Ledgered
<1>2. CASE Next
    BY <1>2, GuessesTyped, FamilyStep, BoardStep, RewardRowStep, RedeemingStep, AbandonStep
       DEF Next, RewardsNext
<1> QED
    BY <1>1, <1>2

LEMMA HouseholdStarts ==
    ASSUME Init
    PROVE  TypesInv /\ BooksInv /\ L!LedgerInit
<1> USE DEF Init, FamilyInit, ChoresInit, RewardsInit, RequestsInit
<1>1. TypesInv
    BY FamilyAssumption, ChoresAssumption, RewardsAssumption
       DEF TypesInv, TypeOK, OrdersInv, FamilyTypeOK, ChoresTypeOK, RewardsTypeOK,
           RequestTypes, Members, Idle, MemberIDs, ChoreIDs, RewardIDs, AreaIDs, Nobody
<1>2. BooksInv
    <2>1. RowsInv
        BY FS_EmptySet DEF RowsInv
    <2>2. EarnedInv
        BY TotalOfNone DEF EarnedInv, CompletionsBy
    <2> QED
        BY <2>1, <2>2 DEF BooksInv, ReadInv, Idle
<1>3. L!LedgerInit
    <2>1. \A m \in MemberIDs : Spent(m) = 0
        <3>1. ASSUME NEW m PROVE Spent(m) = 0
            <4>1. {r \in redemption : r.by = m} = {}
                OBVIOUS
            <4>2. Spent(m) = PriceOf({})
                BY <4>1, SpentIsPrice
            <4> QED
                BY <4>2, PriceTotal, TotalOfNone, FS_EmptySet
        <3> QED
            BY <3>1
    <2>2. \A h \in Handlers : Approval(h) = L!Nothing
        BY DEF Approval, Idle, L!Nothing
    <2> QED
        BY <2>1, <2>2 DEF L!LedgerInit
<1> QED
    BY <1>1, <1>2, <1>3

(* In every reachable state the tables, the cookies and the requests hold  *)
(* values of their types; among them, no sort order lies beyond the number *)
(* of the members ever created.                                            *)
THEOREM HouseholdTyped == Spec => []TypeOK
<1>1. Init => TypesInv /\ BooksInv
    BY HouseholdStarts
<1>2. (TypesInv /\ BooksInv) /\ [Next]_vars => (TypesInv /\ BooksInv)'
    BY HouseholdStep DEF Kept
<1>3. TypesInv => TypeOK
    BY DEF TypesInv
<1> QED
    BY <1>1, <1>2, <1>3, PTL DEF Spec

(* The household implements the abstract ledger: with what a member ever   *)
(* earned as credit, the redemptions as debit and the requests past the    *)
(* check as approvals, every step of every handler is a step of Ledger or  *)
(* none (RewardRedeem, Create, UndoLastCompletion, the deletions).         *)
THEOREM RedeemingKeepsTheLedger == Spec => RedemptionsAreApproved
<1>1. Init => TypesInv /\ BooksInv /\ L!LedgerInit
    BY HouseholdStarts
<1>2. (TypesInv /\ BooksInv) /\ [Next]_vars
          => (TypesInv /\ BooksInv)' /\ [L!LedgerNext]_(L!ledgerVars)
    BY HouseholdStep DEF Kept, Ledgered
<1> QED
    BY <1>1, <1>2, PTL DEF Spec, RedemptionsAreApproved, L!LedgerSpec

(* The theorems of the ledger, for this ledger.                            *)
LP == INSTANCE LedgerProofs WITH
        Requests <- Handlers,
        Accounts <- MemberIDs,
        Earnings <- {p \in Points : p > 0},
        Costs <- Costs,
        MaxCost <- Max(Costs \cup {0}),
        credit <- ever,
        debit <- [m \in MemberIDs |-> Spent(m)],
        approved <- [h \in Handlers |-> Approval(h)]

LEMMA LedgerFits == LP!LedgerConstants
<1> DEFINE S == Costs \cup {0}
<1>1. Max(S) \in S /\ \A y \in S : Max(S) >= y
    <2>1. IsFiniteSet(S) /\ S # {} /\ \A x \in S : x \in Int
        BY RewardsAssumption, FS_AddElement
    <2> HIDE DEF S
    <2> QED
        BY <2>1, MaxOf
<1>2. Max(S) \in Nat /\ \A c \in Costs : c <= Max(S)
    <2> HIDE DEF S
    <2>1. Max(S) \in Int /\ 0 \in S /\ \A c \in Costs : c \in S
        <3> USE DEF S
        <3>1. \A x \in S : x \in Int
            BY RewardsAssumption
        <3> HIDE DEF S
        <3>2. 0 \in S /\ \A c \in Costs : c \in S
            BY DEF S
        <3> QED
            BY <1>1, <3>1, <3>2
    <2>2. \A c \in Costs : c \in Int
        BY RewardsAssumption
    <2> QED
        BY <1>1, <2>1, <2>2
<1>3. LP!IsFiniteSet(Handlers)
    BY RequestsAssumption DEF IsFiniteSet, LP!IsFiniteSet
<1>4. {p \in Points : p > 0} \subseteq Nat
    <2>1. \A p \in Points : p \in Int
        BY ChoresAssumption
    <2> QED
        BY <2>1
<1> QED
    BY <1>2, <1>3, <1>4, RequestsAssumption, RewardsAssumption DEF LP!LedgerConstants

LEMMA OneLedger == RedemptionsAreApproved => LP!LedgerSpec
<1>1. L!LedgerInit => LP!LedgerInit
    BY DEF LP!LedgerInit, L!LedgerInit, L!Nothing, LP!Nothing
<1>2. [L!LedgerNext]_(L!ledgerVars) => [LP!LedgerNext]_(LP!ledgerVars)
    BY DEF LP!LedgerNext, L!LedgerNext, LP!ledgerVars, L!ledgerVars, L!Earn, L!Approve,
           L!Book, L!Withdraw, LP!Earn, LP!Approve, LP!Book, LP!Withdraw, L!Nothing,
           LP!Nothing, L!Balance, LP!Balance
<1> QED
    BY <1>1, <1>2, PTL DEF RedemptionsAreApproved, L!LedgerSpec, LP!LedgerSpec

(* However many requests redeem, complete, undo and delete at once, no     *)
(* member ever spends more than was earned by more than one reward for     *)
(* each other request: what is checked before the insert of a redemption   *)
(* (RewardRedeem) bounds what that insert can overdraw.                    *)
THEOREM HouseholdOverdraft == Spec => []OverdraftIsBounded
<1>1. LP!LedgerSpec => []LP!OverdraftIsBounded
    BY LedgerFits, LP!OverdraftBound
<1>2. LP!OverdraftIsBounded => OverdraftIsBounded
    <2>1. LP!Cardinality(Handlers) = Cardinality(Handlers)
        BY DEF Cardinality, LP!Cardinality
    <2> QED
        BY <2>1 DEF OverdraftIsBounded, LP!OverdraftIsBounded, LP!Balance
<1> QED
    BY <1>1, <1>2, RedeemingKeepsTheLedger, OneLedger, PTL

(***************************************************************************)
(* The boards.                                                             *)
(***************************************************************************)
LEMMA ChoreTyped ==
    ASSUME TypesInv, NEW c \in ChoreRows
    PROVE  c \in ChoreIDs /\ chore[c] \in ChoreRow
BY DEF TypesInv, TypeOK, ChoresTypeOK, ChoreRows

LEMMA MissingAreOrphans ==
    ASSUME TypesInv
    PROVE  MissingOnlyIfOrphaned
<1> SUFFICES ASSUME NEW c \in ChoreRows
             PROVE  /\ c \notin UNION Range(PersonGroups) =>
                          chore[c].assignedTo \in MemberIDs \ Members
                    /\ c \notin UNION Range(AreaGroups) => chore[c].area \in AreaIDs \ Areas
    BY DEF MissingOnlyIfOrphaned
<1>1. chore[c].assignedTo \in 0..MaxMembers /\ chore[c].area \in 0..MaxAreas
    BY ChoreTyped DEF ChoreRow
<1>2. ASSUME c \notin UNION Range(PersonGroups)
      PROVE  chore[c].assignedTo \in MemberIDs \ Members
    <2> DEFINE m == chore[c].assignedTo
    <2>1. c \in OwnedBy(m)
        BY DEF OwnedBy
    <2>2. ASSUME m \in Members \cup {Nobody} PROVE FALSE
        <3>1. m \in DOMAIN PersonGroups /\ PersonGroups[m] = OwnedBy(m)
            BY <2>1, <2>2 DEF PersonGroups
        <3> QED
            BY <1>2, <2>1, <3>1 DEF Range
    <2> QED
        BY <1>1, <2>2, FamilyAssumption DEF MemberIDs, Nobody
<1>3. ASSUME c \notin UNION Range(AreaGroups)
      PROVE  chore[c].area \in AreaIDs \ Areas
    <2> DEFINE a == chore[c].area
    <2>1. c \in LyingIn(a)
        BY DEF LyingIn
    <2>2. ASSUME a \in Areas \cup {0} PROVE FALSE
        <3>1. a \in DOMAIN AreaGroups /\ AreaGroups[a] = LyingIn(a)
            BY <2>1, <2>2 DEF AreaGroups
        <3> QED
            BY <1>3, <2>1, <3>1 DEF Range
    <2> QED
        BY <1>1, <2>2, ChoresAssumption DEF AreaIDs
<1> QED
    BY <1>2, <1>3

(* A day of UTC has begun before the server's day ends when it is no later *)
(* than the day of UTC in which the server's day ends.                     *)
LEMMA DayScale ==
    ASSUME NEW D \in Nat, D > 0, NEW a \in Int, NEW b \in Int
    PROVE  /\ a * D \in Int /\ b * D \in Int
           /\ a <= b => a * D <= b * D
           /\ a < b => a * D + D <= b * D
<1>1. ASSUME a <= b PROVE a * D <= b * D
    <2>1. PICK k \in Nat : b = a + k
        BY <1>1
    <2>2. k * D \in Nat /\ (a + k) * D = a * D + k * D
        OBVIOUS
    <2> QED
        BY <2>1, <2>2
<1>2. ASSUME a < b PROVE a * D + D <= b * D
    <2>1. PICK k \in Nat : b = a + 1 + k
        BY <1>2
    <2>2. k * D \in Nat /\ (a + 1 + k) * D = a * D + D + k * D
        OBVIOUS
    <2> QED
        BY <2>1, <2>2
<1> QED
    BY <1>1, <1>2

LEMMA DayParts ==
    ASSUME NEW D \in Nat, D > 0, NEW t \in Int
    PROVE  /\ t \div D \in Int
           /\ (t \div D) * D <= t /\ t < (t \div D) * D + D
<1>1. t \div D \in Int /\ t % D \in 0..(D - 1) /\ t = D * (t \div D) + (t % D)
    BY SMTT(30)
<1>2. PICK q \in Int, r \in 0..(D - 1) : q = t \div D /\ r = t % D
    BY <1>1
<1>3. D * q = q * D
    OBVIOUS
<1> QED
    BY <1>1, <1>2, <1>3

LEMMA DayGrows ==
    ASSUME NEW D \in Nat, D > 0, NEW s \in Int, NEW t \in Int, s <= t
    PROVE  s \div D <= t \div D
<1>1. PICK q \in Int, p \in Int :
          /\ q = t \div D /\ p = s \div D
          /\ t < q * D + D /\ p * D <= s
    BY DayParts
<1>2. q * D \in Int /\ p * D \in Int /\ (q < p => q * D + D <= p * D)
    BY DayScale
<1> QED
    BY <1>1, <1>2

Ahead == IF Zone < 0 THEN 1 ELSE 0

LEMMA DayEdge ==
    ASSUME NEW a \in Int, NEW d \in Int
    PROVE  /\ Ahead \in Int
           /\ d * DayLength < a * DayLength - Zone <=> d < a + Ahead
<1>1. PICK D \in Nat, Z \in Int : D = DayLength /\ Z = Zone /\ D > 0 /\ -D < Z /\ Z < D
    BY ChoresAssumption
<1>2. PICK e \in {0, 1} : e = Ahead
    BY DEF Ahead
<1>3. (e = 1 /\ Z < 0) \/ (e = 0 /\ Z >= 0)
    BY <1>1, <1>2 DEF Ahead
<1>4. /\ a * D \in Int /\ d * D \in Int /\ (a + e) * D = a * D + e * D
      /\ e * D = IF e = 1 THEN D ELSE 0
    OBVIOUS
<1>5. d < a + e => d * D + D <= (a + e) * D
    BY DayScale, a + e \in Int
<1>6. a + e <= d => (a + e) * D <= d * D
    BY DayScale, a + e \in Int
<1>7. d * D < a * D - Z <=> d < a + e
    BY <1>1, <1>3, <1>4, <1>5, <1>6
<1> QED
    BY <1>1, <1>2, <1>7

LEMMA DueByBoardDay ==
    ASSUME TypesInv
    PROVE  /\ BoardDay \in Int
           /\ \A d \in Int :
                /\ d * DayLength < LocalMidnight + DayLength <=> d <= BoardDay
                /\ d * DayLength < LocalMidnight <=> d < BoardDay
<1>1. PICK D \in Nat, Z \in Int, t \in Int :
          D = DayLength /\ Z = Zone /\ t = now /\ D > 0
    BY ChoresAssumption DEF TypesInv, TypeOK, ChoresTypeOK
<1>2. PICK a \in Int : a = LocalDay(now)
    BY <1>1, DayParts, t + Z \in Int DEF LocalDay
<1>3. PICK e \in Int : e = Ahead /\ BoardDay = a + e
    BY <1>2 DEF Ahead, BoardDay
<1>4. LocalMidnight = a * D - Z
    BY <1>1, <1>2 DEF LocalMidnight
<1>5. a * D \in Int /\ (a + 1) * D = a * D + D
    OBVIOUS
<1>6. ASSUME NEW d \in Int
      PROVE  /\ d * D < a * D - Z <=> d < a + e
             /\ d * D < (a + 1) * D - Z <=> d < a + 1 + e
    BY <1>1, <1>3, DayEdge, a + 1 \in Int
<1>7. ASSUME NEW d \in Int
      PROVE  /\ d * D < a * D - Z + D <=> d <= a + e
             /\ d * D < a * D - Z <=> d < a + e
    <2>1. (a + 1) * D - Z = a * D - Z + D
        BY <1>5
    <2> QED
        BY <1>6, <2>1
<1> QED
    BY <1>1, <1>3, <1>4, <1>7

(* ORDER BY completed_at DESC LIMIT 1 finds a row when there is one, and   *)
(* none that is later.                                                     *)
LEMMA LastIsLatest ==
    ASSUME TypesInv, NEW c, NEW r \in CompletionsOf(c)
    PROVE  \E l \in LastCompletions(c) : l.at >= r.at
<1> DEFINE times == {o.at : o \in CompletionsOf(c)}
<1>1. \A o \in CompletionsOf(c) : o.at \in 0..MaxTime
    BY DEF TypesInv, TypeOK, ChoresTypeOK, CompletionsOf, CompletionRow
<1>2. IsFiniteSet(times) /\ times # {} /\ \A t \in times : t \in Int
    <2>1. IsFiniteSet(0..MaxTime)
        BY ChoresAssumption, FS_Interval
    <2>2. times \subseteq 0..MaxTime
        BY <1>1
    <2>3. IsFiniteSet(times)
        <3> HIDE DEF times
        <3> QED
            BY <2>1, <2>2, FS_Subset
    <2> QED
        BY <2>2, <2>3
<1>3. Max(times) \in times /\ \A t \in times : Max(times) >= t
    <2> HIDE DEF times
    <2> QED
        BY <1>2, MaxOf
<1>4. PICK l \in CompletionsOf(c) : l.at = Max(times)
    BY <1>3
<1>5. \A o \in CompletionsOf(c) : l.at >= o.at
    BY <1>3, <1>4
<1> QED
    BY <1>1, <1>4, <1>5 DEF LastCompletions

LEMMA RuleDays ==
    /\ MaxDays \in Nat
    /\ \A rule \in Rules : rule \subseteq 0..MaxDays
BY ChoresAssumption, Zenon

LEMMA LatestDue ==
    ASSUME NEW due, due \subseteq 0..MaxDays, due # {}
    PROVE  Max(due) \in due /\ Max(due) \in Int /\ \A d \in due : Max(due) >= d
<1>1. IsFiniteSet(0..MaxDays)
    BY RuleDays, FS_Interval
<1>2. IsFiniteSet(due)
    BY <1>1, FS_Subset
<1>3. \A d \in due : d \in Int
    BY RuleDays
<1> QED
    BY <1>2, <1>3, MaxOf

LEMMA CompletionDays ==
    ASSUME TypesInv, NEW c, NEW r \in CompletionsOf(c)
    PROVE  r.at \in Int /\ UtcDay(r.at) \in Int
<1>1. r.at \in Int
    BY DEF TypesInv, TypeOK, ChoresTypeOK, CompletionsOf, CompletionRow
<1> QED
    BY <1>1, DayParts, ChoresAssumption DEF UtcDay

(* The last completion counts when any does.                               *)
LEMMA LastCounts ==
    ASSUME TypesInv, NEW c, NEW day \in Int
    PROVE  (\E l \in LastCompletions(c) : UtcDay(l.at) >= day)
             <=> \E r \in CompletionsOf(c) : UtcDay(r.at) >= day
<1>1. LastCompletions(c) \subseteq CompletionsOf(c)
    BY DEF LastCompletions
<1>2. ASSUME NEW r \in CompletionsOf(c), UtcDay(r.at) >= day
      PROVE  \E l \in LastCompletions(c) : UtcDay(l.at) >= day
    <2>1. PICK l \in LastCompletions(c) : l.at >= r.at
        BY LastIsLatest
    <2>2. PICK x \in Int, y \in Int : x = r.at /\ y = l.at /\ x <= y
        BY <1>1, <2>1, CompletionDays
    <2>3. PICK p \in Int, q \in Int : p = UtcDay(r.at) /\ q = UtcDay(l.at)
        BY <1>1, CompletionDays
    <2>4. p <= q
        BY <2>2, <2>3, DayGrows, ChoresAssumption DEF UtcDay
    <2> QED
        BY <1>2, <2>3, <2>4
<1> QED
    BY <1>1, <1>2

LEMMA StatusIsTrue ==
    ASSUME TypesInv
    PROVE  StatusFollowsCompletions
<1> SUFFICES ASSUME NEW c \in ChoreRows
             PROVE  LET due == {d \in chore[c].rule : d <= BoardDay}
                        counts == {r \in CompletionsOf(c) : \A d \in due : UtcDay(r.at) >= d}
                    IN  /\ (Status(c) = "completed") <=>
                              (counts # {} /\ (chore[c].rule # {} => due # {}))
                        /\ (Status(c) = "overdue") <=>
                              (due # {} /\ counts = {} /\ BoardDay \notin due)
    BY DEF StatusFollowsCompletions
<1> DEFINE due == {d \in chore[c].rule : d <= BoardDay}
           counts == {r \in CompletionsOf(c) : \A d \in due : UtcDay(r.at) >= d}
<1>1. chore[c].rule \subseteq 0..MaxDays /\ \A d \in 0..MaxDays : d \in Int
    BY ChoreTyped, RuleDays DEF ChoreRow
<1>2. {d \in chore[c].rule : d * DayLength < LocalMidnight + DayLength} = due
    BY <1>1, DueByBoardDay
<1>3. Status(c) =
          IF chore[c].rule = {} THEN IF LastCompletions(c) # {} THEN "completed" ELSE "pending"
          ELSE IF due = {} THEN "not_due"
          ELSE IF \E r \in LastCompletions(c) : UtcDay(r.at) >= Max(due) THEN "completed"
          ELSE IF Max(due) * DayLength < LocalMidnight THEN "overdue" ELSE "pending"
    BY ONLY <1>2, Zenon DEF Status, ComputeStatus
<1>4. LastCompletions(c) # {} <=> CompletionsOf(c) # {}
    BY LastIsLatest DEF LastCompletions
<1>5. CASE chore[c].rule = {}
    <2>1. due = {} /\ counts = CompletionsOf(c)
        BY <1>5
    <2>2. Status(c) = IF LastCompletions(c) # {} THEN "completed" ELSE "pending"
        BY <1>3, <1>5
    <2> HIDE DEF due, counts
    <2>3. /\ (Status(c) = "completed") <=> (counts # {} /\ (chore[c].rule # {} => due # {}))
          /\ (Status(c) = "overdue") <=> (due # {} /\ counts = {} /\ BoardDay \notin due)
        BY <1>4, <1>5, <2>1, <2>2
    <2> QED
        BY <2>3 DEF due, counts
<1>6. CASE chore[c].rule # {} /\ due = {}
    <2>1. Status(c) = "not_due"
        BY <1>3, <1>6
    <2> QED
        BY <1>6, <2>1
<1>7. CASE chore[c].rule # {} /\ due # {}
    <2>1. Max(due) \in due /\ Max(due) \in Int /\ \A d \in due : Max(due) >= d /\ d \in Int
        <3>1. due \subseteq 0..MaxDays
            BY <1>1
        <3> HIDE DEF due
        <3> QED
            BY <1>1, <1>7, <3>1, LatestDue
    <2>2. PICK m \in Int : m = Max(due)
        BY <2>1
    <2>3. \A r \in CompletionsOf(c) : UtcDay(r.at) \in Int
        BY CompletionDays
    <2>4. counts = {r \in CompletionsOf(c) : UtcDay(r.at) >= m}
        <3>1. ASSUME NEW r \in CompletionsOf(c)
              PROVE  (\A d \in due : UtcDay(r.at) >= d) <=> UtcDay(r.at) >= m
            <4> HIDE DEF due
            <4>1. PICK u \in Int : u = UtcDay(r.at)
                BY <2>3
            <4> QED
                BY <2>1, <2>2, <4>1
        <3> QED
            BY <3>1
    <2>5. (\E r \in LastCompletions(c) : UtcDay(r.at) >= m) <=> counts # {}
        BY <2>4, LastCounts
    <2>6. BoardDay \in Int /\ (m * DayLength < LocalMidnight <=> m < BoardDay)
        BY DueByBoardDay
    <2>7. m <= BoardDay /\ (BoardDay \in due <=> m = BoardDay)
        <3>1. m \in due /\ m <= BoardDay
            BY <2>1, <2>2
        <3>2. BoardDay \in due => m >= BoardDay
            BY <2>1, <2>2
        <3> HIDE DEF due
        <3> QED
            BY <2>6, <3>1, <3>2
    <2>8. Status(c) = IF counts # {} THEN "completed"
                      ELSE IF m < BoardDay THEN "overdue" ELSE "pending"
        <3> HIDE DEF due, counts
        <3> QED
            BY <1>3, <1>7, <2>2, <2>5, <2>6
    <2> HIDE DEF due, counts
    <2>9. /\ (Status(c) = "completed") <=> (counts # {} /\ (chore[c].rule # {} => due # {}))
          /\ (Status(c) = "overdue") <=> (due # {} /\ counts = {} /\ BoardDay \notin due)
        BY <1>7, <2>6, <2>7, <2>8
    <2> QED
        BY <2>9 DEF due, counts
<1> QED
    BY <1>5, <1>6, <1>7

LEMMA PagesDoAgree ==
    ASSUME TypesInv
    PROVE  PagesAgree
<1>1. DOMAIN ChoreSummary = {m \in Members : OwnedBy(m) # {}}
    BY DEF ChoreSummary, OwnedBy
<1>2. Nobody \notin Members /\ 0 \notin Areas
    BY DEF Members, MemberIDs, Nobody, Areas, AreaIDs
<1>3. DOMAIN PersonGroups \ {Nobody} = DOMAIN ChoreSummary
    BY <1>1, <1>2 DEF PersonGroups
<1>4. \A m \in DOMAIN ChoreSummary :
          /\ PersonGroups[m] = OwnedBy(m)
          /\ ChoreSummary[m].total = Cardinality(PersonGroups[m])
    BY <1>1 DEF PersonGroups, ChoreSummary, OwnedBy
<1>5. DOMAIN AreaGroups \ {0} = {a \in Areas : LyingIn(a) # {}}
    BY <1>2 DEF AreaGroups
<1>6. ASSUME NEW c \in ChoreRows
      PROVE  /\ ManagedChores[c].member # "" <=>
                   \E m \in DOMAIN ChoreSummary : c \in PersonGroups[m]
             /\ ManagedChores[c].area # "" <=>
                   \E a \in DOMAIN AreaGroups \ {0} : c \in AreaGroups[a]
    <2>1. ManagedChores[c].member # "" <=> chore[c].assignedTo \in Members
        <3>1. \A m \in Members : member[m].name \in Names
            BY DEF TypesInv, TypeOK, FamilyTypeOK, Members, MemberRow
        <3> QED
            BY <3>1, NamesAssumption DEF ManagedChores
    <2>2. ManagedChores[c].area # "" <=> chore[c].area \in Areas
        <3>1. \A a \in Areas : area[a].name \in AreaNames
            BY DEF TypesInv, TypeOK, ChoresTypeOK, Areas
        <3> QED
            BY <3>1, AreaNamesAssumption DEF ManagedChores
    <2>3. chore[c].assignedTo \in Members <=>
              \E m \in DOMAIN ChoreSummary : c \in PersonGroups[m]
        BY <1>1, <1>4 DEF OwnedBy
    <2>4. chore[c].area \in Areas <=>
              \E a \in DOMAIN AreaGroups \ {0} : c \in AreaGroups[a]
        BY <1>5 DEF LyingIn, AreaGroups
    <2> QED
        BY <2>1, <2>2, <2>3, <2>4
<1> QED
    BY <1>3, <1>4, <1>6 DEF PagesAgree

(* In every typed state, and so in every reachable one, the pages say what *)
(* the tables say, whatever zone the server runs in: a missing chore is an *)
(* orphan of a member or an area, a chore is completed or overdue by its   *)
(* completions and the day of UTC in which the server's day ends, and the  *)
(* summary, the groups and the list agree (annotateChores, Manage).        *)
THEOREM HouseholdBoard == Spec => []BoardIsTruthful
<1>1. Init => TypesInv /\ BooksInv
    BY HouseholdStarts
<1>2. (TypesInv /\ BooksInv) /\ [Next]_vars => (TypesInv /\ BooksInv)'
    BY HouseholdStep DEF Kept
<1>3. TypesInv => BoardIsTruthful
    BY MissingAreOrphans, StatusIsTrue, PagesDoAgree DEF BoardIsTruthful
<1> QED
    BY <1>1, <1>2, <1>3, PTL DEF Spec

(***************************************************************************)
(* The lists: types.                                                       *)
(***************************************************************************)
LEMMA ListShapes ==
    ASSUME NEW q \in ListRequests
    PROVE  /\ q.op = "itemToggle" => q.id \in ItemIDs /\ q.checked \in BOOLEAN
           /\ q.op = "itemUpdate" => q.id \in ItemIDs /\ q.category \in AllCategories
           /\ q.op = "noteToggle" => q.id \in NoteIDs /\ q.pinned \in BOOLEAN
           /\ q.op = "noteUpdate" => q.id \in NoteIDs /\ q.row \in NoteRow
BY DEF ListRequests, Idle

LEMMA ListRequestTypes ==
    ASSUME ListsTypeOK, NEW h \in Handlers,
           \/ UNCHANGED request
           \/ Done(h)
           \/ \E q \in ListRequests : Begin(h, q)
    PROVE  request' \in [Handlers -> ListRequests]
BY DEF ListsTypeOK, Begin, Done, ListRequests

LEMMA IssuedRows ==
    ASSUME ListsTypeOK
    PROVE  /\ \A id \in 1..(nextItem - 1) : id \in ItemIDs
           /\ \A id \in 1..(nextNote - 1) : id \in NoteIDs
<1>1. nextItem \in 1..(MaxItems + 1) /\ nextNote \in 1..(MaxNotes + 1)
    BY DEF ListsTypeOK
<1> QED
    BY <1>1, ListsAssumption DEF ItemIDs, NoteIDs

LEMMA DefaultsAreLists ==
    ASSUME ListsTypeOK
    PROVE  /\ households \in Nat \ {0}
           /\ \A list \in DefaultLists : list \in ListIDs
<1>1. households \in 1..MaxHouseholds
    BY DEF ListsTypeOK
<1> QED
    BY <1>1, ListsAssumption DEF DefaultLists, ListIDs

LEMMA CategoryOf ==
    ASSUME NEW name \in ItemNames
    PROVE  Categorize[name] \in AllCategories
BY ListsAssumption DEF AllCategories

LEMMA SetCategoryType ==
    ASSUME ListsTypeOK, NEW id, NEW category \in AllCategories, SetCategory(id, category)
    PROVE  item' \in [ItemIDs -> ItemRow \cup {NoRow}]
<1>1. \A row \in ItemRow : [row EXCEPT !.category = category] \in ItemRow
    BY DEF ItemRow
<1> QED
    BY <1>1 DEF ListsTypeOK, SetCategory

LEMMA DeleteItemsType ==
    ASSUME ListsTypeOK, NEW S, DeleteItems(S)
    PROVE  item' \in [ItemIDs -> ItemRow \cup {NoRow}]
BY DEF ListsTypeOK, DeleteItems

LEMMA SweptType ==
    ASSUME NEW rows \in [NoteIDs -> NoteRow \cup {NoRow}]
    PROVE  Swept(rows) \in [NoteIDs -> NoteRow \cup {NoRow}]
BY DEF Swept

LEMMA WrittenType ==
    ASSUME ListsTypeOK, NEW id, NEW row \in NoteRow
    PROVE  Written(id, row) \in [NoteIDs -> NoteRow \cup {NoRow}]
BY DEF ListsTypeOK, Written

LEMMA ItemTouch ==
    ASSUME ListsTypeOK, NEW id \in ItemIDs
    PROVE  <<"item", id>> \in Rows /\ touched[<<"item", id>>] \in Touch
BY DEF ListsTypeOK, Rows

LEMMA NoteTouch ==
    ASSUME ListsTypeOK, NEW id \in NoteIDs
    PROVE  <<"note", id>> \in Rows /\ touched[<<"note", id>>] \in Touch
BY DEF ListsTypeOK, Rows

LEMMA TouchTypes ==
    ASSUME NEW t \in Touch
    PROVE  /\ Toggled(t) \in Touch
           /\ \A c \in BOOLEAN : [t EXCEPT !.crossed = c] \in Touch
           /\ \A v \in BOOLEAN : Untouched(v) \in Touch
<1>1. t.odd \in BOOLEAN /\ t.crossed \in BOOLEAN /\ t.start \in BOOLEAN
    BY DEF Touch
<1> QED
    BY <1>1 DEF Touch, Toggled, Untouched

LEMMA GroceryTypes ==
    ASSUME ListsTypeOK, GroceryActions
    PROVE  ListsTypeOK'
<1> USE DEF ListsTypeOK
<1>1. "Other" \in AllCategories /\ Sent = OwnCategories \cup {""}
      /\ OwnCategories \subseteq AllCategories
    BY DEF AllCategories, Sent
<1>2. ASSUME NEW list \in ListIDs, NEW category \in AllCategories, InsertItem(list, category)
      PROVE  ListsTypeOK'
    <2>1. [list |-> list, category |-> category, checked |-> FALSE] \in ItemRow
        BY DEF ItemRow
    <2>2. nextItem' \in 1..(MaxItems + 1)
        BY <1>2, ListsAssumption DEF InsertItem, ItemIDs
    <2> QED
        BY <1>2, <2>1, <2>2 DEF InsertItem, itemRest
<1>3. ASSUME NEW name \in ItemNames, NEW list \in ListIDs,
             GroceryItemAdd(list, name) \/ \E c \in Sent : ApiItemCreate(list, name, c)
      PROVE  ListsTypeOK'
    BY <1>1, <1>2, <1>3, CategoryOf DEF GroceryItemAdd, ApiItemCreate
<1>4. ASSUME NEW id \in ItemIDs, NEW c \in Sent, GroceryItemUpdate(id, c)
      PROVE  ListsTypeOK'
    BY <1>1, <1>4, SetCategoryType DEF GroceryItemUpdate, itemRest
<1>5. ASSUME NEW id \in ItemIDs, NEW c \in Sent, NEW h \in Handlers, ApiItemUpdate(h, id, c)
      PROVE  ListsTypeOK'
    <2> DEFINE q == [op |-> "itemUpdate", id |-> id,
                     category |-> IF c = "" THEN item[id].category ELSE c]
    <2>1. item[id] \in ItemRow
        BY <1>5 DEF ApiItemUpdate
    <2>2. q \in ListRequests
        BY <1>1, <2>1 DEF ItemRow, ListRequests
    <2>3. request' \in [Handlers -> ListRequests]
        BY <1>5, <2>2, ListRequestTypes DEF ApiItemUpdate
    <2> QED
        BY <1>5, <2>3 DEF ApiItemUpdate, listVars
<1>6. ASSUME NEW id \in ItemIDs, ItemDelete(id)
      PROVE  ListsTypeOK'
    BY <1>6, DeleteItemsType DEF ItemDelete, itemRest
<1>7. ASSUME NEW id \in ItemIDs, NEW h \in Handlers, ToggleCheckedRead(h, id)
      PROVE  ListsTypeOK'
    <2> DEFINE q == [op |-> "itemToggle", id |-> id, checked |-> item[id].checked]
    <2>1. item[id] \in ItemRow
        BY <1>7 DEF ToggleCheckedRead
    <2>2. q \in ListRequests
        BY <2>1 DEF ItemRow, ListRequests
    <2>3. request' \in [Handlers -> ListRequests]
        BY <1>7, <2>2, ListRequestTypes DEF ToggleCheckedRead
    <2>4. touched' \in [Rows -> Touch]
        <3>1. touched[<<"item", id>>].crossed \in BOOLEAN
            BY ItemTouch DEF Touch
        <3>2. \A c \in BOOLEAN : [touched[<<"item", id>>] EXCEPT !.crossed = c] \in Touch
            BY ItemTouch, TouchTypes
        <3> QED
            BY <1>7, <3>1, <3>2 DEF ToggleCheckedRead
    <2> QED
        BY <1>7, <2>3, <2>4 DEF ToggleCheckedRead, itemRest
<1>8. ASSUME NEW h \in Handlers, ApiItemUpdateWrite(h)
      PROVE  ListsTypeOK'
    <2>1. request[h].category \in AllCategories
        BY <1>8, ListShapes DEF ApiItemUpdateWrite, At
    <2>2. request' \in [Handlers -> ListRequests]
        BY <1>8, ListRequestTypes DEF ApiItemUpdateWrite
    <2> QED
        BY <1>8, <2>1, <2>2, SetCategoryType DEF ApiItemUpdateWrite, itemRest
<1>9. ASSUME NEW h \in Handlers, ToggleChecked(h)
      PROVE  ListsTypeOK'
    <2>1. request[h].id \in ItemIDs /\ request[h].checked \in BOOLEAN
        BY <1>9, ListShapes DEF ToggleChecked, At
    <2>2. request' \in [Handlers -> ListRequests]
        BY <1>9, ListRequestTypes DEF ToggleChecked
    <2>3. touched' \in [Rows -> Touch]
        BY <1>9, <2>1, ItemTouch, TouchTypes DEF ToggleChecked
    <2>4. item' \in [ItemIDs -> ItemRow \cup {NoRow}]
        <3>1. \A row \in ItemRow : [row EXCEPT !.checked = ~request[h].checked] \in ItemRow
            BY <2>1 DEF ItemRow
        <3> QED
            BY <1>9, <3>1 DEF ToggleChecked
    <2> QED
        BY <1>9, <2>2, <2>3, <2>4 DEF ToggleChecked, itemRest
<1>10. ASSUME NEW list, ClearChecked(list)
       PROVE  ListsTypeOK'
    BY <1>10, DeleteItemsType DEF ClearChecked, itemRest
<1> QED
    BY <1>3, <1>4, <1>5, <1>6, <1>7, <1>8, <1>9, <1>10, IssuedRows, DefaultsAreLists
    DEF GroceryActions

LEMMA NoteTypes ==
    ASSUME ListsTypeOK, NoteActions
    PROVE  ListsTypeOK'
<1> USE DEF ListsTypeOK
<1> DEFINE Table == [NoteIDs -> NoteRow \cup {NoRow}]
<1>1. ASSUME NEW row \in NoteRow, ApiNoteCreate(row) \/ NoteCreate(row)
      PROVE  ListsTypeOK'
    <2>1. nextNote \in NoteIDs /\ nextNote' \in 1..(MaxNotes + 1)
        BY <1>1, ListsAssumption DEF ApiNoteCreate, NoteCreate, NoteInsert, NoteIDs
    <2>2. Inserted(row) \in Table
        BY DEF Inserted
    <2>3. note' \in Table
        BY <1>1, <2>2, SweptType DEF ApiNoteCreate, NoteCreate, NoteInsert
    <2>4. touched' \in [Rows -> Touch]
        <3>1. Untouched(row.pinned) \in Touch
            BY DEF NoteRow, Touch, Untouched
        <3> QED
            BY <1>1, <3>1 DEF ApiNoteCreate, NoteCreate, NoteInsert
    <2> QED
        BY <1>1, <2>1, <2>3, <2>4 DEF ApiNoteCreate, NoteCreate, NoteInsert, noteRest
<1>2. ASSUME NEW id \in NoteIDs, NEW row \in NoteRow, NEW rows \in Table,
             NoteWrite(id, row, rows), request' \in [Handlers -> ListRequests]
      PROVE  ListsTypeOK'
    <2>1. [Untouched(row.pinned) EXCEPT !.crossed = Toggling("noteToggle", id) # {}] \in Touch
        BY DEF NoteRow, Touch, Untouched
    <2>2. touched' \in [Rows -> Touch]
        BY <1>2, <2>1 DEF NoteWrite
    <2> QED
        BY <1>2, <2>2 DEF NoteWrite, noteRest
<1>3. ASSUME NEW id \in NoteIDs, NEW row \in NoteRow, ApiNoteUpdate(id, row)
      PROVE  ListsTypeOK'
    BY <1>2, <1>3, WrittenType DEF ApiNoteUpdate
<1>4. ASSUME NEW h \in Handlers, NEW id \in NoteIDs, NEW row \in NoteRow,
             NoteUpdateRead(h, id, row)
      PROVE  ListsTypeOK'
    <2> DEFINE author == IF note[id] = NoRow THEN NoAuthor ELSE note[id].author
               q == [op |-> "noteUpdate", id |-> id, row |-> [row EXCEPT !.author = author]]
    <2>1. author \in Authors
        BY ListsAssumption DEF NoteRow
    <2>2. q \in ListRequests
        <3>1. [row EXCEPT !.author = author] \in NoteRow
            BY <2>1 DEF NoteRow
        <3> QED
            BY <3>1 DEF ListRequests
    <2>3. request' \in [Handlers -> ListRequests]
        BY <1>4, <2>2, ListRequestTypes DEF NoteUpdateRead
    <2> QED
        BY <1>4, <2>3 DEF NoteUpdateRead, listVars
<1>5. ASSUME NEW h \in Handlers, NoteUpdate(h)
      PROVE  ListsTypeOK'
    <2>1. request[h].id \in NoteIDs /\ request[h].row \in NoteRow
        BY <1>5, ListShapes DEF NoteUpdate, At
    <2>2. request' \in [Handlers -> ListRequests]
        BY <1>5, ListRequestTypes DEF NoteUpdate
    <2> DEFINE rows == Written(request[h].id, request[h].row)
    <2>3. rows \in Table /\ Swept(rows) \in Table
        BY <2>1, WrittenType, SweptType
    <2> QED
        BY <1>2, <1>5, <2>1, <2>2, <2>3 DEF NoteUpdate
<1>6. ASSUME NEW id \in NoteIDs, ApiNoteDelete(id) \/ NoteDelete(id)
      PROVE  ListsTypeOK'
    <2>1. [note EXCEPT ![id] = NoRow] \in Table
        OBVIOUS
    <2> QED
        BY <1>6, <2>1, SweptType DEF ApiNoteDelete, NoteDelete, noteRest
<1>7. ASSUME NEW h \in Handlers, NEW id \in NoteIDs, TogglePinnedRead(h, id)
      PROVE  ListsTypeOK'
    <2> DEFINE q == [op |-> "noteToggle", id |-> id, pinned |-> note[id].pinned]
    <2>1. note[id] \in NoteRow
        BY <1>7 DEF TogglePinnedRead
    <2>2. q \in ListRequests
        BY <2>1 DEF NoteRow, ListRequests
    <2>3. request' \in [Handlers -> ListRequests]
        BY <1>7, <2>2, ListRequestTypes DEF TogglePinnedRead
    <2>4. touched' \in [Rows -> Touch]
        <3>1. touched[<<"note", id>>].crossed \in BOOLEAN
            BY NoteTouch DEF Touch
        <3>2. \A c \in BOOLEAN : [touched[<<"note", id>>] EXCEPT !.crossed = c] \in Touch
            BY NoteTouch, TouchTypes
        <3> QED
            BY <1>7, <3>1, <3>2 DEF TogglePinnedRead
    <2> QED
        BY <1>7, <2>3, <2>4 DEF TogglePinnedRead, noteRest
<1>8. ASSUME NEW h \in Handlers, NEW listing \in BOOLEAN, TogglePinned(h, listing)
      PROVE  ListsTypeOK'
    <2>1. request[h].id \in NoteIDs /\ request[h].pinned \in BOOLEAN
        BY <1>8, ListShapes DEF TogglePinned, At
    <2>2. request' \in [Handlers -> ListRequests]
        BY <1>8, ListRequestTypes DEF TogglePinned
    <2>3. touched' \in [Rows -> Touch]
        BY <1>8, <2>1, NoteTouch, TouchTypes DEF TogglePinned
    <2> DEFINE rows == IF note[request[h].id] = NoRow THEN note
                       ELSE [note EXCEPT ![request[h].id].pinned = ~request[h].pinned]
    <2>4. rows \in Table
        <3>1. \A row \in NoteRow : [row EXCEPT !.pinned = ~request[h].pinned] \in NoteRow
            BY <2>1 DEF NoteRow
        <3> QED
            BY <3>1
    <2>5. note' \in Table
        BY <1>8, <2>4, SweptType DEF TogglePinned
    <2> QED
        BY <1>8, <2>2, <2>3, <2>5 DEF TogglePinned, noteRest
<1>9. ASSUME NoteList
      PROVE  ListsTypeOK'
    BY <1>9, SweptType DEF NoteList, noteRest
<1> QED
    BY <1>1, <1>3, <1>4, <1>5, <1>6, <1>7, <1>8, <1>9, IssuedRows DEF NoteActions

LEMMA ListsStepTypes ==
    ASSUME ListsTypeOK, [ListsNext]_listsVars
    PROVE  ListsTypeOK'
<1>1. CASE ClockTick
    BY <1>1, ListsAssumption DEF ClockTick, ListsTypeOK
<1>2. ASSUME NEW h \in Handlers, Abandon(h), UNCHANGED listVars
      PROVE  ListsTypeOK'
    <2>1. request' \in [Handlers -> ListRequests]
        BY <1>2, ListRequestTypes DEF Abandon
    <2> QED
        BY <1>2, <2>1 DEF listVars, ListsTypeOK
<1>3. CASE UNCHANGED listsVars
    BY <1>3 DEF listsVars, listVars, ListsTypeOK
<1>4. CASE SeedDefaults
    BY <1>4, ListsAssumption DEF SeedDefaults, ListsTypeOK
<1> QED
    BY <1>1, <1>2, <1>3, <1>4, GroceryTypes, NoteTypes DEF ListsNext

LEMMA ListsStart == ListsInit => ListsTypeOK
BY ListsAssumption
   DEF ListsInit, RequestsInit, ListsTypeOK, ListRequests, Untouched, Touch, ItemIDs, NoteIDs

(* In every reachable state the rows of the lists and the requests hold    *)
(* values of their types (the handlers of groceries and notes).            *)
THEOREM ListsTyped == ListsSpec => []ListsTypeOK
BY ListsStart, ListsStepTypes, PTL DEF ListsSpec

(***************************************************************************)
(* Marks.  Of a row on which no two toggles crossed, the mark is what its  *)
(* history says, at most one toggle is under way, and that one read the    *)
(* mark the row still has.  A row that was never created has no history.   *)
(***************************************************************************)
TogglesItem(h, id) == request[h].op = "itemToggle" /\ request[h].id = id
TogglesNote(h, id) == request[h].op = "noteToggle" /\ request[h].id = id

ItemMark(id) ==
    /\ \A g, h \in Handlers : TogglesItem(g, id) /\ TogglesItem(h, id) => g = h
    /\ item[id] # NoRow =>
          /\ item[id].checked <=> (touched[<<"item", id>>].odd # touched[<<"item", id>>].start)
          /\ \A h \in Handlers : TogglesItem(h, id) => request[h].checked = item[id].checked

NoteMark(id) ==
    /\ \A g, h \in Handlers : TogglesNote(g, id) /\ TogglesNote(h, id) => g = h
    /\ note[id] # NoRow =>
          /\ note[id].pinned <=> (touched[<<"note", id>>].odd # touched[<<"note", id>>].start)
          /\ \A h \in Handlers : TogglesNote(h, id) => request[h].pinned = note[id].pinned

ItemsInv ==
    /\ \A id \in ItemIDs : ~touched[<<"item", id>>].crossed => ItemMark(id)
    /\ \A id \in ItemIDs : id >= nextItem =>
          item[id] = NoRow /\ touched[<<"item", id>>] = Untouched(FALSE)
    /\ \A h \in Handlers : request[h].op = "itemToggle" => request[h].id < nextItem

NotesInv ==
    /\ \A id \in NoteIDs : ~touched[<<"note", id>>].crossed => NoteMark(id)
    /\ \A id \in NoteIDs : id >= nextNote => note[id] = NoRow
    /\ \A h \in Handlers : request[h].op = "noteToggle" => request[h].id < nextNote

MarksInv == ListsTypeOK /\ ItemsInv /\ NotesInv

LEMMA MarksAreKept == MarksInv => TogglesAreKept
BY DEF MarksInv, TogglesAreKept, ItemsInv, NotesInv, ItemMark, NoteMark, Rows, Has, Mark

(* Steps that touch no mark of an item, or of a note.                      *)
LEMMA ItemsQuiet ==
    ASSUME ItemsInv, UNCHANGED nextItem,
           \A id \in ItemIDs :
              /\ touched'[<<"item", id>>] = touched[<<"item", id>>]
              /\ item'[id] # NoRow => item[id] # NoRow /\ item'[id].checked = item[id].checked,
           \A h \in Handlers : request'[h] = request[h] \/ request'[h].op # "itemToggle"
    PROVE  ItemsInv'
<1>1. ASSUME NEW id \in ItemIDs, ~touched'[<<"item", id>>].crossed
      PROVE  ItemMark(id)'
    BY <1>1 DEF ItemsInv, ItemMark, TogglesItem
<1> QED
    BY <1>1 DEF ItemsInv

LEMMA NotesQuiet ==
    ASSUME NotesInv, UNCHANGED nextNote,
           \A id \in NoteIDs :
              /\ touched'[<<"note", id>>] = touched[<<"note", id>>]
              /\ note'[id] # NoRow => note[id] # NoRow /\ note'[id].pinned = note[id].pinned,
           \A h \in Handlers : request'[h] = request[h] \/ request'[h].op # "noteToggle"
    PROVE  NotesInv'
<1>1. ASSUME NEW id \in NoteIDs, ~touched'[<<"note", id>>].crossed
      PROVE  NoteMark(id)'
    BY <1>1 DEF NotesInv, NoteMark, TogglesNote
<1> QED
    BY <1>1 DEF NotesInv

(* A request that leaves, or begins as something else.                     *)
LEMMA OtherToggles ==
    ASSUME ListsTypeOK, NEW h \in Handlers,
           Done(h) \/ \E q : Begin(h, q) /\ q.op \notin {"itemToggle", "noteToggle"}
    PROVE  \A g \in Handlers :
              request'[g] = request[g] \/ request'[g].op \notin {"itemToggle", "noteToggle"}
BY DEF ListsTypeOK, Done, Begin, Idle

LEMMA MarksQuiet ==
    ASSUME MarksInv, UNCHANGED <<nextItem, nextNote, touched>>,
           \A id \in ItemIDs :
              item'[id] # NoRow => item[id] # NoRow /\ item'[id].checked = item[id].checked,
           \A id \in NoteIDs :
              note'[id] # NoRow => note[id] # NoRow /\ note'[id].pinned = note[id].pinned,
           \A h \in Handlers :
              request'[h] = request[h] \/ request'[h].op \notin {"itemToggle", "noteToggle"}
    PROVE  ItemsInv' /\ NotesInv'
BY ItemsQuiet, NotesQuiet DEF MarksInv

LEMMA GroceryMarks ==
    ASSUME MarksInv, GroceryActions
    PROVE  ItemsInv' /\ NotesInv'
<1> USE DEF MarksInv
<1>1. /\ request \in [Handlers -> ListRequests] /\ item \in [ItemIDs -> ItemRow \cup {NoRow}]
      /\ nextItem \in 1..(MaxItems + 1) /\ touched \in [Rows -> Touch]
    BY DEF ListsTypeOK
<1>2. ASSUME NEW list, NEW category, InsertItem(list, category)
      PROVE  ItemsInv' /\ NotesInv'
    <2>1. NotesInv'
        BY <1>2, NotesQuiet DEF InsertItem, itemRest
    <2>2. /\ nextItem \in ItemIDs /\ nextItem' = nextItem + 1 /\ UNCHANGED <<request, touched>>
          /\ \A id \in ItemIDs : id # nextItem => item'[id] = item[id]
          /\ item'[nextItem] = [list |-> list, category |-> category, checked |-> FALSE]
        BY <1>1, <1>2 DEF InsertItem
    <2>3. \A h \in Handlers : ~TogglesItem(h, nextItem)
        BY <1>1, <2>2 DEF ItemsInv, TogglesItem, ItemIDs
    <2>4. touched[<<"item", nextItem>>] = Untouched(FALSE)
        <3>1. nextItem >= nextItem
            BY <1>1
        <3> QED
            BY <2>2, <3>1 DEF ItemsInv
    <2>5. ASSUME NEW id \in ItemIDs, ~touched'[<<"item", id>>].crossed
          PROVE  ItemMark(id)'
        <3>1. CASE id = nextItem
            <4>1. item'[id].checked = FALSE /\ touched'[<<"item", id>>] = Untouched(FALSE)
                <5>1. item'[id] = [list |-> list, category |-> category, checked |-> FALSE]
                    BY <2>2, <3>1
                <5>2. touched' = touched
                    BY <2>2
                <5>3. item'[id].checked = FALSE
                    BY <5>1
                <5> QED
                    BY <2>4, <3>1, <5>2, <5>3
            <4>2. \A h \in Handlers : ~TogglesItem(h, id)'
                BY <2>2, <2>3, <3>1 DEF TogglesItem
            <4> QED
                BY <4>1, <4>2 DEF ItemMark, Untouched
        <3>2. CASE id # nextItem
            BY <2>2, <2>5, <3>2 DEF ItemsInv, ItemMark, TogglesItem
        <3> QED
            BY <3>1, <3>2
    <2>6. \A id \in ItemIDs : id >= nextItem' =>
              item'[id] = NoRow /\ touched'[<<"item", id>>] = Untouched(FALSE)
        <3>1. \A id \in ItemIDs : id >= nextItem + 1 => id >= nextItem /\ id # nextItem
            BY <1>1 DEF ItemIDs
        <3>2. touched' = touched
            BY <2>2
        <3> QED
            BY <2>2, <3>1, <3>2 DEF ItemsInv
    <2>7. \A h \in Handlers : request'[h].op = "itemToggle" => request'[h].id < nextItem'
        <3>1. ASSUME NEW h \in Handlers, request[h].op = "itemToggle"
              PROVE  request[h].id < nextItem + 1
            <4>1. request[h].id \in ItemIDs /\ request[h].id < nextItem
                BY <1>1, <3>1, ListShapes DEF ItemsInv
            <4> QED
                BY <1>1, <4>1 DEF ItemIDs
        <3> QED
            BY <2>2, <3>1
    <2> QED
        BY <2>1, <2>5, <2>6, <2>7 DEF ItemsInv
<1>3. ASSUME NEW name \in ItemNames, NEW list,
             GroceryItemAdd(list, name) \/ \E c \in Sent : ApiItemCreate(list, name, c)
      PROVE  ItemsInv' /\ NotesInv'
    BY <1>2, <1>3 DEF GroceryItemAdd, ApiItemCreate
<1>4. ASSUME NEW id, NEW category, SetCategory(id, category)
      PROVE  \A i \in ItemIDs :
                item'[i] # NoRow => item[i] # NoRow /\ item'[i].checked = item[i].checked
    BY <1>1, <1>4 DEF SetCategory, ItemRow
<1>5. ASSUME NEW S, DeleteItems(S)
      PROVE  \A i \in ItemIDs :
                item'[i] # NoRow => item[i] # NoRow /\ item'[i].checked = item[i].checked
    BY <1>5 DEF DeleteItems
<1>6. ASSUME NEW id, NEW c, GroceryItemUpdate(id, c)
      PROVE  ItemsInv' /\ NotesInv'
    BY <1>4, <1>6, MarksQuiet DEF GroceryItemUpdate, itemRest
<1>7. ASSUME NEW id, NEW c, NEW h \in Handlers, ApiItemUpdate(h, id, c)
      PROVE  ItemsInv' /\ NotesInv'
    <2> DEFINE q == [op |-> "itemUpdate", id |-> id,
                     category |-> IF c = "" THEN item[id].category ELSE c]
    <2>1. UNCHANGED listVars /\ Begin(h, q) /\ q.op \notin {"itemToggle", "noteToggle"}
        BY <1>7 DEF ApiItemUpdate
    <2> HIDE DEF q
    <2>2. \A g \in Handlers :
              request'[g] = request[g] \/ request'[g].op \notin {"itemToggle", "noteToggle"}
        BY <2>1, OtherToggles
    <2> QED
        BY <2>1, <2>2, MarksQuiet DEF listVars
<1>8. ASSUME NEW h \in Handlers, ApiItemUpdateWrite(h)
      PROVE  ItemsInv' /\ NotesInv'
    BY <1>4, <1>8, MarksQuiet, OtherToggles DEF ApiItemUpdateWrite, itemRest
<1>9. ASSUME NEW id, NEW list, ItemDelete(id) \/ ClearChecked(list)
      PROVE  ItemsInv' /\ NotesInv'
    BY <1>5, <1>9, MarksQuiet DEF ItemDelete, ClearChecked, itemRest
<1>10. ASSUME NEW id \in ItemIDs, NEW h \in Handlers, ToggleCheckedRead(h, id), id < nextItem
       PROVE  ItemsInv' /\ NotesInv'
    <2> DEFINE q == [op |-> "itemToggle", id |-> id, checked |-> item[id].checked]
    <2>1. q.op = "itemToggle" /\ q.id = id /\ q.checked = item[id].checked
        OBVIOUS
    <2>2. request' = [request EXCEPT ![h] = q] /\ request[h] = Idle
        BY <1>10 DEF ToggleCheckedRead, Begin
    <2> HIDE DEF q
    <2>3. /\ UNCHANGED <<note, nextNote, item, nextItem>>
          /\ touched' = [touched EXCEPT ![<<"item", id>>].crossed =
                            @ \/ Toggling("itemToggle", id) # {}]
        BY <1>10 DEF ToggleCheckedRead, itemRest
    <2>4. \A r \in Rows : r # <<"item", id>> => touched'[r] = touched[r]
        BY <1>1, <2>3
    <2>5. touched[<<"item", id>>] \in Touch /\ <<"item", id>> \in Rows
        BY ItemTouch
    <2>6. /\ touched'[<<"item", id>>].odd = touched[<<"item", id>>].odd
          /\ touched'[<<"item", id>>].start = touched[<<"item", id>>].start
          /\ touched'[<<"item", id>>].crossed =
                (touched[<<"item", id>>].crossed \/ Toggling("itemToggle", id) # {})
        BY <1>1, <2>3, <2>5 DEF Touch
    <2>7. NotesInv'
        <3>1. \A i \in NoteIDs : touched'[<<"note", i>>] = touched[<<"note", i>>]
            BY <2>4, NoteTouch
        <3>2. \A g \in Handlers : request'[g] = request[g] \/ request'[g].op # "noteToggle"
            BY <1>1, <2>1, <2>2
        <3> QED
            BY <2>3, <3>1, <3>2, NotesQuiet
    <2>8. ASSUME NEW i \in ItemIDs, ~touched'[<<"item", i>>].crossed
          PROVE  ItemMark(i)'
        <3>1. CASE i = id
            <4>1. ~touched[<<"item", id>>].crossed /\ Toggling("itemToggle", id) = {}
                BY <2>6, <2>8, <3>1
            <4>2. \A g \in Handlers : ~TogglesItem(g, id)
                BY <4>1 DEF Toggling, TogglesItem, At
            <4>3. \A g \in Handlers : TogglesItem(g, id)' => g = h
                BY <1>1, <2>2, <4>2 DEF TogglesItem
            <4>4. ItemMark(id)
                BY <4>1 DEF ItemsInv
            <4>5. request'[h].checked = item[id].checked
                BY <1>1, <2>1, <2>2
            <4> QED
                BY <2>3, <2>6, <3>1, <4>3, <4>4, <4>5 DEF ItemMark
        <3>2. CASE i # id
            <4>1. touched'[<<"item", i>>] = touched[<<"item", i>>]
                BY <2>4, <3>2, ItemTouch
            <4>2. \A g \in Handlers :
                      request'[g].op = "itemToggle" /\ request'[g].id = i =>
                          request'[g] = request[g]
                BY <1>1, <2>1, <2>2, <3>2
            <4>3. item' = item
                BY <2>3
            <4> QED
                BY <2>8, <4>1, <4>2, <4>3 DEF ItemsInv, ItemMark, TogglesItem
        <3> QED
            BY <3>1, <3>2
    <2>9. \A i \in ItemIDs : i >= nextItem' =>
              item'[i] = NoRow /\ touched'[<<"item", i>>] = Untouched(FALSE)
        <3>1. ASSUME NEW i \in ItemIDs, i >= nextItem PROVE i # id
            BY <1>1, <1>10, <3>1 DEF ItemIDs
        <3> QED
            BY <2>3, <2>4, <3>1, ItemTouch DEF ItemsInv
    <2>10. \A g \in Handlers : request'[g].op = "itemToggle" => request'[g].id < nextItem'
        BY <1>1, <1>10, <2>1, <2>2, <2>3 DEF ItemsInv
    <2> QED
        BY <2>7, <2>8, <2>9, <2>10 DEF ItemsInv
<1>11. ASSUME NEW h \in Handlers, ToggleChecked(h)
       PROVE  ItemsInv' /\ NotesInv'
    <2> DEFINE id == request[h].id
    <2>1. request[h].op = "itemToggle" /\ id \in ItemIDs /\ request[h].checked \in BOOLEAN
        BY <1>1, <1>11, ListShapes DEF ToggleChecked, At
    <2>2. /\ UNCHANGED <<note, nextNote, nextItem>>
          /\ touched' = [touched EXCEPT ![<<"item", id>>] = Toggled(@)]
          /\ Done(h)
          /\ item' = IF item[id] = NoRow THEN item
                     ELSE [item EXCEPT ![id].checked = ~request[h].checked]
        BY <1>11 DEF ToggleChecked, itemRest
    <2>3. \A g \in Handlers : request'[g] = IF g = h THEN Idle ELSE request[g]
        BY <1>1, <2>2 DEF Done
    <2>4. \A r \in Rows : r # <<"item", id>> => touched'[r] = touched[r]
        BY <1>1, <2>2
    <2>5. touched[<<"item", id>>] \in Touch /\ <<"item", id>> \in Rows
        BY <2>1, ItemTouch
    <2>6. /\ touched'[<<"item", id>>].odd = ~touched[<<"item", id>>].odd
          /\ touched'[<<"item", id>>].start = touched[<<"item", id>>].start
          /\ touched'[<<"item", id>>].crossed = touched[<<"item", id>>].crossed
        BY <1>1, <2>2, <2>5 DEF Touch, Toggled
    <2>7. NotesInv'
        <3>1. \A i \in NoteIDs : touched'[<<"note", i>>] = touched[<<"note", i>>]
            BY <2>4, NoteTouch
        <3>2. \A g \in Handlers : request'[g] = request[g] \/ request'[g].op # "noteToggle"
            BY <2>3 DEF Idle
        <3> QED
            BY <2>2, <3>1, <3>2, NotesQuiet
    <2>8. ASSUME NEW i \in ItemIDs, ~touched'[<<"item", i>>].crossed
          PROVE  ItemMark(i)'
        <3>1. CASE i = id
            <4>1. ItemMark(id) /\ TogglesItem(h, id)
                BY <2>1, <2>6, <2>8, <3>1 DEF ItemsInv, TogglesItem
            <4>2. \A g \in Handlers : ~(request'[g].op = "itemToggle" /\ request'[g].id = i)
                <5>1. ASSUME NEW g \in Handlers, g # h
                      PROVE  ~(request[g].op = "itemToggle" /\ request[g].id = i)
                    BY <3>1, <4>1, <5>1 DEF ItemMark, TogglesItem
                <5> QED
                    BY <2>3, <5>1 DEF Idle
            <4>3. ASSUME item'[id] # NoRow
                  PROVE  item'[id].checked <=>
                            (touched'[<<"item", id>>].odd # touched'[<<"item", id>>].start)
                <5>1. item[id] # NoRow /\ item[id] \in ItemRow
                    BY <1>1, <2>1, <2>2, <4>3
                <5>2. item'[id].checked = ~request[h].checked
                    BY <1>1, <2>1, <2>2, <5>1 DEF ItemRow
                <5>3. request[h].checked = item[id].checked
                    BY <4>1, <5>1 DEF ItemMark
                <5>4. item[id].checked <=>
                          (touched[<<"item", id>>].odd # touched[<<"item", id>>].start)
                    BY <4>1, <5>1 DEF ItemMark
                <5> QED
                    BY <2>1, <2>5, <2>6, <5>2, <5>3, <5>4 DEF Touch
            <4> QED
                BY <3>1, <4>2, <4>3 DEF ItemMark, TogglesItem
        <3>2. CASE i # id
            <4>1. touched'[<<"item", i>>] = touched[<<"item", i>>]
                BY <2>4, <3>2, ItemTouch
            <4>2. \A g \in Handlers : TogglesItem(g, i)' => request'[g] = request[g]
                BY <2>3 DEF TogglesItem, Idle
            <4>3. item'[i] = item[i]
                BY <1>1, <2>2, <3>2
            <4> QED
                BY <2>8, <4>1, <4>2, <4>3 DEF ItemsInv, ItemMark, TogglesItem
        <3> QED
            BY <3>1, <3>2
    <2>9. \A i \in ItemIDs : i >= nextItem' =>
              item'[i] = NoRow /\ touched'[<<"item", i>>] = Untouched(FALSE)
        <3>1. ASSUME NEW i \in ItemIDs, i >= nextItem PROVE i # id
            <4>1. id < nextItem
                BY <2>1 DEF ItemsInv
            <4> QED
                BY <1>1, <2>1, <3>1, <4>1 DEF ItemIDs
        <3>2. \A i \in ItemIDs : i # id => item'[i] = item[i]
            BY <1>1, <2>2
        <3> QED
            BY <2>2, <2>4, <3>1, <3>2, ItemTouch DEF ItemsInv
    <2>10. \A g \in Handlers : request'[g].op = "itemToggle" => request'[g].id < nextItem'
        BY <2>2, <2>3 DEF ItemsInv, Idle
    <2> QED
        BY <2>7, <2>8, <2>9, <2>10 DEF ItemsInv
<1>12. \A id \in 1..(nextItem - 1) : id \in ItemIDs /\ id < nextItem
    BY <1>1, ListsAssumption DEF ItemIDs
<1> QED
    BY <1>3, <1>6, <1>7, <1>8, <1>9, <1>10, <1>11, <1>12 DEF GroceryActions

(* A note is written, set outright or swept away.                          *)
LEMMA SweptKeeps ==
    ASSUME NEW rows, NEW i \in NoteIDs, Swept(rows)[i] # NoRow
    PROVE  Swept(rows)[i] = rows[i]
BY DEF Swept

LEMMA NoteWriteMarks ==
    ASSUME MarksInv, NEW id \in NoteIDs, NEW row \in NoteRow, NEW rows,
           NoteWrite(id, row, rows),
           \A i \in NoteIDs : rows[i] # NoRow =>
              note[i] # NoRow /\ rows[i] = IF i = id THEN row ELSE note[i],
           \A h \in Handlers :
              request'[h] = request[h] \/ request'[h].op \notin {"itemToggle", "noteToggle"}
    PROVE  ItemsInv' /\ NotesInv'
<1> DEFINE t == [Untouched(row.pinned) EXCEPT !.crossed = Toggling("noteToggle", id) # {}]
<1>1. /\ UNCHANGED <<item, nextItem, nextNote>> /\ note' = rows
      /\ touched' = [touched EXCEPT ![<<"note", id>>] = t]
    BY DEF NoteWrite, noteRest
<1>2. /\ t.odd = FALSE /\ t.start = row.pinned /\ row.pinned \in BOOLEAN
      /\ t.crossed = (Toggling("noteToggle", id) # {})
    BY DEF Untouched, NoteRow
<1> HIDE DEF t
<1>3. touched \in [Rows -> Touch]
    BY DEF MarksInv, ListsTypeOK
<1>4. /\ \A r \in Rows : r # <<"note", id>> => touched'[r] = touched[r]
      /\ touched'[<<"note", id>>] = t
    BY <1>1, <1>3, NoteTouch DEF MarksInv
<1>5. ItemsInv'
    <2>1. \A i \in ItemIDs : touched'[<<"item", i>>] = touched[<<"item", i>>]
        BY <1>4, ItemTouch DEF MarksInv
    <2> QED
        BY <1>1, <2>1, ItemsQuiet DEF MarksInv
<1>6. ASSUME NEW i \in NoteIDs, ~touched'[<<"note", i>>].crossed
      PROVE  NoteMark(i)'
    <2>1. CASE i = id
        <3>1. \A g \in Handlers : ~TogglesNote(g, id)
            BY <1>2, <1>4, <1>6, <2>1 DEF Toggling, TogglesNote, At
        <3>2. \A g \in Handlers : ~(request'[g].op = "noteToggle" /\ request'[g].id = i)
            BY <2>1, <3>1 DEF TogglesNote
        <3>3. note'[i] # NoRow => note'[i] = row
            BY <1>1, <2>1
        <3> QED
            BY <1>2, <1>4, <2>1, <3>2, <3>3 DEF NoteMark, TogglesNote
    <2>2. CASE i # id
        <3>1. touched'[<<"note", i>>] = touched[<<"note", i>>]
            BY <1>4, <2>2, NoteTouch DEF MarksInv
        <3>2. note'[i] # NoRow => note[i] # NoRow /\ note'[i] = note[i]
            BY <1>1, <2>2
        <3>3. \A g \in Handlers : request'[g].op = "noteToggle" => request'[g] = request[g]
            OBVIOUS
        <3> QED
            BY <1>6, <3>1, <3>2, <3>3 DEF MarksInv, NotesInv, NoteMark, TogglesNote
    <2> QED
        BY <2>1, <2>2
<1>7. \A i \in NoteIDs : i >= nextNote' => note'[i] = NoRow
    BY <1>1 DEF MarksInv, NotesInv
<1>8. \A g \in Handlers : request'[g].op = "noteToggle" => request'[g].id < nextNote'
    BY <1>1 DEF MarksInv, NotesInv
<1> QED
    BY <1>5, <1>6, <1>7, <1>8 DEF NotesInv

LEMMA NoteInsertMarks ==
    ASSUME MarksInv, NEW row \in NoteRow, NEW rows, NoteInsert(row, rows),
           \A i \in NoteIDs : rows[i] # NoRow => rows[i] = Inserted(row)[i]
    PROVE  ItemsInv' /\ NotesInv'
<1>1. /\ request \in [Handlers -> ListRequests] /\ note \in [NoteIDs -> NoteRow \cup {NoRow}]
      /\ nextNote \in 1..(MaxNotes + 1) /\ touched \in [Rows -> Touch]
    BY DEF MarksInv, ListsTypeOK
<1>2. /\ nextNote \in NoteIDs /\ nextNote' = nextNote + 1 /\ note' = rows
      /\ touched' = [touched EXCEPT ![<<"note", nextNote>>] = Untouched(row.pinned)]
      /\ UNCHANGED <<item, nextItem, request>>
    BY DEF NoteInsert, noteRest
<1>3. /\ \A r \in Rows : r # <<"note", nextNote>> => touched'[r] = touched[r]
      /\ touched'[<<"note", nextNote>>] = Untouched(row.pinned)
    BY <1>1, <1>2, NoteTouch DEF MarksInv
<1>4. ItemsInv'
    <2>1. \A i \in ItemIDs : touched'[<<"item", i>>] = touched[<<"item", i>>]
        BY <1>3, ItemTouch DEF MarksInv
    <2> QED
        BY <1>2, <2>1, ItemsQuiet DEF MarksInv
<1>5. \A i \in NoteIDs : note'[i] # NoRow =>
          note'[i] = IF i = nextNote THEN row ELSE note[i]
    BY <1>1, <1>2 DEF Inserted
<1>6. \A g \in Handlers : request[g].op = "noteToggle" =>
          request[g].id < nextNote /\ request[g].id \in NoteIDs
    BY <1>1, ListShapes DEF MarksInv, NotesInv
<1>7. ASSUME NEW i \in NoteIDs, ~touched'[<<"note", i>>].crossed
      PROVE  NoteMark(i)'
    <2>1. CASE i = nextNote
        <3>1. \A g \in Handlers : ~(request'[g].op = "noteToggle" /\ request'[g].id = i)
            BY <1>1, <1>2, <1>6, <2>1
        <3>2. /\ touched'[<<"note", i>>].odd = FALSE
              /\ touched'[<<"note", i>>].start = row.pinned
              /\ row.pinned \in BOOLEAN
            BY <1>3, <2>1 DEF Untouched, NoteRow
        <3>3. note'[i] # NoRow => note'[i] = row
            BY <1>5, <2>1
        <3> QED
            BY <3>1, <3>2, <3>3 DEF NoteMark, TogglesNote
    <2>2. CASE i # nextNote
        <3>1. touched'[<<"note", i>>] = touched[<<"note", i>>]
            BY <1>3, <2>2, NoteTouch DEF MarksInv
        <3>2. note'[i] # NoRow => note[i] # NoRow /\ note'[i] = note[i]
            BY <1>5, <2>2
        <3>3. request' = request
            BY <1>2
        <3> QED
            BY <1>7, <3>1, <3>2, <3>3 DEF MarksInv, NotesInv, NoteMark, TogglesNote
    <2> QED
        BY <2>1, <2>2
<1>8. \A i \in NoteIDs : i >= nextNote' => note'[i] = NoRow
    <2>1. \A i \in NoteIDs : i >= nextNote + 1 => i >= nextNote /\ i # nextNote
        BY <1>1 DEF NoteIDs
    <2> QED
        BY <1>2, <1>5, <2>1 DEF MarksInv, NotesInv
<1>9. \A g \in Handlers : request'[g].op = "noteToggle" => request'[g].id < nextNote'
    <2>1. \A g \in Handlers : request[g].op = "noteToggle" => request[g].id < nextNote + 1
        BY <1>1, <1>6 DEF NoteIDs
    <2> QED
        BY <1>2, <2>1
<1> QED
    BY <1>4, <1>7, <1>8, <1>9 DEF NotesInv

LEMMA PinReadMarks ==
    ASSUME MarksInv, NEW id \in NoteIDs, NEW h \in Handlers, TogglePinnedRead(h, id),
           id < nextNote
    PROVE  ItemsInv' /\ NotesInv'
<1> USE DEF MarksInv
<1>1. request \in [Handlers -> ListRequests] /\ touched \in [Rows -> Touch]
    BY DEF ListsTypeOK
<1> DEFINE q == [op |-> "noteToggle", id |-> id, pinned |-> note[id].pinned]
<1>2. q.op = "noteToggle" /\ q.id = id /\ q.pinned = note[id].pinned
    OBVIOUS
<1>3. request' = [request EXCEPT ![h] = q] /\ request[h] = Idle
    BY DEF TogglePinnedRead, Begin
<1> HIDE DEF q
<1>4. /\ UNCHANGED <<note, nextNote, item, nextItem>>
      /\ touched' = [touched EXCEPT ![<<"note", id>>].crossed =
                        @ \/ Toggling("noteToggle", id) # {}]
    BY DEF TogglePinnedRead, noteRest
<1>5. \A r \in Rows : r # <<"note", id>> => touched'[r] = touched[r]
    BY <1>1, <1>4
<1>6. touched[<<"note", id>>] \in Touch /\ <<"note", id>> \in Rows
    BY NoteTouch
<1>7. /\ touched'[<<"note", id>>].odd = touched[<<"note", id>>].odd
      /\ touched'[<<"note", id>>].start = touched[<<"note", id>>].start
      /\ touched'[<<"note", id>>].crossed =
            (touched[<<"note", id>>].crossed \/ Toggling("noteToggle", id) # {})
    BY <1>1, <1>4, <1>6 DEF Touch
<1>8. ItemsInv'
    <2>1. \A i \in ItemIDs : touched'[<<"item", i>>] = touched[<<"item", i>>]
        BY <1>5, ItemTouch
    <2>2. \A g \in Handlers : request'[g] = request[g] \/ request'[g].op # "itemToggle"
        BY <1>1, <1>2, <1>3
    <2> QED
        BY <1>4, <2>1, <2>2, ItemsQuiet
<1>9. ASSUME NEW i \in NoteIDs, ~touched'[<<"note", i>>].crossed
      PROVE  NoteMark(i)'
    <2>1. CASE i = id
        <3>1. ~touched[<<"note", id>>].crossed /\ Toggling("noteToggle", id) = {}
            BY <1>7, <1>9, <2>1
        <3>2. \A g \in Handlers : ~TogglesNote(g, id)
            BY <3>1 DEF Toggling, TogglesNote, At
        <3>3. \A g \in Handlers : TogglesNote(g, id)' => g = h
            BY <1>1, <1>3, <3>2 DEF TogglesNote
        <3>4. NoteMark(id)
            BY <3>1 DEF NotesInv
        <3>5. request'[h].pinned = note[id].pinned
            BY <1>1, <1>2, <1>3
        <3> QED
            BY <1>4, <1>7, <2>1, <3>3, <3>4, <3>5 DEF NoteMark
    <2>2. CASE i # id
        <3>1. touched'[<<"note", i>>] = touched[<<"note", i>>]
            BY <1>5, <2>2, NoteTouch
        <3>2. \A g \in Handlers :
                  request'[g].op = "noteToggle" /\ request'[g].id = i => request'[g] = request[g]
            BY <1>1, <1>2, <1>3, <2>2
        <3>3. note' = note
            BY <1>4
        <3> QED
            BY <1>9, <3>1, <3>2, <3>3 DEF NotesInv, NoteMark, TogglesNote
    <2> QED
        BY <2>1, <2>2
<1>10. \A i \in NoteIDs : i >= nextNote' => note'[i] = NoRow
    BY <1>4 DEF NotesInv
<1>11. \A g \in Handlers : request'[g].op = "noteToggle" => request'[g].id < nextNote'
    BY <1>1, <1>2, <1>3, <1>4 DEF NotesInv
<1> QED
    BY <1>8, <1>9, <1>10, <1>11 DEF NotesInv

LEMMA PinWriteMarks ==
    ASSUME MarksInv, NEW h \in Handlers, NEW listing, TogglePinned(h, listing)
    PROVE  ItemsInv' /\ NotesInv'
<1> USE DEF MarksInv
<1>1. /\ request \in [Handlers -> ListRequests] /\ touched \in [Rows -> Touch]
      /\ note \in [NoteIDs -> NoteRow \cup {NoRow}]
    BY DEF ListsTypeOK
<1>2. PICK id \in NoteIDs : id = request[h].id
    BY <1>1, ListShapes DEF TogglePinned, At
<1>3. request[h].op = "noteToggle" /\ request[h].pinned \in BOOLEAN
    BY <1>1, ListShapes DEF TogglePinned, At
<1> DEFINE rows == IF note[id] = NoRow THEN note
                   ELSE [note EXCEPT ![id].pinned = ~request[h].pinned]
<1>4. /\ UNCHANGED <<item, nextItem, nextNote>> /\ Done(h)
      /\ touched' = [touched EXCEPT ![<<"note", id>>] = Toggled(@)]
      /\ note' = rows \/ note' = Swept(rows)
    BY <1>2 DEF TogglePinned, noteRest
<1>5. \A g \in Handlers : request'[g] = IF g = h THEN Idle ELSE request[g]
    BY <1>1, <1>4 DEF Done
<1>6. \A i \in NoteIDs : note'[i] # NoRow => note'[i] = rows[i]
    BY <1>4, SweptKeeps
<1>7. \A i \in NoteIDs : i # id => rows[i] = note[i]
    BY <1>1
<1>8. note[id] = NoRow => rows[id] = NoRow
    OBVIOUS
<1>9. note[id] # NoRow => rows[id].pinned = ~request[h].pinned
    <2>1. ASSUME note[id] # NoRow PROVE rows[id].pinned = ~request[h].pinned
        <3>1. note[id] \in NoteRow /\ rows = [note EXCEPT ![id].pinned = ~request[h].pinned]
            BY <1>1, <2>1
        <3> QED
            BY <1>1, <3>1 DEF NoteRow
    <2> QED
        BY <2>1
<1> HIDE DEF rows
<1>10. \A r \in Rows : r # <<"note", id>> => touched'[r] = touched[r]
    BY <1>1, <1>4
<1>11. touched[<<"note", id>>] \in Touch /\ <<"note", id>> \in Rows
    BY NoteTouch
<1>12. /\ touched'[<<"note", id>>].odd = ~touched[<<"note", id>>].odd
       /\ touched'[<<"note", id>>].start = touched[<<"note", id>>].start
       /\ touched'[<<"note", id>>].crossed = touched[<<"note", id>>].crossed
    BY <1>1, <1>4, <1>11 DEF Touch, Toggled
<1>13. ItemsInv'
    <2>1. \A i \in ItemIDs : touched'[<<"item", i>>] = touched[<<"item", i>>]
        BY <1>10, ItemTouch
    <2>2. \A g \in Handlers : request'[g] = request[g] \/ request'[g].op # "itemToggle"
        BY <1>5 DEF Idle
    <2> QED
        BY <1>4, <2>1, <2>2, ItemsQuiet
<1>14. ASSUME NEW i \in NoteIDs, ~touched'[<<"note", i>>].crossed
       PROVE  NoteMark(i)'
    <2>1. CASE i = id
        <3>1. NoteMark(id) /\ TogglesNote(h, id)
            BY <1>2, <1>3, <1>12, <1>14, <2>1 DEF NotesInv, TogglesNote
        <3>2. \A g \in Handlers : ~(request'[g].op = "noteToggle" /\ request'[g].id = i)
            <4>1. ASSUME NEW g \in Handlers, g # h
                  PROVE  ~(request[g].op = "noteToggle" /\ request[g].id = i)
                BY <2>1, <3>1, <4>1 DEF NoteMark, TogglesNote
            <4> QED
                BY <1>5, <4>1 DEF Idle
        <3>3. ASSUME note'[id] # NoRow
              PROVE  note'[id].pinned <=>
                        (touched'[<<"note", id>>].odd # touched'[<<"note", id>>].start)
            <4>1. note[id] # NoRow /\ note[id] \in NoteRow /\ note'[id] = rows[id]
                BY <1>1, <1>6, <1>8, <3>3
            <4>2. note'[id].pinned = ~request[h].pinned
                BY <1>9, <4>1
            <4>3. request[h].pinned = note[id].pinned
                BY <3>1, <4>1 DEF NoteMark
            <4>4. note[id].pinned <=>
                      (touched[<<"note", id>>].odd # touched[<<"note", id>>].start)
                BY <3>1, <4>1 DEF NoteMark
            <4> QED
                BY <1>3, <1>11, <1>12, <4>2, <4>3, <4>4 DEF Touch
        <3> QED
            BY <2>1, <3>2, <3>3 DEF NoteMark, TogglesNote
    <2>2. CASE i # id
        <3>1. touched'[<<"note", i>>] = touched[<<"note", i>>]
            BY <1>10, <2>2, NoteTouch
        <3>2. \A g \in Handlers :
                  request'[g].op = "noteToggle" /\ request'[g].id = i => request'[g] = request[g]
            BY <1>5 DEF Idle
        <3>3. note'[i] # NoRow => note[i] # NoRow /\ note'[i] = note[i]
            BY <1>6, <1>7, <2>2
        <3> QED
            BY <1>14, <3>1, <3>2, <3>3 DEF NotesInv, NoteMark, TogglesNote
    <2> QED
        BY <2>1, <2>2
<1>15. \A i \in NoteIDs : i >= nextNote' => note'[i] = NoRow
    BY <1>4, <1>6, <1>7, <1>8 DEF NotesInv
<1>16. \A g \in Handlers : request'[g].op = "noteToggle" => request'[g].id < nextNote'
    BY <1>4, <1>5 DEF NotesInv, Idle
<1> QED
    BY <1>13, <1>14, <1>15, <1>16 DEF NotesInv

LEMMA NoteMarks ==
    ASSUME MarksInv, NoteActions
    PROVE  ItemsInv' /\ NotesInv'
<1>1. /\ request \in [Handlers -> ListRequests] /\ note \in [NoteIDs -> NoteRow \cup {NoRow}]
      /\ ListsTypeOK
    BY DEF MarksInv, ListsTypeOK
<1>2. ASSUME NEW row \in NoteRow, ApiNoteCreate(row) \/ NoteCreate(row)
      PROVE  ItemsInv' /\ NotesInv'
    BY <1>2, NoteInsertMarks, SweptKeeps DEF ApiNoteCreate, NoteCreate
<1>3. ASSUME NEW id, NEW row
      PROVE  \A i \in NoteIDs : Written(id, row)[i] # NoRow =>
                note[i] # NoRow /\ Written(id, row)[i] = IF i = id THEN row ELSE note[i]
    BY <1>1 DEF Written
<1>4. ASSUME NEW id \in NoteIDs, NEW row \in NoteRow, ApiNoteUpdate(id, row)
      PROVE  ItemsInv' /\ NotesInv'
    BY <1>3, <1>4, NoteWriteMarks DEF ApiNoteUpdate
<1>5. ASSUME NEW h \in Handlers, NEW id, NEW row, NoteUpdateRead(h, id, row)
      PROVE  ItemsInv' /\ NotesInv'
    <2> DEFINE q == [op |-> "noteUpdate", id |-> id, row |-> [row EXCEPT !.author =
                        IF note[id] = NoRow THEN NoAuthor ELSE note[id].author]]
    <2>1. UNCHANGED listVars /\ Begin(h, q) /\ q.op \notin {"itemToggle", "noteToggle"}
        BY <1>5 DEF NoteUpdateRead
    <2> HIDE DEF q
    <2>2. \A g \in Handlers :
              request'[g] = request[g] \/ request'[g].op \notin {"itemToggle", "noteToggle"}
        BY <1>1, <2>1, OtherToggles
    <2> QED
        BY <2>1, <2>2, MarksQuiet DEF listVars
<1>6. ASSUME NEW h \in Handlers, NoteUpdate(h)
      PROVE  ItemsInv' /\ NotesInv'
    <2>1. PICK id \in NoteIDs, row \in NoteRow : id = request[h].id /\ row = request[h].row
        BY <1>1, <1>6, ListShapes DEF NoteUpdate, At
    <2> DEFINE rows == IF note[id] = NoRow THEN note ELSE Swept(Written(id, row))
    <2>2. NoteWrite(id, row, rows) /\ Done(h)
        BY <1>6, <2>1 DEF NoteUpdate
    <2>3. \A i \in NoteIDs : rows[i] # NoRow =>
              note[i] # NoRow /\ rows[i] = IF i = id THEN row ELSE note[i]
        BY <1>3, SweptKeeps
    <2>4. \A g \in Handlers :
              request'[g] = request[g] \/ request'[g].op \notin {"itemToggle", "noteToggle"}
        BY <1>1, <2>2, OtherToggles
    <2> HIDE DEF rows
    <2> QED
        BY <2>2, <2>3, <2>4, NoteWriteMarks
<1>7. ASSUME NEW id \in NoteIDs, ApiNoteDelete(id) \/ NoteDelete(id)
      PROVE  ItemsInv' /\ NotesInv'
    <2>1. \A i \in NoteIDs : note'[i] # NoRow => note[i] # NoRow /\ note'[i] = note[i]
        <3> DEFINE rows == [note EXCEPT ![id] = NoRow]
        <3>1. note' = rows \/ note' = Swept(rows)
            BY <1>7 DEF ApiNoteDelete, NoteDelete
        <3>2. \A i \in NoteIDs : rows[i] # NoRow => rows[i] = note[i]
            BY <1>1
        <3> HIDE DEF rows
        <3> QED
            BY <3>1, <3>2, SweptKeeps
    <2> QED
        BY <1>7, <2>1, MarksQuiet DEF ApiNoteDelete, NoteDelete, noteRest
<1>8. ASSUME NoteList
      PROVE  ItemsInv' /\ NotesInv'
    <2>1. \A i \in NoteIDs : note'[i] # NoRow => note[i] # NoRow /\ note'[i] = note[i]
        BY <1>8, SweptKeeps DEF NoteList
    <2> QED
        BY <1>8, <2>1, MarksQuiet DEF NoteList, noteRest
<1>9. \A id \in 1..(nextNote - 1) : id \in NoteIDs /\ id < nextNote
    <2>1. nextNote \in 1..(MaxNotes + 1)
        BY <1>1 DEF ListsTypeOK
    <2> QED
        BY <2>1, ListsAssumption DEF NoteIDs
<1> QED
    BY <1>2, <1>4, <1>5, <1>6, <1>7, <1>8, <1>9, PinReadMarks, PinWriteMarks DEF NoteActions

LEMMA MarksStep ==
    ASSUME MarksInv, [ListsNext]_listsVars
    PROVE  MarksInv'
<1>1. ItemsInv' /\ NotesInv'
    <2>1. CASE ClockTick
        BY <2>1, MarksQuiet DEF ClockTick
    <2>2. ASSUME NEW h \in Handlers, Abandon(h), UNCHANGED listVars
          PROVE  ItemsInv' /\ NotesInv'
        <3>1. \A g \in Handlers :
                  request'[g] = request[g] \/ request'[g].op \notin {"itemToggle", "noteToggle"}
            BY <2>2, OtherToggles DEF Abandon, MarksInv
        <3> QED
            BY <2>2, <3>1, MarksQuiet DEF listVars
    <2>3. CASE UNCHANGED listsVars
        BY <2>3, MarksQuiet DEF listsVars, listVars
    <2>4. CASE SeedDefaults
        BY <2>4, MarksQuiet DEF SeedDefaults
    <2> QED
        BY <2>1, <2>2, <2>3, <2>4, GroceryMarks, NoteMarks DEF ListsNext
<1> QED
    BY <1>1, ListsStepTypes DEF MarksInv

LEMMA MarksStart == ListsInit => MarksInv
<1> SUFFICES ASSUME ListsInit PROVE MarksInv
    OBVIOUS
<1>1. \A h \in Handlers : request[h].op = "idle"
    BY DEF ListsInit, RequestsInit, Idle
<1>2. /\ \A id \in ItemIDs : item[id] = NoRow /\ touched[<<"item", id>>] = Untouched(FALSE)
      /\ \A id \in NoteIDs : note[id] = NoRow
    BY DEF ListsInit, Rows
<1> QED
    BY <1>1, <1>2, ListsStart
       DEF MarksInv, ItemsInv, NotesInv, ItemMark, NoteMark, TogglesItem, TogglesNote

(* A row whose toggles never crossed shows the mark its history says:      *)
(* each toggle changed it, and no other request undid one (ToggleChecked,  *)
(* TogglePinned and what else writes checked and pinned).                  *)
THEOREM ListsToggles == ListsSpec => []TogglesAreKept
BY MarksStart, MarksStep, MarksAreKept, PTL DEF ListsSpec

-----------------------------------------------------------------------------
(* A household's categories have one position each, so that the rows of a  *)
(* category are one for each household, and the others come after.         *)
LEMMA ItemsShown ==
    ASSUME ListsTypeOK
    PROVE  EveryItemIsShown
<1> SUFFICES ASSUME NEW list \in DefaultLists
             PROVE  /\ \A id \in ItemsWhere(list, FALSE) : GroupsOf(list, id) = TimesShown(id)
                    /\ UncheckedCount(list) =
                          Cardinality((UNION Range(CategoryGroups(list)))
                                        \cup (UNION Range(OtherGroups(list))))
    BY DEF EveryItemIsShown
<1> DEFINE unchecked == ItemsWhere(list, FALSE)
           groups == CategoryGroups(list)
           others == OtherGroups(list)
<1>1. \A row \in DOMAIN groups : /\ row \in CategoryRows
                                 /\ groups[row] = UncheckedOf(list, Categories[row[1]])
    BY DEF CategoryGroups
<1>2. \A c \in DOMAIN others : others[c] = UncheckedOf(list, c) /\ c \notin Range(Categories)
    BY DEF OtherGroups
<1>3. ASSUME NEW id \in unchecked
      PROVE  /\ GroupsOf(list, id) = TimesShown(id)
             /\ id \in (UNION Range(groups)) \cup (UNION Range(others))
    <2> DEFINE own == item[id].category
               places == {row \in DOMAIN groups : id \in groups[row]}
               rest == {c \in DOMAIN others : id \in others[c]}
    <2>1. own \in Used(list) /\ id \in UncheckedOf(list, own)
        BY DEF Used, UncheckedOf
    <2>2. \A c : id \in UncheckedOf(list, c) => c = own
        BY DEF UncheckedOf
    <2>3. GroupsOf(list, id) = Cardinality(places) + Cardinality(rest)
        BY DEF GroupsOf
    <2>4. CASE own \in Range(Categories)
        <3>1. PICK p \in DOMAIN Categories : Categories[p] = own
            BY <2>4 DEF Range
        <3>2. ASSUME NEW k \in 1..households PROVE <<p, k>> \in places
            <4>1. <<p, k>> \in CategoryRows /\ Categories[<<p, k>>[1]] = own
                BY <3>1 DEF CategoryRows
            <4>2. <<p, k>> \in DOMAIN groups
                BY <2>1, <4>1 DEF CategoryGroups
            <4> QED
                BY <1>1, <2>1, <4>1, <4>2
        <3>3. places = {p} \X (1..households)
            <4>1. ASSUME NEW row \in places PROVE row \in {p} \X (1..households)
                <5>1. row \in CategoryRows /\ Categories[row[1]] = own
                    BY <1>1, <2>2
                <5>2. row[1] \in DOMAIN Categories /\ row[2] \in 1..households
                      /\ row = <<row[1], row[2]>>
                    BY <5>1 DEF CategoryRows
                <5>3. row[1] = p
                    BY <3>1, <5>1, <5>2, ListsAssumption
                <5> QED
                    BY <5>2, <5>3
            <4> QED
                BY <3>2, <4>1
        <3>4. rest = {}
            BY <1>2, <2>2, <2>4
        <3>5. Cardinality(places) = households
            <4>1. households \in Nat \ {0}
                BY DefaultsAreLists
            <4>2. IsFiniteSet(1..households) /\ Cardinality(1..households) = households
                BY <4>1, FS_Interval
            <4>3. IsFiniteSet({p}) /\ Cardinality({p}) = 1
                BY FS_Singleton
            <4>4. Cardinality({p} \X (1..households)) = 1 * households
                BY <4>2, <4>3, FS_Product
            <4>5. 1 * households = households
                BY <4>1
            <4> HIDE DEF places
            <4> QED
                BY <3>3, <4>4, <4>5
        <3>6. Cardinality(rest) = 0
            BY <3>4, FS_EmptySet
        <3>7. households \in Nat \ {0}
            BY DefaultsAreLists
        <3>8. <<p, 1>> \in places
            BY <3>2, <3>7
        <3>9. GroupsOf(list, id) = TimesShown(id)
            BY <2>3, <2>4, <3>5, <3>6, <3>7 DEF TimesShown
        <3>10. id \in UNION Range(groups)
            BY <3>8 DEF Range
        <3> QED
            BY <3>9, <3>10
    <2>5. CASE own \notin Range(Categories)
        <3>1. own \in DOMAIN others /\ id \in others[own]
            BY <2>1, <2>5 DEF OtherGroups
        <3>2. rest = {own}
            BY <1>2, <2>2, <3>1
        <3>3. places = {}
            <4>1. ASSUME NEW row \in places PROVE FALSE
                <5>1. row \in CategoryRows /\ Categories[row[1]] = own
                    BY <1>1, <2>2
                <5> QED
                    BY <2>5, <5>1 DEF Range, CategoryRows
            <4> QED
                BY <4>1
        <3>4. Cardinality(places) = 0 /\ Cardinality(rest) = 1
            BY <3>2, <3>3, FS_Singleton, FS_EmptySet
        <3>5. GroupsOf(list, id) = TimesShown(id)
            BY <2>3, <2>5, <3>4 DEF TimesShown
        <3> QED
            BY <3>1, <3>5 DEF Range
    <2> QED
        BY <2>4, <2>5
<1>4. \A c : UncheckedOf(list, c) \subseteq unchecked
    BY DEF UncheckedOf
<1>5. unchecked = (UNION Range(groups)) \cup (UNION Range(others))
    <2>1. UNION Range(groups) \subseteq unchecked
        <3>1. \A row \in DOMAIN groups : groups[row] \subseteq unchecked
            BY <1>1, <1>4
        <3> QED
            BY <3>1 DEF Range
    <2>2. UNION Range(others) \subseteq unchecked
        <3>1. \A c \in DOMAIN others : others[c] \subseteq unchecked
            BY <1>2, <1>4
        <3> QED
            BY <3>1 DEF Range
    <2> QED
        BY <1>3, <2>1, <2>2
<1> QED
    BY <1>3, <1>5 DEF UncheckedCount

(* Every item of a household's list that is not checked is shown, whatever *)
(* its category and whatever became of that category: in one group, or in  *)
(* as many as there are households when the table has rows of its category *)
(* (buildGroceryListData, ListCategories).                                 *)
THEOREM ListsShowEverything == ListsSpec => []EveryItemIsShown
BY ListsTyped, ItemsShown, PTL
=============================================================================
