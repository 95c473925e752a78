--------------------------- MODULE FamilyMembers ---------------------------
(***************************************************************************)
(* The members of a household, their PINs and the member each device acts  *)
(* as.                                                                     *)
(*                                                                         *)
(* Source: internal/handler/family_member.go (the JSON API), the member    *)
(* and PIN pages of internal/handler/template.go, and                      *)
(* internal/store/family_member.go.                                        *)
(*                                                                         *)
(* Colours and emojis are data no property reads; a PIN is compared        *)
(* through its bcrypt hash, which is equality of PINs.  Ids come from      *)
(* AUTOINCREMENT: nextMember only grows.  0 stands for no member, which is *)
(* NULL in a column and the missing cookie of a device.                    *)
(***************************************************************************)
EXTENDS Requests

CONSTANTS
    Devices,       \* browsers, each with its active-user cookie
    Names,         \* names a member may be given
    Pins,          \* PINs a member may choose
    MaxMembers     \* bound on the members ever created

ASSUME FamilyAssumption ==
    /\ MaxMembers \in Nat
    /\ 0 \notin Pins

ASSUME NamesAssumption == "" \notin Names   \* "name is required"

VARIABLES
    member,        \* rows of family_members
    nextMember,    \* the id the next row gets
    active         \* the active-user cookie of each device

familyVars == <<member, nextMember, active>>

Nobody == 0

MemberIDs == 1..MaxMembers
Issued == 1..(nextMember - 1)      \* ids a client can have seen

MemberRow == [name : Names, pin : Pins \cup {Nobody}, order : 0..MaxMembers]

FamilyTypeOK ==
    /\ member \in [MemberIDs -> MemberRow \cup {NoRow}]
    /\ nextMember \in 1..(MaxMembers + 1)
    /\ active \in [Devices -> MemberIDs \cup {Nobody}]

FamilyInit ==
    /\ member = [id \in MemberIDs |-> NoRow]
    /\ nextMember = 1
    /\ active = [d \in Devices |-> Nobody]

-----------------------------------------------------------------------------
(* internal/store/family_member.go. *)

Members == {id \in MemberIDs : member[id] # NoRow}

NameExists(name, except) == \E id \in Members \ {except} : member[id].name = name

(* COALESCE(MAX(sort_order), -1) + 1 *)
NextOrder ==
    CHOOSE n \in 0..MaxMembers :
        /\ \A id \in Members : member[id].order < n
        /\ n > 0 => \E id \in Members : member[id].order = n - 1

(* Fault: no such constraint. *)
UniqueNameUnchecked(name, except) == name \in Names

(* UNIQUE(household_id, name) refuses a name a member already has *)
UniqueName(name, except) == ~NameExists(name, except)

(* Fault: without AUTOINCREMENT a row gets the id after the highest in use. *)
InsertMemberReusing(name, order) ==
    LET id == IF Members = {} THEN 1 ELSE Max(Members) + 1
    IN  /\ id \in MemberIDs
        /\ UniqueName(name, Nobody)
        /\ member' = [member EXCEPT ![id] =
                         [name |-> name, pin |-> Nobody, order |-> order]]
        /\ nextMember' = Max({nextMember, id + 1})

InsertMember(name, order) ==
    /\ nextMember \in MemberIDs
    /\ UniqueName(name, Nobody)
    /\ member' = [member EXCEPT ![nextMember] =
                     [name |-> name, pin |-> Nobody, order |-> order]]
    /\ nextMember' = nextMember + 1

SetMember(id, column, value) ==
    member' = IF member[id] = NoRow THEN member
              ELSE [member EXCEPT ![id][column] = value]

DeleteMemberRow(id) == member' = [member EXCEPT ![id] = NoRow]

-----------------------------------------------------------------------------
(* Creating and changing members: the name is looked up, and written by a  *)
(* later statement.                                                        *)

MemberCreateCheck(h, name) ==
    /\ ~NameExists(name, Nobody)
    /\ Begin(h, [op |-> "memberOrder", name |-> name])
    /\ UNCHANGED familyVars

MemberCreateOrder(h) ==
    /\ At(h, "memberOrder")
    /\ Continue(h, [op |-> "memberInsert", name |-> request[h].name, order |-> NextOrder])
    /\ UNCHANGED familyVars

MemberCreateInsert(h) ==
    /\ At(h, "memberInsert")
    /\ InsertMember(request[h].name, request[h].order)
    /\ Done(h)
    /\ UNCHANGED active

(* The API looks for the row before it looks for the name, the page does not. *)
ApiMemberRename(h, id, name) ==
    /\ member[id] # NoRow
    /\ ~NameExists(name, id)
    /\ Begin(h, [op |-> "memberName", id |-> id, name |-> name])
    /\ UNCHANGED familyVars

FamilyMemberRename(h, id, name) ==
    /\ ~NameExists(name, id)
    /\ Begin(h, [op |-> "memberName", id |-> id, name |-> name])
    /\ UNCHANGED familyVars

MemberRenameWrite(h) ==
    /\ At(h, "memberName")
    /\ UniqueName(request[h].name, request[h].id)
    /\ SetMember(request[h].id, "name", request[h].name)
    /\ Done(h)
    /\ UNCHANGED <<nextMember, active>>

ApiMemberDelete(id) ==
    /\ member[id] # NoRow
    /\ DeleteMemberRow(id)
    /\ UNCHANGED <<nextMember, active, request>>

FamilyMemberDelete(id) ==
    /\ DeleteMemberRow(id)
    /\ UNCHANGED <<nextMember, active, request>>

(* One transaction numbers the listed members in their new order. *)
UpdateSortOrder(ids) ==
    /\ member' = [id \in MemberIDs |->
                    IF member[id] # NoRow /\ Contains(ids, id)
                    THEN [member[id] EXCEPT !.order = SelectInSeq(ids, LAMBDA x : x = id) - 1]
                    ELSE member[id]]
    /\ UNCHANGED <<nextMember, active, request>>

-----------------------------------------------------------------------------
(* PINs and the active member. *)

ApiSetPIN(id, pin) ==
    /\ member[id] # NoRow
    /\ SetMember(id, "pin", pin)
    /\ UNCHANGED <<nextMember, active, request>>

PINSetup(id, pin) ==
    /\ SetMember(id, "pin", pin)
    /\ UNCHANGED <<nextMember, active, request>>

ApiClearPIN(id) ==
    /\ SetMember(id, "pin", Nobody)
    /\ UNCHANGED <<nextMember, active, request>>

(* A member without a PIN has no hash, and no PIN matches it. *)
PinMatches(id, pin) == member[id] # NoRow /\ member[id].pin = pin

(* The hash is compared, which takes a while, before the PIN is cleared. *)
PINVerifyThenAct(h, id, pin) ==
    /\ PinMatches(id, pin)
    /\ Begin(h, [op |-> "pinClear", id |-> id])
    /\ UNCHANGED familyVars

PINVerifiedClear(h) ==
    /\ At(h, "pinClear")
    /\ SetMember(request[h].id, "pin", Nobody)
    /\ Done(h)
    /\ UNCHANGED <<nextMember, active>>

SetActiveUser(d, id) ==
    /\ member[id] # NoRow
    /\ active' = [active EXCEPT ![d] = id]
    /\ UNCHANGED <<member, nextMember, request>>

VerifyPINAndSetUser(d, id, pin) ==
    /\ PinMatches(id, pin)
    /\ active' = [active EXCEPT ![d] = id]
    /\ UNCHANGED <<member, nextMember, request>>

(* The cookie as it is sent; nobody looks whether the member still exists. *)
activeUserFromCookie(d) == active[d]

-----------------------------------------------------------------------------
MemberCreation ==
    \E h \in Handlers :
        \/ \E name \in Names : MemberCreateCheck(h, name)
        \/ MemberCreateOrder(h)
        \/ MemberCreateInsert(h)

MemberChange ==
    \/ \E h \in Handlers :
        \/ \E id \in Issued, name \in Names :
              ApiMemberRename(h, id, name) \/ FamilyMemberRename(h, id, name)
        \/ MemberRenameWrite(h)
    \/ \E ids \in {SetToSeq(S) : S \in SUBSET Issued} \ {<<>>} :
          UpdateSortOrder(ids) \/ UpdateSortOrder(Reverse(ids))

MemberDeletion == \E id \in Issued : ApiMemberDelete(id) \/ FamilyMemberDelete(id)

PinChange ==
    \/ \E id \in Issued, pin \in Pins : ApiSetPIN(id, pin) \/ PINSetup(id, pin)
    \/ \E id \in Issued : ApiClearPIN(id)
    \/ \E h \in Handlers :
        \/ \E id \in Issued, pin \in Pins : PINVerifyThenAct(h, id, pin)
        \/ PINVerifiedClear(h)

UserChoice ==
    \E d \in Devices, id \in Issued :
        SetActiveUser(d, id) \/ \E pin \in Pins : VerifyPINAndSetUser(d, id, pin)

FamilyNext == MemberCreation \/ MemberChange \/ MemberDeletion \/ PinChange \/ UserChoice
=============================================================================
