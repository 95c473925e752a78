------------------------------- MODULE Lists -------------------------------
(***************************************************************************)
(* The grocery lists and the notes.                                        *)
(*                                                                         *)
(* Source: internal/handler/grocery.go, internal/handler/note.go, their    *)
(* pages in internal/handler/template.go, internal/store/grocery.go,       *)
(* internal/store/note.go, Categorize of internal/grocery and SeedDefaults *)
(* of internal/store/household.go.                                         *)
(*                                                                         *)
(* A household comes with a list and a set of category rows: the first in  *)
(* migration 011, the others when they register.  Neither GetDefaultList   *)
(* nor ListCategories asks whose the rows are, and every list has the sort *)
(* order 0: which of them a page takes is left open.  An item is its list, *)
(* its category and its check mark (no foreign key keeps the API from a    *)
(* list that is not there), a note its author, its pin and its expiry;     *)
(* names, quantities, bodies, priorities and who added or checked an item  *)
(* are shown and nothing else.  Categorize is a parameter: what the        *)
(* keyword tables make of a name.  Toggling a mark reads it and writes its *)
(* opposite, two statements.  Notes that have expired are deleted by       *)
(* whoever lists them.                                                     *)
(***************************************************************************)
EXTENDS Requests

CONSTANTS
    Authors,       \* members, and whatever stands for none
    NoAuthor,
    ItemNames,     \* names of groceries
    Categories,    \* names of a household's grocery_categories, in order
    Categorize,    \* the category of each name
    OwnCategories, \* categories an API client may send
    Times,         \* times a note may be set to expire at, from 1
    MaxHouseholds, MaxItems, MaxNotes, MaxClock   \* bounds

NoTime == 0    \* expires_at IS NULL

ASSUME ListsAssumption ==
    /\ NoAuthor \in Authors
    /\ \A i, j \in DOMAIN Categories :        \* UNIQUE(household_id, name)
          Categories[i] = Categories[j] => i = j
    /\ Categorize \in [ItemNames -> Range(Categories) \cup {"Other"}]
    /\ Times \subseteq Nat \ {NoTime}
    /\ {MaxItems, MaxNotes, MaxClock} \subseteq Nat
    /\ MaxHouseholds \in Nat \ {0}

VARIABLES
    households,       \* how many have been seeded
    item, nextItem,   \* rows of grocery_items
    note, nextNote,   \* rows of notes
    clock,
    touched           \* history: what happened to each row's mark, see below

listVars == <<households, item, nextItem, note, nextNote, clock, touched>>

ListIDs == 1..MaxHouseholds
ItemIDs == 1..MaxItems
NoteIDs == 1..MaxNotes
AllCategories == Range(Categories) \cup {"Other"} \cup OwnCategories

ItemRow == [list : ListIDs, category : AllCategories, checked : BOOLEAN]
NoteRow == [author : Authors, pinned : BOOLEAN, expires : Times \cup {NoTime}]

(* Of a row's check mark or pin: the toggles written since it was last set *)
(* outright, as a parity; whether two of them overlapped; and the value it *)
(* was set to.                                                             *)
Touch == [odd : BOOLEAN, crossed : BOOLEAN, start : BOOLEAN]
Untouched(value) == [odd |-> FALSE, crossed |-> FALSE, start |-> value]
Toggled(t) == [t EXCEPT !.odd = ~@]

ListRequests ==
    {Idle}
      \cup [op : {"itemToggle"}, id : ItemIDs, checked : BOOLEAN]
      \cup [op : {"itemUpdate"}, id : ItemIDs, category : AllCategories]
      \cup [op : {"noteToggle"}, id : NoteIDs, pinned : BOOLEAN]
      \cup [op : {"noteUpdate"}, id : NoteIDs, row : NoteRow]

Rows == ({"item"} \X ItemIDs) \cup ({"note"} \X NoteIDs)

ListsTypeOK ==
    /\ households \in 1..MaxHouseholds
    /\ item \in [ItemIDs -> ItemRow \cup {NoRow}]
    /\ nextItem \in 1..(MaxItems + 1)
    /\ note \in [NoteIDs -> NoteRow \cup {NoRow}]
    /\ nextNote \in 1..(MaxNotes + 1)
    /\ clock \in 0..MaxClock
    /\ touched \in [Rows -> Touch]
    /\ request \in [Handlers -> ListRequests]

ListsInit ==
    /\ RequestsInit
    /\ households = 1
    /\ item = [id \in ItemIDs |-> NoRow] /\ nextItem = 1
    /\ note = [id \in NoteIDs |-> NoRow] /\ nextNote = 1
    /\ clock = 0
    /\ touched = [r \in Rows |-> Untouched(FALSE)]

Toggling(op, id) == {h \in Handlers : At(h, op) /\ request[h].id = id}

-----------------------------------------------------------------------------
(* Registration: the names of the first household's categories once more,  *)
(* and one more list, in one transaction.                                  *)
SeedDefaults ==
    /\ households < MaxHouseholds
    /\ households' = households + 1
    /\ UNCHANGED <<item, nextItem, note, nextNote, clock, touched, request>>

DefaultLists == 1..households

-----------------------------------------------------------------------------
(* Groceries. *)

itemRest == <<households, note, nextNote, clock>>

InsertItem(list, category) ==
    /\ nextItem \in ItemIDs
    /\ item' = [item EXCEPT ![nextItem] =
                  [list |-> list, category |-> category, checked |-> FALSE]]
    /\ nextItem' = nextItem + 1
    /\ UNCHANGED <<itemRest, request, touched>>

(* An empty category is filled in by Categorize. *)
ApiItemCreate(list, name, category) ==
    InsertItem(list, IF category = "" THEN Categorize[name] ELSE category)

GroceryItemAdd(list, name) == InsertItem(list, Categorize[name])

(* Fault: an edit writes the whole row, as if it were new. *)
SetCategoryAfresh(id, category) ==
    item' = IF item[id] = NoRow THEN item
            ELSE [item EXCEPT ![id] = [@ EXCEPT !.category = category, !.checked = FALSE]]

SetCategory(id, category) ==
    item' = IF item[id] = NoRow THEN item ELSE [item EXCEPT ![id].category = category]

(* The API keeps the category it read, if none is given. *)
ApiItemUpdate(h, id, category) ==
    /\ item[id] # NoRow
    /\ Begin(h, [op |-> "itemUpdate", id |-> id,
                 category |-> IF category = "" THEN item[id].category ELSE category])
    /\ UNCHANGED listVars

ApiItemUpdateWrite(h) ==
    /\ At(h, "itemUpdate")
    /\ SetCategory(request[h].id, request[h].category)
    /\ Done(h)
    /\ UNCHANGED <<itemRest, nextItem, touched>>

(* The page sets an empty category to Other. *)
GroceryItemUpdate(id, category) ==
    /\ SetCategory(id, IF category = "" THEN "Other" ELSE category)
    /\ UNCHANGED <<itemRest, nextItem, touched, request>>

DeleteItems(S) == item' = [id \in ItemIDs |-> IF id \in S THEN NoRow ELSE item[id]]

ItemDelete(id) ==
    /\ item[id] # NoRow
    /\ DeleteItems({id})
    /\ UNCHANGED <<itemRest, nextItem, touched, request>>

ItemsWhere(list, mark) ==
    {id \in ItemIDs : item[id] # NoRow /\ item[id].list = list /\ item[id].checked = mark}

ClearChecked(list) ==
    /\ DeleteItems(ItemsWhere(list, TRUE))
    /\ UNCHANGED <<itemRest, nextItem, touched, request>>

ToggleCheckedRead(h, id) ==
    /\ item[id] # NoRow
    /\ Begin(h, [op |-> "itemToggle", id |-> id, checked |-> item[id].checked])
    /\ touched' = [touched EXCEPT ![<<"item", id>>].crossed =
                      @ \/ Toggling("itemToggle", id) # {}]
    /\ UNCHANGED <<itemRest, item, nextItem>>

ToggleChecked(h) ==
    LET id == request[h].id
    IN  /\ At(h, "itemToggle")
        /\ item' = IF item[id] = NoRow THEN item
                   ELSE [item EXCEPT ![id].checked = ~request[h].checked]
        /\ touched' = [touched EXCEPT ![<<"item", id>>] = Toggled(@)]
        /\ Done(h)
        /\ UNCHANGED <<itemRest, nextItem>>

(* What the page shows of a list's unchecked items: a group for each row   *)
(* of the table whose category is in use - households have rows of the     *)
(* same names -, and after these, in no order, a group for each category   *)
(* in use that has no row.                                                 *)
UncheckedOf(list, c) == {id \in ItemsWhere(list, FALSE) : item[id].category = c}
Used(list) == {item[id].category : id \in ItemsWhere(list, FALSE)}

CategoryRows == (DOMAIN Categories) \X (1..households)

CategoryGroups(list) ==
    [row \in {row \in CategoryRows : Categories[row[1]] \in Used(list)} |->
        UncheckedOf(list, Categories[row[1]])]

(* Fault: the groups are those of the table. *)
NoGroups(list) == [c \in {} |-> {}]

OtherGroups(list) == [c \in Used(list) \ Range(Categories) |-> UncheckedOf(list, c)]

UncheckedCount(list) == Cardinality(ItemsWhere(list, FALSE))

-----------------------------------------------------------------------------
(* Notes. *)

noteRest == <<households, item, nextItem, clock>>

Expired(row) == row # NoRow /\ row.expires # NoTime /\ row.expires <= clock

(* DeleteExpired, which every listing begins with *)
Swept(rows) == [id \in NoteIDs |-> IF Expired(rows[id]) THEN NoRow ELSE rows[id]]

Inserted(row) == [note EXCEPT ![nextNote] = row]
Written(id, row) == IF note[id] = NoRow THEN note ELSE [note EXCEPT ![id] = row]

NoteInsert(row, rows) ==
    /\ nextNote \in NoteIDs
    /\ note' = rows
    /\ nextNote' = nextNote + 1
    /\ touched' = [touched EXCEPT ![<<"note", nextNote>>] = Untouched(row.pinned)]
    /\ UNCHANGED <<noteRest, request>>

ApiNoteCreate(row) == NoteInsert(row, Inserted(row))

(* The pages end by listing the notes. *)
NoteCreate(row) == NoteInsert(row, Swept(Inserted(row)))

NoteList ==
    /\ note' = Swept(note)
    /\ UNCHANGED <<noteRest, nextNote, touched, request>>

(* Writing a note sets its pin outright. *)
NoteWrite(id, row, rows) ==
    /\ note' = rows
    /\ touched' = [touched EXCEPT ![<<"note", id>>] =
          [Untouched(row.pinned) EXCEPT !.crossed = Toggling("noteToggle", id) # {}]]
    /\ UNCHANGED <<noteRest, nextNote>>

ApiNoteUpdate(id, row) ==
    /\ note[id] # NoRow
    /\ NoteWrite(id, row, Written(id, row))
    /\ UNCHANGED request

(* The page reads who wrote the note, and writes it back. *)
NoteUpdateRead(h, id, row) ==
    /\ Begin(h, [op |-> "noteUpdate", id |-> id, row |->
                 [row EXCEPT !.author = IF note[id] = NoRow THEN NoAuthor ELSE note[id].author]])
    /\ UNCHANGED listVars

(* A note that is gone by now panics the handler before it lists. *)
NoteUpdate(h) ==
    LET id == request[h].id
        rows == Written(id, request[h].row)
    IN  /\ At(h, "noteUpdate")
        /\ Done(h)
        /\ NoteWrite(id, request[h].row, IF note[id] = NoRow THEN note ELSE Swept(rows))

ApiNoteDelete(id) ==
    /\ note[id] # NoRow
    /\ note' = [note EXCEPT ![id] = NoRow]
    /\ UNCHANGED <<noteRest, nextNote, touched, request>>

NoteDelete(id) ==
    /\ note' = Swept([note EXCEPT ![id] = NoRow])
    /\ UNCHANGED <<noteRest, nextNote, touched, request>>

TogglePinnedRead(h, id) ==
    /\ note[id] # NoRow
    /\ Begin(h, [op |-> "noteToggle", id |-> id, pinned |-> note[id].pinned])
    /\ touched' = [touched EXCEPT ![<<"note", id>>].crossed =
                      @ \/ Toggling("noteToggle", id) # {}]
    /\ UNCHANGED <<noteRest, note, nextNote>>

(* The API answers with the note; the page lists, unless the note is gone. *)
TogglePinned(h, listing) ==
    LET id == request[h].id
        rows == IF note[id] = NoRow THEN note
                ELSE [note EXCEPT ![id].pinned = ~request[h].pinned]
    IN  /\ At(h, "noteToggle")
        /\ note' = IF listing /\ note[id] # NoRow THEN Swept(rows) ELSE rows
        /\ touched' = [touched EXCEPT ![<<"note", id>>] = Toggled(@)]
        /\ Done(h)
        /\ UNCHANGED <<noteRest, nextNote>>

-----------------------------------------------------------------------------
ClockTick ==
    /\ clock < MaxClock
    /\ clock' = clock + 1
    /\ UNCHANGED <<households, item, nextItem, note, nextNote, touched, request>>

Sent == OwnCategories \cup {""}

GroceryActions ==
    \/ \E name \in ItemNames :
        \/ \E list \in DefaultLists : GroceryItemAdd(list, name)
        \/ \E list \in ListIDs, c \in Sent : ApiItemCreate(list, name, c)
    \/ \E id \in 1..(nextItem - 1) :
        \/ \E c \in Sent : GroceryItemUpdate(id, c) \/ \E h \in Handlers : ApiItemUpdate(h, id, c)
        \/ ItemDelete(id)
        \/ \E h \in Handlers : ToggleCheckedRead(h, id)
    \/ \E h \in Handlers : ApiItemUpdateWrite(h) \/ ToggleChecked(h)
    \/ \E list \in ListIDs : ClearChecked(list)

NoteActions ==
    \/ \E row \in NoteRow :
        \/ ApiNoteCreate(row) \/ NoteCreate(row)
        \/ \E id \in 1..(nextNote - 1) :
            ApiNoteUpdate(id, row) \/ \E h \in Handlers : NoteUpdateRead(h, id, row)
    \/ \E id \in 1..(nextNote - 1) :
        \/ ApiNoteDelete(id) \/ NoteDelete(id)
        \/ \E h \in Handlers : TogglePinnedRead(h, id)
    \/ \E h \in Handlers :
        NoteUpdate(h) \/ \E listing \in BOOLEAN : TogglePinned(h, listing)
    \/ NoteList

ListsNext ==
    \/ GroceryActions
    \/ NoteActions
    \/ ClockTick
    \/ SeedDefaults
    \/ \E h \in Handlers : Abandon(h) /\ UNCHANGED listVars

listsVars == <<request, listVars>>

ListsSpec == ListsInit /\ [][ListsNext]_listsVars

-----------------------------------------------------------------------------
Has(r) == IF r[1] = "item" THEN item[r[2]] # NoRow ELSE note[r[2]] # NoRow
Mark(r) == IF r[1] = "item" THEN item[r[2]].checked ELSE note[r[2]].pinned

(* A check mark or a pin is what the toggles since it was last set make of *)
(* it, whatever edits, sweeps and other requests came in between; only a   *)
(* toggle that overlaps another one of the same row can be lost            *)
(* (ToggleChecked, TogglePinned).                                          *)
TogglesAreKept ==
    \A r \in Rows : Has(r) /\ ~touched[r].crossed =>
        (Mark(r) <=> (touched[r].odd # touched[r].start))

(* Every unchecked item of the page's list is shown: in one group for each *)
(* row of grocery_categories with its category, so in as many as there are *)
(* households, and in one if no row knows the category; and the groups     *)
(* hold as many items as the badge counts (buildGroceryListData).          *)
GroupsOf(list, id) ==
    Cardinality({row \in DOMAIN CategoryGroups(list) : id \in CategoryGroups(list)[row]})
      + Cardinality({c \in DOMAIN OtherGroups(list) : id \in OtherGroups(list)[c]})

TimesShown(id) == IF item[id].category \in Range(Categories) THEN households ELSE 1

EveryItemIsShown ==
    \A list \in DefaultLists :
        /\ \A id \in ItemsWhere(list, FALSE) : GroupsOf(list, id) = TimesShown(id)
        /\ UncheckedCount(list) =
              Cardinality((UNION Range(CategoryGroups(list)))
                            \cup (UNION Range(OtherGroups(list))))

(* "Grouped by category" (web/billing/templates/features.html:119), so     *)
(* that an item is in one group: not after a household has registered.     *)
ShownInOneGroup ==
    \A list \in DefaultLists : \A id \in ItemsWhere(list, FALSE) : GroupsOf(list, id) = 1
=============================================================================
