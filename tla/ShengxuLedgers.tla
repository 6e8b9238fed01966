-------------------------- MODULE ShengxuLedgers --------------------------
(***************************************************************************)
(* The daily ledgers of the Shengxu business: which travel agency and      *)
(* which of its contacts a coordinator dealt with.  A ledger keeps the     *)
(* names of both as they were when they were chosen.  While ledgers are    *)
(* written the agencies are renamed, handed over, disabled and deleted,    *)
(* their contacts renamed and deleted, and coordinators disabled.          *)
(* The form takes its choices from what was on offer when it was opened;   *)
(* the transaction's statements are steps, each edit of another table is   *)
(* one step, which waits for the rows that a transaction holds FOR SHARE.  *)
(* A name is the number of its last change.                                *)
(***************************************************************************)
EXTENDS Naturals, FiniteSets

CONSTANTS Houses,         \* the travel agencies
          Persons,        \* their contacts
          HouseOf(_),     \* the agency of a contact
          FirstPersons,   \* the contacts there are at the start
          Coordinators,
          FirstOwner,     \* the coordinator all agencies start with
          Sheets,         \* the ids of ledgers
          LedgerWriters,  \* transactions under way
          SheetDates,
          MaxEdits,       \* bound: edits of agencies, contacts and users
          MaxSheetVersion \* bound: writes of one ledger

ASSUME FirstOwnerAssumption == FirstOwner \in Coordinators

VARIABLES houses, persons, staff, sheets, scribes, edits

shengxuVars == <<houses, persons, staff, sheets, scribes, edits>>

(* The manager of the business changes every ledger, the root user writes  *)
(* ledgers in the name of the agency's coordinator.                        *)
Root == "root"
Actors == Coordinators \union {"manager", Root}
NoSheet == [version |-> 0]
NoPerson == [name |-> 0, live |-> FALSE]
IdleScribe == [step |-> "idle"]

Manageable(row, a) == a \in {"manager", Root} \/ row.creator = a

(* The owner whose agencies a call may choose: nobody's in particular for  *)
(* the root user who creates a ledger.                                     *)
OwnerFits(h, a, row) ==
    IF row # NoSheet THEN houses[h].owner = row.creator
    ELSE a = Root \/ houses[h].owner = a

(* The agencies and the contacts the form offers.                          *)
OfferedHouses(a) ==
    {h \in Houses : /\ houses[h].status = "enabled"
                    /\ houses[h].owner \in IF a = Root THEN staff ELSE {a}}
OfferedPersons(h) == {p \in Persons : HouseOf(p) = h /\ persons[p].live}

(* An agency and a contact a form may send: both on offer, or the agency   *)
(* or both as the ledger has them.                                         *)
FormChoices(a, row) ==
    LET offered == OfferedHouses(IF row = NoSheet \/ a = Root THEN a ELSE row.creator)
        kept == IF row = NoSheet THEN {} ELSE {row.house}
    IN  {c \in (offered \union kept) \X Persons : c[2] \in OfferedPersons(c[1])}
          \union IF row = NoSheet THEN {} ELSE {<<row.house, row.person>>}

ShengxuInit ==
    /\ houses = [h \in Houses |-> [name |-> 1, owner |-> FirstOwner, status |-> "enabled"]]
    /\ persons = [p \in Persons |-> IF p \in FirstPersons THEN [name |-> 1, live |-> TRUE] ELSE NoPerson]
    /\ staff = Coordinators
    /\ sheets = [s \in Sheets |-> NoSheet]
    /\ scribes = [w \in LedgerWriters |-> IdleScribe]
    /\ edits = 0

At(w, step) == scribes[w].step = step
Advance(w, step) == scribes' = [scribes EXCEPT ![w].step = step]
Finish(w) == scribes' = [scribes EXCEPT ![w] = IdleScribe]
Busy(step) == {w \in LedgerWriters : scribes[w].step \in step}

(* The rows an open transaction holds: its ledger FOR UPDATE; a newly      *)
(* chosen agency and contact, and the creator, FOR SHARE.                  *)
SheetHeld(s) == \E w \in Busy({"house", "person", "owner", "write", "remove"}) : scribes[w].sheet = s
HouseShared(h) == \E w \in Busy({"person", "owner", "write"}) : scribes[w].newHouse /\ scribes[w].house = h
PersonShared(p) == \E w \in Busy({"owner", "write"}) : scribes[w].newPerson /\ scribes[w].person = p
UserShared(u) == \E w \in Busy({"write"}) : scribes[w].call = "create" /\ scribes[w].creator = u

UnchangedData == UNCHANGED <<houses, persons, staff, sheets, edits>>

(* The form of a new ledger, or of one the actor saw, whose agency and     *)
(* contact may stay as they are.                                           *)
OpenSheet(w, a, s, h, p, d, converted) ==
    /\ At(w, "idle")
    /\ LET row == sheets[s] IN
       /\ row = NoSheet => s \notin {scribes[v].sheet : v \in LedgerWriters \ Busy({"idle"})}
       /\ row # NoSheet => Manageable(row, a) /\ row.version < MaxSheetVersion
       /\ <<h, p>> \in FormChoices(a, row)
       /\ scribes' = [scribes EXCEPT ![w] =
            [step |-> IF row = NoSheet THEN "house" ELSE "lock", call |-> IF row = NoSheet THEN "create" ELSE "update",
             actor |-> a, sheet |-> s, seen |-> row.version, house |-> h, person |-> p,
             date |-> d, converted |-> converted, creator |-> a, houseName |-> 0, personName |-> 0,
             newHouse |-> row = NoSheet \/ row.house # h, newPerson |-> row = NoSheet \/ row.person # p]]
    /\ UnchangedData

(* The wish to delete a ledger the actor saw.                              *)
AskDelete(w, a, s) ==
    /\ At(w, "idle")
    /\ sheets[s] # NoSheet
    /\ Manageable(sheets[s], a)
    /\ scribes' = [scribes EXCEPT ![w] =
         [step |-> "lock", call |-> "delete", actor |-> a, sheet |-> s, seen |-> sheets[s].version]]
    /\ UnchangedData

(* The ledger's row FOR UPDATE, and the version the actor saw.  What the   *)
(* row still names is not looked up again.                                 *)
LockSheet(w) ==
    /\ At(w, "lock")
    /\ ~SheetHeld(scribes[w].sheet)
    /\ LET t == scribes[w]  row == sheets[t.sheet] IN
       IF row = NoSheet \/ row.version # t.seen
         THEN Finish(w)
         ELSE IF t.call = "delete" THEN Advance(w, "remove")
         ELSE scribes' = [scribes EXCEPT ![w] = [t EXCEPT !.step = "house", !.creator = row.creator,
                !.houseName = row.houseName, !.personName = row.personName]]
    /\ UnchangedData

(* A newly chosen agency: enabled, and of the ledger's creator.            *)
HouseValid(h, t) == houses[h].status = "enabled" /\ OwnerFits(h, t.actor, sheets[t.sheet])

ShareHouse(w) ==
    /\ At(w, "house")
    /\ LET t == scribes[w] IN
       IF ~t.newHouse THEN Advance(w, "person")
       ELSE IF ~HouseValid(t.house, t) THEN Finish(w)
       ELSE scribes' = [scribes EXCEPT ![w] = [t EXCEPT !.step = "person", !.houseName = houses[t.house].name,
              !.creator = IF t.call = "create" /\ t.actor = Root THEN houses[t.house].owner ELSE @]]
    /\ UnchangedData

(* A newly chosen contact: not deleted.                                    *)
SharePerson(w) ==
    /\ At(w, "person")
    /\ LET t == scribes[w]  next == IF t.call = "create" THEN "owner" ELSE "write" IN
       IF ~t.newPerson THEN Advance(w, next)
       ELSE IF ~persons[t.person].live THEN Finish(w)
       ELSE scribes' = [scribes EXCEPT ![w] = [t EXCEPT !.step = next, !.personName = persons[t.person].name]]
    /\ UnchangedData

(* The creator must be an enabled coordinator of the business.             *)
ShareOwner(w) ==
    /\ At(w, "owner")
    /\ IF scribes[w].creator \in staff THEN Advance(w, "write") ELSE Finish(w)
    /\ UnchangedData

(* One ledger per day, agency and contact.                                 *)
DuplicateOf(t) ==
    {s \in Sheets \ {t.sheet} : /\ sheets[s] # NoSheet
                                /\ <<sheets[s].date, sheets[s].house, sheets[s].person>> = <<t.date, t.house, t.person>>}

(* The INSERT or the UPDATE, and the commit.                               *)
WriteSheet(w) ==
    /\ At(w, "write")
    /\ LET t == scribes[w] IN
       IF DuplicateOf(t) # {} THEN UNCHANGED sheets
       ELSE sheets' = [sheets EXCEPT ![t.sheet] =
              [date |-> t.date, creator |-> t.creator, house |-> t.house, person |-> t.person,
               houseName |-> t.houseName, personName |-> t.personName,
               converted |-> t.converted, version |-> t.seen + 1]]
    /\ Finish(w)
    /\ UNCHANGED <<houses, persons, staff, edits>>

(* A ledger with converted groups stays.                                   *)
RemoveSheet(w) ==
    /\ At(w, "remove")
    /\ sheets' = IF sheets[scribes[w].sheet].converted THEN sheets
                 ELSE [sheets EXCEPT ![scribes[w].sheet] = NoSheet]
    /\ Finish(w)
    /\ UNCHANGED <<houses, persons, staff, edits>>

-----------------------------------------------------------------------------
(* The edits of agencies, contacts and users.  They lock the row they      *)
(* change, which waits for every share lock on it.                         *)
CountEdit == edits < MaxEdits /\ edits' = edits + 1

(* Mutant: agencies are read without FOR SHARE, an edit waits for nobody.  *)
HouseFree_NoShare(h) == TRUE
HouseFree(h) == ~HouseShared(h)

EditHouse(h, name, owner, status) ==
    /\ CountEdit
    /\ HouseFree(h)
    /\ houses[h].status # "deleted"
    /\ owner \in staff
    /\ name \in {houses[h].name, houses[h].name + 1}
    /\ houses' = [houses EXCEPT ![h] = [name |-> name, owner |-> owner, status |-> status]]
    /\ UNCHANGED <<persons, staff, sheets, scribes>>

(* An agency is deleted with its contacts.                                 *)
DeleteHouse(h) ==
    /\ CountEdit
    /\ HouseFree(h)
    /\ \A p \in OfferedPersons(h) : ~PersonShared(p)
    /\ houses[h].status # "deleted"
    /\ houses' = [houses EXCEPT ![h].status = "deleted"]
    /\ persons' = [p \in Persons |-> IF HouseOf(p) = h THEN [persons[p] EXCEPT !.live = FALSE] ELSE persons[p]]
    /\ UNCHANGED <<staff, sheets, scribes>>

CreatePerson(p) ==
    /\ CountEdit
    /\ persons[p] = NoPerson
    /\ houses[HouseOf(p)].status # "deleted"
    /\ persons' = [persons EXCEPT ![p] = [name |-> 1, live |-> TRUE]]
    /\ UNCHANGED <<houses, staff, sheets, scribes>>

RenamePerson(p) ==
    /\ CountEdit
    /\ ~PersonShared(p)
    /\ persons[p].live
    /\ houses[HouseOf(p)].status # "deleted"
    /\ persons' = [persons EXCEPT ![p].name = @ + 1]
    /\ UNCHANGED <<houses, staff, sheets, scribes>>

DeletePerson(p) ==
    /\ CountEdit
    /\ ~PersonShared(p)
    /\ persons[p].live
    /\ houses[HouseOf(p)].status # "deleted"
    /\ persons' = [persons EXCEPT ![p].live = FALSE]
    /\ UNCHANGED <<houses, staff, sheets, scribes>>

(* A coordinator is disabled, or loses the role.                           *)
DisableCoordinator(u) ==
    /\ CountEdit
    /\ ~UserShared(u)
    /\ staff' = staff \ {u}
    /\ UNCHANGED <<houses, persons, sheets, scribes>>

ShengxuNext ==
    \/ \E w \in LedgerWriters, a \in Actors, s \in Sheets, h \in Houses, p \in Persons, d \in SheetDates, c \in BOOLEAN :
         OpenSheet(w, a, s, h, p, d, c)
    \/ \E w \in LedgerWriters, a \in Actors, s \in Sheets : AskDelete(w, a, s)
    \/ \E w \in LedgerWriters : LockSheet(w) \/ ShareHouse(w) \/ SharePerson(w) \/ ShareOwner(w) \/ WriteSheet(w) \/ RemoveSheet(w)
    \/ \E h \in Houses, n \in 1..(MaxEdits + 1), u \in Coordinators, t \in {"enabled", "disabled"} : EditHouse(h, n, u, t)
    \/ \E h \in Houses : DeleteHouse(h)
    \/ \E p \in Persons : CreatePerson(p) \/ RenamePerson(p) \/ DeletePerson(p)
    \/ \E u \in Coordinators : DisableCoordinator(u)

-----------------------------------------------------------------------------
(* A ledger about to be written names an agency and a contact it newly     *)
(* chose as they are at that moment, both still in use and the agency      *)
(* still with the ledger's creator, however long ago the form offered      *)
(* them; a creator of a new ledger is still a coordinator.                 *)
ChoicesCurrent ==
    \A w \in Busy({"write"}) :
       LET t == scribes[w] IN
       /\ t.newHouse => houses[t.house] = [name |-> t.houseName, owner |-> t.creator, status |-> "enabled"]
       /\ t.newPerson => persons[t.person] = [name |-> t.personName, live |-> TRUE]
       /\ t.call = "create" => t.creator \in staff

(* An update or a delete about to be made acts on the row its actor saw.   *)
SeenIsCurrent ==
    \A w \in Busy({"write", "remove"}) :
       scribes[w].call # "create" => sheets[scribes[w].sheet].version = scribes[w].seen

LedgersCurrent == ChoicesCurrent /\ SeenIsCurrent

-----------------------------------------------------------------------------
(* What makes LedgersCurrent inductive.                                    *)

HouseRow == [name : Nat, owner : Actors, status : {"enabled", "disabled", "deleted"}]
PersonRow == [name : Nat, live : BOOLEAN]
SheetRow == [date : SheetDates, creator : Actors, house : Houses, person : Persons,
             houseName : Nat, personName : Nat, converted : BOOLEAN, version : Nat]
WriteCall == [step : {"lock", "house", "person", "owner", "write"}, call : {"create", "update"},
              actor : Actors, sheet : Sheets, seen : Nat, house : Houses, person : Persons,
              date : SheetDates, converted : BOOLEAN, creator : Actors, houseName : Nat,
              personName : Nat, newHouse : BOOLEAN, newPerson : BOOLEAN]
RemoveCall == [step : {"lock", "remove"}, call : {"delete"}, actor : Actors, sheet : Sheets, seen : Nat]

ShengxuTypes ==
    /\ houses \in [Houses -> HouseRow]
    /\ persons \in [Persons -> PersonRow]
    /\ staff \subseteq Coordinators
    /\ sheets \in [Sheets -> {NoSheet} \union SheetRow]
    /\ scribes \in [LedgerWriters -> {IdleScribe} \union WriteCall \union RemoveCall]

(* What a call has locked is as it was then.                               *)
RowCurrent(t) ==
    LET row == sheets[t.sheet]
    IN  IF t.call = "create"
        THEN row = NoSheet /\ t.step # "lock" /\ (t.step = "house" => t.creator = t.actor)
        ELSE t.step # "lock" =>
               /\ row # NoSheet
               /\ row.version = t.seen
               /\ t.call = "update" => row.creator = t.creator

SharesCurrent(t) ==
    /\ t.step \in {"person", "owner", "write"} /\ t.newHouse =>
          houses[t.house] = [name |-> t.houseName, owner |-> t.creator, status |-> "enabled"]
    /\ t.step \in {"owner", "write"} /\ t.newPerson =>
          persons[t.person] = [name |-> t.personName, live |-> TRUE]
    /\ t.step = "owner" => t.call = "create"
    /\ t.step = "write" /\ t.call = "create" => t.creator \in staff

(* Two calls about one ledger: none creates it, and one waits for its lock. *)
Apart(t, o) == t.sheet = o.sheet =>
                  /\ "create" \notin {t.call, o.call}
                  /\ "lock" \in {t.step, o.step}

ShengxuInv ==
    /\ ShengxuTypes
    /\ \A w \in LedgerWriters \ Busy({"idle"}) : RowCurrent(scribes[w]) /\ SharesCurrent(scribes[w])
    /\ \A w, v \in LedgerWriters \ Busy({"idle"}) : w # v => Apart(scribes[w], scribes[v])
=============================================================================
