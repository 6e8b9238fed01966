---------------------------- MODULE Dictionaries ----------------------------
(***************************************************************************)
(* The business dictionaries (countries and regions, city airports and     *)
(* categories of the users' own) and the records that name their entries:  *)
(* agencies, inquiries, website inquiries, tours, direct ledgers, flights. *)
(* The service takes no row lock: an edit of an entry reads it, checks     *)
(* that nothing refers to it, and saves what it read with the changes; a   *)
(* record is written from an entry read earlier.  Only a direct ledger     *)
(* reads its entry FOR SHARE.  A code stands for code and English name.    *)
(***************************************************************************)
EXTENDS Naturals, FiniteSets

CONSTANTS Categories, CategoryCodes,
          Entries, EntryCodes,
          Sources,       \* the columns that name an entry, one record of each
          EntryEditors,  \* edits of entries that may be under way
          MaxEntryEdits  \* bound: edits of entries

(* The two categories that the migrations create, and the columns there are. *)
ASSUME CategoriesAssumption == {1, 2} \subseteq Categories /\ 0 \notin Categories
ASSUME EntriesAssumption == 0 \notin Entries
ASSUME SourcesAssumption ==
    Sources \subseteq {"agency", "inquiry", "website", "tour", "ledger", "departure", "arrival"}

VARIABLES categories, entries,
          uses,     \* source -> the entry its record names and the code it keeps
          picks,    \* source -> the entry read for a record to be written
          editors,
          entryEdits,
          mixed     \* the sources written while their entry was being edited

dictionaryVars == <<categories, entries, uses, picks, editors, entryEdits, mixed>>

NoCategory == [code |-> "", builtIn |-> FALSE, live |-> FALSE]
NoEntry == [category |-> 0, code |-> "", enabled |-> FALSE, live |-> FALSE]
NoUse == [entry |-> 0, code |-> ""]
NoPick == [entry |-> 0, row |-> NoEntry]
IdleEditor == [step |-> "idle", entry |-> 0]

(* The columns that are searched for references to a category's entries.   *)
SourcesOf(code) ==
    CASE code = "country-region" -> Sources \intersect {"agency", "inquiry", "website", "tour", "ledger"}
      [] code = "city-airport" -> Sources \intersect {"departure", "arrival"}
      [] OTHER -> {}
Required(s) == IF s \in {"departure", "arrival"} THEN "city-airport" ELSE "country-region"

(* Mutant: the column of the direct ledgers is not searched.               *)
Referenced_NoLedgers(e) ==
    \E s \in SourcesOf(categories[entries[e].category].code) \ {"ledger"} : uses[s].entry = e
Referenced(e) == \E s \in SourcesOf(categories[entries[e].category].code) : uses[s].entry = e

DictionaryInit ==
    /\ categories = [c \in Categories |->
          CASE c = 1 -> [code |-> "country-region", builtIn |-> TRUE, live |-> TRUE]
            [] c = 2 -> [code |-> "city-airport", builtIn |-> TRUE, live |-> TRUE]
            [] OTHER -> NoCategory]
    /\ entries = [e \in Entries |-> IF e = 1 THEN [category |-> 1, code |-> "CN", enabled |-> TRUE, live |-> TRUE]
                                    ELSE NoEntry]
    /\ uses = [s \in Sources |-> NoUse]
    /\ picks = [s \in Sources |-> NoPick]
    /\ editors = [d \in EntryEditors |-> IdleEditor]
    /\ entryEdits = 0
    /\ mixed = {}

(* A code is taken by a deleted row too.                                   *)
CategoryCodeFree(c, code) == \A other \in Categories \ {c} : categories[other].code # code
EntryCodeFree(e, c, code) ==
    \A other \in Entries \ {e} : entries[other].category = c => entries[other].code # code

(* The rows an open ledger transaction holds.                              *)
EntryShared(e) == "ledger" \in Sources => picks["ledger"].entry # e
CategoryUnshared(c) == "ledger" \in Sources => picks["ledger"].row.category # c

-----------------------------------------------------------------------------
(* The users' own categories; a built-in one keeps its code and its place, *)
(* whatever its entries are used for.                                      *)
CreateCategory(c, code, builtIn) ==
    /\ categories[c] = NoCategory
    /\ CategoryCodeFree(c, code)
    /\ categories' = [categories EXCEPT ![c] = [code |-> code, builtIn |-> builtIn, live |-> TRUE]]
    /\ UNCHANGED <<entries, uses, picks, editors, entryEdits, mixed>>

RecodeCategory(c, code) ==
    /\ categories[c].live
    /\ CategoryUnshared(c)
    /\ categories[c].builtIn => code = categories[c].code
    /\ CategoryCodeFree(c, code)
    /\ categories' = [categories EXCEPT ![c].code = code]
    /\ UNCHANGED <<entries, uses, picks, editors, entryEdits, mixed>>

(* A category goes with its entries, without a search for references.      *)
DeleteCategory(c) ==
    /\ categories[c].live
    /\ CategoryUnshared(c)
    /\ ~categories[c].builtIn
    /\ categories' = [categories EXCEPT ![c].live = FALSE]
    /\ entries' = [e \in Entries |-> IF entries[e].category = c THEN [entries[e] EXCEPT !.live = FALSE] ELSE entries[e]]
    /\ UNCHANGED <<uses, picks, editors, entryEdits, mixed>>

-----------------------------------------------------------------------------
(* The three edits of entries: the category by its code, the entry that is *)
(* to change, and what the form says.                                      *)
BeginEdit(d, call, e, c, code, enabled) ==
    /\ editors[d].step = "idle"
    /\ entryEdits < MaxEntryEdits
    /\ categories[c].live
    /\ IF call = "create" THEN entries[e] = NoEntry /\ \A other \in EntryEditors : editors[other].entry # e
       ELSE entries[e].live /\ entries[e].category = c
    /\ editors' = [editors EXCEPT ![d] =
         [step |-> "check", call |-> call, entry |-> e, category |-> c, code |-> code, enabled |-> enabled,
          was |-> entries[e].code]]
    /\ entryEdits' = entryEdits + 1
    /\ UNCHANGED <<categories, entries, uses, picks, mixed>>

(* The code against the other entries, and the references: of an entry to  *)
(* be deleted, or whose code is to differ from the one that was read.      *)
CheckEdit(d) ==
    /\ editors[d].step = "check"
    /\ LET t == editors[d]
           codeFree == t.call # "delete" => EntryCodeFree(t.entry, t.category, t.code)
           asked == t.call = "delete" \/ (t.call = "update" /\ t.code # t.was)
       IN  editors' = [editors EXCEPT ![d] = IF codeFree /\ (asked => ~Referenced(t.entry)) THEN [t EXCEPT !.step = "save"]
                                             ELSE IdleEditor]
    /\ UNCHANGED <<categories, entries, uses, picks, entryEdits, mixed>>

(* save writes every column that differs from the row, its deletion        *)
(* included; a code taken meanwhile breaks the unique key.                 *)
SaveEdit(d) ==
    /\ editors[d].step = "save"
    /\ EntryShared(editors[d].entry)
    /\ LET t == editors[d] IN
       entries' = IF t.call = "delete" THEN [entries EXCEPT ![t.entry].live = FALSE]
                  ELSE IF ~EntryCodeFree(t.entry, t.category, t.code) THEN entries
                  ELSE [entries EXCEPT ![t.entry] =
                         [category |-> t.category, code |-> t.code, enabled |-> t.enabled, live |-> TRUE]]
    /\ editors' = [editors EXCEPT ![d] = IdleEditor]
    /\ UNCHANGED <<categories, uses, picks, entryEdits, mixed>>

-----------------------------------------------------------------------------
(* A record names an entry that is enabled, of the category its column     *)
(* requires.  It is read first and written later.                          *)
Valid(s, e) ==
    /\ entries[e].live /\ entries[e].enabled
    /\ categories[entries[e].category].live
    /\ categories[entries[e].category].code = Required(s)

PickEntry(s, e) ==
    /\ s # "tour"
    /\ picks[s] = NoPick
    /\ uses[s].entry # e
    /\ entries[e] # NoEntry
    /\ Valid(s, e)
    /\ picks' = [picks EXCEPT ![s] = [entry |-> e, row |-> entries[e]]]
    /\ UNCHANGED <<categories, entries, uses, editors, entryEdits, mixed>>

UnderEdit(e) == \E d \in EntryEditors : editors[d].entry = e

WriteUse(s) ==
    /\ picks[s] # NoPick
    /\ LET e == picks[s].entry IN
       /\ uses' = [uses EXCEPT ![s] = [entry |-> e, code |-> picks[s].row.code]]
       /\ mixed' = IF UnderEdit(e) \/ entries[e] # picks[s].row THEN mixed \union {s} ELSE mixed \ {s}
    /\ picks' = [picks EXCEPT ![s] = NoPick]
    /\ UNCHANGED <<categories, entries, editors, entryEdits>>

(* The transaction of the record is refused for another reason.            *)
DropPick(s) ==
    /\ picks[s] # NoPick
    /\ picks' = [picks EXCEPT ![s] = NoPick]
    /\ UNCHANGED <<categories, entries, uses, editors, entryEdits, mixed>>

(* A tour takes the country of the inquiry it is opened from, unread.      *)
OpenTourWith(s) ==
    /\ s \in Sources \intersect {"inquiry", "website"}
    /\ "tour" \in Sources
    /\ uses[s] # NoUse
    /\ uses["tour"] = NoUse
    /\ uses' = [uses EXCEPT !["tour"] = uses[s]]
    /\ mixed' = IF s \in mixed THEN mixed \union {"tour"} ELSE mixed
    /\ UNCHANGED <<categories, entries, picks, editors, entryEdits>>

DictionaryNext ==
    \/ \E c \in Categories, code \in CategoryCodes, builtIn \in BOOLEAN : CreateCategory(c, code, builtIn)
    \/ \E c \in Categories, code \in CategoryCodes : RecodeCategory(c, code)
    \/ \E c \in Categories : DeleteCategory(c)
    \/ \E d \in EntryEditors, call \in {"create", "update", "delete"}, e \in Entries, c \in Categories,
          code \in EntryCodes, enabled \in BOOLEAN : BeginEdit(d, call, e, c, code, enabled)
    \/ \E d \in EntryEditors : CheckEdit(d) \/ SaveEdit(d)
    \/ \E s \in Sources, e \in Entries : PickEntry(s, e)
    \/ \E s \in Sources : WriteUse(s) \/ DropPick(s) \/ OpenTourWith(s)

-----------------------------------------------------------------------------
(* A direct ledger is written with the country as it is at that moment,    *)
(* still to be chosen, however long its transaction took.                  *)
LedgerPickCurrent ==
    "ledger" \in Sources =>
       (picks["ledger"] # NoPick => entries[picks["ledger"].entry] = picks["ledger"].row
                                      /\ Valid("ledger", picks["ledger"].entry))

(* A record that was written while nobody edited its entry names a live    *)
(* entry of a live category ever after, and keeps the code the entry has,  *)
(* whichever categories and entries are created, recoded and deleted.      *)
UsesStand ==
    \A s \in Sources \ mixed : uses[s] # NoUse =>
       LET row == entries[uses[s].entry] IN
       row.live /\ row.code = uses[s].code /\ categories[row.category].live /\ categories[row.category].code = Required(s)

(* What the records of the system take from the dictionaries.              *)
DictionarySound == LedgerPickCurrent /\ UsesStand

-----------------------------------------------------------------------------
(* What makes DictionarySound inductive.                                   *)

Codes == EntryCodes \union {"", "CN"}
CategoryRow == [code : CategoryCodes \union {"", "country-region", "city-airport"},
                builtIn : BOOLEAN, live : BOOLEAN]
EntryRow == [category : Categories \union {0}, code : Codes, enabled : BOOLEAN, live : BOOLEAN]
Edit == [step : {"check", "save"}, call : {"create", "update", "delete"}, entry : Entries,
         category : Categories, code : Codes, enabled : BOOLEAN, was : Codes]

DictionaryTypes ==
    /\ categories \in [Categories -> CategoryRow]
    /\ entries \in [Entries -> EntryRow]
    /\ \A e \in Entries : entries[e].live => entries[e].category \in Categories
    /\ uses \in [Sources -> [entry : Entries \union {0}, code : Codes]]
    /\ picks \in [Sources -> [entry : Entries \union {0}, row : EntryRow]]
    /\ editors \in [EntryEditors -> {IdleEditor} \union Edit]

(* The category whose entries a column names.                              *)
Home(s) == IF s \in {"departure", "arrival"} THEN 2 ELSE 1

(* The built-in categories stay, and their codes are nobody else's.        *)
HomesStay ==
    /\ categories[1] = [code |-> "country-region", builtIn |-> TRUE, live |-> TRUE]
    /\ categories[2] = [code |-> "city-airport", builtIn |-> TRUE, live |-> TRUE]
    /\ \A c \in Categories : /\ categories[c].code = "country-region" => c = 1
                             /\ categories[c].code = "city-airport" => c = 2

PicksSound ==
    \A s \in Sources : picks[s] # NoPick =>
       picks[s].entry \in Entries /\ picks[s].row.live /\ picks[s].row.category = Home(s)

(* Whoever edits an entry that a record names has read it as it is, and    *)
(* saves neither another code nor its deletion.                            *)
UsesHeld ==
    \A s \in Sources \ mixed : uses[s] # NoUse =>
       LET row == entries[uses[s].entry] IN
       /\ uses[s].entry \in Entries
       /\ row.live /\ row.code = uses[s].code /\ row.category = Home(s)
       /\ \A d \in EntryEditors : editors[d].entry = uses[s].entry =>
             /\ editors[d].call # "create"
             /\ editors[d].was = row.code /\ editors[d].category = row.category
             /\ editors[d].step = "save" => editors[d].call = "update" /\ editors[d].code = row.code

DictionaryInv == DictionaryTypes /\ HomesStay /\ PicksSound /\ UsesHeld /\ LedgerPickCurrent
=============================================================================
