--------------------------- MODULE ResourceLibrary ---------------------------
(***************************************************************************)
(* One table of the resource library: hotels, restaurants, attractions,    *)
(* transports, guide prices or cities.  Each row has a business code that  *)
(* a user types or next_business_code draws from a counter; some services  *)
(* draw it in the transaction of the insert, others in statements of their *)
(* own.  An update locks its row and compares the version its client has   *)
(* loaded; a deletion compares none.  Units, coordinates and all columns   *)
(* that nothing is decided by are left out.                                *)
(***************************************************************************)
EXTENDS Integers, FiniteSets

CONSTANTS
    Items,          \* rows, as naturals
    TypedCodes,     \* codes a user may type, as naturals from 1
    Areas,          \* names of cities
    NoArea,
    Librarians,     \* requests that may be open together
    MaxCode,        \* bound: codes drawn
    MaxRequests     \* bound: requests

ASSUME TypedCodesAssumption == TypedCodes \subseteq Nat \ {0}

VARIABLES
    kind,           \* which table this is
    library,        \* its rows
    lastCode,       \* business_code_counters.last_value
    areas,          \* the enabled cities
    librarians,
    requests        \* requests so far

libraryVars == <<kind, library, lastCode, areas, librarians, requests>>

(* What sets the services apart: may a code be typed, has a row a city,    *)
(* and is the code drawn in the transaction of the insert?                 *)
Hotels == [typed |-> TRUE,  area |-> TRUE,  transaction |-> FALSE]
Restaurants == [typed |-> TRUE,  area |-> TRUE,  transaction |-> TRUE]
Attractions == [typed |-> TRUE,  area |-> TRUE,  transaction |-> TRUE]
Transports == [typed |-> TRUE,  area |-> FALSE, transaction |-> FALSE]
GuidePrices == [typed |-> FALSE, area |-> FALSE, transaction |-> TRUE]
CityRows == [typed |-> TRUE,  area |-> FALSE, transaction |-> FALSE]

Kinds == {Hotels, Restaurants, Attractions, Transports, GuidePrices, CityRows}

NoItem == [code |-> 0, typed |-> FALSE, area |-> NoArea, version |-> 0, live |-> FALSE]

IdleLibrarian == [step |-> "idle"]

LibraryInit ==
    /\ kind \in Kinds
    /\ areas \in SUBSET Areas
    /\ \E first \in IF kind.area THEN Areas ELSE {NoArea} :
          library = [i \in Items |-> IF i = 1
              THEN [code |-> 1, typed |-> kind.typed, area |-> first, version |-> 1, live |-> TRUE]
              ELSE NoItem]
    /\ lastCode = IF kind.typed THEN 0 ELSE 1
    /\ librarians = [l \in Librarians |-> IdleLibrarian]
    /\ requests = 0

AreasFor == IF kind.area THEN Areas ELSE {NoArea}

CodesFor == {0} \cup (IF kind.typed THEN TypedCodes ELSE {})

Unused == {i \in Items : library[i] = NoItem}

Creating == {l \in Librarians : librarians[l].step # "idle" /\ librarians[l].call = "create"}

(* validateCity: an empty city, the one the row has, or an enabled one.    *)
AreaAllowed(area, before) == area \in {NoArea, before} \cup areas

(* Deleted rows keep their codes. *)
CodeAvailable(code, row) == \A i \in Items \ {row} : library[i].code # code

(* The rows whose lock a transaction holds.                                *)
HeldItems(l) ==
    LET r == librarians[l]
    IN  IF r.step \in {"area", "save"} \/ (r.step = "available" /\ r.call = "update") THEN {r.row}
        ELSE IF r.step = "delete" THEN r.held ELSE {}

ItemFree_Always(l, i) == TRUE

ItemFree(l, i) == \A o \in Librarians \ {l} : i \notin HeldItems(o)

(* A draw in a transaction holds the counter's row until the end.          *)
HoldsCounter(l) ==
    /\ kind.transaction
    /\ librarians[l].step \in {"available", "insert"}
    /\ librarians[l].auto

Go(l, request, step) == librarians' = [librarians EXCEPT ![l] = [request EXCEPT !.step = step]]

OpenRequest(l, request) ==
    /\ librarians[l].step = "idle"
    /\ requests < MaxRequests
    /\ librarians' = [librarians EXCEPT ![l] = request]
    /\ requests' = requests + 1

CloseRequest(l) == librarians' = [librarians EXCEPT ![l] = IdleLibrarian]

(* A refusal undoes the draw of its own transaction and no other.          *)
Refuse(l) ==
    /\ lastCode' = IF HoldsCounter(l) THEN librarians[l].before ELSE lastCode
    /\ CloseRequest(l)
    /\ UNCHANGED library

-----------------------------------------------------------------------------
(* create: the city, the code, whether the code is free, the insert.       *)
BeginCreateItem(l, code, area) ==
    /\ Cardinality(Creating) < Cardinality(Unused)
    /\ AreaAllowed(area, NoArea)
    /\ OpenRequest(l,
         [step |-> IF code = 0 THEN "highest" ELSE "available", call |-> "create",
          row |-> 0, code |-> code, auto |-> code = 0, area |-> area, highest |-> 0, before |-> 0])
    /\ UNCHANGED <<kind, library, lastCode, areas>>

(* next_business_code: the highest code of the table, in one statement ... *)
ReadHighest(l) ==
    /\ librarians[l].step = "highest"
    /\ \E h \in {library[i].code : i \in Items} :
          /\ \A i \in Items : library[i].code <= h
          /\ librarians' = [librarians EXCEPT ![l].highest = h, ![l].step = "draw"]
    /\ UNCHANGED <<kind, library, lastCode, areas, requests>>

NextCode_HighestOnly(l) == librarians[l].highest + 1

NextCode(l) ==
    LET h == librarians[l].highest
    IN  IF h > lastCode THEN h + 1 ELSE lastCode + 1

(* ... and the upsert of the counter in the next, which waits for the      *)
(* counter's row and reads it again.                                       *)
DrawCode(l) ==
    /\ librarians[l].step = "draw"
    /\ \A o \in Librarians \ {l} : ~HoldsCounter(o)
    /\ NextCode(l) <= MaxCode
    /\ lastCode' = NextCode(l)
    /\ librarians' = [librarians EXCEPT ![l].code = NextCode(l), ![l].before = lastCode,
                                        ![l].step = "available"]
    /\ UNCHANGED <<kind, library, areas, requests>>

(* ensureCodeAvailable *)
CheckItemCode(l) ==
    /\ librarians[l].step = "available"
    /\ LET r == librarians[l]
       IN  IF CodeAvailable(r.code, r.row)
           THEN /\ Go(l, r, IF r.call = "create" THEN "insert" ELSE "save")
                /\ UNCHANGED <<library, lastCode>>
           ELSE Refuse(l)
    /\ UNCHANGED <<kind, areas, requests>>

InsertItem(l) ==
    /\ librarians[l].step = "insert"
    /\ LET r == librarians[l]
       IN  IF CodeAvailable(r.code, 0)
           THEN /\ \E i \in Unused :
                      /\ \A j \in Unused : i <= j
                      /\ library' = [library EXCEPT ![i] =
                           [code |-> r.code, typed |-> ~r.auto, area |-> r.area,
                            version |-> 1, live |-> TRUE]]
                /\ CloseRequest(l)
                /\ UNCHANGED lastCode
           ELSE Refuse(l)
    /\ UNCHANGED <<kind, areas, requests>>

-----------------------------------------------------------------------------
(* update: the client has loaded the row; 0 leaves the code as it is.      *)
BeginUpdateItem(l, i, code, area) ==
    /\ library[i].live
    /\ OpenRequest(l,
         [step |-> "lock", call |-> "update", row |-> i, code |-> code, auto |-> FALSE,
          area |-> area, seen |-> library[i]])
    /\ UNCHANGED <<kind, library, lastCode, areas>>

(* requireResourceForUpdate and assertVersion *)
LockItem(l) ==
    /\ librarians[l].step = "lock"
    /\ LET r == librarians[l]
       IN  /\ ItemFree(l, r.row)
           /\ IF library[r.row].live /\ library[r.row].version = r.seen.version
              THEN Go(l, r, "area")
              ELSE CloseRequest(l)
    /\ UNCHANGED <<kind, library, lastCode, areas, requests>>

(* A code that is not sent stays as it is.                                 *)
CheckArea(l) ==
    /\ librarians[l].step = "area"
    /\ LET r == librarians[l]
           row == library[r.row]
       IN  IF AreaAllowed(r.area, row.area)
           THEN Go(l, [r EXCEPT !.code = IF @ = 0 THEN row.code ELSE @], "available")
           ELSE CloseRequest(l)
    /\ UNCHANGED <<kind, library, lastCode, areas, requests>>

(* save writes nothing when no column differs, that of the editor included. *)
SaveItem(l) ==
    /\ librarians[l].step = "save"
    /\ LET r == librarians[l]
           row == library[r.row]
           changed == [row EXCEPT !.code = r.code, !.typed = row.typed \/ r.code # row.code,
                                  !.area = r.area]
       IN  IF CodeAvailable(r.code, r.row)
           THEN /\ \E up \in IF changed = row THEN {0, 1} ELSE {1} :
                      library' = [library EXCEPT ![r.row] = [changed EXCEPT !.version = @ + up]]
                /\ CloseRequest(l)
                /\ UNCHANGED lastCode
           ELSE Refuse(l)
    /\ UNCHANGED <<kind, areas, requests>>

-----------------------------------------------------------------------------
(* delete: the rows are found unlocked, then updated in any order, then    *)
(* deleted softly; each of the two statements raises their versions.       *)
BeginDeleteItems(l, rows) ==
    /\ \A i \in rows : library[i].live
    /\ OpenRequest(l,
         [step |-> "delete", call |-> "delete", rows |-> rows, held |-> {}])
    /\ UNCHANGED <<kind, library, lastCode, areas>>

MarkItem(l, i) ==
    /\ librarians[l].step = "delete"
    /\ i \in librarians[l].rows \ librarians[l].held
    /\ ItemFree(l, i)
    /\ librarians' = [librarians EXCEPT ![l].held = @ \cup {i}]
    /\ UNCHANGED <<kind, library, lastCode, areas, requests>>

RemoveItems(l) ==
    /\ librarians[l].step = "delete"
    /\ librarians[l].held = librarians[l].rows
    /\ library' = [i \in Items |-> IF i \in librarians[l].rows
                      THEN [library[i] EXCEPT !.live = FALSE, !.version = @ + 2]
                      ELSE library[i]]
    /\ CloseRequest(l)
    /\ UNCHANGED <<kind, lastCode, areas, requests>>

(* A lost connection, or the victim of a deadlock.                         *)
AbandonRequest(l) ==
    /\ librarians[l].step # "idle"
    /\ Refuse(l)
    /\ UNCHANGED <<kind, areas, requests>>

(* A city is enabled, disabled or deleted.                                 *)
ToggleArea(area) ==
    /\ kind.area
    /\ areas' = IF area \in areas THEN areas \ {area} ELSE areas \cup {area}
    /\ UNCHANGED <<kind, library, lastCode, librarians, requests>>

LibraryNext ==
    \/ \E l \in Librarians :
          \/ \E code \in CodesFor, area \in AreasFor :
                \/ BeginCreateItem(l, code, area)
                \/ \E i \in Items : BeginUpdateItem(l, i, code, area)
          \/ ReadHighest(l) \/ DrawCode(l) \/ CheckItemCode(l) \/ InsertItem(l)
          \/ LockItem(l) \/ CheckArea(l) \/ SaveItem(l)
          \/ \E rows \in SUBSET Items \ {{}} : BeginDeleteItems(l, rows)
          \/ \E i \in Items : MarkItem(l, i)
          \/ RemoveItems(l) \/ AbandonRequest(l)
    \/ \E area \in Areas : ToggleArea(area)

-----------------------------------------------------------------------------
(* A drawn code belongs to nobody else: whatever draws are under way, are  *)
(* undone or have been, an automatic creation can only be refused for a    *)
(* code that somebody typed.                                               *)
DrawnCodesFree ==
    \A l \in Librarians :
        LET r == librarians[l]
        IN  (r.step \in {"available", "insert"} /\ r.auto) =>
              /\ \A i \in Items : library[i].code = r.code => library[i].typed
              /\ \A o \in Librarians \ {l} :
                    ~(/\ librarians[o].step \in {"available", "insert"}
                      /\ librarians[o].auto /\ librarians[o].code = r.code)

(* When an update is saved the row is still, in every column, the one its  *)
(* client has loaded, and not deleted.                                     *)
SavedAsSeen ==
    \A l \in Librarians : librarians[l].step = "save" =>
        library[librarians[l].row] = librarians[l].seen

(* Two creators of resources never draw the same code, and an update never *)
(* overwrites or revives what its client has not seen.                     *)
ResourcesSound == DrawnCodesFree /\ SavedAsSeen

-----------------------------------------------------------------------------
(* What makes ResourcesSound inductive.                                    *)

LibraryRow == [code : Nat, typed : BOOLEAN, area : Areas \cup {NoArea}, version : Nat, live : BOOLEAN]

CreateRequest == [step : {"highest", "draw", "available", "insert"}, call : {"create"}, row : {0},
                  code : Nat, auto : BOOLEAN, area : Areas \cup {NoArea}, highest : Nat, before : Nat]

UpdateRequest == [step : {"lock", "area", "available", "save"}, call : {"update"}, row : Items,
                  code : Nat, auto : {FALSE}, area : Areas \cup {NoArea}, seen : LibraryRow]

DeleteRequest == [step : {"delete"}, call : {"delete"}, rows : SUBSET Items, held : SUBSET Items]

LibraryTypes ==
    /\ kind \in Kinds
    /\ library \in [Items -> LibraryRow]
    /\ lastCode \in Nat
    /\ librarians \in [Librarians -> {IdleLibrarian} \cup CreateRequest \cup UpdateRequest \cup DeleteRequest]

(* Drawn codes lie below the counter, also below what a refusal would set  *)
(* it back to.                                                             *)
CounterSound ==
    /\ \A i \in Items : ~library[i].typed => library[i].code <= lastCode
    /\ \A l \in Librarians : (librarians[l].step \in {"available", "insert"} /\ librarians[l].auto) =>
          librarians[l].code <= lastCode
    /\ \A l \in Librarians : HoldsCounter(l) =>
          /\ \A i \in Items : ~library[i].typed => library[i].code <= librarians[l].before
          /\ \A o \in Librarians \ {l} : ~HoldsCounter(o)

RowsLocked == \A l, o \in Librarians : l # o => HeldItems(l) \cap HeldItems(o) = {}

(* A version stands for one content of its row.                            *)
SeenKept ==
    /\ \A i \in Items : library[i].live => library[i].version > 0
    /\ \A l \in Librarians : librarians[l] \in UpdateRequest =>
          LET r == librarians[l]
          IN  /\ r.seen.version > 0
              /\ r.seen.version <= library[r.row].version
              /\ r.seen.version = library[r.row].version => library[r.row] = r.seen
              /\ r.step # "lock" => library[r.row] = r.seen

LibraryInv == LibraryTypes /\ DrawnCodesFree /\ CounterSound /\ RowsLocked /\ SeenKept
=============================================================================
