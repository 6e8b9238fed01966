-------------------------- MODULE AgencyHierarchy --------------------------
(***************************************************************************)
(* The two-level tree of travel agencies and its contacts, edited by       *)
(* concurrent transactions: src/resources/agencies/agencies.service.ts.    *)
(* A statement of a transaction is a step.  Rows are locked FOR UPDATE one *)
(* at a time and released at the end; a statement that has its lock reads  *)
(* the row as last committed (READ COMMITTED).  PostgreSQL ends a          *)
(* transaction that closes a cycle of waiting ones.                        *)
(*                                                                         *)
(* An agency's full name starts with its parent's: it is the sequence of   *)
(* the short names on the way down.                                        *)
(***************************************************************************)
EXTENDS Integers, Sequences, FiniteSets

CONSTANTS
    Agencies,           \* the ids of agencies, in the order their rows are locked
    NoAgency,
    ShortNames,
    AgencyWriters       \* the transactions, each of which runs once

AgencyRow == [parent : Agencies \cup {NoAgency}, name : Seq(ShortNames), enabled : BOOLEAN,
              version : Nat, deleted : BOOLEAN]

ASSUME AgenciesAssumption == Agencies \subseteq Nat /\ {1, 2} \subseteq Agencies
ASSUME NoAgencyAssumption == NoAgency \notin Agencies \cup AgencyRow

VARIABLES
    agencies,   \* id -> the committed row, or NoAgency
    writers     \* transaction -> [at, op, ...], what it holds and has read

agencyVars == <<agencies, writers>>

IdleWriter == [at |-> "idle", held |-> {}]

LiveAgency(id) ==
    /\ agencies[id] # NoAgency
    /\ ~agencies[id].deleted

ChildrenOf(id) == {c \in Agencies : LiveAgency(c) /\ agencies[c].parent = id}

HeldAgencies == UNION {writers[w].held : w \in AgencyWriters}

(* The row the next statement of a transaction waits for: the rows of a    *)
(* delete are locked in the order of their ids.                            *)
Wanted(w) ==
    LET t == writers[w]
    IN  CASE t.at = "own"      -> {t.id}
          [] t.at = "parent"   -> {t.parent} \ {NoAgency}
          [] t.at = "children" -> ChildrenOf(t.id) \ t.held
          [] t.at = "delete"   -> {i \in t.ids \ t.held : \A j \in t.ids \ t.held : i <= j}
          [] OTHER             -> {}

Blocker(w) == {v \in AgencyWriters \ {w} : Wanted(w) \cap writers[v].held # {}}

AgencyLocked(id) == id \in HeldAgencies

MoveTo(w, at) == writers' = [writers EXCEPT ![w].at = at]

LockAndMove(w, id, at) ==
    writers' = [writers EXCEPT ![w].at = at, ![w].held = @ \cup {id}]

EndWriter(w) == writers' = [writers EXCEPT ![w] = [at |-> "done", held |-> {}]]

AgencyName(short, parent) ==
    IF parent = NoAgency THEN <<short>> ELSE Append(agencies[parent].name, short)

(* requireParent: what is asked of the parent once its row is locked. *)
ParentAllowed(id, oldParent, parent) ==
    parent # NoAgency =>
        /\ parent # id
        /\ LiveAgency(parent)
        /\ agencies[parent].parent = NoAgency
        /\ parent # oldParent => agencies[parent].enabled
        /\ ChildrenOf(id) = {}

-----------------------------------------------------------------------------
(* A parent and its child, both created before, and perhaps a third agency *)
(* at the top; the ids above are free.                                     *)
FirstAgency(parent, name) ==
    [parent |-> parent, name |-> name, enabled |-> TRUE, version |-> 1, deleted |-> FALSE]

AgencyInit ==
    /\ \E s \in ShortNames : \E third \in {NoAgency, FirstAgency(NoAgency, <<s>>)} :
          agencies = [i \in Agencies |->
              CASE i = 1 -> FirstAgency(NoAgency, <<s>>)
                [] i = 2 -> FirstAgency(1, <<s, s>>)
                [] i = 3 -> third
                [] OTHER -> NoAgency]
    /\ writers = [w \in AgencyWriters |-> IdleWriter]

(* create: the parent is locked before it is looked at. *)
BeginCreateAgency(w) ==
    /\ writers[w].at = "idle"
    /\ \E i \in Agencies : \E s \in ShortNames : \E p \in Agencies \cup {NoAgency} :
          /\ agencies[i] = NoAgency
          /\ p # NoAgency => LiveAgency(p)
          /\ writers' = [writers EXCEPT ![w] =
                [at |-> "parent", op |-> "create", id |-> i, parent |-> p, short |-> s,
                 on |-> TRUE, held |-> {}]]
    /\ UNCHANGED agencies

(* update: the row itself, then its parent, then, renamed, its children.   *)
(* The client sends the version of the row it has seen.                    *)
BeginUpdateAgency(w) ==
    /\ writers[w].at = "idle"
    /\ \E i \in Agencies : \E s \in ShortNames : \E p \in Agencies \cup {NoAgency} :
       \E on \in BOOLEAN :
          /\ LiveAgency(i)
          /\ writers' = [writers EXCEPT ![w] =
                [at |-> "own", op |-> "update", id |-> i, parent |-> p, short |-> s,
                 on |-> on, seen |-> agencies[i].version, held |-> {}]]
    /\ UNCHANGED agencies

LockOwn(w) ==
    LET t == writers[w]
    IN  /\ t.at = "own"
        /\ ~AgencyLocked(t.id)
        /\ IF LiveAgency(t.id) /\ agencies[t.id].version = t.seen /\ t.parent # t.id
           THEN LockAndMove(w, t.id, "parent")
           ELSE EndWriter(w)
        /\ UNCHANGED agencies

(* requireParent: the row is read under its lock. *)
LockParent_NoLock(w) ==
    LET t == writers[w]
    IN  /\ t.at = "parent"
        /\ t.parent # NoAgency
        /\ MoveTo(w, "write")
        /\ UNCHANGED agencies

LockParent(w) ==
    LET t == writers[w]
    IN  /\ t.at = "parent"
        /\ t.parent # NoAgency
        /\ ~AgencyLocked(t.parent)
        /\ LockAndMove(w, t.parent, "write")
        /\ UNCHANGED agencies

NoParent(w) ==
    /\ writers[w].at = "parent"
    /\ writers[w].parent = NoAgency
    /\ MoveTo(w, "write")
    /\ UNCHANGED agencies

OldParent(t) == IF t.op = "create" THEN NoAgency ELSE agencies[t.id].parent

RefuseAgency(w) ==
    LET t == writers[w]
    IN  /\ t.at = "write"
        /\ ~ParentAllowed(t.id, OldParent(t), t.parent)
        /\ EndWriter(w)
        /\ UNCHANGED agencies

InsertAgency(w) ==
    LET t == writers[w]
    IN  /\ t.at = "write"
        /\ t.op = "create"
        /\ ParentAllowed(t.id, NoAgency, t.parent)
        /\ agencies[t.id] = NoAgency
        /\ agencies' = [agencies EXCEPT ![t.id] =
              FirstAgency(t.parent, AgencyName(t.short, t.parent))]
        /\ EndWriter(w)

(* The code of the row is already taken: ensureCodeAvailable. *)
DuplicateAgency(w) ==
    LET t == writers[w]
    IN  /\ t.at = "write"
        /\ t.op = "create"
        /\ agencies[t.id] # NoAgency
        /\ EndWriter(w)
        /\ UNCHANGED agencies

(* repository.save; a new name goes on to the children. *)
SavedAgency(t) ==
    [agencies[t.id] EXCEPT !.parent = t.parent, !.enabled = t.on, !.version = @ + 1,
                           !.name = AgencyName(t.short, t.parent)]

SaveAgency(w) ==
    LET t == writers[w]
    IN  /\ t.at = "write"
        /\ t.op = "update"
        /\ ParentAllowed(t.id, OldParent(t), t.parent)
        /\ IF SavedAgency(t).name = agencies[t.id].name
           THEN /\ agencies' = [agencies EXCEPT ![t.id] = SavedAgency(t)]
                /\ EndWriter(w)
           ELSE /\ MoveTo(w, "children")
                /\ UNCHANGED agencies

(* The children are locked one by one; a child that left is skipped. *)
LockChild(w) ==
    LET t == writers[w]
    IN  /\ t.at = "children"
        /\ \E c \in Agencies :
              /\ c \in ChildrenOf(t.id) \ t.held
              /\ ~AgencyLocked(c)
              /\ LockAndMove(w, c, "children")
        /\ UNCHANGED agencies

(* Each child keeps what follows the previous name of its parent. *)
Renamed(t, c) ==
    [agencies[c] EXCEPT
        !.name = SavedAgency(t).name
                 \o SubSeq(@, Len(agencies[t.id].name) + 1, Len(@)),
        !.version = @ + 1]

RenameChildren(w) ==
    LET t == writers[w]
    IN  /\ t.at = "children"
        /\ ChildrenOf(t.id) \subseteq t.held
        /\ agencies' = [i \in Agencies |->
              CASE i = t.id -> SavedAgency(t)
                [] i # t.id /\ i \in ChildrenOf(t.id) -> Renamed(t, i)
                [] OTHER -> agencies[i]]
        /\ EndWriter(w)

(* delete: the rows are found before they are locked. *)
BeginDeleteAgencies(w) ==
    /\ writers[w].at = "idle"
    /\ \E ids \in SUBSET Agencies :
          /\ ids # {}
          /\ \A i \in ids : LiveAgency(i)
          /\ writers' = [writers EXCEPT ![w] =
                [at |-> "delete", op |-> "delete", ids |-> ids, held |-> {}]]
    /\ UNCHANGED agencies

LockDeleted(w) ==
    LET t == writers[w]
    IN  /\ t.at = "delete"
        /\ \E i \in Agencies :
              /\ i \in Wanted(w)
              /\ ~AgencyLocked(i)
              /\ LockAndMove(w, i, "delete")
        /\ UNCHANGED agencies

DeleteAgencies(w) ==
    LET t == writers[w]
    IN  /\ t.at = "delete"
        /\ t.ids \subseteq t.held
        /\ IF \E i \in t.ids : ChildrenOf(i) \ t.ids # {}
           THEN UNCHANGED agencies
           ELSE agencies' = [i \in Agencies |->
                   IF i \in t.ids THEN [agencies[i] EXCEPT !.deleted = TRUE]
                   ELSE agencies[i]]
        /\ EndWriter(w)

(* A transaction that waits in a cycle is ended by the database. *)
BreakDeadlock(w) ==
    /\ \E v \in AgencyWriters :
          /\ v \in Blocker(w)
          /\ w \in Blocker(v)
    /\ EndWriter(w)
    /\ UNCHANGED agencies

AgencyStep(w) ==
    \/ BeginCreateAgency(w) \/ BeginUpdateAgency(w) \/ BeginDeleteAgencies(w)
    \/ LockOwn(w) \/ LockParent(w) \/ NoParent(w) \/ RefuseAgency(w)
    \/ InsertAgency(w) \/ DuplicateAgency(w) \/ SaveAgency(w)
    \/ LockChild(w) \/ RenameChildren(w)
    \/ LockDeleted(w) \/ DeleteAgencies(w)
    \/ BreakDeadlock(w)

AgencyNext == \E w \in AgencyWriters : AgencyStep(w)

-----------------------------------------------------------------------------
InTree(i) ==
    LET row == agencies[i]
    IN  IF row.parent = NoAgency THEN Len(row.name) = 1
        ELSE /\ row.parent # i
             /\ LiveAgency(row.parent)
             /\ agencies[row.parent].parent = NoAgency
             /\ Len(row.name) = 2
             /\ SubSeq(row.name, 1, 1) = agencies[row.parent].name

(* Through every interleaving of creations, moves, renames and deletions   *)
(* the tree stays a tree of two levels: a live agency's parent is live and *)
(* at the top, and its name is the parent's current name and its own.      *)
HierarchySound == \A i \in Agencies : LiveAgency(i) => InTree(i)

-----------------------------------------------------------------------------
(* What holds at every step of every transaction, so that no step can      *)
(* break the tree.                                                         *)

CreateWriter ==
    [at : {"parent", "write"}, op : {"create"}, id : Agencies, parent : Agencies \cup {NoAgency},
     short : ShortNames, on : BOOLEAN, held : SUBSET Agencies]

UpdateWriter ==
    [at : {"own", "parent", "write", "children"}, op : {"update"}, id : Agencies,
     parent : Agencies \cup {NoAgency}, short : ShortNames, on : BOOLEAN, seen : Nat,
     held : SUBSET Agencies]

DeleteWriter ==
    [at : {"delete"}, op : {"delete"}, ids : SUBSET Agencies, held : SUBSET Agencies]

AgencyTypes ==
    /\ agencies \in [Agencies -> AgencyRow \cup {NoAgency}]
    /\ writers \in [AgencyWriters -> [at : {"idle", "done"}, held : {{}}]
                       \cup (CreateWriter \cup (UpdateWriter \cup DeleteWriter))]

(* No row is locked by two transactions. *)
LocksApart ==
    \A v, w \in AgencyWriters : v # w => writers[v].held \cap writers[w].held = {}

(* An update holds its own row, which is live; from its first write on it  *)
(* holds the parent, and so does a creation; while it locks the children   *)
(* what it has found out of the parent goes on to hold.  What a deletion   *)
(* has found is not removed from the table.                                *)
WriterSound(w) ==
    LET t == writers[w]
    IN  /\ t.at \in {"parent", "write", "children"} /\ t.op = "update" =>
              t.id \in t.held /\ LiveAgency(t.id)
        /\ t.at \in {"write", "children"} /\ t.parent # NoAgency => t.parent \in t.held
        /\ t.at = "children" /\ t.parent # NoAgency =>
              /\ t.parent # t.id
              /\ LiveAgency(t.parent)
              /\ agencies[t.parent].parent = NoAgency
              /\ ChildrenOf(t.id) = {}
        /\ t.at = "delete" => \A i \in t.ids : agencies[i] # NoAgency

AgencyInv ==
    /\ AgencyTypes
    /\ LocksApart
    /\ \A w \in AgencyWriters : WriterSound(w)
    /\ HierarchySound
=============================================================================
