---------------------------- MODULE BackOffice ----------------------------
(***************************************************************************)
(* Nine parts of the system that stand beside inquiries, tours and direct  *)
(* ledgers: the tree of agencies, the numbers of tours, inspection alerts, *)
(* website reports, visits to the website, the Shengxu ledgers, the        *)
(* business dictionaries, the library of resources and the release of the  *)
(* backend.  The models of two parts share no state, so that their         *)
(* interleavings add nothing: in a behaviour one part steps, the others    *)
(* are shut.                                                               *)
(***************************************************************************)
EXTENDS AgencyHierarchy, TourNumbers, Alerts, WebsiteReport, LynxVisits, ShengxuLedgers, Dictionaries,
        ResourceLibrary, Release

CONSTANT Parts      \* the parts a run looks at

VARIABLE part

backVars == <<part, agencyVars, numberVars, alertVars, reportVars, visitVars,
              shengxuVars, dictionaryVars, libraryVars, releaseVars>>

AgenciesShut ==
    /\ agencies = [i \in Agencies |-> NoAgency]
    /\ writers = [w \in AgencyWriters |-> IdleWriter]

ReportShut ==
    /\ trip = [duration |-> 0, destinations |-> <<>>, days |-> <<>>, prices |-> {}]
    /\ preview = Absent

ShengxuShut ==
    /\ houses = [h \in Houses |-> [name |-> 1, owner |-> Root, status |-> "deleted"]]
    /\ persons = [p \in Persons |-> NoPerson]
    /\ staff = {}
    /\ sheets = [s \in Sheets |-> NoSheet]
    /\ scribes = [w \in LedgerWriters |-> IdleScribe]
    /\ edits = 0

LibraryShut ==
    /\ kind = GuidePrices
    /\ areas = {}
    /\ library = [i \in Items |-> NoItem]
    /\ lastCode = 0
    /\ librarians = [l \in Librarians |-> IdleLibrarian]
    /\ requests = 0

ReleaseShut == ReleaseInit /\ Current = None /\ migrated = <<>>

BackOfficeInit ==
    /\ part \in Parts
    /\ IF part = "agencies" THEN AgencyInit ELSE AgenciesShut
    /\ NumberInit
    /\ AlertInit
    /\ IF part = "reports" THEN ReportInit ELSE ReportShut
    /\ VisitInit
    /\ IF part = "shengxu" THEN ShengxuInit ELSE ShengxuShut
    /\ DictionaryInit
    /\ IF part = "resources" THEN LibraryInit ELSE LibraryShut
    /\ IF part = "release" THEN ReleaseInit ELSE ReleaseShut

AgenciesStep ==
    /\ part = "agencies"
    /\ AgencyNext
    /\ UNCHANGED <<part, numberVars, alertVars, reportVars, visitVars, shengxuVars, dictionaryVars, libraryVars, releaseVars>>

NumbersStep ==
    /\ part = "numbers"
    /\ NumberNext
    /\ UNCHANGED <<part, agencyVars, alertVars, reportVars, visitVars, shengxuVars, dictionaryVars, libraryVars, releaseVars>>

AlertsStep ==
    /\ part = "alerts"
    /\ AlertNext
    /\ UNCHANGED <<part, agencyVars, numberVars, reportVars, visitVars, shengxuVars, dictionaryVars, libraryVars, releaseVars>>

ReportsStep ==
    /\ part = "reports"
    /\ ReportNext
    /\ UNCHANGED <<part, agencyVars, numberVars, alertVars, visitVars, shengxuVars, dictionaryVars, libraryVars, releaseVars>>

VisitsStep ==
    /\ part = "visits"
    /\ VisitNext
    /\ UNCHANGED <<part, agencyVars, numberVars, alertVars, reportVars, shengxuVars, dictionaryVars, libraryVars, releaseVars>>

ShengxuStep ==
    /\ part = "shengxu"
    /\ ShengxuNext
    /\ UNCHANGED <<part, agencyVars, numberVars, alertVars, reportVars, visitVars, dictionaryVars, libraryVars, releaseVars>>

DictionariesStep ==
    /\ part = "dictionaries"
    /\ DictionaryNext
    /\ UNCHANGED <<part, agencyVars, numberVars, alertVars, reportVars, visitVars, shengxuVars, libraryVars, releaseVars>>

ResourcesStep ==
    /\ part = "resources"
    /\ LibraryNext
    /\ UNCHANGED <<part, agencyVars, numberVars, alertVars, reportVars, visitVars, shengxuVars, dictionaryVars, releaseVars>>

ReleaseStep ==
    /\ part = "release"
    /\ ReleaseNext
    /\ UNCHANGED <<part, agencyVars, numberVars, alertVars, reportVars, visitVars, shengxuVars, dictionaryVars, libraryVars>>

BackOfficeNext ==
    \/ AgenciesStep \/ NumbersStep \/ AlertsStep \/ ReportsStep
    \/ VisitsStep \/ ShengxuStep \/ DictionariesStep \/ ResourcesStep \/ ReleaseStep

BackOfficeSpec == BackOfficeInit /\ [][BackOfficeNext]_backVars
=============================================================================
