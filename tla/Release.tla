------------------------------ MODULE Release ------------------------------
(***************************************************************************)
(* Releasing the backend on its host: scripts/prepare_release.py builds or *)
(* reuses an image, scripts/deploy.py migrates the database, switches the  *)
(* container, records the result, rolls back and cleans up.  One operation *)
(* at a time holds the build lock.  A command may fail, and the process or *)
(* its host may be killed between any two steps; files, images, database   *)
(* and container survive.                                                  *)
(*                                                                         *)
(* An image stands for the commit it is built from, a release for one run  *)
(* of the workflow.                                                        *)
(***************************************************************************)
EXTENDS Integers, FiniteSets

CONSTANTS
    Images,
    Manifest(_),        \* image -> its migrations, each with its content
    Breaking,           \* BREAKING_MIGRATIONS
    None,
    FirstImage,         \* the image a running environment is bootstrapped with
    KillPoints,         \* the steps before which the process may be killed
    RecentReleases,     \* how many verified releases cleanup keeps: 3
    MaxRelease          \* bound: releases

ASSUME ImagesAssumption == FirstImage \in Images /\ None \notin Images
ASSUME NoneAssumption == None \notin Nat

VARIABLES
    migrated,   \* database: migration -> the content that ran
    confirmed,  \* the migrations an operator confirmed as compatible
    stateFile,  \* state.json
    records,    \* releases/*.json: release -> [image, status]
    images,     \* the images Docker has
    container,  \* the image the API container runs, or None: stopped
    deployer,   \* the operation in progress
    lastRelease

releaseVars ==
    <<migrated, confirmed, stateFile, records, images, container, deployer, lastRelease>>

NoOperation == [at |-> "idle"]

Current == stateFile.current

(* What is new, over what there was. *)
Over(new, old) ==
    [x \in DOMAIN new \cup DOMAIN old |-> IF x \in DOMAIN new THEN new[x] ELSE old[x]]

Running(op, at) == deployer' = [op EXCEPT !.at = at]

EndOperation == deployer' = NoOperation

Applied == DOMAIN migrated

Destructive(migrations) == migrations \cap Breaking # {}

(* check_schema: the target can serve this database, given what the state  *)
(* file says of the past.                                                  *)
Supports(target, database) ==
    /\ \A m \in database \cap DOMAIN target \cap DOMAIN stateFile.history :
          target[m] = stateFile.history[m]
    /\ ~Destructive(database \ DOMAIN target)
    /\ database \ DOMAIN target \subseteq stateFile.compatible

Pending(target) == DOMAIN target \ Applied

(* review_migrations: the operator names exactly what is pending. *)
Reviewed(target, named) ==
    /\ Supports(target, Applied)
    /\ ~Destructive(Pending(target))
    /\ Pending(target) = named

-----------------------------------------------------------------------------
(* A running environment right after bootstrap, or production before its   *)
(* first release, with or without an initialised database.                 *)
ReleaseInit ==
    /\ confirmed = {}
    /\ images = {FirstImage}
    /\ deployer = NoOperation
    /\ \/ /\ stateFile = [current |-> 1, previous |-> None,
                          history |-> Manifest(FirstImage), compatible |-> {}]
          /\ records = [r \in {1} |-> [image |-> FirstImage, status |-> "verified"]]
          /\ migrated = Manifest(FirstImage)
          /\ container = FirstImage
          /\ lastRelease = 1
       \/ /\ stateFile = [current |-> None, previous |-> None,
                          history |-> <<>>, compatible |-> {}]
          /\ records = <<>>
          /\ migrated \in {<<>>, Manifest(FirstImage)}
          /\ container = None
          /\ lastRelease = 0

(* prepare: the compiled manifest is reviewed before the image is built.   *)
BeginDeploy ==
    /\ deployer.at = "idle"
    /\ lastRelease < MaxRelease
    /\ \E image \in Images : \E named \in {{}, Pending(Manifest(image))} :
          /\ Reviewed(Manifest(image), named)
          /\ deployer' = [at |-> "build", image |-> image, named |-> named,
                          release |-> lastRelease + 1]
    /\ lastRelease' = lastRelease + 1
    /\ UNCHANGED <<migrated, confirmed, stateFile, records, images, container>>

(* The image is built, or found as it was built before; the branch and the *)
(* review are checked again before the deployment begins.                  *)
BuildImage ==
    /\ deployer.at = "build"
    /\ images' = images \cup {deployer.image}
    /\ IF Reviewed(Manifest(deployer.image), deployer.named)
       THEN Running(deployer, "publish")
       ELSE EndOperation
    /\ UNCHANGED <<migrated, confirmed, stateFile, records, container, lastRelease>>

(* publish, up to its migrations. *)
RefusedFirst(target) == Current = None /\ Applied # DOMAIN target

Publish ==
    /\ deployer.at = "publish"
    /\ IF RefusedFirst(Manifest(deployer.image))
       THEN EndOperation /\ UNCHANGED confirmed
       ELSE /\ Running(deployer, IF deployer.named = {} THEN "record" ELSE "migrate")
            /\ confirmed' = confirmed \cup deployer.named
    /\ UNCHANGED <<migrated, stateFile, records, images, container, lastRelease>>

(* migration:run in one transaction. *)
Migrate ==
    /\ deployer.at = "migrate"
    /\ \/ /\ migrated' = Over(migrated, Manifest(deployer.image))
          /\ Running(deployer, "migrated")
       \/ EndOperation /\ UNCHANGED migrated
    /\ UNCHANGED <<confirmed, stateFile, records, images, container, lastRelease>>

(* A migration that is in the state file without having run is never       *)
(* forgotten; new content replaces old content.                            *)
WithHistory(target) == Over(target, stateFile.history)

SaveMigrated ==
    /\ deployer.at = "migrated"
    /\ stateFile' = [stateFile EXCEPT !.compatible = @ \cup deployer.named,
                                      !.history = WithHistory(Manifest(deployer.image))]
    /\ Running(deployer, "record")
    /\ UNCHANGED <<migrated, confirmed, records, images, container, lastRelease>>

(* The image to restore when the candidate fails: none when the previous   *)
(* application no longer supports the database.                            *)
RollbackImage_Unchecked ==
    IF Current # None THEN records[Current].image ELSE None

RollbackImage ==
    IF Current = None THEN None
    ELSE LET previous == records[Current].image
             old == Manifest(previous)
         IN  IF /\ Supports(old, Applied)
                /\ Pending(old) = {}
             THEN previous
             ELSE None

RecordPending ==
    /\ deployer.at = "record"
    /\ records' = [r \in DOMAIN records \cup {deployer.release} |->
                      IF r = deployer.release
                      THEN [image |-> deployer.image, status |-> "pending"]
                      ELSE records[r]]
    /\ deployer' = [at |-> "activate", image |-> deployer.image, restore |-> RollbackImage,
                    release |-> deployer.release, kind |-> "deploy"]
    /\ UNCHANGED <<migrated, confirmed, stateFile, images, container, lastRelease>>

-----------------------------------------------------------------------------
(* rollback: to the previous or to a named release. *)
BeginRollback ==
    /\ deployer.at = "idle"
    /\ Current # None
    /\ \E r \in 1 .. MaxRelease :
          /\ r \in DOMAIN records
          /\ records[r].status = "verified"
          /\ Supports(Manifest(records[r].image), Applied)
          /\ Pending(Manifest(records[r].image)) = {}
          /\ records[r].image \in images
          /\ deployer' = [at |-> "activate", image |-> records[r].image,
                          restore |-> records[Current].image, release |-> r,
                          kind |-> "rollback"]
    /\ UNCHANGED <<migrated, confirmed, stateFile, records, images, container, lastRelease>>

(* activate_or_restore: compose up, then wait for health.  Either may      *)
(* fail, before or after the container is replaced.                        *)
Activate ==
    /\ deployer.at = "activate"
    /\ \/ container' = deployer.image /\ Running(deployer, "healthy")
       \/ container' \in {container, deployer.image} /\ Running(deployer, "restore")
    /\ UNCHANGED <<migrated, confirmed, stateFile, records, images, lastRelease>>

Restore ==
    /\ deployer.at = "restore"
    /\ container' \in {container, deployer.restore}
    /\ Running(deployer, "failed")
    /\ UNCHANGED <<migrated, confirmed, stateFile, records, images, lastRelease>>

RecordFailed ==
    /\ deployer.at = "failed"
    /\ records' = IF deployer.kind = "deploy"
                  THEN [records EXCEPT ![deployer.release].status = "failed"]
                  ELSE records
    /\ EndOperation
    /\ UNCHANGED <<migrated, confirmed, stateFile, images, container, lastRelease>>

RecordVerified ==
    /\ deployer.at = "healthy"
    /\ records' = IF deployer.kind = "deploy"
                  THEN [records EXCEPT ![deployer.release].status = "verified"]
                  ELSE records
    /\ Running(deployer, "switch")
    /\ UNCHANGED <<migrated, confirmed, stateFile, images, container, lastRelease>>

SwitchState ==
    /\ deployer.at = "switch"
    /\ stateFile' = [stateFile EXCEPT
          !.previous = Current, !.current = deployer.release,
          !.history = IF deployer.kind = "deploy" THEN WithHistory(Manifest(deployer.image))
                      ELSE @]
    /\ deployer' = [at |-> "clean"]
    /\ UNCHANGED <<migrated, confirmed, records, images, container, lastRelease>>

-----------------------------------------------------------------------------
(* cleanup_plan: the current and the previous release, the last verified   *)
(* ones and those whose image a container uses are kept.                   *)
Verified == {r \in DOMAIN records : records[r].status = "verified"}

Recent == {r \in Verified : Cardinality({s \in Verified : s > r}) < RecentReleases}

Protected_RecentOnly ==
    Recent \cup {r \in DOMAIN records : records[r].image = container}

Protected ==
    ({Current, stateFile.previous} \ {None})
    \cup Recent
    \cup {r \in DOMAIN records : records[r].image = container}

ProtectedImages == {container} \cup {records[r].image : r \in Protected \cup Verified}

(* Each removal may fail and end the cleanup. *)
RemoveImages ==
    /\ deployer.at = "clean"
    /\ \E gone \in SUBSET Images :
          /\ gone \subseteq images \ ProtectedImages
          /\ images' = images \ gone
          /\ deployer' = [at |-> "unlink", keep |-> Protected]
    /\ UNCHANGED <<migrated, confirmed, stateFile, records, container, lastRelease>>

RemoveRecords ==
    /\ deployer.at = "unlink"
    /\ records' = [r \in DOMAIN records \cap deployer.keep |-> records[r]]
    /\ EndOperation
    /\ UNCHANGED <<migrated, confirmed, stateFile, images, container, lastRelease>>

(* The process or the host is killed, or a command fails where nothing is  *)
(* caught.                                                                 *)
KillDeployer ==
    /\ deployer.at \in KillPoints
    /\ EndOperation
    /\ UNCHANGED <<migrated, confirmed, stateFile, records, images, container, lastRelease>>

(* A breaking migration runs under a maintenance plan of its own: writes   *)
(* are stopped with the API, which only a release starts again.            *)
Maintain ==
    /\ deployer.at = "idle"
    /\ \E image \in Images :
          /\ Destructive(Pending(Manifest(image)))
          /\ Applied \subseteq DOMAIN Manifest(image)
          /\ migrated' = Over(migrated, Manifest(image))
    /\ container' = None
    /\ UNCHANGED <<confirmed, stateFile, records, images, deployer, lastRelease>>

ReleaseNext ==
    \/ BeginDeploy \/ BuildImage \/ Publish \/ Migrate \/ SaveMigrated \/ RecordPending
    \/ BeginRollback \/ Activate \/ Restore \/ RecordFailed \/ RecordVerified \/ SwitchState
    \/ RemoveImages \/ RemoveRecords \/ KillDeployer \/ Maintain

-----------------------------------------------------------------------------
(* The application of an image can work on the database: of the migrations *)
(* its code does not know, none is destructive and an operator confirmed   *)
(* each.                                                                   *)
Serves(image) ==
    LET unknown == Applied \ DOMAIN Manifest(image)
    IN  /\ unknown \cap Breaking = {}
        /\ unknown \subseteq confirmed

(* Whatever failed, was killed or rolled back, the container that runs     *)
(* serves the database it finds.                                           *)
SchemaServed == container # None => Serves(container)

(* The release in use and the one before it can be rolled back to: cleanup *)
(* never takes their records or images, and both were healthy once.        *)
ReleasesKept ==
    \A r \in {Current, stateFile.previous} \ {None} :
        /\ r \in Verified
        /\ records[r].image \in images

-----------------------------------------------------------------------------
(* What makes ReleasesKept inductive, and with ServingInv SchemaServed.    *)
Migrations == UNION {DOMAIN Manifest(i) : i \in Images}

DeploySteps == {"build", "publish", "migrate", "migrated", "record"}
ActivateSteps == {"activate", "restore", "failed", "healthy", "switch"}

Deploying ==
    [at : DeploySteps, image : Images, named : SUBSET Migrations, release : Nat]

Activating ==
    [at : ActivateSteps, image : Images, restore : Images \cup {None}, release : Nat,
     kind : {"deploy", "rollback"}]

Cleaning == [at : {"clean"}] \cup [at : {"unlink"}, keep : SUBSET Nat]

ReleaseTypes ==
    /\ DOMAIN stateFile = {"current", "previous", "history", "compatible"}
    /\ lastRelease \in Nat
    /\ DOMAIN records \subseteq 1 .. lastRelease
    /\ \A r \in DOMAIN records :
          records[r] \in [image : Images, status : {"pending", "failed", "verified"}]
    /\ images \subseteq Images
    /\ container \in Images \cup {None}
    /\ deployer \in {NoOperation} \cup Deploying \cup Activating \cup Cleaning

(* A deployment has reviewed exactly what is pending, and its release is   *)
(* new.                                                                    *)
DeploymentSound(d) ==
    /\ d.release = lastRelease /\ d.release > 0 /\ d.release \notin DOMAIN records
    /\ d.at # "build" =>
          /\ d.image \in images /\ Serves(d.image)
          /\ d.at \in {"publish", "migrate"} => Pending(Manifest(d.image)) = d.named
          /\ d.at \in {"migrated", "record"} => Pending(Manifest(d.image)) = {}
          /\ d.named \cap Breaking = {}
          /\ d.at \in {"migrate", "migrated"} => d.named \subseteq confirmed

(* What is being activated is recorded, built and fit for the database.    *)
ActivationSound(d) ==
    /\ d.release \in DOMAIN records /\ records[d.release].image = d.image
    /\ d.image \in images /\ Serves(d.image)
    /\ Pending(Manifest(d.image)) = {}
    /\ IF d.kind = "rollback" \/ d.at = "switch"
       THEN d.release \in Verified
       ELSE records[d.release].status = "pending"

(* What was healthy once had all its migrations.                           *)
VerifiedApplied == \A r \in Verified : Pending(Manifest(records[r].image)) = {}

ReleaseInv ==
    /\ ReleaseTypes
    /\ stateFile.compatible \subseteq confirmed
    /\ VerifiedApplied
    /\ deployer.at \in DeploySteps => DeploymentSound(deployer)
    /\ deployer.at \in ActivateSteps => ActivationSound(deployer)
    /\ deployer.at = "unlink" => {Current, stateFile.previous} \ {None} \subseteq deployer.keep
    /\ ReleasesKept

(* As long as some verified release serves the database, the current one   *)
(* does, unless the switch to the other is the very next step.             *)
CurrentServes ==
    \A r \in Verified :
        Serves(records[r].image) /\ ~(deployer.at = "switch" /\ r = deployer.release) =>
            Current # None /\ Serves(records[Current].image)

ServingInv ==
    /\ SchemaServed
    /\ deployer.at \in ActivateSteps =>
          deployer.restore = None \/ Serves(deployer.restore)
    /\ CurrentServes
=============================================================================
