------------------------------ MODULE SysextDir ------------------------------
(***************************************************************************)
(* What the sysext package computes from one staging directory.           *)
(*                                                                         *)
(* A staging directory holds the images of one transfer.  An image is     *)
(* named by its version, and a version by its rank: 1..MaxVersion in the  *)
(* order version.Compare gives, newest last.  NoVersion is "no link".     *)
(* The operators are pure: Staging decides when each one is evaluated.    *)
(***************************************************************************)
EXTENDS Integers, FiniteSets, FiniteSetsExt

CONSTANT MaxVersion     \* bound: the number of versions a source ever publishes

ASSUME MaxVersionAssumption == MaxVersion \in Nat \ {0}

Versions == 1 .. MaxVersion
NoVersion == 0
VersionOrNone == Versions \cup {NoVersion}

\* The first file of installedVersionFilesAt, which sorts newest first.
Newest(staged) == Max(staged)

\* GetInstalledVersionsAt: the version the legacy CurrentSymlink names, staged
\* or not, else the newest staged image.
CurrentVersion(staged, legacy) ==
    IF legacy # NoVersion THEN legacy
    ELSE IF staged = {} THEN NoVersion ELSE Newest(staged)

\* installTransfer: the selected version is installed and current.
UpToDate(v, staged, legacy) == v \in staged /\ v = CurrentVersion(staged, legacy)

\* LinkIsCurrentAt, when something is staged: the link names the newest image.
LinkIsCurrent(link, staged) == link = Newest(staged)

\* What systemd-sysext finds behind the link: nothing when it dangles.
Served(link, staged) == IF link \in staged THEN link ELSE NoVersion

\* planVacuum's InstancesMax: zero and negative values mean 2.
Retained(instancesMax) == IF instancesMax <= 0 THEN 2 ELSE instancesMax

\* Slip: the list sorted oldest first.
RankOldestFirst(v, staged) == Cardinality({w \in staged : w < v})

\* The position of v in the newest-first list planVacuum walks.
Rank(v, staged) == Cardinality({w \in staged : w > v})

\* Slip: the loop keeps one version too many.
DoomedLate(staged, active, protect, instancesMax) ==
    {v \in staged : /\ v # active
                    /\ v # protect
                    /\ Rank(v, staged) > Retained(instancesMax)}

\* Slip: ProtectVersion is not looked at.
DoomedUnprotected(staged, active, protect, instancesMax) ==
    {v \in staged : v # active /\ Rank(v, staged) >= Retained(instancesMax)}

\* planVacuum: everything but the active version, the protected version and
\* the first InstancesMax of the list.
Doomed(staged, active, protect, instancesMax) ==
    {v \in staged : /\ v # active
                    /\ v # protect
                    /\ Rank(v, staged) >= Retained(instancesMax)}

\* VacuumAt: the active version is the one the legacy symlink names.
VacuumRemoves(staged, legacy, protect, instancesMax) ==
    Doomed(staged, legacy, protect, instancesMax)

\* PlanVacuumAfterInstallAt: v counts as staged and as the active version.
PlanRemoves(staged, v, protect, instancesMax) ==
    Doomed(staged \cup {v}, v, protect, instancesMax)
=============================================================================
