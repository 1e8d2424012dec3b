# updex: TLA+ specifications

updex manages systemd-sysext images: it reads `.feature` and `.transfer`
definitions, downloads versioned images, stages them in per-transfer
directories, keeps one link per image in systemd-sysext's extension directory,
and asks systemd-sysext to merge what the links reach. It is a Go library with
a CLI around it, and a systemd timer that runs the same update command every
day. Nothing of this takes a lock, most of it may fail half way, and all of it
must survive being killed: that is what these specifications are about.

    SysextDir ──── Staging ──── MCStaging         features update | enable | disable
        │             └─ View == INSTANCE ImageService
        └───────── Catalog ──── MCCatalog         catalog add | remove
                   Fetching ─── MCFetching        manifests, signatures, downloads
                   Daemon ───── MCDaemon          daemon enable | disable
                   Domain ───── MCDomain          the definitions and their drop-in
                   ListCache ── MCListCache       catalog list | search
                   VersionOrder MCVersionOrder    which version is the newest

    SysextDirProofs ┬ StagingProofs
                    └ CatalogProofs
    FetchingProofs, DaemonProofs, DomainProofs, ListCacheProofs, VersionOrderProofs

To check one run: `tlc -config StagingCommands.cfg MCStaging`; to check the proofs of
a module: `tlapm StagingProofs.tla`. `PROJECT.json` maps every definition to the
lines it models.

## Inventory

| component | state it keeps | operations | talks to | module |
|---|---|---|---|---|
| image staging (`updex/features.go`, `install.go`, `sysext/manager.go`) | staging directories, sysext links, legacy CurrentSymlinks, the merge state in `/run/extensions` | `UpdateFeatures`, `EnableFeature`, `DisableFeature` | domain, manifests, downloads, systemd-sysext | `Staging` over `SysextDir` |
| catalog transactions (`updex/catalog.go`, `catalog/catalog.go`) | generated `.transfer` and `.feature`, the drop-in, in-memory snapshots and backup files | `CatalogAdd` with its `rollback()` closure, `CatalogRemove` | catalog repository, image staging | `Catalog` |
| manifests (`manifest/`, `updex/list.go`) | the run's cache of fetched manifests | `Fetch`, `verifySignature`, `getAvailableVersions` | HTTP server, OpenPGP keyring | `Fetching` |
| downloads (`download/`, `internal/retry/`) | temporary files, the image's final name | `Download`, `decompress`, `copyFile`, `retry.Do` | HTTP server, file system | `Fetching` |
| daemon (`updex/daemon.go`, `systemd/`) | two unit files; systemd's enabled, active and loaded state | `EnableDaemon`, `DisableDaemon`, `DaemonStatus` | systemctl; what it starts is a job of `Staging` | `Daemon` |
| definition domain (`updex/domain.go`, `config/`) | none of its own: it reads definitions in every search root and writes `00-updex.conf` | `loadDomain`, `writeFeatureDropIn` | administrators, packages | `Domain` |
| version order (`version/pattern.go`, `updex/list.go`) | none | `Compare`, `Sort`, the candidates of an update | used by staging, manifests and the read-only commands | `VersionOrder` |
| catalog listing cache (`catalog/cache.go`, `CatalogList` of `updex/catalog.go`) | one file per catalog: the listing, its URL, ETag and age | `CachedListIn`, `loadListCache`, `saveListCache` | HTTP server, the wall clock, other clients of the file | `ListCache` |
| read-only commands | none | `CheckFeatures`, `CatalogList`, `DaemonStatus`, `Features`, `Components` | everything above | `UpdateAvailable` in `Staging`, `ListCache`, `Status` in `Daemon`; the last two not modelled |
| command line (`cmd/updex`) | none | flags, output, prompts | | not modelled |

What is hard in each, and what makes it correct:

* **Image staging.** The daemon and operators run commands at once over the same
  directories. A command lists a directory and acts on the list later; it picks
  a link's target and renames the link later; a disable detaches the whole host
  before it removes one feature's images. It is correct when a link never
  dangles while one command runs at a time, when what several vacuums remove
  together is never the last, newest or protected image, when success is
  truthful, and when updates repair whatever a crash or a race left.
* **Catalog transactions.** Five kinds of objects change and each step may fail;
  the rollback restores them from snapshots in reverse order. Correct: exact
  rollback, complete success, no image without a definition, no enabling
  drop-in without a feature, nobody else's file touched.
* **Manifests and downloads.** The server publishes file by file while a run
  reads, transfers share a cached manifest with different requirements, and a
  download passes through up to three temporary files. Correct: what requires a
  signature has one, what is under a target name is whole, nothing temporary
  stays, transient failures are masked, and a run ends.
* **Daemon.** Installing is two renames and three systemctl calls, racing with
  other clients. Correct: success means scheduled or gone, an install is all or
  nothing and replaces nothing, a disable always clears the way.
* **Domain.** Which of many files of a name counts depends on root, scope and
  masks; the write must go where the next read looks; one broken file fails a
  whole load. Correct: reads and writes agree, masks hold, an administrator's
  drop-in decides, a broken file stops the commands of its scope and no other.
* **Listing cache.** Any number of clients read and rewrite one file without a
  lock, while the listing, its URL and the clock change. Correct: nobody is
  shown another URL's listing, an old one that is not called stale, or an older
  one than before; and a listing that was once fetched is there when offline.
* **Version order.** Three orders in one relation, over text that publishers
  choose. Correct: dpkg's rules where one version is Debian's, and an update
  that selects the newest of its candidates and nothing below `MinVersion`.

`PROJECT.json` lists the individual hazards, at their lines, with the
properties that cover them or the reason why none does.

## Conventions

Every module has one action per call that changes shared state (or per read
that another process can fall behind), with a label in `pc` naming where the
command is. Failure is an action of its own: `Fault(k)` consumes one of
`MaxFaults` failures of a kind in `Faults`, so the counter bounds crashes,
reboots and errors together. Failures that follow from the state (an empty
manifest, a listed file another process removed) are free. Commands and changes
of the environment consume `MaxOps`, `MaxRuns`, `MaxCommands` or `MaxEdits`.

A definition marked "Slip" in its comment is not part of any specification. It
is a plausible mistake in the definition that follows it (a dropped guard, the
wrong order, an unreported failure). `PROJECT.json` says which property fails
when a Slip takes its place; every checked property is paired with one.

`CHECK_DEADLOCK FALSE` appears where an idle system with its operations used up
has stopped (Catalog, Daemon, Fetching, Domain, ListCache). The Staging runs
keep the deadlock check, since an update can always begin again, and so does
VersionOrder.

## Staging

State: `staged`, `link`, `legacy`, `merged`, `enabled` are the host; `avail` is
what sources list; `proc[p]` holds process `p`'s command and its Go locals
(`dom` the loaded domain, `feats` and `todo` the loops' rests, `target` the
selected version, `fresh` whether it was installed and current, `choice` the
link target picked, `doomed` what a listing said to remove).

| code | actions |
|---|---|
| `UpdateFeatures` loop, refresh | `Begin`, `NextFeature`, `NextImage`, `Refresh`, `RefreshFails`, `FinishWithoutRefresh` |
| `installTransfer` | `Fetch`, `Inspect`, `RemoveLegacy`, `VerifyLink`, `Download`, then the link and the vacuum |
| `LinkToSysextAt` | `PickTarget`, `RenameLink`, `RenameFails` |
| `VacuumAt` | `ScanVacuum`, `VacuumOne`, `VacuumEnds` |
| `EnableFeature`, `DisableFeature` | `WriteDropIn`, `CheckMerged`, `CheckBlind`, `Unmerge`, `Unlink` |
| `RemoveAllVersionsAt` | `ReadStaging`, `PurgeLegacy`, `PurgeOne`, `PurgeDone`, `PurgeFails` |
| the world | `Crash`, `Reboot`, `Release` |

Versions are ranks `1 .. MaxVersion` in `version.Compare`'s order. Files of one
version that several patterns match count as one image. A download is one
action here: `Fetching` opens it up.

`ImageService` is the abstract specification: per image, the version behind its
link. It may be replaced by a newer one in one step, and go away only while an
operator removes it. `Staging` refines it with `served <- ServedNow` (what the
links reach) and `removing <- Removing` (images of running `disable --now`
commands); the property is `ImplementsImageService`.

### Runs

| run | instance | shows |
|---|---|---|
| `staging_commands` | one process with updates (with and without vacuum and refresh), enables and disables with `--now`, and a forced disable of the first feature; two images, one with InstancesMax 1, a protected version and perhaps a CurrentSymlink, one with InstancesMax 0 (meaning 2) that two features share; 3 versions, 2 failures of any kind but blind checks and failing unlinks, 3 operations | `LinkNeverDangles`, `RetentionBound`, `SuccessMeansServed`, `SuccessMeansRemoved`, `ForceRequired`, `ImplementsImageService` |
| `staging_installs` | the daemon and an operator update and enable at once, 3 versions, 1 failure | `InstallsKeepNewest`, `ProtectedKept` |
| `staging_live` | the daemon races an operator's enables and disables over an image that may have a CurrentSymlink, 1 failure of any kind, under `FairSpec` | `Converges`, `CommandsReturn` |
| `staging_plan` | no failures | `PlanIsWhatVacuumRemoves` is violated (below) |

`Converges` says that once failures and commands stop, the updates leave every
wanted image linked and served, and that `CheckFeatures` (`UpdateAvailable`,
which is what the CLI and an operator go by) then offers no update: the check
and the update agree on what is installed and current.

The bounds: three versions and InstancesMax 1 with a protected version make the
vacuum keep, protect and remove in one directory; a release may withdraw the
newest version, leave a gap or be empty, so upgrades, downgrades and failing
fetches all occur. Two features that share an image make a disable leave alone
what the other wants, and let an update fail on one image and go on to the next.
Two failures let a crash follow an error in the same or the repairing command.
Two processes are the daemon and one operator; three operations let an operator
enable, disable and a source change in one behaviour.

`LinkNeverDangles` and the `SuccessMeans...` properties are stated for one
command at a time because they are false otherwise, by design of the code: with
two processes a picked link target may be vacuumed before the rename, and a
disable may empty what an update has just reported. What holds with several is
checked and proved apart: `InstallsKeepNewest`, `ProtectedKept`, `Converges`.

Fairness (`FairSpec`): weak fairness of each process's command steps - every
wait in a command is bounded, since HTTP clients have timeouts (30 s manifests,
10 min images) and `retry.Do` a fixed number of attempts - and weak fairness of
`Begin` for processes that may update, as the persistent timer starts the
service again every day. Nothing is assumed of operators, sources or failures.

## Catalog

Two catalogs may write to one component. One action per write: the two
definitions, the snapshot, the drop-in (through `EnableFeature`), the images,
the link, the vacuum, the refresh; `undoNew` to `undoDirs` are the rollback
closure in its order; `check` to `rmDropIn` are `CatalogRemove` over
`DisableFeature`. `before` is a history variable, all the command found when it
began. `Prior` reads the snapshots from it: in the model no other process runs
between a command's start and its snapshots, which is the assumption the code
makes too. `Edit` is an operator's own definition of the same name, `Publish` a
conf or a version that appears or goes. A remove tears down what
`loadDomain` still finds of the feature: the generated transfer's image and
those of an operator's own transfers (`OthersIn`, empty in the runs), and those
alone once the generated transfer is gone (`Targets`). Within one add the
install is coarser than in `Staging`: a vacuum is one action, of which any newest-first part may
have happened when it fails.

| run | instance | shows |
|---|---|---|
| `catalog` | two catalogs that share a component, no drop-in directory that is a symlink (below), 2 revisions, 2 versions, 3 failures at any label or crashes, 3 operations | `FailedAddRestores`, `AddIsComplete`, `RemoveIsComplete`, `ImagesAreManaged`, `NoArmedDropIn`, `OneOwner`, `ForeignUntouched` |
| `catalog_vacuum` | only the vacuum fails | `EveryFailureRollsBack` is violated |

Two failures let a rollback fail after the step that started it (the property
then exempts what was reported: `broken`), a third lets a crash follow that.
Three operations are an add, a publication or edit, and a second command.

## Fetching

A build stands for an image's bytes and their hash; build 2 is an unsigned
rebuild of build 1's version, build 3 a signed new version. `Publish` uploads
image, manifest and signature separately, in any order, while a run reads. The
cache is `getAvailableVersions`'s: a verified manifest serves every transfer of
its source, an unverified one only those that do not verify. `OpenTemp` to
`CopyFails` are `download.Download` with the three temporary files it may have
at once; `PowerLoss` loses whatever was not synced.

Run `fetching`: three transfers of one source (plain, packed, verified) in two
orders, 3 builds, 3 attempts, 2 runs, any number of transient failures, 2 other
failures, crashes or power losses. Sharing needs two transfers, and three give
a reader of the cache before and after the verifying one; with 3 attempts the
off-by-one on either side shows. Checked: `VerifiedMeansSigned`,
`TargetIsWhole`, `OneVerifiedManifest`, `NoTempLeft`, `TransientIsMasked` and,
under weak fairness of the client's own steps (its HTTP requests time out),
`RunEnds`.

## Daemon

`timer` and `service` are what is at the two unit paths: nothing, updex's own
file, another regular file, or something else. `wants`, `active` and `known` are
systemd's: enabled, running, and the unit as last read. `Begin` is the existence
check; `CheckTimer` to `Reload` are `Manager.Install`, `EnableTimer` and
`StartTimer` follow it in `EnableDaemon`; `Stop` to `Unload` are
`Manager.Remove`, whose failures are joined and never stop it. `by` is a history
variable: what others changed since the command began.

Run `daemon`: two clients, 2 failures, 4 operations, next to crashes, reboots
and an operator's edits. Two clients suffice for the check-then-rename window
and the cleanup race; four operations are an enable and a disable of each or
edits between them. Checked: `EnabledIsScheduled`, `DisabledIsGone`,
`InstallAllOrNothing`, `DisableUnblocks`, `InstallNeverReplaces`. Removing a
file is not among the failures: no property can hold of a path that cannot be
removed, and `DisableUnblocks` says so in its premise.

## Domain

One name, in each search root and scope. `Collect` is `collectConfigFiles`
(first occurrence claims a name, a mask too), `Applied` is
`applyFeatureDropIns`, `LoadFeature` and `LoadTransfer` are the union of
`LoadAllFeaturesIn`, `LoadFails` is a load that meets a file it cannot parse, and
a domain of `{}` is `--definitions`. Recursion
over roots, scopes and drop-ins is written as recursive functions.

Run `domain`: 2 roots, the legacy directory and 2 components, one drop-in after
updex's own, 1 command and 2 edits in any order, on top of what one package
ships. Two of everything is what precedence needs; 2 edits can shadow, mask,
break or pin a definition before, during or after the command. Checked:
`EnableTakesEffect`, `MaskHolds`, `UnionIsMostSpecific`, `BrokenIsContained`,
`AdministratorDecides`.

## ListCache

A listing is the URL it was served at and its revision there. A client's call is
`Load`, `Send`, the server's `Answer`, then one of `Receive`,
`ReceiveNotModified`, `FetchFails`, `Cancel` and `TimesOut`, and `Open` and
`Write` of the file, which `os.WriteFile` empties before it writes: others read
it empty, and a second writer may leave a torn one. `now` is real time and `skew`
what the wall clock is off by; the code sees only their sum. `gone`, `floor`
and `upset` are history variables.

| run | instance | shows |
|---|---|---|
| `list_cache` | 2 clients, 2 URLs, TTL 2, a timeout of 1, one revision with an ETag and one without, 1 change of a listing, 1 fault (a failed request or write, an undue 304, a cancel, a crash, a changed URL, a clock that is set), 3 calls, time up to 3 | `ServedIsRecent`, `NeverGoesBack` |
| `list_timeout` | no faults | `OfflineServesStale` is violated (below) |

Two clients overlap in the file, a third call reads what they have left; time 3
is past the TTL of an entry and long enough for a slow answer on top of it. What
is recent allows for the answer's delay, and says nothing after the clock was
set back or the server has answered 304 to a request without an ETag. A listing
may go back between calls that overlap; `NeverGoesBack` is about calls after one
that ran alone.

## VersionOrder

`Compare` over sequences of bytes: `Verrevcmp` and `SplitDebian` are translated
loop by loop, as recursive functions. `Update` is the choice `installTransfer`
makes among `getAvailableVersions`. Against `Compare` stands a definition of
dpkg's order of its own (`Words`, `Before`), which reads a version as words and
numbers instead of byte by byte.

Three libraries decide with it, and are external definitions. `ParseInt` is
strconv's: one sign, and an error beyond `MaxInt`, so `+2:1` has the epoch 2 and
a colon after too large a number is no epoch's. `SemVer` and `CompareSemVer` are
go-version's (v1.9.0 in `go.mod`, not vendored): which dotted prereleases, lone
dashes and leading letters it parses, numbers padded to three, prereleases
compared identifier by identifier - a missing one below a number but above a
word - and only if the numbers are equally many. Build metadata needs no case: a
`+` makes a version Debian's before go-version sees it. `Fronts` is what
`slices.SortFunc` may bring to the front: an insertion sort of up to
`MaxInsertion` (12) elements, of more any of the largest, and any element at all
if the comparison is no order. In the code that choice is a function of the list;
the model leaves it open.

Where may a source rely on the order? `Uniform` says it: versions of one kind
(Debian's, SemVer, neither) and, for SemVer, built alike - equally many numbers
where there are prereleases, equally many identifiers, one way to write each
number, none beyond `MaxInt`. Each condition is the code's:

* over several kinds the relation has cycles: `b` exceeds `1.9` and `v1.1` exceeds
  `b` as strings, `1.9` exceeds `v1.1` as SemVer;
* `1.0.0.0-a` equals `1.0`, which exceeds `1.0-a`;
* `1.0-a` exceeds `1.0-a.b`, which exceeds `1.0-a.1`, which exceeds `1.0-a`;
* `1.0-01` and `1.0-1` are each below the other.

What is sorted first then depends on the other versions. The total order that
Staging, Catalog and Fetching assume of versions therefore stands for sources
that publish a uniform set, no two of which compare equal (as `1.0` and `1.00`
do).

Run `version_order`: every two of 61 versions, with three values of MinVersion:
all of one and two bytes over `0`, `1`, `a` and `~`, and longer ones that differ
in one rule each (epochs and what only looks like one, revisions, leading zeros,
dots, prereleases of one and two identifiers, numbers, words, a lone dash,
leading letters). More than two are published at once (`FewAtOnce`, a state
constraint) only of the longer ones: three, which transitivity needs, of Debian's,
of SemVer's or of the others, and four of one release and its prereleases. `MaxInt` is 99, so that three
digits overflow; `MaxInsertion` is 3, so that four versions are sorted without
stability. Checked: `CompareIsDpkg` for every pair of which one is Debian's;
`NewestIsSelected` for uniform sets. Without one of the conditions of `Alike` TLC
finds `NewestIsSelected` violated.

## What is proved

Each theorem holds for every value of the constants that satisfies the module's
assumption (`MaxVersionAssumption`, `StagingAssumption`, `FetchingAssumption`,
`DaemonAssumption`, `CatalogAssumption`, `DomainAssumption`,
`ListCacheAssumption`, `VersionOrderAssumption`: types of the constants, nonempty versions and features, at
least one attempt, versions ascending with builds). Two assumptions say more: a
loaded domain lists every feature (`FeatureOrder`), and an order lists each
transfer once, as the definitions are collected by name (`byName`,
`config/transfer.go:131`). No theorem bounds the number of processes, images,
features, clients, URLs, search roots, components, failures or operations, nor
the length of a version.

* `StagingProofs!TypeCorrect`: `Spec => []TypeOK`. `TypeOK` is inductive as it
  stands because it also says that a command inside `installTransfer` has a
  transfer at hand and, where one is used, a selected version.
* `StagingProofs!SequentialLinkNeverDangles`: for one process and unlinks
  that do not fail, `Spec => []LinkNeverDangles`. The invariant `LinkInv` adds
  what the command knows between its steps: the picked target is still the
  newest image, after the rename the link names it, a vacuum's list does not
  contain it, and after an unlink there is no link. The lemma `NewestIsKept`
  carries the vacuum, `NewestIsGreatest` the sorted listing.
* `StagingProofs!ProtectedStays`: `Spec => ProtectedKept`, for any
  number of processes and any commands: a vacuum's list excludes the protected
  version when it is made, and nothing adds to it.
* `StagingProofs!NewestStays`: where no process is given a disable,
  `Spec => InstallsKeepNewest`. The invariant is `OlderInv`: for everything a
  process has decided to remove, something newer is staged *now*. It survives
  the removals of other processes since what they remove is itself older than
  something staged. (With a disable in between it is false: the disable may
  have removed what made the list's entries old.)
* In the second part of `StagingProofs`, for one process, from one inductive invariant
  `SoloInv`. Its heart is `LoopInv`: as long as nothing failed, every image the
  command is to handle is `Pending` - in the transfers at hand, or of a feature
  still to come - or has been `Reached`. `HeadInv` says what is known of the
  transfer at hand, and so of it when it is done with (`DoneIsReached`); no step
  touches another transfer (`OtherImages`), and when nothing is pending, all is
  reached (`OutcomeInv`).
  * `SuccessServes` and `SuccessRemoves`: what an update, an enable and a disable
    that return without an error have done. The second needs unlinks that do not
    fail, as a failed unlink is only warned of; the first needs nothing.
  * `VacuumsKeepToTheBound`: `RetentionBound`. What is staged and not on the
    vacuum's list is of rank below InstancesMax, and `FewAreFirst` counts it: the
    oldest of these has fewer than InstancesMax above it, and the others are.
  * `ForceIsRequired`: from `CheckedInv`, for a merge state that can be read. That
    a disable without `--force` takes no image behind a CurrentSymlink holds even
    where it cannot.
  * `SequentialRefinement`: `Spec => ImplementsImageService`, for unlinks that do
    not fail. Only `RenameLink` and `Unlink` change what is served
    (`StagingKeepsServed`): a rename upgrades, because `LinkInv` makes the new
    target the newest image and the old one staged; an unlink withdraws, because
    `KindInv` says that a disable is only ever at work on the images of its own
    feature.
* `FetchingProofs`: `FetchingTypes`, `InstalledIsSigned`, `InstalledIsWhole`,
  `TempFilesGo`, from one inductive invariant: what the cache and the run hold
  as verified is signed (`SourceInv`), a run past the signature has a verified
  manifest if its transfer needs one (`RunInv`), a temporary file has the
  manifest's build and is on disk from where it is complete (`TempInv`), and
  so is what has been renamed (`TargetInv`).
* `FetchingProofs!VerifiedIsShared` and `TransientFailuresMasked` are about what a
  run remembers (`HistInv`). A transfer that was verified has left its manifest in
  the cache, and a cached verified manifest is never replaced in that run
  (`UsedInv`). While nothing but transient failures has happened, the sources are
  as consistent as when the run began, what it holds is what they publish, and
  each further attempt has used up a failure (`CalmInv`).
* `DaemonProofs`: `DaemonTypes`, and `InstallReplacesNothing`
  (`Spec => InstallNeverReplaces`) from `CheckedInv`: past a check, and unless an
  operator has edited since, there is at that path nothing or updex's own file.
* `DaemonProofs!EnableSchedules`, `DisableRemoves`, `InstallIsWhole` and
  `FailedDisableUnblocks`, for any number of clients, reboots and edits, from
  `KeptInv`: at each label, and after a return, what this client's own calls have
  brought about still stands, unless one of the calls that undo it is among what
  happened since the client began (`by`).
* `CatalogProofs!CatalogTypes`: `Spec => []TypeInv`. Beyond types it says that a
  command at a label about an image has one, with a version where one is used.
* `CatalogProofs!OneOwnerAlways` and `ForeignUntouchedAlways`, for any catalogs,
  components, images, commands and failures: from `OwnerInv`, which says that
  while a command runs, the definitions of its name in its component are its own
  or were there when it began, so that what it writes, restores or deletes is
  nobody else's.
* `CatalogProofs!NoArmedDropInAlways`: no enabling drop-in without its feature,
  unless a failed rollback was reported. `ArmInv` follows the order of the
  writes: the feature is there from before the drop-in is written until after
  it is restored or disabled.
* `CatalogProofs!FailedAddRestoresAlways`: a failed add leaves the world as it
  found it, unless it reported that it could not. `RestoreInv` says at each label
  what differs from `before` - nothing but this command's definitions and image,
  each from the step that writes it to the step that restores it - and that the
  snapshot is of the add's beginning. Its two assumptions are stated in the
  theorem: no drop-in directory is a symlink, and the generated transfer is the
  feature's only one; without either the property is false (below).
* `CatalogProofs!ImagesAreManagedAlways`, under the same assumptions: no orphan,
  after any crash. `ManagedInv` needs the rollback's exactness: at `UndoTransfer`
  the image is already what it was when the add began, and so was managed then.
* `CatalogProofs!AddIsCompleteAlways`, without these assumptions, from `AddInv`:
  what an add has written is still there, and an image its loop has gone past is
  linked at the newest, which a vacuum keeps (`NewestIsKept`, `NewestSurvives`).
* `CatalogProofs!RemoveIsCompleteAlways`: from `RemoveInv` (what is deleted stays
  deleted) and `ImagesAreManaged`.

* `DomainProofs`: `EnableIsLoaded`, `AdministratorKeepsDeciding`, `MasksHold`,
  `UnionGoesToTheMostSpecific` and `BrokenStaysContained`, for any number of search
  roots, components and drop-in names. The recursions over roots, scopes and
  drop-ins are given a meaning first: a recursive function over `1 .. n` exists
  (its graph, by a least counterexample with `WFMin`) and returns the last element
  that is not left out (`LastReplaces`). From there masks and unions are about
  smallest roots and largest scopes. `LoadedInv` carries what the command loaded to
  its write: an edit in between is all that may change it.
* `ListCacheProofs`: `RecentIsServed` and `ListingsNeverGoBack`, from `IInv`: every
  entry in the file or in a client's hands is `Sound` (of the URL it names, existing
  there, no older than what a lone call has returned, superseded for no longer than
  its age and the timeout), every answer on its way was the listing when its request
  was sent or later, and a call that runs alone does so.

* `VersionOrderProofs!DpkgOrderOfVersions`, and with it `ComparesAsDpkg`
  (`Spec => []CompareIsDpkg`): between any two sequences of bytes of which one
  looks like Debian's, `Compare` is dpkg's order. The functions by recursion over
  bytes and the folds are given a meaning first, as in `DomainProofs`
  (`RecursionExists`, `FoldExists`, by a least counterexample). The walk of
  `Verrevcmp` and the order of `Words` meet in a third reading (`Ranks`): words as
  sequences of ranks continued by the end's, and numbers as values, in turn. `FirstByteDecides` and
  `FirstNumberDecides` say that one turn of verrevcmp's walk decides as that order
  does, or leaves the rest to decide; the walk then is the order by induction over
  the bytes left (`VerrevcmpIsOrder`). That a longer run of digits without zeros in
  front is a larger number, and digits decide between two of one length, is proved
  of `Value` on the way (`NumbersCompare`).
* `VersionOrderProofs!CompareIsPreorder`: on any uniform set of versions `Compare`
  is a total preorder. Each of the three branches compares keys in a strict order
  (`OrderOfKeys`) or goes on to a next comparison (`ThenIsComparison`); go-version's
  identifiers are ordered by their number or else as strings (`PartsAreOrdered`),
  and lists of them, as long as each other, by the first difference. Without the
  conditions it is false (above).
* `VersionOrderProofs!SelectsTheNewest`: `Spec => []NewestIsSelected`, from the
  invariant `Selecting`: finitely many versions are available and an answer is the
  selection among them. `ListedAscends` says that the candidates can be listed by
  the alphabet (and so what `CHOOSE` stands for), `FirstOfSorted` what an
  insertion sort by a preorder brings to the front, and `FrontsAreNewest` what any
  sort does. That equals are decided by the alphabet is claimed of up to
  `MaxInsertion` candidates only.

Only model-checked: the liveness properties `Converges`, `CommandsReturn` and
`RunEnds`, as the provers have no rule for fairness. Every other property of a
passing run is stated by a theorem. The theorems of `StagingProofs` that name a
hypothesis are false without it: TLC finds, for two processes, an update that
relinks what a disable removes.

## Where the code and its documents differ

* `staging_plan`: `PlanVacuumAfterInstall` treats the version to install as
  active and announces nothing; the real vacuum has no active version without a
  CurrentSymlink. When a source has withdrawn its newest version, the install
  downloads an older one and its vacuum removes it again - and every later
  update downloads it again.
* `catalog_vacuum`: a vacuum that fails during `catalog add` is only warned of;
  the documents list vacuum among the failures that roll back.
* `list_timeout`: a listing whose request times out fails, although an expired
  entry is at hand: the HTTP client's timeout is a `context.DeadlineExceeded` to
  `errors.Is`, and `CachedListIn` takes it for the caller's. The README promises
  that an expired cache is served when offline.

Noticed while modelling, and not stated as properties: an unreadable
`/run/extensions` lets `disable --now` unmerge and remove an active image without
`--force` (`features.go:333`, against `docs/design/overview.md:496`); an add that
is refused because its drop-in directory is a symlink removes the symlink in its
rollback (`catalog.go:273`, against the comment above it); over sets of versions
that are not uniform `Compare` is not transitive; `version.Sort` is
`slices.SortFunc`, which promises no stability and has none beyond twelve elements,
while `list.go:70-72`, `docs/specs/config-reference.md:254` and
`docs/design/overview.md:477` call it stable (the selection is still reproducible,
as the list is sorted first and the sort's random numbers depend on its length alone, but among more
than twelve candidates it need not be the first of equals); in a rollback the new
image is removed before the link is restored, so a crash between them leaves a
dangling link until the next update; rollback backups are deleted also when
restoring from them failed, and stay behind after a crash, as do a killed run's
download files; an add installs every transfer that names the feature but
snapshots only the generated one; two components that add one name share staging
directory and link, so removing one removes the other's images; a
`DisableDaemon` whose stop fails leaves a timer running that is reported as not
installed (it reports failure, and a retry finds nothing to disable); a cleanup
after a failed service write may remove the timer file another enable has just
written; a rebuilt image of an installed version is never fetched; a manifest
whose transfer failed is fetched again by the next transfer; an enable with
`--definitions` writes a drop-in that a load with `--definitions` does not read;
a component's masked transfer lets a legacy one of the same name come back.

## What is not modelled, and why

* Dry runs, `Features`, `Components`: they change nothing and report what
  operators of `Domain` and `Staging` compute (`DaemonStatus` is the operator
  `Status`, `CheckFeatures` is `UpdateAvailable`, the vacuum plan `PlanRemoves`).
* The command line: flags, output and prompts around the library calls.
* Parsing of definitions, manifests and patterns, and unit file text: text. A
  definition file parses or is broken, with the error's effect on the load.
* OpenPGP and decompression: libraries; a signature is of one manifest or not,
  data unpacks or not.
* `RequisiteFeatures`: parsed and shown, but not applied by `UpdateFeatures`.
* How `slices.SortFunc` sorts more than twelve elements: an open choice
  (`Fronts`), which shows what does hold and cannot show that equals do come out
  in another order; hence no run about its stability.
* A client with no cache directory, or a catalog with no ListURL: they list
  without a cache, as `--no-cache` does but for the save.
* A catalog add next to the daemon's updates: `Catalog` runs one command at a
  time, and what the daemon does to one image is in `Staging`.

## Plan

Built so far, in this order: SysextDir, Staging with ImageService, Catalog,
Daemon, Fetching, Domain, ListCache, VersionOrder; the proofs of all of them.

Next, models: Catalog with a second transfer of the feature and with a component
per catalog, its backups as files, and the daemon's updates between the steps of
an add; what does hold of an update that a `disable --now` overtakes.

Next, proofs: that Fetching's and Catalog's installs keep what `StagingProofs`
shows of several processes.
