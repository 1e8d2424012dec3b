------------------------------- MODULE Staging -------------------------------
(***************************************************************************)
(* The commands of the SDK that change the host - features update, enable *)
(* and disable - as the processes that run them: the daemon's service, a  *)
(* CLI, an SDK client.  They share the staging directories, the sysext    *)
(* links, the drop-ins and systemd-sysext's merge state, and hold no lock *)
(* on any of it.  One action is one call that changes the file system or  *)
(* runs systemd-sysext, or the reads another process can fall between.    *)
(***************************************************************************)
EXTENDS SysextDir, Sequences

CONSTANTS
    Images,         \* the transfers: one staging directory and one link each
    Features,
    FeatureOrder,   \* the order a loaded domain lists the features in
    ImagesOf,       \* GetTransfersForFeature: feature -> sequence of images
    LegacyImages,   \* the transfers that configure a CurrentSymlink
    InstancesMax,   \* image -> the transfer's InstancesMax
    Protect,        \* image -> the transfer's ProtectVersion, or NoVersion
    Procs,          \* processes; each runs one command at a time
    Jobs,           \* process -> the commands it may be given
    Releases,       \* what a source may list: sets of versions
    Faults,         \* the kinds of failure of this instance
    MaxFaults,      \* bound: failures, crashes and reboots in a behaviour
    MaxOps          \* bound: operator commands and new releases

Job == [kind : {"update", "enable", "disable"}, feature : Features,
        now : BOOLEAN, force : BOOLEAN, refresh : BOOLEAN, vacuum : BOOLEAN]

FaultKinds == {"fetch", "inspect", "legacy", "download", "link", "scan",
               "remove", "active", "dropin", "unmerge", "unlink", "refresh",
               "crash", "reboot"}

ASSUME StagingAssumption ==
    /\ Features # {}
    /\ FeatureOrder \in Seq(Features)
    /\ \A f \in Features : \E k \in DOMAIN FeatureOrder : FeatureOrder[k] = f
    /\ ImagesOf \in [Features -> Seq(Images)]
    /\ LegacyImages \subseteq Images
    /\ InstancesMax \in [Images -> Int]
    /\ Protect \in [Images -> VersionOrNone]
    /\ Jobs \in [Procs -> SUBSET Job]
    /\ Releases \subseteq SUBSET Versions
    /\ Faults \subseteq FaultKinds
    /\ MaxFaults \in Nat
    /\ MaxOps \in Nat

VARIABLES
    staged,     \* image -> the versions in its staging directory
    link,       \* image -> the version its sysext link names
    legacy,     \* image -> the version its CurrentSymlink names
    merged,     \* image -> the version systemd-sysext has merged
    enabled,    \* feature -> Enabled, as its drop-in leaves it
    avail,      \* image -> the versions its source lists
    proc,       \* process -> the command it runs, and that command's locals
    faults,     \* failures left to happen
    ops         \* commands and releases left to happen

vars == <<staged, link, legacy, merged, enabled, avail, proc, faults, ops>>

Labels == {"idle", "dropin", "check", "unmerge", "next", "fetch", "inspect",
           "unlegacy", "verify", "download", "pick", "rename", "scan",
           "vacuum", "unlink", "readdir", "rmlegacy", "purge"}
\* The labels at which a command is about the transfer at the head of todo.
ImageLabels == Labels \ {"idle", "dropin", "check", "unmerge", "next"}

\* The labels at which installTransfer has selected a version.
TargetLabels == {"inspect", "unlegacy", "download"}

Results == {"none", "ok", "failed", "refused", "crashed"}

Local == [pc : Labels, job : Job, res : Results,
          dom : [Features -> BOOLEAN],  \* the loaded domain: what is enabled
          feats : Seq(Features),        \* features still to update
          todo : Seq(Images),           \* images of the feature at hand
          target : VersionOrNone,       \* versionToInstall
          fresh : BOOLEAN,              \* it was installed and current
          choice : VersionOrNone,       \* files[0], the link's next target
          doomed : SUBSET Versions]     \* entries of a listing left to remove

NoJob == [kind |-> "update", feature |-> CHOOSE f \in Features : TRUE,
          now |-> FALSE, force |-> FALSE, refresh |-> FALSE, vacuum |-> FALSE]

Idle == [pc |-> "idle", job |-> NoJob, res |-> "none",
         dom |-> [f \in Features |-> FALSE], feats |-> <<>>, todo |-> <<>>,
         target |-> NoVersion, fresh |-> FALSE, choice |-> NoVersion,
         doomed |-> {}]

HostOK ==
    /\ staged \in [Images -> SUBSET Versions]
    /\ link \in [Images -> VersionOrNone]
    /\ legacy \in [Images -> VersionOrNone]
    /\ merged \in [Images -> VersionOrNone]
    /\ enabled \in [Features -> BOOLEAN]
    /\ avail \in [Images -> SUBSET Versions]
    /\ faults \in Nat
    /\ ops \in Nat

ProcOK ==
    /\ proc \in [Procs -> Local]
    /\ \A p \in Procs :
         /\ proc[p].pc \in ImageLabels => proc[p].todo # <<>>
         /\ proc[p].pc \in TargetLabels => proc[p].target # NoVersion

TypeOK == HostOK /\ ProcOK

-----------------------------------------------------------------------------
\* The file system and the host, for the UNCHANGED of actions that touch less.
dirs == <<staged, link, legacy>>
host == <<merged, enabled, avail>>

At(p, l) == proc[p].pc = l
Img(p) == Head(proc[p].todo)
Feature(p) == proc[p].job.feature
ServedNow == [i \in Images |-> Served(link[i], staged[i])]
ImagesOfFeature(f) == {ImagesOf[f][k] : k \in DOMAIN ImagesOf[f]}

\* One failure of kind k, out of those the instance allows.
Fault(k) == k \in Faults /\ faults > 0 /\ faults' = faults - 1

\* The command returns result r; only its job is remembered, for properties.
Return(p, r) ==
    proc' = [proc EXCEPT ![p] = [Idle EXCEPT !.job = proc[p].job, !.res = r]]

\* The loop over a feature's transfers goes on to the next one.
NextTransfer(p, r) ==
    proc' = [proc EXCEPT ![p] =
               [Idle EXCEPT !.pc = "next", !.job = proc[p].job, !.res = r,
                            !.dom = proc[p].dom, !.feats = proc[p].feats,
                            !.todo = Tail(proc[p].todo)]]

\* installTransfer, or the teardown of a transfer, returns without an error.
ImageDone(p) == NextTransfer(p, proc[p].res)

\* installTransfer returns an error: UpdateFeatures records it and goes on,
\* EnableFeature returns.
InstallFails(p) ==
    IF proc[p].job.kind = "update"
    THEN NextTransfer(p, "failed")
    ELSE Return(p, "failed")

\* A host where systemd-sysupdate may have staged an image behind a
\* CurrentSymlink, and updex has not run yet.
Init ==
    /\ legacy \in {l \in [Images -> VersionOrNone] :
                     \A i \in Images : i \notin LegacyImages => l[i] = NoVersion}
    /\ staged = [i \in Images |-> {legacy[i]} \ {NoVersion}]
    /\ link = [i \in Images |-> NoVersion]
    /\ merged \in {legacy, [i \in Images |-> NoVersion]}
    /\ enabled \in [Features -> BOOLEAN]
    /\ avail \in [Images -> Releases]
    /\ proc = [p \in Procs |-> Idle]
    /\ faults = MaxFaults
    /\ ops = MaxOps

-----------------------------------------------------------------------------
\* A command starts: loadDomain reads every drop-in, once.  A disable --now
\* with images to remove checks the merge state before it writes anything.
Begin(p) ==
    /\ At(p, "idle")
    /\ \E j \in Jobs[p] :
         /\ IF j.kind = "update" THEN UNCHANGED ops ELSE ops > 0 /\ ops' = ops - 1
         /\ proc' = [proc EXCEPT ![p] =
              [Idle EXCEPT !.job = j, !.res = "ok",
                 !.dom = enabled,
                 !.feats = IF j.kind = "update" THEN FeatureOrder ELSE <<>>,
                 !.pc = IF j.kind = "update" THEN "next"
                        ELSE IF j.kind = "disable" /\ j.now /\ ImagesOf[j.feature] # <<>>
                        THEN "check" ELSE "dropin"]]
    /\ UNCHANGED <<dirs, host, faults>>

\* writeFeatureDropIn: one rename.  Without --now, or without transfers, the
\* command is over.
WriteDropIn(p) ==
    /\ At(p, "dropin")
    /\ enabled' = [enabled EXCEPT ![Feature(p)] = proc[p].job.kind = "enable"]
    /\ IF ~proc[p].job.now \/ ImagesOf[Feature(p)] = <<>>
       THEN Return(p, "ok")
       ELSE IF proc[p].job.kind = "enable"
       THEN proc' = [proc EXCEPT ![p].pc = "next", ![p].todo = ImagesOf[Feature(p)]]
       ELSE proc' = [proc EXCEPT ![p].pc = "unmerge"]
    /\ UNCHANGED <<dirs, merged, avail, faults, ops>>

DropInFails(p) ==
    /\ At(p, "dropin")
    /\ Fault("dropin")
    /\ Return(p, "failed")
    /\ UNCHANGED <<dirs, host, ops>>

\* UpdateFeatures: the transfers of the next feature, if the loaded domain
\* had it enabled.
NextFeature(p) ==
    /\ At(p, "next")
    /\ proc[p].todo = <<>>
    /\ proc[p].feats # <<>>
    /\ LET f == Head(proc[p].feats)
       IN proc' = [proc EXCEPT ![p].feats = Tail(@),
                     ![p].todo = IF proc[p].dom[f] THEN ImagesOf[f] ELSE <<>>]
    /\ UNCHANGED <<dirs, host, faults, ops>>

\* Slip: the loop enters a transfer it does not have.
NextImageUnguarded(p) ==
    /\ At(p, "next")
    /\ proc' = [proc EXCEPT ![p].pc =
                  IF proc[p].job.kind = "disable" THEN "unlink" ELSE "fetch"]
    /\ UNCHANGED <<dirs, host, faults, ops>>

NextImage(p) ==
    /\ At(p, "next")
    /\ proc[p].todo # <<>>
    /\ proc' = [proc EXCEPT ![p].pc =
                  IF proc[p].job.kind = "disable" THEN "unlink" ELSE "fetch"]
    /\ UNCHANGED <<dirs, host, faults, ops>>

LoopDone(p) == At(p, "next") /\ proc[p].todo = <<>> /\ proc[p].feats = <<>>

\* systemd-sysext refresh merges what the links reach, on the whole host.
Refresh(p) ==
    /\ LoopDone(p)
    /\ proc[p].job.refresh
    /\ merged' = ServedNow
    /\ Return(p, proc[p].res)
    /\ UNCHANGED <<dirs, enabled, avail, faults, ops>>

RefreshFails(p) ==
    /\ LoopDone(p)
    /\ proc[p].job.refresh
    /\ Fault("refresh")
    /\ Return(p, "failed")
    /\ UNCHANGED <<dirs, host, ops>>

FinishWithoutRefresh(p) ==
    /\ LoopDone(p)
    /\ ~proc[p].job.refresh
    /\ Return(p, proc[p].res)
    /\ UNCHANGED <<dirs, host, faults, ops>>

-----------------------------------------------------------------------------
\* installTransfer, on the image at the head of todo.

\* getAvailableVersions, and the newest of them.
Fetch(p) ==
    /\ At(p, "fetch")
    /\ avail[Img(p)] # {}
    /\ proc' = [proc EXCEPT ![p].pc = "inspect", ![p].target = Newest(avail[Img(p)])]
    /\ UNCHANGED <<dirs, host, faults, ops>>

FetchFails(p) ==
    /\ At(p, "fetch")
    /\ \/ Fault("fetch")
       \/ avail[Img(p)] = {} /\ UNCHANGED faults
    /\ InstallFails(p)
    /\ UNCHANGED <<dirs, host, ops>>

\* GetInstalledVersionsAt, while the CurrentSymlink still exists.
Inspect(p) ==
    /\ At(p, "inspect")
    /\ LET i == Img(p)
           fresh == UpToDate(proc[p].target, staged[i], legacy[i])
       IN proc' = [proc EXCEPT ![p].fresh = fresh,
                     ![p].pc = IF legacy[i] # NoVersion THEN "unlegacy"
                               ELSE IF fresh THEN "verify" ELSE "download"]
    /\ UNCHANGED <<dirs, host, faults, ops>>

InspectFails(p) ==
    /\ At(p, "inspect")
    /\ Fault("inspect")
    /\ InstallFails(p)
    /\ UNCHANGED <<dirs, host, ops>>

\* RemoveLegacyCurrentSymlinkAt; a failure is only a warning.
RemoveLegacy(p) ==
    /\ At(p, "unlegacy")
    /\ \/ /\ legacy' = [legacy EXCEPT ![Img(p)] = NoVersion]
          /\ UNCHANGED faults
       \/ /\ Fault("legacy")
          /\ UNCHANGED legacy
    /\ proc' = [proc EXCEPT ![p].pc = IF proc[p].fresh THEN "verify" ELSE "download"]
    /\ UNCHANGED <<staged, link, host, ops>>

\* Slip: a link that reaches some image is taken for current.
VerifyReaches(p) ==
    /\ At(p, "verify")
    /\ LET i == Img(p)
       IN IF staged[i] = {} THEN InstallFails(p)
          ELSE IF link[i] \in staged[i] THEN ImageDone(p)
          ELSE proc' = [proc EXCEPT ![p].pc = "pick"]
    /\ UNCHANGED <<dirs, host, faults, ops>>

\* Slip: an image that is installed and current is done, whatever its link.
VerifyNothing(p) ==
    /\ At(p, "verify")
    /\ ImageDone(p)
    /\ UNCHANGED <<dirs, host, faults, ops>>

\* LinkIsCurrentAt: relink only what does not name the newest image.
VerifyLink(p) ==
    /\ At(p, "verify")
    /\ LET i == Img(p)
       IN IF staged[i] = {} THEN InstallFails(p)
          ELSE IF LinkIsCurrent(link[i], staged[i]) THEN ImageDone(p)
          ELSE proc' = [proc EXCEPT ![p].pc = "pick"]
    /\ UNCHANGED <<dirs, host, faults, ops>>

\* download.Download: the image appears under its name with one rename.
Download(p) ==
    /\ At(p, "download")
    /\ staged' = [staged EXCEPT ![Img(p)] = @ \cup {proc[p].target}]
    /\ proc' = [proc EXCEPT ![p].pc = "pick"]
    /\ UNCHANGED <<link, legacy, host, faults, ops>>

DownloadFails(p) ==
    /\ At(p, "download")
    /\ Fault("download")
    /\ InstallFails(p)
    /\ UNCHANGED <<dirs, host, ops>>

\* Slip: the link's target is the version that was downloaded.
PickDownloaded(p) ==
    /\ At(p, "pick")
    /\ proc' = [proc EXCEPT ![p].pc = "rename", ![p].choice = proc[p].target]
    /\ UNCHANGED <<dirs, host, faults, ops>>

\* Slip: the old link is removed before the new one is made.
PickUnlinks(p) ==
    /\ At(p, "pick")
    /\ IF staged[Img(p)] = {} THEN InstallFails(p) /\ UNCHANGED link
       ELSE /\ proc' = [proc EXCEPT ![p].pc = "rename", ![p].choice = Newest(staged[Img(p)])]
            /\ link' = [link EXCEPT ![Img(p)] = NoVersion]
    /\ UNCHANGED <<staged, legacy, host, faults, ops>>

\* LinkToSysextAt lists the directory: the newest image is the link's target,
\* whatever version was downloaded.
PickTarget(p) ==
    /\ At(p, "pick")
    /\ IF staged[Img(p)] = {} THEN InstallFails(p)
       ELSE proc' = [proc EXCEPT ![p].pc = "rename", ![p].choice = Newest(staged[Img(p)])]
    /\ UNCHANGED <<dirs, host, faults, ops>>

\* ... and renames a new symlink over the old one.  A repair ends here.
RenameLink(p) ==
    /\ At(p, "rename")
    /\ link' = [link EXCEPT ![Img(p)] = proc[p].choice]
    /\ IF proc[p].fresh \/ ~proc[p].job.vacuum
       THEN ImageDone(p)
       ELSE proc' = [proc EXCEPT ![p].pc = "scan"]
    /\ UNCHANGED <<staged, legacy, host, faults, ops>>

RenameFails(p) ==
    /\ At(p, "rename")
    /\ Fault("link")
    /\ InstallFails(p)
    /\ UNCHANGED <<dirs, host, ops>>

\* VacuumAt lists the directory and decides what goes.
ScanVacuum(p) ==
    /\ At(p, "scan")
    /\ LET i == Img(p)
       IN proc' = [proc EXCEPT ![p].pc = "vacuum",
             ![p].doomed = VacuumRemoves(staged[i], legacy[i], Protect[i], InstancesMax[i])]
    /\ UNCHANGED <<dirs, host, faults, ops>>

\* ... removes it, newest first ...
VacuumOne(p) ==
    /\ At(p, "vacuum")
    /\ proc[p].doomed # {}
    /\ LET v == Newest(proc[p].doomed)
       IN /\ v \in staged[Img(p)]
          /\ staged' = [staged EXCEPT ![Img(p)] = @ \ {v}]
          /\ proc' = [proc EXCEPT ![p].doomed = @ \ {v}]
    /\ UNCHANGED <<link, legacy, host, faults, ops>>

\* ... and stops when all is removed, or at the first failure: a listing or a
\* removal fails, or another process removed the file first.  The caller only
\* warns.
VacuumEnds(p) ==
    /\ \/ At(p, "scan") /\ Fault("scan")
       \/ At(p, "vacuum") /\ proc[p].doomed = {} /\ UNCHANGED faults
       \/ /\ At(p, "vacuum")
          /\ proc[p].doomed # {}
          /\ \/ Fault("remove")
             \/ Newest(proc[p].doomed) \notin staged[Img(p)] /\ UNCHANGED faults
    /\ ImageDone(p)
    /\ UNCHANGED <<dirs, host, ops>>

InstallStep(p) ==
    \/ Fetch(p) \/ FetchFails(p) \/ Inspect(p) \/ InspectFails(p)
    \/ RemoveLegacy(p) \/ VerifyLink(p) \/ Download(p) \/ DownloadFails(p)
    \/ PickTarget(p) \/ RenameLink(p) \/ RenameFails(p)
    \/ ScanVacuum(p) \/ VacuumOne(p) \/ VacuumEnds(p)

-----------------------------------------------------------------------------
\* DisableFeature with --now.

\* An image is active when its CurrentSymlink exists or it is merged.
Active(i) == legacy[i] # NoVersion \/ merged[i] # NoVersion

\* Slip: one image that is not active is enough.
CheckOne(p) ==
    /\ At(p, "check")
    /\ IF proc[p].job.force \/ \E i \in ImagesOfFeature(Feature(p)) : ~Active(i)
       THEN proc' = [proc EXCEPT ![p].pc = "dropin"]
       ELSE Return(p, "refused")
    /\ UNCHANGED <<dirs, host, faults, ops>>

\* Only --force goes on when an image of the feature is active.
CheckMerged(p) ==
    /\ At(p, "check")
    /\ IF proc[p].job.force \/ \A i \in ImagesOfFeature(Feature(p)) : ~Active(i)
       THEN proc' = [proc EXCEPT ![p].pc = "dropin"]
       ELSE Return(p, "refused")
    /\ UNCHANGED <<dirs, host, faults, ops>>

\* /run/extensions cannot be read: a warning, and an image that no
\* CurrentSymlink shows to be active counts as not active.
CheckBlind(p) ==
    /\ At(p, "check")
    /\ Fault("active")
    /\ \E blind \in SUBSET ImagesOfFeature(Feature(p)) :
         /\ \A i \in blind : legacy[i] = NoVersion
         /\ \A i \in ImagesOfFeature(Feature(p)) \ blind : ~Active(i)
    /\ proc' = [proc EXCEPT ![p].pc = "dropin"]
    /\ UNCHANGED <<dirs, host, ops>>

\* systemd-sysext unmerge detaches every image of the host, not the feature's.
Unmerge(p) ==
    /\ At(p, "unmerge")
    /\ merged' = [i \in Images |-> NoVersion]
    /\ proc' = [proc EXCEPT ![p].pc = "next", ![p].todo = ImagesOf[Feature(p)]]
    /\ UNCHANGED <<dirs, enabled, avail, faults, ops>>

UnmergeFails(p) ==
    /\ At(p, "unmerge")
    /\ Fault("unmerge")
    /\ Return(p, "failed")
    /\ UNCHANGED <<dirs, host, ops>>

\* UnlinkFromSysextAt; a failure is only a warning.
Unlink(p) ==
    /\ At(p, "unlink")
    /\ \/ /\ link' = [link EXCEPT ![Img(p)] = NoVersion]
          /\ UNCHANGED faults
       \/ /\ Fault("unlink")
          /\ UNCHANGED link
    /\ proc' = [proc EXCEPT ![p].pc = "readdir"]
    /\ UNCHANGED <<staged, legacy, host, ops>>

\* Slip: the CurrentSymlink is forgotten.
ReadStagingOnly(p) ==
    /\ At(p, "readdir")
    /\ proc' = [proc EXCEPT ![p].doomed = staged[Img(p)], ![p].pc = "purge"]
    /\ UNCHANGED <<dirs, host, faults, ops>>

\* RemoveAllVersionsAt lists the directory ...
ReadStaging(p) ==
    /\ At(p, "readdir")
    /\ LET i == Img(p)
       IN proc' = [proc EXCEPT ![p].doomed = staged[i],
                     ![p].pc = IF legacy[i] # NoVersion THEN "rmlegacy" ELSE "purge"]
    /\ UNCHANGED <<dirs, host, faults, ops>>

\* ... removes the CurrentSymlink ...
PurgeLegacy(p) ==
    /\ At(p, "rmlegacy")
    /\ legacy' = [legacy EXCEPT ![Img(p)] = NoVersion]
    /\ proc' = [proc EXCEPT ![p].pc = "purge"]
    /\ UNCHANGED <<staged, link, host, faults, ops>>

\* ... and every image it listed, in the order of their names.
PurgeOne(p) ==
    /\ At(p, "purge")
    /\ \E v \in proc[p].doomed \cap staged[Img(p)] :
         /\ staged' = [staged EXCEPT ![Img(p)] = @ \ {v}]
         /\ proc' = [proc EXCEPT ![p].doomed = @ \ {v}]
    /\ UNCHANGED <<link, legacy, host, faults, ops>>

PurgeDone(p) ==
    /\ At(p, "purge")
    /\ proc[p].doomed = {}
    /\ ImageDone(p)
    /\ UNCHANGED <<dirs, host, faults, ops>>

\* Slip: a listed file that another command removed first is waited for.
PurgeWaits(p) ==
    /\ \/ At(p, "readdir") /\ Fault("scan")
       \/ At(p, "rmlegacy") /\ Fault("remove")
       \/ At(p, "purge") /\ proc[p].doomed # {} /\ Fault("remove")
    /\ Return(p, "failed")
    /\ UNCHANGED <<dirs, host, ops>>

\* Any removal that fails ends the command before the refresh: what Unmerge
\* detached stays detached.
PurgeFails(p) ==
    /\ \/ At(p, "readdir") /\ Fault("scan")
       \/ At(p, "rmlegacy") /\ Fault("remove")
       \/ At(p, "purge") /\ proc[p].doomed # {} /\ Fault("remove")
       \/ At(p, "purge") /\ ~(proc[p].doomed \subseteq staged[Img(p)]) /\ UNCHANGED faults
    /\ Return(p, "failed")
    /\ UNCHANGED <<dirs, host, ops>>

DisableStep(p) ==
    \/ CheckMerged(p) \/ CheckBlind(p) \/ Unmerge(p) \/ UnmergeFails(p)
    \/ Unlink(p) \/ ReadStaging(p) \/ PurgeLegacy(p) \/ PurgeOne(p)
    \/ PurgeDone(p) \/ PurgeFails(p)

-----------------------------------------------------------------------------
\* A process is killed: its command ends where it is.  Nothing is undone.
Crash(p) ==
    /\ ~At(p, "idle")
    /\ Fault("crash")
    /\ Return(p, "crashed")
    /\ UNCHANGED <<dirs, host, ops>>

\* The host restarts, and systemd-sysext merges what the links reach.
Reboot ==
    /\ Fault("reboot")
    /\ proc' = [p \in Procs |-> IF At(p, "idle") THEN proc[p]
                ELSE [Idle EXCEPT !.job = proc[p].job, !.res = "crashed"]]
    /\ merged' = ServedNow
    /\ UNCHANGED <<dirs, enabled, avail, ops>>

\* A source publishes a version, or withdraws one.
Release(i) ==
    /\ ops > 0
    /\ ops' = ops - 1
    /\ \E r \in Releases : r # avail[i] /\ avail' = [avail EXCEPT ![i] = r]
    /\ UNCHANGED <<dirs, merged, enabled, proc, faults>>

CommandStep(p) ==
    \/ WriteDropIn(p) \/ DropInFails(p) \/ NextFeature(p) \/ NextImage(p)
    \/ Refresh(p) \/ RefreshFails(p) \/ FinishWithoutRefresh(p)
    \/ InstallStep(p) \/ DisableStep(p)

Next ==
    \/ \E p \in Procs : Begin(p) \/ CommandStep(p) \/ Crash(p)
    \/ Reboot
    \/ \E i \in Images : Release(i)

Spec == Init /\ [][Next]_vars

\* A command that started runs to its end: its downloads have timeouts and
\* bounded retries.  The timer starts an update again and again.
Updaters == {p \in Procs : \E j \in Jobs[p] : j.kind = "update"}

Fairness == /\ \A p \in Procs : WF_vars(CommandStep(p))
            /\ \A p \in Updaters : WF_vars(Begin(p))

FairSpec == Spec /\ Fairness
-----------------------------------------------------------------------------
\* The properties.

\* The link an image is served through always names a staged image: an update
\* removes only what the link no longer names, and a disable unlinks first.
LinkNeverDangles ==
    \A i \in Images : link[i] # NoVersion => link[i] \in staged[i]

\* The images command p was asked to handle.
Handled(p) ==
    IF proc[p].job.kind = "update"
    THEN UNION {ImagesOfFeature(f) : f \in {g \in Features : enabled[g]}}
    ELSE ImagesOfFeature(Feature(p))

Succeeded(p, kind) ==
    At(p, "idle") /\ proc[p].res = "ok" /\ proc[p].job.kind = kind

\* An update or an enable --now that reports success leaves every image it
\* handled linked at its newest staged version, and merged if it refreshed.
SuccessMeansServed ==
    \A p \in Procs :
      (Succeeded(p, "update") \/ (Succeeded(p, "enable") /\ proc[p].job.now))
        => \A i \in Handled(p) :
             /\ staged[i] # {}
             /\ link[i] = Newest(staged[i])
             /\ proc[p].job.refresh => merged[i] = link[i]

\* A disable --now that reports success leaves nothing of the feature's images
\* and leaves the rest of the host merged again, not detached by its unmerge.
SuccessMeansRemoved ==
    \A p \in Procs :
      (Succeeded(p, "disable") /\ proc[p].job.now)
        => /\ ~enabled[Feature(p)]
           /\ \A i \in ImagesOfFeature(Feature(p)) :
                staged[i] = {} /\ link[i] = NoVersion /\ legacy[i] = NoVersion
           /\ (proc[p].job.refresh /\ ImagesOf[Feature(p)] # <<>>) => merged = ServedNow

\* After a vacuum that ran to its end, what is staged is bounded by InstancesMax,
\* the protected version and an active version behind a CurrentSymlink.
RetentionBound ==
    \A p \in Procs :
      (At(p, "vacuum") /\ proc[p].doomed = {})
        => LET i == Img(p)
           IN Cardinality(staged[i] \ {Protect[i], legacy[i]}) <= Retained(InstancesMax[i])

\* Without --force no disable detaches a merged image of its own feature,
\* nor takes away an image behind a CurrentSymlink.
ForceRequired ==
    [][\A p \in Procs :
         (proc[p].job.kind = "disable" /\ ~proc[p].job.force)
           => /\ At(p, "unmerge") /\ ~At(p, "unmerge")'
                => \A i \in ImagesOfFeature(Feature(p)) : merged[i] = NoVersion
              /\ At(p, "rmlegacy") => legacy' = legacy]_vars

\* No command but a disable takes the last image of a directory, or its newest:
\* however many commands vacuum one directory at once.
InstallsKeepNewest ==
    [][\A i \in Images :
         (staged[i] # {} /\ staged'[i] # staged[i]
            /\ ~\E p \in Procs : proc[p].job.kind = "disable" /\ ~At(p, "idle"))
           => staged'[i] # {} /\ Newest(staged[i]) <= Newest(staged'[i])]_vars

\* The protected version is staged until a disable removes it.
ProtectedKept ==
    [][\A i \in Images :
         (Protect[i] \in staged[i] /\ Protect[i] \notin staged'[i])
           => \E p \in Procs : At(p, "purge") /\ Img(p) = i]_vars

\* An image some enabled feature wants and some source offers.
Wanted(i) ==
    avail[i] # {} /\ \E f \in Features : enabled[f] /\ i \in ImagesOfFeature(f)

\* CheckFeatures: what it reports of an image of an enabled feature.
UpdateAvailable(i) ==
    /\ avail[i] # {}
    /\ staged[i] # {} => Newest(avail[i]) > CurrentVersion(staged[i], legacy[i])

\* Once failures, commands and releases stop, updates leave every wanted image
\* linked at its newest staged version, and a check reports no update of it, for
\* good.
Converges ==
    <>[](\A i \in Images : Wanted(i) =>
           /\ staged[i] # {}
           /\ link[i] = Newest(staged[i])
           /\ ~UpdateAvailable(i))

\* Every command returns.
CommandsReturn == \A p \in Procs : ~At(p, "idle") ~> At(p, "idle")

\* What a dry run announces before an install is what the install's vacuum
\* then removes ("the versions that vacuum would remove/keep after installing").
PlanIsWhatVacuumRemoves ==
    \A p \in Procs :
      At(p, "download") =>
        LET i == Img(p)
            v == proc[p].target
        IN PlanRemoves(staged[i], v, Protect[i], InstancesMax[i])
             = VacuumRemoves(staged[i] \cup {v}, NoVersion, Protect[i], InstancesMax[i])

\* The images that running disable --now commands remove.
Removing ==
    UNION {ImagesOfFeature(Feature(p)) :
             p \in {q \in Procs : ~At(q, "idle") /\ proc[q].job.kind = "disable"}}

\* The commands of one process at a time are what systemd-sysext is promised:
\* the version a link serves only ever moves up, without a gap, until an
\* operator disables the feature - through crashes, reboots and failures.
View == INSTANCE ImageService WITH served <- ServedNow, removing <- Removing

ImplementsImageService == View!Spec
=============================================================================
