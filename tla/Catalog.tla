------------------------------- MODULE Catalog -------------------------------
(***************************************************************************)
(* CatalogAdd and CatalogRemove for one sysext name: several files of one *)
(* component, its images and its link change as one transaction, undone   *)
(* from snapshots when a step fails.  One action is one call that changes *)
(* the file system or runs systemd-sysext; the client may die at each.    *)
(*                                                                         *)
(* Catalogs may share a component, and components share the staging       *)
(* directory: every catalog transfer of the name has the same images.     *)
(***************************************************************************)
EXTENDS SysextDir, Sequences

CONSTANTS
    Repos,          \* the configured catalogs
    Components,
    ComponentOf,    \* catalog -> the component it writes to
    Revisions,      \* the confs a catalog may publish for the name
    Images,
    main,           \* the image of the generated transfer
    ImagesIn,       \* component -> the images of its transfers for the name
    OthersIn,       \* ... and those of the transfers that are not generated
    InstancesMax,   \* image -> the transfer's InstancesMax
    LinkedDropIns,  \* components whose drop-in directory is a symlink
    Absent, Foreign, Irregular,     \* what may be at a definition's path
    Faults,         \* the labels at which a step may fail, and "crash"
    MaxFaults,      \* bound: failures and crashes in a behaviour
    MaxOps          \* bound: commands, publications and edits

Generated == [repo : Repos, rev : Revisions]
File == Generated \cup {Absent, Foreign, Irregular}

\* Where an add is, and where its rollback is.
AddLabels == {"transfer", "feature", "snapshot", "dropin", "install",
              "download", "link", "vacuum", "refresh"}
UndoLabels == {"undoNew", "undoOld", "undoLink", "undoDropIn", "undoFeature",
               "undoTransfer", "undoDirs"}
RemoveLabels == {"check", "disable", "unmerge", "unlink", "purge", "remerge",
                 "rmTransfer", "rmFeature", "rmDropIn"}
Labels == {"idle"} \cup AddLabels \cup UndoLabels \cup RemoveLabels

ASSUME CatalogAssumption ==
    /\ Repos # {}
    /\ ComponentOf \in [Repos -> Components]
    /\ main \in Images
    /\ ImagesIn \in [Components -> Seq(Images) \ {<<>>}]
    /\ OthersIn \in [Components -> Seq(Images \ {main})]
    /\ InstancesMax \in [Images -> Int]
    /\ LinkedDropIns \subseteq Components
    /\ {Absent, Foreign, Irregular} \cap Generated = {}
    /\ Absent \notin {Foreign, Irregular}
    /\ Faults \subseteq Labels \cup {"crash"}
    /\ MaxFaults \in Nat
    /\ MaxOps \in Nat

VARIABLES
    transfer,   \* component -> what is at <name>.transfer
    feature,    \* component -> what is at <name>.feature
    dropin,     \* component -> what 00-updex.conf says
    linked,     \* the components whose drop-in directory is a symlink
    staged,     \* image -> the versions in its staging directory
    link,       \* image -> the version its sysext link names
    merged,     \* image -> the version systemd-sysext has merged
    published,  \* catalog -> the revision of the conf it publishes, or 0
    offered,    \* image -> the newest version its source lists, or NoVersion
    txn,        \* the command that runs, or the last that ran
    before,     \* history: what the command found when it began
    broken,     \* history: a rollback reported that it could not restore
    faults, ops

files == <<transfer, feature, dropin, linked>>
dirs == <<staged, link>>
world == <<files, dirs>>
remote == <<published, offered>>
history == <<before, broken>>
vars == <<files, dirs, merged, remote, txn, history, faults, ops>>

Repo == txn.repo
Comp == ComponentOf[txn.repo]
Img == Head(txn.todo)
At(l) == txn.pc = l
Among(images) == {images[k] : k \in DOMAIN images}
ServedNow == [i \in Images |-> Served(link[i], staged[i])]

Goto(l) == txn' = [txn EXCEPT !.pc = l]
Return(r) == txn' = [txn EXCEPT !.pc = "idle", !.res = r]

\* The step at label l fails.
Fault(l) == l \in Faults /\ faults > 0 /\ faults' = faults - 1

\* The loop over the feature's transfers goes on, or ends at label after.
NextImage(next, after) ==
    txn' = [txn EXCEPT !.todo = Tail(@),
                       !.pc = IF Tail(txn.todo) = <<>> THEN after ELSE next]

\* Nothing of the name was ever added: what is there, an operator wrote.
Init ==
    /\ transfer \in [Components -> {Absent, Foreign}]
    /\ feature \in [Components -> {Absent, Foreign, Irregular}]
    /\ dropin \in [Components -> {"absent", "disabled", "enabled", "irregular"}]
    /\ \A c \in Components : dropin[c] = "enabled" => feature[c] = Foreign
    /\ linked = LinkedDropIns
    /\ staged = [i \in Images |-> {}]
    /\ link = [i \in Images |-> NoVersion]
    /\ merged = [i \in Images |-> NoVersion]
    /\ published \in [Repos -> Revisions \cup {0}]
    /\ offered \in [Images -> VersionOrNone]
    /\ txn = [pc |-> "idle", op |-> "none", res |-> "none",
              repo |-> CHOOSE r \in Repos : TRUE, rev |-> 0,
              force |-> FALSE, refresh |-> FALSE, todo |-> <<>>, target |-> NoVersion,
              fresh |-> FALSE, captured |-> FALSE]
    /\ before = world
    /\ broken = FALSE
    /\ faults = MaxFaults
    /\ ops = MaxOps

\* A command begins for the one catalog in candidates, or is refused.
Begin(op, candidates, allowed, force, refresh, first) ==
    /\ At("idle")
    /\ ops > 0
    /\ ops' = ops - 1
    /\ before' = world
    /\ IF \E r \in candidates : candidates = {r} /\ r \in allowed
       THEN \E r \in candidates :
              txn' = [pc |-> first, op |-> op, res |-> "none", repo |-> r,
                      rev |-> published[r], force |-> force, refresh |-> refresh,
                      todo |-> <<>>, target |-> NoVersion, fresh |-> FALSE,
                      captured |-> FALSE]
       ELSE txn' = [txn EXCEPT !.op = op, !.res = "refused"]
    /\ UNCHANGED <<world, merged, remote, broken, faults>>

\* Slip: any generated file will do.
WritableByAny(file, r) == file = Absent \/ file \in Generated

\* The guard against foreign definitions: absent, or generated by catalog r.
Writable(file, r) ==
    file = Absent \/ (file \in Generated /\ file.repo = r)

-----------------------------------------------------------------------------
\* CatalogAdd.

\* Slip: only the feature file is checked.
BeginAddUnchecked(asked, refresh) ==
    Begin("add", {r \in asked : published[r] # 0},
          {r \in Repos : Writable(feature[ComponentOf[r]], r)},
          FALSE, refresh, "transfer")

\* The conf is fetched from the catalogs asked; exactly one may have it.  A
\* fetch that fails refuses the add too, and changes nothing.
BeginAdd(asked, refresh) ==
    Begin("add", {r \in asked : published[r] # 0},
          {r \in Repos : /\ Writable(transfer[ComponentOf[r]], r)
                         /\ Writable(feature[ComponentOf[r]], r)},
          FALSE, refresh, "transfer")

WriteTransfer ==
    /\ At("transfer")
    /\ transfer' = [transfer EXCEPT ![Comp] = [repo |-> Repo, rev |-> txn.rev]]
    /\ Goto("feature")
    /\ UNCHANGED <<feature, dropin, linked, dirs, merged, remote, history, faults, ops>>

WriteFeature ==
    /\ At("feature")
    /\ feature' = [feature EXCEPT ![Comp] = [repo |-> Repo, rev |-> txn.rev]]
    /\ Goto("snapshot")
    /\ UNCHANGED <<transfer, dropin, linked, dirs, merged, remote, history, faults, ops>>

\* The generated transfer is loaded, its images and its link are backed up.
SnapshotManagedState ==
    /\ At("snapshot")
    /\ txn' = [txn EXCEPT !.pc = "dropin", !.captured = TRUE]
    /\ UNCHANGED <<world, merged, remote, history, faults, ops>>

\* Slip: the rollback knows only the files.
UndoFilesOnly == Goto("undoDropIn")

\* Any failure: first the images, if they were backed up, then the files.
Undo == Goto(IF txn.captured THEN "undoNew" ELSE "undoDropIn")

\* EnableFeature: writeFeatureDropIn refuses a drop-in, or a drop-in directory,
\* that is not what updex writes.
EnableDropIn ==
    /\ At("dropin")
    /\ IF Comp \in linked \/ dropin[Comp] = "irregular"
       THEN Undo /\ UNCHANGED dropin
       ELSE /\ dropin' = [dropin EXCEPT ![Comp] = "enabled"]
            /\ txn' = [txn EXCEPT !.pc = "install", !.todo = ImagesIn[Comp]]
    /\ UNCHANGED <<transfer, feature, linked, dirs, merged, remote, history, faults, ops>>

\* Slip: an image that is installed and current is done, whatever its link.
SelectUnverified ==
    /\ At("install")
    /\ offered[Img] # NoVersion
    /\ IF UpToDate(offered[Img], staged[Img], NoVersion)
       THEN NextImage("install", "refresh")
       ELSE txn' = [txn EXCEPT !.target = offered[Img], !.fresh = FALSE, !.pc = "download"]
    /\ UNCHANGED <<world, merged, remote, history, faults, ops>>

\* installTransfer selects a version, and finds it current or not.
Select ==
    /\ At("install")
    /\ offered[Img] # NoVersion
    /\ LET fresh == UpToDate(offered[Img], staged[Img], NoVersion)
       IN IF fresh /\ LinkIsCurrent(link[Img], staged[Img])
          THEN NextImage("install", "refresh")
          ELSE txn' = [txn EXCEPT !.target = offered[Img], !.fresh = fresh,
                                  !.pc = IF fresh THEN "link" ELSE "download"]
    /\ UNCHANGED <<world, merged, remote, history, faults, ops>>

Download ==
    /\ At("download")
    /\ staged' = [staged EXCEPT ![Img] = @ \cup {txn.target}]
    /\ Goto("link")
    /\ UNCHANGED <<files, link, merged, remote, history, faults, ops>>

LinkImage ==
    /\ At("link")
    /\ link' = [link EXCEPT ![Img] = Newest(staged[Img])]
    /\ IF txn.fresh THEN NextImage("install", "refresh") ELSE Goto("vacuum")
    /\ UNCHANGED <<files, staged, merged, remote, history, faults, ops>>

\* VacuumAt removes newest first and stops at a failure, which is only warned of.
Vacuum ==
    /\ At("vacuum")
    /\ LET doomed == VacuumRemoves(staged[Img], NoVersion, NoVersion, InstancesMax[Img])
       IN \/ /\ staged' = [staged EXCEPT ![Img] = @ \ doomed]
             /\ UNCHANGED faults
          \/ /\ Fault("vacuum")
             /\ \E v \in doomed :
                  staged' = [staged EXCEPT ![Img] = @ \ {w \in doomed : w > v}]
    /\ NextImage("install", "refresh")
    /\ UNCHANGED <<files, link, merged, remote, history, ops>>

RefreshAdded ==
    /\ At("refresh")
    /\ merged' = IF txn.refresh THEN ServedNow ELSE merged
    /\ Return("ok")
    /\ UNCHANGED <<world, remote, history, faults, ops>>

AddFails ==
    /\ \/ /\ txn.pc \in AddLabels \ {"vacuum"}
          /\ At("refresh") => txn.refresh
          /\ Fault(txn.pc)
       \/ At("install") /\ offered[Img] = NoVersion /\ UNCHANGED faults
    /\ Undo
    /\ UNCHANGED <<world, merged, remote, history, ops>>

-----------------------------------------------------------------------------
\* The rollback closure.  before holds what the snapshots captured: nothing
\* else runs between the command's start and the snapshots.
Prior == [transfer |-> before[1][1][Comp], feature |-> before[1][2][Comp],
          dropin |-> before[1][3][Comp],
          staged |-> before[2][1][main], link |-> before[2][2][main]]

\* Images that were not there when the snapshot was taken are removed ...
UndoNewImages ==
    /\ At("undoNew")
    /\ staged' = [staged EXCEPT ![main] = @ \cap Prior.staged]
    /\ Goto("undoOld")
    /\ UNCHANGED <<files, link, merged, remote, history, faults, ops>>

\* ... those that were come back from their backups ...
UndoOldImages ==
    /\ At("undoOld")
    /\ staged' = [staged EXCEPT ![main] = @ \cup Prior.staged]
    /\ Goto("undoLink")
    /\ UNCHANGED <<files, link, merged, remote, history, faults, ops>>

\* ... and the link names what it named.
UndoLink ==
    /\ At("undoLink")
    /\ link' = [link EXCEPT ![main] = Prior.link]
    /\ Goto("undoDropIn")
    /\ UNCHANGED <<files, staged, merged, remote, history, faults, ops>>

\* The files, last written first.  What could not be captured is left alone.
UndoDropIn ==
    /\ At("undoDropIn")
    /\ dropin' = [dropin EXCEPT ![Comp] = Prior.dropin]
    /\ Goto("undoFeature")
    /\ UNCHANGED <<transfer, feature, linked, dirs, merged, remote, history, faults, ops>>

UndoFeature ==
    /\ At("undoFeature")
    /\ feature' = [feature EXCEPT ![Comp] = Prior.feature]
    /\ Goto("undoTransfer")
    /\ UNCHANGED <<transfer, dropin, linked, dirs, merged, remote, history, faults, ops>>

UndoTransfer ==
    /\ At("undoTransfer")
    /\ transfer' = [transfer EXCEPT ![Comp] = Prior.transfer]
    /\ Goto("undoDirs")
    /\ UNCHANGED <<feature, dropin, linked, dirs, merged, remote, history, faults, ops>>

\* os.Remove of the drop-in directory spares one that is not empty; a symlink
\* it unlinks, and what was read through the link is gone.
UndoDirs ==
    /\ At("undoDirs")
    /\ linked' = linked \ {Comp}
    /\ dropin' = IF Comp \in linked THEN [dropin EXCEPT ![Comp] = "absent"] ELSE dropin
    /\ Return("failed")
    /\ UNCHANGED <<transfer, feature, dirs, merged, remote, history, faults, ops>>

\* A step of the rollback fails; the others are still tried.
UndoFails ==
    /\ txn.pc \in UndoLabels \ {"undoDirs"}
    /\ Fault(txn.pc)
    /\ broken' = TRUE
    /\ LET order == <<"undoNew", "undoOld", "undoLink", "undoDropIn",
                      "undoFeature", "undoTransfer", "undoDirs">>
       IN \E k \in 1 .. 6 : At(order[k]) /\ Goto(order[k + 1])
    /\ UNCHANGED <<world, merged, remote, before, ops>>

AddStep ==
    \/ WriteTransfer \/ WriteFeature \/ SnapshotManagedState \/ EnableDropIn
    \/ Select \/ Download \/ LinkImage \/ Vacuum \/ RefreshAdded \/ AddFails
    \/ UndoNewImages \/ UndoOldImages \/ UndoLink
    \/ UndoDropIn \/ UndoFeature \/ UndoTransfer \/ UndoDirs \/ UndoFails

-----------------------------------------------------------------------------
\* CatalogRemove.

\* Of the catalogs asked, exactly one must own the feature file; the transfer
\* must be absent, or its own.
BeginRemove(asked, force, refresh) ==
    Begin("remove",
          {r \in asked : LET file == feature[ComponentOf[r]]
                         IN file \in Generated /\ file.repo = r},
          {r \in Repos : Writable(transfer[ComponentOf[r]], r)},
          force, refresh, "check")

\* The transfers of the feature that load: the generated one only if it is there.
Targets == IF transfer[Comp] # Absent THEN ImagesIn[Comp] ELSE OthersIn[Comp]

\* DisableFeature with Now: refused when an image is merged, without Force.
CheckMerged ==
    /\ At("check")
    /\ IF txn.force \/ \A i \in Among(Targets) : merged[i] = NoVersion
       THEN Goto("disable")
       ELSE Return("refused")
    /\ UNCHANGED <<world, merged, remote, history, faults, ops>>

\* /run/extensions cannot be read: a warning, and no image counts as merged.
CheckBlind ==
    /\ At("check")
    /\ Fault("check")
    /\ Goto("disable")
    /\ UNCHANGED <<world, merged, remote, history, ops>>

\* Slip: images that are not merged are not torn down.
DisableMergedOnly ==
    /\ At("disable")
    /\ dropin' = [dropin EXCEPT ![Comp] = "disabled"]
    /\ txn' = [txn EXCEPT !.todo = Targets,
                 !.pc = IF \A i \in Among(Targets) : merged[i] = NoVersion
                        THEN "rmTransfer" ELSE "unmerge"]
    /\ UNCHANGED <<transfer, feature, linked, dirs, merged, remote, history, faults, ops>>

\* Slip: no drop-in is written for definitions that are about to go.
DisableUnwritten ==
    /\ At("disable")
    /\ txn' = [txn EXCEPT !.todo = Targets,
                 !.pc = IF Targets = <<>> THEN "rmTransfer" ELSE "unmerge"]
    /\ UNCHANGED <<world, merged, remote, history, faults, ops>>

DisableDropIn ==
    /\ At("disable")
    /\ IF Comp \in linked \/ dropin[Comp] = "irregular"
       THEN Return("failed") /\ UNCHANGED dropin
       ELSE /\ dropin' = [dropin EXCEPT ![Comp] = "disabled"]
            /\ txn' = [txn EXCEPT !.todo = Targets,
                         !.pc = IF Targets = <<>> THEN "rmTransfer" ELSE "unmerge"]
    /\ UNCHANGED <<transfer, feature, linked, dirs, merged, remote, history, faults, ops>>

Unmerge ==
    /\ At("unmerge")
    /\ merged' = [i \in Images |-> NoVersion]
    /\ Goto("unlink")
    /\ UNCHANGED <<world, remote, history, faults, ops>>

\* UnlinkFromSysextAt; a failure is only a warning.
Unlink ==
    /\ At("unlink")
    /\ \/ link' = [link EXCEPT ![Img] = NoVersion] /\ UNCHANGED faults
       \/ Fault("unlink") /\ UNCHANGED link
    /\ Goto("purge")
    /\ UNCHANGED <<files, staged, merged, remote, history, ops>>

\* Slip: images that cannot be removed are only warned of.
PurgeSilently ==
    /\ At("purge")
    /\ \/ staged' = [staged EXCEPT ![Img] = {}] /\ UNCHANGED faults
       \/ Fault("purge") /\ UNCHANGED staged
    /\ NextImage("unlink", "remerge")
    /\ UNCHANGED <<files, link, merged, remote, history, ops>>

\* RemoveAllVersionsAt; a failure may leave any of them, and ends the command.
Purge ==
    /\ At("purge")
    /\ \/ /\ staged' = [staged EXCEPT ![Img] = {}]
          /\ NextImage("unlink", "remerge")
          /\ UNCHANGED faults
       \/ /\ Fault("purge")
          /\ \E left \in SUBSET staged[Img] \ {{}} :
               staged' = [staged EXCEPT ![Img] = left]
          /\ Return("failed")
    /\ UNCHANGED <<files, link, merged, remote, history, ops>>

Remerge ==
    /\ At("remerge")
    /\ merged' = IF txn.refresh THEN ServedNow ELSE merged
    /\ Goto("rmTransfer")
    /\ UNCHANGED <<world, remote, history, faults, ops>>

RemoveTransfer ==
    /\ At("rmTransfer")
    /\ transfer' = [transfer EXCEPT ![Comp] = Absent]
    /\ Goto("rmFeature")
    /\ UNCHANGED <<feature, dropin, linked, dirs, merged, remote, history, faults, ops>>

RemoveFeature ==
    /\ At("rmFeature")
    /\ feature' = [feature EXCEPT ![Comp] = Absent]
    /\ Goto("rmDropIn")
    /\ UNCHANGED <<transfer, dropin, linked, dirs, merged, remote, history, faults, ops>>

RemoveDropIn ==
    /\ At("rmDropIn")
    /\ dropin' = [dropin EXCEPT ![Comp] = "absent"]
    /\ Return("ok")
    /\ UNCHANGED <<transfer, feature, linked, dirs, merged, remote, history, faults, ops>>

RemoveFails ==
    /\ txn.pc \in RemoveLabels \ {"check", "unlink", "purge"}
    /\ At("remerge") => txn.refresh
    /\ Fault(txn.pc)
    /\ Return("failed")
    /\ UNCHANGED <<world, merged, remote, history, ops>>

RemoveStep ==
    \/ CheckMerged \/ CheckBlind \/ DisableDropIn \/ Unmerge \/ Unlink \/ Purge
    \/ Remerge \/ RemoveTransfer \/ RemoveFeature \/ RemoveDropIn \/ RemoveFails

-----------------------------------------------------------------------------
\* The client is killed: nothing is undone, and no rollback will run.
Crash ==
    /\ ~At("idle")
    /\ Fault("crash")
    /\ Return("crashed")
    /\ UNCHANGED <<world, merged, remote, history, ops>>

\* A catalog publishes another conf, or withdraws it; a source another version.
Publish ==
    /\ At("idle")
    /\ ops > 0
    /\ ops' = ops - 1
    /\ \/ /\ \E r \in Repos, rev \in Revisions \cup {0} :
               rev # published[r] /\ published' = [published EXCEPT ![r] = rev]
          /\ UNCHANGED offered
       \/ /\ \E i \in Images, v \in VersionOrNone :
               v # offered[i] /\ offered' = [offered EXCEPT ![i] = v]
          /\ UNCHANGED published
    /\ UNCHANGED <<world, merged, txn, history, faults>>

\* An operator writes a definition of the same name by hand.
Edit(c) ==
    /\ At("idle")
    /\ ops > 0
    /\ ops' = ops - 1
    /\ \/ transfer' = [transfer EXCEPT ![c] = Foreign] /\ UNCHANGED feature
       \/ feature' = [feature EXCEPT ![c] = Foreign] /\ UNCHANGED transfer
    /\ txn' = [txn EXCEPT !.op = "none", !.res = "none"]
    /\ UNCHANGED <<dropin, linked, dirs, merged, remote, history, faults>>

Next ==
    \/ \E asked \in {Repos} \cup {{r} : r \in Repos}, force, refresh \in BOOLEAN :
         BeginAdd(asked, refresh) \/ BeginRemove(asked, force, refresh)
    \/ AddStep
    \/ RemoveStep
    \/ Crash
    \/ Publish
    \/ \E c \in Components : Edit(c)

Spec == Init /\ [][Next]_vars
-----------------------------------------------------------------------------
Ended(op, r) == At("idle") /\ txn.op = op /\ txn.res = r

\* A failed add leaves every definition, drop-in, image and link as it found
\* them, wherever it failed, unless it reported that it could not.
FailedAddRestores ==
    Ended("add", "failed") /\ ~broken => world = before

\* A vacuum that fails is rolled back like the steps before it ("every failure
\* past the first definition write runs the same rollback() closure -
\* including ... vacuum, and the final refresh").
EveryFailureRollsBack ==
    [][At("vacuum") /\ faults' # faults => ~At("install")' /\ ~At("refresh")']_vars

\* A successful add leaves the conf of one catalog, enabled, its images staged,
\* linked at the newest and, unless told not to, merged.
AddIsComplete ==
    Ended("add", "ok") =>
      /\ transfer[Comp] = [repo |-> Repo, rev |-> txn.rev]
      /\ feature[Comp] = transfer[Comp]
      /\ dropin[Comp] = "enabled"
      /\ \A i \in Among(ImagesIn[Comp]) : staged[i] # {} /\ link[i] = Newest(staged[i])
      /\ txn.refresh => merged = ServedNow

\* A successful remove leaves no file of the add, and no image of the name is
\* served: also when an earlier add or remove was cut short by a crash.  (Only a
\* rollback that could not restore may have left an image with no transfer.)
RemoveIsComplete ==
    Ended("remove", "ok") =>
      /\ transfer[Comp] = Absent /\ feature[Comp] = Absent /\ dropin[Comp] = "absent"
      /\ (\A c \in Components : transfer[c] = Absent) /\ ~broken
           => ServedNow[main] = NoVersion

\* No image is ever staged without a transfer that manages it: definitions are
\* written first and removed last, so a crash leaves no orphan.
ImagesAreManaged ==
    staged[main] # {} /\ ~broken => \E c \in Components : transfer[c] # Absent

\* A drop-in that enables never waits for a feature that is not there: a later
\* definition of the name would be enabled by a command that failed or crashed.
NoArmedDropIn ==
    ~broken => \A c \in Components : dropin[c] = "enabled" => feature[c] # Absent

\* Two catalogs that share a component never end up with one file each.
OneOwner ==
    \A c \in Components :
      (transfer[c] \in Generated /\ feature[c] \in Generated)
        => transfer[c].repo = feature[c].repo

\* No command changes a definition it did not generate, not even to undo.
ForeignUntouched ==
    [][\A c \in Components :
         /\ ~At("idle") /\ ~Writable(transfer[c], Repo) => transfer'[c] = transfer[c]
         /\ ~At("idle") /\ ~Writable(feature[c], Repo) => feature'[c] = feature[c]]_vars
=============================================================================
