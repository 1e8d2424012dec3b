---------------------------- MODULE StagingProofs ----------------------------
(***************************************************************************)
(* Theorems of Staging, for any images, features, processes, commands,    *)
(* releases, failures and bounds.                                          *)
(***************************************************************************)
EXTENDS Staging, SysextDirProofs

-----------------------------------------------------------------------------
\* Types.

LEMMA VersionTypes ==
    /\ NoVersion \notin Versions
    /\ Versions \subseteq VersionOrNone
    /\ NoVersion \in VersionOrNone
  BY DEF NoVersion, Versions, VersionOrNone

LEMMA IdleType == Idle \in Local
<1>1. NoJob \in Job
  BY StagingAssumption DEF NoJob, Job
<1>2. QED
  BY <1>1, VersionTypes DEF Idle, Local, Labels, Results

LEMMA NewestType ==
    ASSUME NEW S \in SUBSET Versions, S # {}
    PROVE  Newest(S) \in Versions /\ Newest(S) \in VersionOrNone
  BY NewestIsGreatest, VersionTypes

LEMMA ServedType ==
    ASSUME staged \in [Images -> SUBSET Versions], link \in [Images -> VersionOrNone]
    PROVE  ServedNow \in [Images -> VersionOrNone]
  BY VersionTypes DEF ServedNow, Served

\* A step that changes proc at p only, to a local state of the right type.
LEMMA ProcStep ==
    ASSUME ProcOK, NEW p \in Procs, NEW r \in Local,
           r.pc \in ImageLabels => r.todo # <<>>,
           r.pc \in TargetLabels => r.target # NoVersion,
           proc' = [proc EXCEPT ![p] = r]
    PROVE  ProcOK'
  BY DEF ProcOK

LEMMA ReturnType ==
    ASSUME ProcOK, NEW p \in Procs, NEW r \in Results, Return(p, r)
    PROVE  ProcOK'
<1>. DEFINE new == [Idle EXCEPT !.job = proc[p].job, !.res = r]
<1>1. new \in Local /\ new.pc = "idle"
  BY IdleType DEF ProcOK, Local, Idle
<1>2. proc' = [proc EXCEPT ![p] = new]
  BY DEF Return
<1>. HIDE DEF new
<1>3. QED
  BY <1>1, <1>2, ProcStep DEF ImageLabels, TargetLabels

LEMMA NextTransferType ==
    ASSUME ProcOK, NEW p \in Procs, NEW r \in Results, proc[p].todo # <<>>,
           NextTransfer(p, r)
    PROVE  ProcOK'
<1>. DEFINE new == [Idle EXCEPT !.pc = "next", !.job = proc[p].job, !.res = r,
                                !.dom = proc[p].dom, !.feats = proc[p].feats,
                                !.todo = Tail(proc[p].todo)]
<1>1. proc[p] \in Local
  BY DEF ProcOK
<1>2. Tail(proc[p].todo) \in Seq(Images)
  BY <1>1 DEF Local
<1>3. new \in Local /\ new.pc = "next"
  BY <1>1, <1>2, IdleType DEF Local, Idle, Labels
<1>4. proc' = [proc EXCEPT ![p] = new]
  BY DEF NextTransfer
<1>. HIDE DEF new
<1>5. QED
  BY <1>3, <1>4, ProcStep DEF ImageLabels, TargetLabels

LEMMA InstallFailsType ==
    ASSUME ProcOK, NEW p \in Procs, proc[p].todo # <<>>, InstallFails(p)
    PROVE  ProcOK'
  BY ReturnType, NextTransferType DEF InstallFails, Results

\* Each step preserves the types.
LEMMA ImgType ==
    ASSUME ProcOK, NEW p \in Procs, proc[p].pc \in ImageLabels
    PROVE  Img(p) \in Images /\ proc[p].todo # <<>>
  BY DEF ProcOK, Img, Local

LEMMA BeginType ==
    ASSUME TypeOK, NEW p \in Procs, Begin(p)
    PROVE  TypeOK'
<1>1. PICK j \in Jobs[p] :
         /\ IF j.kind = "update" THEN UNCHANGED ops ELSE ops > 0 /\ ops' = ops - 1
         /\ proc' = [proc EXCEPT ![p] =
              [Idle EXCEPT !.job = j, !.res = "ok",
                 !.dom = enabled,
                 !.feats = IF j.kind = "update" THEN FeatureOrder ELSE <<>>,
                 !.pc = IF j.kind = "update" THEN "next"
                        ELSE IF j.kind = "disable" /\ j.now /\ ImagesOf[j.feature] # <<>>
                        THEN "check" ELSE "dropin"]]
  BY DEF Begin
<1>. DEFINE new == [Idle EXCEPT !.job = j, !.res = "ok",
                      !.dom = enabled,
                      !.feats = IF j.kind = "update" THEN FeatureOrder ELSE <<>>,
                      !.pc = IF j.kind = "update" THEN "next"
                             ELSE IF j.kind = "disable" /\ j.now /\ ImagesOf[j.feature] # <<>>
                             THEN "check" ELSE "dropin"]
<1>2. j \in Job
  BY StagingAssumption
<1>3. new \in Local /\ new.pc \notin ImageLabels /\ new.pc \notin TargetLabels
  BY <1>2, IdleType, StagingAssumption
  DEF Local, Idle, Labels, ImageLabels, TargetLabels, Results, TypeOK, HostOK
<1>4. proc' = [proc EXCEPT ![p] = new]
  BY <1>1
<1>. HIDE DEF new
<1>5. ProcOK'
  BY <1>3, <1>4, ProcStep DEF TypeOK
<1>6. HostOK'
  BY <1>1 DEF Begin, TypeOK, HostOK, dirs, host
<1>7. QED
  BY <1>5, <1>6 DEF TypeOK

LEMMA CommandTypes ==
    ASSUME TypeOK, NEW p \in Procs,
           \/ WriteDropIn(p) \/ DropInFails(p) \/ NextFeature(p) \/ NextImage(p)
           \/ Refresh(p) \/ RefreshFails(p) \/ FinishWithoutRefresh(p)
    PROVE  TypeOK'
<1>. USE DEF TypeOK
<1>0. proc[p] \in Local
  BY DEF ProcOK
<1>1. CASE WriteDropIn(p)
  <2>1. HostOK'
    BY <1>1 DEF WriteDropIn, HostOK, dirs
  <2>2. proc[p].job.feature \in Features /\ ImagesOf[Feature(p)] \in Seq(Images)
    BY <1>0, StagingAssumption DEF Local, Job, Feature
  <2>3. CASE Return(p, "ok")
    BY <2>3, ReturnType, <2>1 DEF Results
  <2>4. CASE proc' = [proc EXCEPT ![p].pc = "next", ![p].todo = ImagesOf[Feature(p)]]
    BY ZenonT(60), <1>0, <2>1, <2>2, <2>4 DEF ProcOK, Local, Labels, ImageLabels, TargetLabels
  <2>5. CASE proc' = [proc EXCEPT ![p].pc = "unmerge"]
    BY ZenonT(60), <1>0, <2>1, <2>5 DEF ProcOK, Local, Labels, ImageLabels, TargetLabels
  <2>6. QED
    BY <1>1, <2>3, <2>4, <2>5 DEF WriteDropIn
<1>2. CASE DropInFails(p)
  BY <1>2, ReturnType DEF DropInFails, HostOK, dirs, host, Fault, Results
<1>3. CASE NextFeature(p)
  <2>1. HostOK'
    BY <1>3 DEF NextFeature, HostOK, dirs, host
  <2>2. /\ Head(proc[p].feats) \in Features
        /\ Tail(proc[p].feats) \in Seq(Features)
        /\ ImagesOf[Head(proc[p].feats)] \in Seq(Images)
    <3>1. proc[p].feats \in Seq(Features) /\ proc[p].feats # <<>>
      BY <1>0, <1>3 DEF NextFeature, Local
    <3>2. Head(proc[p].feats) \in Features /\ Tail(proc[p].feats) \in Seq(Features)
      BY <3>1
    <3>3. QED
      BY <3>2, StagingAssumption
  <2>3. ProcOK'
    BY <1>0, <1>3, <2>2 DEF NextFeature, ProcOK, Local, At, ImageLabels, TargetLabels
  <2>4. QED
    BY <2>1, <2>3
<1>4. CASE NextImage(p)
  <2>1. HostOK'
    BY <1>4 DEF NextImage, HostOK, dirs, host
  <2>2. ProcOK'
    BY <1>0, <1>4 DEF NextImage, ProcOK, Local, At, Labels, TargetLabels
  <2>3. QED
    BY <2>1, <2>2
<1>5. CASE Refresh(p)
  <2>1. proc[p].res \in Results
    BY <1>0 DEF Local
  <2>2. ProcOK'
    BY <1>5, <2>1, ReturnType DEF Refresh
  <2>3. HostOK'
    BY <1>5, ServedType DEF Refresh, HostOK, dirs
  <2>4. QED
    BY <2>2, <2>3
<1>6. CASE RefreshFails(p)
  BY <1>6, ReturnType DEF RefreshFails, HostOK, dirs, host, Fault, Results
<1>7. CASE FinishWithoutRefresh(p)
  <2>1. proc[p].res \in Results
    BY <1>0 DEF Local
  <2>2. QED
    BY <1>7, <2>1, ReturnType DEF FinishWithoutRefresh, HostOK, dirs, host
<1>8. QED
  BY <1>1, <1>2, <1>3, <1>4, <1>5, <1>6, <1>7

LEMMA InstallTypes ==
    ASSUME TypeOK, NEW p \in Procs, InstallStep(p)
    PROVE  TypeOK'
<1>. USE DEF TypeOK
<1>0. proc[p] \in Local
  BY DEF ProcOK
<1>1. proc[p].pc \in ImageLabels
  BY DEF InstallStep, Fetch, FetchFails, Inspect, InspectFails, RemoveLegacy,
         VerifyLink, Download, DownloadFails, PickTarget, RenameLink, RenameFails,
         ScanVacuum, VacuumOne, VacuumEnds, At, Labels, ImageLabels
<1>2. Img(p) \in Images /\ proc[p].todo # <<>>
  BY <1>1, ImgType
<1>3. proc[p].res \in Results
  BY <1>0 DEF Local
<1>4. ASSUME ImageDone(p) PROVE ProcOK'
  BY <1>2, <1>3, <1>4, NextTransferType DEF ImageDone
<1>5. ASSUME InstallFails(p) PROVE ProcOK'
  BY <1>2, <1>5, InstallFailsType
<1>6. CASE Fetch(p)
  <2>1. Newest(avail[Img(p)]) \in Versions
    BY <1>2, <1>6, NewestType DEF Fetch, HostOK
  <2>2. HostOK'
    BY <1>6 DEF Fetch, HostOK, dirs, host
  <2>3. ProcOK'
    BY <1>0, <1>2, <1>6, <2>1, VersionTypes
    DEF Fetch, ProcOK, Local, Labels, ImageLabels, TargetLabels
  <2>4. QED
    BY <2>2, <2>3
<1>7. CASE FetchFails(p)
  BY <1>5, <1>7 DEF FetchFails, HostOK, dirs, host, Fault
<1>8. CASE Inspect(p)
  BY <1>0, <1>2, <1>8
  DEF Inspect, UpToDate, HostOK, ProcOK, Local, At, Labels, ImageLabels,
      TargetLabels, dirs, host
<1>9. CASE InspectFails(p)
  BY <1>5, <1>9 DEF InspectFails, HostOK, dirs, host, Fault
<1>10. CASE RemoveLegacy(p)
  <2>1. HostOK'
    BY <1>2, <1>10, VersionTypes DEF RemoveLegacy, HostOK, host, Fault
  <2>2. ProcOK'
    BY <1>0, <1>2, <1>10 DEF RemoveLegacy, At, ProcOK, Local, Labels, ImageLabels, TargetLabels
  <2>3. QED
    BY <2>1, <2>2
<1>11. CASE VerifyLink(p)
  <2>1. HostOK'
    BY <1>11 DEF VerifyLink, HostOK, dirs, host
  <2>2. CASE proc' = [proc EXCEPT ![p].pc = "pick"]
    BY <1>0, <1>2, <2>1, <2>2 DEF ProcOK, Local, Labels, ImageLabels, TargetLabels
  <2>3. QED
    BY <1>4, <1>5, <1>11, <2>1, <2>2 DEF VerifyLink
<1>12. CASE Download(p)
  <2>1. proc[p].target \in Versions
    BY <1>0, <1>12 DEF Local, Download, At, ProcOK, TargetLabels, VersionOrNone
  <2>2. HostOK'
    BY <1>2, <1>12, <2>1 DEF Download, HostOK, host
  <2>3. ProcOK'
    BY <1>0, <1>2, <1>12 DEF Download, ProcOK, Local, Labels, ImageLabels, TargetLabels
  <2>4. QED
    BY <2>2, <2>3
<1>13. CASE DownloadFails(p)
  BY <1>5, <1>13 DEF DownloadFails, HostOK, dirs, host, Fault
<1>14. CASE PickTarget(p)
  <2>1. HostOK'
    BY <1>14 DEF PickTarget, HostOK, dirs, host
  <2>2. CASE staged[Img(p)] = {}
    BY <1>5, <1>14, <2>1, <2>2 DEF PickTarget
  <2>3. CASE staged[Img(p)] # {}
    <3>1. Newest(staged[Img(p)]) \in VersionOrNone
      BY <1>2, <2>3, NewestType DEF HostOK
    <3>2. proc' = [proc EXCEPT ![p].pc = "rename", ![p].choice = Newest(staged[Img(p)])]
      BY <1>14, <2>3 DEF PickTarget
    <3>3. QED
      BY <1>0, <1>2, <2>1, <3>1, <3>2
      DEF ProcOK, Local, Labels, ImageLabels, TargetLabels
  <2>4. QED
    BY <2>2, <2>3
<1>15. CASE RenameLink(p)
  <2>1. HostOK'
    BY <1>0, <1>15 DEF RenameLink, HostOK, host, Local
  <2>2. CASE proc' = [proc EXCEPT ![p].pc = "scan"]
    BY <1>0, <1>2, <2>1, <2>2 DEF ProcOK, Local, Labels, ImageLabels, TargetLabels
  <2>3. QED
    BY <1>4, <1>15, <2>1, <2>2 DEF RenameLink
<1>16. CASE RenameFails(p)
  BY <1>5, <1>16 DEF RenameFails, HostOK, dirs, host, Fault
<1>17. CASE ScanVacuum(p)
  <2>1. VacuumRemoves(staged[Img(p)], legacy[Img(p)], Protect[Img(p)],
                      InstancesMax[Img(p)]) \in SUBSET Versions
    BY <1>2 DEF VacuumRemoves, Doomed, HostOK
  <2>2. QED
    BY <1>0, <1>2, <1>17, <2>1
    DEF ScanVacuum, HostOK, ProcOK, Local, Labels, ImageLabels, TargetLabels, dirs, host
<1>18. CASE VacuumOne(p)
  <2>1. HostOK'
    BY <1>18 DEF VacuumOne, HostOK, host
  <2>2. ProcOK'
    BY <1>0, <1>2, <1>18 DEF VacuumOne, ProcOK, Local
  <2>3. QED
    BY <2>1, <2>2
<1>19. CASE VacuumEnds(p)
  BY <1>4, <1>19 DEF VacuumEnds, HostOK, dirs, host, Fault
<1>20. QED
  BY <1>6, <1>7, <1>8, <1>9, <1>10, <1>11, <1>12, <1>13, <1>14, <1>15, <1>16,
     <1>17, <1>18, <1>19 DEF InstallStep

LEMMA DisableTypes ==
    ASSUME TypeOK, NEW p \in Procs, DisableStep(p)
    PROVE  TypeOK'
<1>. USE DEF TypeOK
<1>0. proc[p] \in Local
  BY DEF ProcOK
<1>1. proc[p].job.feature \in Features /\ ImagesOf[Feature(p)] \in Seq(Images)
  BY <1>0, StagingAssumption DEF Local, Job, Feature
<1>2. ASSUME proc[p].pc \in {"unlink", "readdir", "rmlegacy", "purge"}
      PROVE  Img(p) \in Images /\ proc[p].todo # <<>>
  BY <1>2, ImgType DEF ImageLabels, Labels
<1>3. proc[p].res \in Results
  BY <1>0 DEF Local
<1>4. ASSUME Return(p, "refused") \/ Return(p, "failed") PROVE ProcOK'
  BY <1>4, ReturnType DEF Results
<1>5. ASSUME proc' = [proc EXCEPT ![p].pc = "dropin"] PROVE ProcOK'
  BY ZenonT(60), <1>0, <1>5 DEF ProcOK, Local, Labels, ImageLabels, TargetLabels
<1>6. CASE CheckMerged(p)
  BY <1>4, <1>5, <1>6 DEF CheckMerged, HostOK, dirs, host
<1>7. CASE CheckBlind(p)
  BY <1>5, <1>7 DEF CheckBlind, HostOK, dirs, host, Fault
<1>8. CASE Unmerge(p)
  <2>1. HostOK'
    BY <1>8, VersionTypes DEF Unmerge, HostOK, dirs
  <2>2. ProcOK'
    BY ZenonT(60), <1>0, <1>1, <1>8 DEF Unmerge, ProcOK, Local, Labels, ImageLabels, TargetLabels
  <2>3. QED
    BY <2>1, <2>2
<1>9. CASE UnmergeFails(p)
  BY <1>4, <1>9 DEF UnmergeFails, HostOK, dirs, host, Fault
<1>10. CASE Unlink(p)
  <2>1. HostOK'
    BY <1>10, VersionTypes DEF Unlink, HostOK, host, Fault
  <2>2. ProcOK'
    BY <1>0, <1>2, <1>10
    DEF Unlink, At, ProcOK, Local, Labels, ImageLabels, TargetLabels
  <2>3. QED
    BY <2>1, <2>2
<1>11. CASE ReadStaging(p)
  <2>1. HostOK'
    BY <1>11 DEF ReadStaging, HostOK, dirs, host
  <2>2. staged[Img(p)] \in SUBSET Versions
    BY <1>2, <1>11 DEF ReadStaging, At, HostOK
  <2>3. ProcOK'
    BY <1>0, <1>2, <1>11, <2>2
    DEF ReadStaging, At, ProcOK, Local, Labels, ImageLabels, TargetLabels
  <2>4. QED
    BY <2>1, <2>3
<1>12. CASE PurgeLegacy(p)
  <2>1. HostOK'
    BY <1>12, VersionTypes DEF PurgeLegacy, HostOK, host
  <2>2. ProcOK'
    BY <1>0, <1>2, <1>12
    DEF PurgeLegacy, At, ProcOK, Local, Labels, ImageLabels, TargetLabels
  <2>3. QED
    BY <2>1, <2>2
<1>13. CASE PurgeOne(p)
  <2>1. HostOK'
    BY <1>13 DEF PurgeOne, HostOK, host
  <2>2. PICK v \in proc[p].doomed : proc' = [proc EXCEPT ![p].doomed = @ \ {v}]
    BY <1>13 DEF PurgeOne
  <2>4. ProcOK'
    BY <1>0, <1>2, <2>2 DEF ProcOK, Local
  <2>3. QED
    BY <2>1, <2>4
<1>14. CASE PurgeDone(p)
  <2>1. ProcOK'
    BY <1>2, <1>3, <1>14, NextTransferType DEF PurgeDone, At, ImageDone
  <2>2. QED
    BY <1>14, <2>1 DEF PurgeDone, HostOK, dirs, host
<1>15. CASE PurgeFails(p)
  BY <1>4, <1>15 DEF PurgeFails, HostOK, dirs, host, Fault
<1>16. QED
  BY <1>6, <1>7, <1>8, <1>9, <1>10, <1>11, <1>12, <1>13, <1>14, <1>15
  DEF DisableStep

LEMMA InitTypes == Init => TypeOK
<1>1. ASSUME Init PROVE TypeOK
  <2>1. ProcOK
    BY <1>1, IdleType DEF Init, ProcOK, Idle, ImageLabels, TargetLabels
  <2>2. /\ legacy \in [Images -> VersionOrNone]
        /\ staged \in [Images -> SUBSET Versions]
        /\ merged \in [Images -> VersionOrNone]
    BY <1>1, VersionTypes DEF Init, VersionOrNone
  <2>3. HostOK
    BY <1>1, <2>2, VersionTypes, StagingAssumption DEF Init, HostOK
  <2>4. QED
    BY <2>1, <2>3 DEF TypeOK
<1>2. QED
  BY <1>1

LEMMA NextTypes == TypeOK /\ [Next]_vars => TypeOK'
<1>. SUFFICES ASSUME TypeOK, [Next]_vars PROVE TypeOK'
  OBVIOUS
<1>1. ASSUME NEW p \in Procs, Begin(p) PROVE TypeOK'
  BY <1>1, BeginType
<1>2. ASSUME NEW p \in Procs, CommandStep(p) PROVE TypeOK'
  BY <1>2, CommandTypes, InstallTypes, DisableTypes DEF CommandStep
<1>3. ASSUME NEW p \in Procs, Crash(p) PROVE TypeOK'
  BY <1>3, ReturnType DEF Crash, TypeOK, HostOK, dirs, host, Fault, Results
<1>4. CASE Reboot
  <2>0. merged' \in [Images -> VersionOrNone]
    BY <1>4, ServedType DEF Reboot, TypeOK, HostOK
  <2>9. UNCHANGED <<staged, link, legacy, enabled, avail, ops>> /\ Fault("reboot")
    BY <1>4 DEF Reboot, dirs
  <2>1. HostOK'
    BY <2>0, <2>9 DEF TypeOK, HostOK, Fault
  <2>2. ASSUME NEW p \in Procs
        PROVE  [Idle EXCEPT !.job = proc[p].job, !.res = "crashed"] \in Local
    <3>1. proc[p].job \in Job
      BY DEF TypeOK, ProcOK, Local
    <3>2. QED
      BY <3>1, IdleType DEF Local, Results
  <2>3. ASSUME NEW p \in Procs
        PROVE  [Idle EXCEPT !.job = proc[p].job, !.res = "crashed"].pc = "idle"
    BY DEF Idle
  <2>4. ProcOK'
    BY <1>4, <2>2, <2>3 DEF Reboot, TypeOK, ProcOK, ImageLabels, TargetLabels
  <2>5. QED
    BY <2>1, <2>4 DEF TypeOK
<1>5. ASSUME NEW i \in Images, Release(i) PROVE TypeOK'
  <2>1. HostOK'
    BY <1>5, StagingAssumption DEF Release, TypeOK, HostOK, dirs
  <2>2. ProcOK'
    BY <1>5 DEF Release, TypeOK, ProcOK
  <2>3. QED
    BY <2>1, <2>2 DEF TypeOK
<1>6. CASE UNCHANGED vars
  BY <1>6 DEF vars, TypeOK, HostOK, ProcOK
<1>7. QED
  BY <1>1, <1>2, <1>3, <1>4, <1>5, <1>6 DEF Next

\* Every variable keeps its type: what a listing returns, what a link names and
\* what a command remembers are versions of the image at hand, whichever
\* commands run at once and whatever fails.
THEOREM TypeCorrect == Spec => []TypeOK
  BY InitTypes, NextTypes, PTL DEF Spec

-----------------------------------------------------------------------------
\* One command at a time: the link an image is served through never dangles.

\* What the command of process p knows of the link it is about to change, or
\* has just changed.
LinkInv(p) ==
    /\ LinkNeverDangles
    /\ At(p, "rename") =>
         staged[Img(p)] # {} /\ proc[p].choice = Newest(staged[Img(p)])
    /\ At(p, "scan") =>
         staged[Img(p)] # {} /\ link[Img(p)] = Newest(staged[Img(p)])
    /\ At(p, "vacuum") =>
         link[Img(p)] \in staged[Img(p)] /\ link[Img(p)] \notin proc[p].doomed
    /\ proc[p].pc \in {"readdir", "rmlegacy", "purge"} => link[Img(p)] = NoVersion

\* The labels LinkInv says something about.
LinkLabels == {"rename", "scan", "vacuum", "readdir", "rmlegacy", "purge"}

\* A step that leaves the directories alone, and the process at no label that
\* LinkInv is about, keeps it.
LEMMA LinkInvFrame ==
    ASSUME NEW p \in Procs, LinkInv(p), UNCHANGED <<staged, link>>,
           proc'[p].pc \notin LinkLabels
    PROVE  LinkInv(p)'
  BY DEF LinkInv, LinkNeverDangles, At, LinkLabels

LEMMA ReturnLabel ==
    ASSUME ProcOK, NEW p \in Procs, NEW r, Return(p, r)
    PROVE  proc'[p].pc = "idle"
  BY DEF Return, ProcOK, Idle

LEMMA NextTransferLabel ==
    ASSUME ProcOK, NEW p \in Procs, NEW r, NextTransfer(p, r)
    PROVE  proc'[p].pc = "next"
  BY DEF NextTransfer, ProcOK, Idle

LEMMA InstallFailsLabel ==
    ASSUME ProcOK, NEW p \in Procs, InstallFails(p)
    PROVE  proc'[p].pc \in {"idle", "next"}
  BY ReturnLabel, NextTransferLabel DEF InstallFails

-----------------------------------------------------------------------------
\* Each step of a command keeps LinkInv, if no other process takes steps and
\* an unlink does not fail.
LEMMA InstallKeepsLink ==
    ASSUME TypeOK, NEW u \in Procs, LinkInv(u), InstallStep(u)
    PROVE  LinkInv(u)'
<1>. DEFINE i == Img(u)
<1>0. proc[u] \in Local /\ proc \in [Procs -> Local] /\ ProcOK
  BY DEF TypeOK, ProcOK
<1>1. i \in Images /\ proc[u].todo # <<>>
  BY <1>0, ImgType DEF InstallStep, Fetch, FetchFails, Inspect, InspectFails,
         RemoveLegacy, VerifyLink, Download, DownloadFails, PickTarget, RenameLink,
         RenameFails, ScanVacuum, VacuumOne, VacuumEnds, At, Labels, ImageLabels
<1>2. staged[i] \in SUBSET Versions
  BY <1>1 DEF TypeOK, HostOK
<1>3. ASSUME InstallFails(u) PROVE proc'[u].pc \notin LinkLabels
  BY <1>0, <1>3, InstallFailsLabel DEF LinkLabels
<1>4. ASSUME ImageDone(u) PROVE proc'[u].pc \notin LinkLabels
  BY <1>0, <1>4, NextTransferLabel DEF LinkLabels, ImageDone
<1>5. CASE \/ Fetch(u) \/ FetchFails(u) \/ Inspect(u) \/ InspectFails(u)
           \/ VerifyLink(u) \/ DownloadFails(u) \/ RenameFails(u) \/ VacuumEnds(u)
  <2>1. UNCHANGED <<staged, link>>
    BY <1>5 DEF Fetch, FetchFails, Inspect, InspectFails, VerifyLink,
                DownloadFails, RenameFails, VacuumEnds, dirs
  <2>2. proc'[u].pc \notin LinkLabels
    BY <1>0, <1>3, <1>4, <1>5
    DEF Fetch, FetchFails, Inspect, InspectFails, VerifyLink,
        DownloadFails, RenameFails, VacuumEnds, LinkLabels, Local
  <2>3. QED
    BY <2>1, <2>2, LinkInvFrame
<1>6. CASE RemoveLegacy(u)
  <2>1. UNCHANGED <<staged, link>> /\ proc'[u].pc \notin LinkLabels
    BY <1>0, <1>6 DEF RemoveLegacy, LinkLabels, Local
  <2>2. QED
    BY <2>1, LinkInvFrame
<1>7. CASE Download(u)
  <2>1. proc'[u].pc \notin LinkLabels
    BY <1>0, <1>7 DEF Download, LinkLabels, Local
  <2>2. LinkNeverDangles'
    BY <1>7 DEF Download, LinkInv, LinkNeverDangles, TypeOK, HostOK
  <2>3. QED
    BY <2>1, <2>2 DEF LinkInv, At, LinkLabels
<1>8. CASE PickTarget(u)
  <2>1. CASE staged[i] = {}
    <3>1. UNCHANGED <<staged, link>> /\ proc'[u].pc \notin LinkLabels
      BY <1>3, <1>8, <2>1 DEF PickTarget, dirs
    <3>2. QED
      BY <3>1, LinkInvFrame
  <2>2. CASE staged[i] # {}
    <3>1. /\ UNCHANGED <<staged, link>>
          /\ proc' = [proc EXCEPT ![u].pc = "rename", ![u].choice = Newest(staged[i])]
      BY <1>8, <2>2 DEF PickTarget, dirs
    <3>2. /\ proc'[u].pc = "rename"
          /\ proc'[u].choice = Newest(staged[i])
          /\ proc'[u].todo = proc[u].todo
      BY <1>0, <3>1 DEF Local
    <3>3. QED
      BY <2>2, <3>1, <3>2 DEF LinkInv, LinkNeverDangles, At, Img
  <2>3. QED
    BY <2>1, <2>2
<1>9. CASE RenameLink(u)
  <2>1. /\ staged[i] # {}
        /\ link' = [link EXCEPT ![i] = Newest(staged[i])]
        /\ staged' = staged
    BY <1>9 DEF RenameLink, LinkInv
  <2>2. Newest(staged[i]) \in staged[i]
    BY <1>2, <2>1, NewestIsGreatest
  <2>3. LinkNeverDangles' /\ link'[i] = Newest(staged[i])
    BY <1>1, <2>1, <2>2 DEF LinkInv, LinkNeverDangles, TypeOK, HostOK
  <2>4. CASE ImageDone(u)
    BY <1>4, <2>3, <2>4 DEF LinkInv, At, LinkLabels
  <2>5. CASE proc' = [proc EXCEPT ![u].pc = "scan"]
    <3>1. proc'[u].pc = "scan" /\ proc'[u].todo = proc[u].todo
      BY <1>0, <2>5 DEF Local
    <3>2. QED
      BY <2>1, <2>3, <3>1 DEF LinkInv, At, Img
  <2>6. QED
    BY <1>9, <2>4, <2>5 DEF RenameLink
<1>10. CASE ScanVacuum(u)
  <2>1. UNCHANGED <<staged, link>>
    BY <1>10 DEF ScanVacuum, dirs
  <2>2. /\ proc'[u].pc = "vacuum"
        /\ proc'[u].doomed = VacuumRemoves(staged[i], legacy[i], Protect[i], InstancesMax[i])
        /\ proc'[u].todo = proc[u].todo
    BY <1>0, <1>10 DEF ScanVacuum, Local
  <2>3. staged[i] # {} /\ link[i] = Newest(staged[i])
    BY <1>10 DEF ScanVacuum, LinkInv
  <2>4. link[i] \in staged[i]
    BY <1>2, <2>3, NewestIsGreatest
  <2>5. link[i] \notin proc'[u].doomed
    <3>1. InstancesMax[i] \in Int
      BY <1>1, StagingAssumption
    <3>2. Newest(staged[i]) \notin
            VacuumRemoves(staged[i], legacy[i], Protect[i], InstancesMax[i])
      BY <1>2, <2>3, <3>1, NewestIsKept
    <3>3. QED
      BY <2>2, <2>3, <3>2
  <2>6. QED
    BY <2>1, <2>2, <2>4, <2>5 DEF LinkInv, LinkNeverDangles, At, Img
<1>11. CASE VacuumOne(u)
  <2>1. PICK v \in proc[u].doomed :
          /\ staged' = [staged EXCEPT ![i] = @ \ {v}]
          /\ proc' = [proc EXCEPT ![u].doomed = @ \ {v}]
    <3>1. proc[u].doomed \in SUBSET Versions /\ proc[u].doomed # {}
      BY <1>0, <1>11 DEF VacuumOne, Local
    <3>2. QED
      BY <1>11, <3>1, NewestIsGreatest DEF VacuumOne
  <2>2. At(u, "vacuum") /\ link' = link
    BY <1>11 DEF VacuumOne
  <2>3. /\ proc'[u].pc = "vacuum"
        /\ proc'[u].doomed = proc[u].doomed \ {v}
        /\ proc'[u].todo = proc[u].todo
    BY <1>0, <2>1, <2>2 DEF Local, At
  <2>4. link[i] \in staged[i] /\ link[i] # v
    BY <2>1, <2>2 DEF LinkInv
  <2>5. staged'[i] = staged[i] \ {v} /\ \A j \in Images \ {i} : staged'[j] = staged[j]
    BY <1>1, <2>1 DEF TypeOK, HostOK
  <2>6. QED
    BY <1>1, <2>2, <2>3, <2>4, <2>5 DEF LinkInv, LinkNeverDangles, At, Img
<1>12. QED
  BY <1>5, <1>6, <1>7, <1>8, <1>9, <1>10, <1>11 DEF InstallStep

LEMMA DisableKeepsLink ==
    ASSUME TypeOK, NEW u \in Procs, LinkInv(u), DisableStep(u), "unlink" \notin Faults
    PROVE  LinkInv(u)'
<1>. DEFINE i == Img(u)
<1>0. proc[u] \in Local /\ proc \in [Procs -> Local] /\ ProcOK
  BY DEF TypeOK, ProcOK
<1>1. ASSUME proc[u].pc \in {"unlink", "readdir", "rmlegacy", "purge"}
      PROVE  i \in Images
  BY <1>0, <1>1, ImgType DEF ImageLabels, Labels
<1>2. CASE \/ CheckMerged(u) \/ CheckBlind(u) \/ Unmerge(u) \/ UnmergeFails(u)
           \/ PurgeDone(u) \/ PurgeFails(u)
  <2>1. UNCHANGED <<staged, link>>
    BY <1>2 DEF CheckMerged, CheckBlind, Unmerge, UnmergeFails, PurgeDone,
                PurgeFails, dirs
  <2>2. proc'[u].pc \notin LinkLabels
    BY <1>0, <1>2, ReturnLabel, NextTransferLabel
    DEF CheckMerged, CheckBlind, Unmerge, UnmergeFails, PurgeDone, PurgeFails,
        ImageDone, LinkLabels, Local
  <2>3. QED
    BY <2>1, <2>2, LinkInvFrame
<1>3. CASE Unlink(u)
  <2>1. /\ link' = [link EXCEPT ![i] = NoVersion]
        /\ staged' = staged
        /\ proc' = [proc EXCEPT ![u].pc = "readdir"]
    BY <1>3 DEF Unlink, Fault
  <2>2. link'[i] = NoVersion
    BY <1>1, <1>3, <2>1 DEF Unlink, At, TypeOK, HostOK
  <2>3. proc'[u].pc = "readdir" /\ proc'[u].todo = proc[u].todo
    BY <1>0, <2>1 DEF Local
  <2>4. LinkNeverDangles'
    BY <2>1 DEF LinkInv, LinkNeverDangles, TypeOK, HostOK
  <2>5. QED
    BY <2>2, <2>3, <2>4 DEF LinkInv, At, Img
<1>4. CASE ReadStaging(u) \/ PurgeLegacy(u)
  <2>1. UNCHANGED <<staged, link>> /\ proc[u].pc \in {"readdir", "rmlegacy"}
    BY <1>4 DEF ReadStaging, PurgeLegacy, dirs, At
  <2>2. proc'[u].pc \in {"rmlegacy", "purge"} /\ proc'[u].todo = proc[u].todo
    BY <1>0, <1>4 DEF ReadStaging, PurgeLegacy, Local
  <2>3. QED
    BY <2>1, <2>2 DEF LinkInv, LinkNeverDangles, At, Img
<1>5. CASE PurgeOne(u)
  <2>1. PICK v \in proc[u].doomed :
          /\ staged' = [staged EXCEPT ![i] = @ \ {v}]
          /\ proc' = [proc EXCEPT ![u].doomed = @ \ {v}]
    BY <1>5 DEF PurgeOne
  <2>2. At(u, "purge") /\ link' = link
    BY <1>5 DEF PurgeOne
  <2>3. proc'[u].pc = "purge" /\ proc'[u].todo = proc[u].todo
    BY <1>0, <2>1, <2>2 DEF Local, At
  <2>4. link[i] = NoVersion /\ i \in Images
    BY <1>1, <2>2 DEF LinkInv, At
  <2>5. \A j \in Images \ {i} : staged'[j] = staged[j]
    BY <2>1 DEF TypeOK, HostOK
  <2>6. QED
    BY <2>2, <2>3, <2>4, <2>5 DEF LinkInv, LinkNeverDangles, At, Img
<1>6. QED
  BY <1>2, <1>3, <1>4, <1>5 DEF DisableStep

LEMMA CommandKeepsLink ==
    ASSUME TypeOK, NEW u \in Procs, LinkInv(u),
           \/ Begin(u) \/ Crash(u) \/ Reboot
           \/ WriteDropIn(u) \/ DropInFails(u) \/ NextFeature(u) \/ NextImage(u)
           \/ Refresh(u) \/ RefreshFails(u) \/ FinishWithoutRefresh(u)
    PROVE  LinkInv(u)'
<1>0. proc[u] \in Local /\ proc \in [Procs -> Local] /\ ProcOK
  BY DEF TypeOK, ProcOK
<1>1. UNCHANGED <<staged, link>>
  BY DEF Begin, Crash, Reboot, WriteDropIn, DropInFails, NextFeature, NextImage,
         Refresh, RefreshFails, FinishWithoutRefresh, dirs
<1>2. CASE Begin(u)
  <2>1. PICK j \in Jobs[u] :
          proc' = [proc EXCEPT ![u] =
            [Idle EXCEPT !.job = j, !.res = "ok", !.dom = enabled,
               !.feats = IF j.kind = "update" THEN FeatureOrder ELSE <<>>,
               !.pc = IF j.kind = "update" THEN "next"
                      ELSE IF j.kind = "disable" /\ j.now /\ ImagesOf[j.feature] # <<>>
                      THEN "check" ELSE "dropin"]]
    BY <1>2 DEF Begin
  <2>2. proc'[u].pc \in {"next", "check", "dropin"}
    BY <1>0, <2>1 DEF Idle
  <2>3. QED
    BY <1>1, <2>2, LinkInvFrame DEF LinkLabels
<1>3. CASE Reboot
  <2>1. proc'[u].pc = "idle"
    BY <1>3 DEF Reboot, At, Idle
  <2>2. QED
    BY <1>1, <2>1, LinkInvFrame DEF LinkLabels
<1>4. CASE WriteDropIn(u)
  <2>1. proc'[u].pc \in {"idle", "next", "unmerge"}
    BY <1>0, <1>4, ReturnLabel DEF WriteDropIn, Local
  <2>2. QED
    BY <1>1, <2>1, LinkInvFrame DEF LinkLabels
<1>5. CASE NextFeature(u) \/ NextImage(u)
  <2>1. proc'[u].pc \in {"next", "unlink", "fetch"}
    BY <1>0, <1>5 DEF NextFeature, NextImage, Local, At
  <2>2. QED
    BY <1>1, <2>1, LinkInvFrame DEF LinkLabels
<1>6. CASE \/ Crash(u) \/ DropInFails(u) \/ Refresh(u) \/ RefreshFails(u)
           \/ FinishWithoutRefresh(u)
  <2>1. proc'[u].pc = "idle"
    BY <1>0, <1>6, ReturnLabel
    DEF Crash, DropInFails, Refresh, RefreshFails, FinishWithoutRefresh
  <2>2. QED
    BY <1>1, <2>1, LinkInvFrame DEF LinkLabels
<1>7. QED
  BY <1>2, <1>3, <1>4, <1>5, <1>6

LEMMA LinkInvNext ==
    ASSUME NEW u, Procs = {u}, "unlink" \notin Faults
    PROVE  TypeOK /\ LinkInv(u) /\ [Next]_vars => LinkInv(u)'
<1>. SUFFICES ASSUME TypeOK, LinkInv(u), [Next]_vars PROVE LinkInv(u)'
  OBVIOUS
<1>0. u \in Procs
  OBVIOUS
<1>1. ASSUME NEW i \in Images, Release(i) PROVE LinkInv(u)'
  BY <1>1 DEF Release, dirs, LinkInv, LinkNeverDangles, At, Img
<1>2. CASE UNCHANGED vars
  BY <1>2 DEF vars, LinkInv, LinkNeverDangles, At, Img
<1>3. ASSUME NEW p \in Procs, CommandStep(p) PROVE LinkInv(u)'
  <2>1. p = u
    OBVIOUS
  <2>2. CommandStep(u)
    BY <1>3, <2>1
  <2>3. QED
    BY <1>0, <2>2, CommandKeepsLink, InstallKeepsLink, DisableKeepsLink DEF CommandStep
<1>4. ASSUME NEW p \in Procs, Begin(p) \/ Crash(p) PROVE LinkInv(u)'
  <2>1. p = u
    OBVIOUS
  <2>2. Begin(u) \/ Crash(u)
    BY <1>4, <2>1
  <2>3. QED
    BY <1>0, <2>2, CommandKeepsLink
<1>5. CASE Reboot
  BY <1>0, <1>5, CommandKeepsLink
<1>6. QED
  BY <1>1, <1>2, <1>3, <1>4, <1>5 DEF Next

LEMMA LinkInvInit ==
    ASSUME NEW u \in Procs
    PROVE  Init => LinkInv(u)
  BY DEF Init, LinkInv, LinkNeverDangles, At, Idle

\* With one command at a time, and unlinks that do not fail, the link of every
\* image names a staged image in every state: through every failure, crash and
\* reboot, whatever is published or withdrawn, whatever is retained.
THEOREM SequentialLinkNeverDangles ==
    ASSUME NEW u, Procs = {u}, "unlink" \notin Faults
    PROVE  Spec => []LinkNeverDangles
<1>1. u \in Procs
  OBVIOUS
<1>2. Init => TypeOK /\ LinkInv(u)
  BY <1>1, InitTypes, LinkInvInit
<1>3. TypeOK /\ LinkInv(u) /\ [Next]_vars => (TypeOK /\ LinkInv(u))'
  BY NextTypes, LinkInvNext
<1>4. LinkInv(u) => LinkNeverDangles
  BY DEF LinkInv
<1>5. QED
  BY <1>2, <1>3, <1>4, PTL DEF Spec

-----------------------------------------------------------------------------
\* Any number of commands at once: what their vacuums may not remove from a
\* staging directory they share.

\* What process p decided to remove, from a listing that may be old by now.
ProtectInv(p) == At(p, "vacuum") => Protect[Img(p)] \notin proc[p].doomed

\* ... and each of it is older than something that is still staged.
OlderInv(p) ==
    At(p, "vacuum") =>
      \A v \in proc[p].doomed : \E w \in staged[Img(p)] : v < w

\* No disable runs.
DisableLabels == {"check", "unmerge", "unlink", "readdir", "rmlegacy", "purge"}
InstallOnly(p) ==
    /\ proc[p].job.kind # "disable"
    /\ proc[p].pc \notin DisableLabels
    /\ At(p, "dropin") => proc[p].job.kind = "enable"

ProcessStep(p) == Begin(p) \/ CommandStep(p) \/ Crash(p)

-----------------------------------------------------------------------------
\* What a step of one process does to the others, to the directories, and to
\* its own label.

LEMMA OthersStay ==
    ASSUME TypeOK, NEW p \in Procs, NEW q \in Procs, q # p, ProcessStep(p)
    PROVE  proc'[q] = proc[q]
<1>0. proc \in [Procs -> Local]
  BY DEF TypeOK, ProcOK
<1>1. ASSUME NEW r, Return(p, r) PROVE proc'[q] = proc[q]
  BY <1>0, <1>1 DEF Return
<1>2. ASSUME NEW r, NextTransfer(p, r) PROVE proc'[q] = proc[q]
  BY <1>0, <1>2 DEF NextTransfer
<1>3. ASSUME InstallFails(p) PROVE proc'[q] = proc[q]
  BY <1>1, <1>2, <1>3 DEF InstallFails
<1>4. ASSUME ImageDone(p) PROVE proc'[q] = proc[q]
  BY <1>2, <1>4 DEF ImageDone
<1>5. CASE Begin(p) \/ Crash(p)
  BY <1>0, <1>1, <1>5 DEF Begin, Crash
<1>6. CASE \/ WriteDropIn(p) \/ DropInFails(p) \/ NextFeature(p) \/ NextImage(p)
           \/ Refresh(p) \/ RefreshFails(p) \/ FinishWithoutRefresh(p)
  BY <1>0, <1>1, <1>6
  DEF WriteDropIn, DropInFails, NextFeature, NextImage, Refresh, RefreshFails,
      FinishWithoutRefresh
<1>7. CASE InstallStep(p)
  <2>1. CASE \/ FetchFails(p) \/ InspectFails(p) \/ DownloadFails(p)
             \/ RenameFails(p) \/ VacuumEnds(p)
    BY <1>3, <1>4, <2>1
    DEF FetchFails, InspectFails, DownloadFails, RenameFails, VacuumEnds
  <2>2. CASE \/ Fetch(p) \/ Inspect(p) \/ RemoveLegacy(p) \/ Download(p)
             \/ ScanVacuum(p) \/ VacuumOne(p)
    BY <1>0, <2>2 DEF Fetch, Inspect, RemoveLegacy, Download, ScanVacuum, VacuumOne
  <2>3. CASE VerifyLink(p) \/ PickTarget(p) \/ RenameLink(p)
    BY <1>0, <1>3, <1>4, <2>3 DEF VerifyLink, PickTarget, RenameLink
  <2>4. QED
    BY <1>7, <2>1, <2>2, <2>3 DEF InstallStep
<1>8. CASE DisableStep(p)
  BY <1>0, <1>1, <1>4, <1>8
  DEF DisableStep, CheckMerged, CheckBlind, Unmerge, UnmergeFails, Unlink,
      ReadStaging, PurgeLegacy, PurgeOne, PurgeDone, PurgeFails
<1>9. QED
  BY <1>5, <1>6, <1>7, <1>8 DEF ProcessStep, CommandStep

LEMMA StagedSteps ==
    ASSUME NEW p \in Procs, ProcessStep(p)
    PROVE  UNCHANGED staged \/ Download(p) \/ VacuumOne(p) \/ PurgeOne(p)
<1>1. CASE Begin(p) \/ Crash(p)
  BY <1>1 DEF Begin, Crash, dirs
<1>2. CASE \/ WriteDropIn(p) \/ DropInFails(p) \/ NextFeature(p) \/ NextImage(p)
           \/ Refresh(p) \/ RefreshFails(p) \/ FinishWithoutRefresh(p)
  BY <1>2
  DEF WriteDropIn, DropInFails, NextFeature, NextImage, Refresh, RefreshFails,
      FinishWithoutRefresh, dirs
<1>3. CASE InstallStep(p)
  BY <1>3
  DEF InstallStep, Fetch, FetchFails, Inspect, InspectFails, RemoveLegacy, VerifyLink,
      DownloadFails, PickTarget, RenameLink, RenameFails, ScanVacuum, VacuumEnds, dirs
<1>4. CASE DisableStep(p)
  BY <1>4
  DEF DisableStep, CheckMerged, CheckBlind, Unmerge, UnmergeFails, Unlink,
      ReadStaging, PurgeLegacy, PurgeDone, PurgeFails, dirs
<1>5. QED
  BY <1>1, <1>2, <1>3, <1>4 DEF ProcessStep, CommandStep

LEMMA ReturnIdle ==
    ASSUME TypeOK, NEW p \in Procs, NEW r, Return(p, r)
    PROVE  proc'[p].pc = "idle" /\ proc'[p].job = proc[p].job
  BY DEF Return, TypeOK, ProcOK, Idle

LEMMA NextTransferNext ==
    ASSUME TypeOK, NEW p \in Procs, NEW r, NextTransfer(p, r)
    PROVE  proc'[p].pc = "next" /\ proc'[p].job = proc[p].job
  BY DEF NextTransfer, TypeOK, ProcOK, Idle

LEMMA InstallFailsNext ==
    ASSUME TypeOK, NEW p \in Procs, InstallFails(p)
    PROVE  proc'[p].pc \in {"idle", "next"} /\ proc'[p].job = proc[p].job
  BY ReturnIdle, NextTransferNext DEF InstallFails

\* Only a listing, and a removal that has more to remove, leave a process at
\* the label its vacuum is at.
LEMMA VacuumLabel ==
    ASSUME TypeOK, NEW p \in Procs, ProcessStep(p)
    PROVE  proc'[p].pc # "vacuum" \/ ScanVacuum(p) \/ VacuumOne(p)
<1>0. proc[p] \in Local /\ proc \in [Procs -> Local]
  BY DEF TypeOK, ProcOK
<1>1. ASSUME InstallFails(p) \/ ImageDone(p) PROVE proc'[p].pc # "vacuum"
  BY <1>1, InstallFailsNext, NextTransferNext DEF ImageDone
<1>2. CASE Crash(p)
  BY <1>2, ReturnIdle DEF Crash
<1>3. CASE Begin(p)
  <2>1. proc'[p].pc \in {"next", "check", "dropin"}
    BY <1>0, <1>3 DEF Begin, Idle
  <2>2. QED
    BY <2>1
<1>4. CASE \/ WriteDropIn(p) \/ DropInFails(p) \/ NextFeature(p) \/ NextImage(p)
           \/ Refresh(p) \/ RefreshFails(p) \/ FinishWithoutRefresh(p)
  BY <1>0, <1>4, ReturnIdle
  DEF WriteDropIn, DropInFails, NextFeature, NextImage, Refresh, RefreshFails,
      FinishWithoutRefresh, Local, At
<1>5. CASE InstallStep(p)
  <2>1. CASE \/ FetchFails(p) \/ InspectFails(p) \/ DownloadFails(p)
             \/ RenameFails(p) \/ VacuumEnds(p)
    BY <1>1, <2>1
    DEF FetchFails, InspectFails, DownloadFails, RenameFails, VacuumEnds
  <2>2. CASE Fetch(p) \/ Inspect(p) \/ RemoveLegacy(p) \/ Download(p)
    BY <1>0, <2>2 DEF Fetch, Inspect, RemoveLegacy, Download, Local
  <2>3. CASE VerifyLink(p) \/ PickTarget(p) \/ RenameLink(p)
    BY <1>0, <1>1, <2>3 DEF VerifyLink, PickTarget, RenameLink, Local
  <2>4. QED
    BY <1>5, <2>1, <2>2, <2>3 DEF InstallStep
<1>6. CASE DisableStep(p)
  BY <1>0, <1>1, <1>6, ReturnIdle
  DEF DisableStep, CheckMerged, CheckBlind, Unmerge, UnmergeFails, Unlink,
      ReadStaging, PurgeLegacy, PurgeOne, PurgeDone, PurgeFails, Local, At
<1>7. QED
  BY <1>2, <1>3, <1>4, <1>5, <1>6 DEF ProcessStep, CommandStep

-----------------------------------------------------------------------------
\* The protected version.

LEMMA ProtectStep ==
    ASSUME TypeOK, NEW p \in Procs, NEW q \in Procs, ProtectInv(q), ProcessStep(p)
    PROVE  ProtectInv(q)'
<1>0. proc[p] \in Local /\ proc \in [Procs -> Local]
  BY DEF TypeOK, ProcOK
<1>1. CASE q # p
  BY <1>1, OthersStay DEF ProtectInv, At, Img
<1>2. CASE q = p /\ proc'[p].pc # "vacuum"
  BY <1>2 DEF ProtectInv, At
<1>3. CASE q = p /\ ScanVacuum(p)
  <2>1. /\ proc'[p].todo = proc[p].todo
        /\ proc'[p].doomed = VacuumRemoves(staged[Img(p)], legacy[Img(p)],
                                           Protect[Img(p)], InstancesMax[Img(p)])
    BY <1>0, <1>3 DEF ScanVacuum, Local
  <2>2. Protect[Img(p)] \notin proc'[p].doomed
    BY <2>1 DEF VacuumRemoves, Doomed
  <2>3. QED
    BY <1>3, <2>1, <2>2 DEF ProtectInv, Img
<1>4. CASE q = p /\ VacuumOne(p)
  <2>1. proc'[p].todo = proc[p].todo /\ proc'[p].doomed \subseteq proc[p].doomed
    BY <1>0, <1>4 DEF VacuumOne, Local
  <2>2. QED
    BY <1>4, <2>1 DEF ProtectInv, Img, VacuumOne, At
<1>5. QED
  BY <1>1, <1>2, <1>3, <1>4, VacuumLabel

\* A crash of the host ends every command.
LEMMA RebootLabel ==
    ASSUME TypeOK, NEW q \in Procs, Reboot
    PROVE  /\ proc'[q].pc = "idle"
           /\ proc'[q].job = proc[q].job
           /\ UNCHANGED <<staged, link>>
  BY DEF Reboot, At, Idle, dirs

LEMMA ProtectNext ==
    TypeOK /\ (\A q \in Procs : ProtectInv(q)) /\ [Next]_vars
      => (\A q \in Procs : ProtectInv(q))'
<1>. SUFFICES ASSUME TypeOK, \A q \in Procs : ProtectInv(q), [Next]_vars,
                     NEW q \in Procs
              PROVE  ProtectInv(q)'
  OBVIOUS
<1>1. ASSUME NEW p \in Procs, ProcessStep(p) PROVE ProtectInv(q)'
  BY <1>1, ProtectStep
<1>2. CASE Reboot
  BY <1>2, RebootLabel DEF ProtectInv, At
<1>3. CASE UNCHANGED proc
  BY <1>3 DEF ProtectInv, At, Img
<1>4. QED
  BY <1>1, <1>2, <1>3 DEF Next, ProcessStep, Release, vars

\* Only a disable takes the protected version from a directory.
LEMMA ProtectedStep ==
    TypeOK /\ (\A q \in Procs : ProtectInv(q)) /\ [Next]_vars
      => \A i \in Images :
           (Protect[i] \in staged[i] /\ Protect[i] \notin staged'[i])
             => \E p \in Procs : At(p, "purge") /\ Img(p) = i
<1>. SUFFICES ASSUME TypeOK, \A q \in Procs : ProtectInv(q), [Next]_vars,
                     NEW i \in Images, Protect[i] \in staged[i],
                     Protect[i] \notin staged'[i]
              PROVE  \E p \in Procs : At(p, "purge") /\ Img(p) = i
  OBVIOUS
<1>0. /\ staged \in [Images -> SUBSET Versions]
      /\ proc \in [Procs -> Local]
  BY DEF TypeOK, HostOK, ProcOK
<1>1. ASSUME NEW p \in Procs, Download(p) PROVE FALSE
  BY <1>0, <1>1 DEF Download
<1>2. ASSUME NEW p \in Procs, VacuumOne(p) PROVE FALSE
  <2>1. /\ Newest(proc[p].doomed) \in proc[p].doomed
        /\ Protect[Img(p)] \notin proc[p].doomed
    <3>1. proc[p].doomed \in SUBSET Versions /\ proc[p].doomed # {}
      BY <1>0, <1>2 DEF VacuumOne, Local
    <3>2. QED
      BY <1>2, <3>1, NewestIsGreatest DEF ProtectInv, VacuumOne
  <2>2. staged' = [staged EXCEPT ![Img(p)] = @ \ {Newest(proc[p].doomed)}]
    BY <1>2 DEF VacuumOne
  <2>3. QED
    BY <1>0, <2>1, <2>2
<1>3. ASSUME NEW p \in Procs, PurgeOne(p) PROVE At(p, "purge") /\ Img(p) = i
  BY <1>0, <1>3 DEF PurgeOne
<1>4. ASSUME NEW p \in Procs, ProcessStep(p)
      PROVE  \E r \in Procs : At(r, "purge") /\ Img(r) = i
  BY <1>1, <1>2, <1>3, <1>4, StagedSteps
<1>5. CASE Reboot \/ UNCHANGED vars \/ \E k \in Images : Release(k)
  BY <1>5 DEF Reboot, Release, vars, dirs
<1>6. QED
  BY <1>4, <1>5 DEF Next, ProcessStep

LEMMA ProtectInit == Init => \A q \in Procs : ProtectInv(q)
  BY DEF Init, ProtectInv, At, Idle

\* The version a transfer protects stays staged until a disable removes it,
\* however many processes vacuum its directory, from listings of whatever age.
THEOREM ProtectedStays == Spec => ProtectedKept
<1>1. Init => TypeOK /\ \A q \in Procs : ProtectInv(q)
  BY InitTypes, ProtectInit
<1>2. TypeOK /\ (\A q \in Procs : ProtectInv(q)) /\ [Next]_vars
        => (TypeOK /\ \A q \in Procs : ProtectInv(q))'
  BY NextTypes, ProtectNext
<1>3. TypeOK /\ (\A q \in Procs : ProtectInv(q)) /\ [Next]_vars
        => [\A i \in Images :
              (Protect[i] \in staged[i] /\ Protect[i] \notin staged'[i])
                => \E p \in Procs : At(p, "purge") /\ Img(p) = i]_vars
  BY ProtectedStep
<1>4. QED
  BY <1>1, <1>2, <1>3, PTL DEF Spec, ProtectedKept

-----------------------------------------------------------------------------
\* Without disables, the newest image.

\* Whatever a vacuum lists for removal, something newer is staged.
LEMMA DoomedIsOlder ==
    ASSUME NEW S \in SUBSET Versions, NEW a, NEW pr, NEW m \in Int,
           NEW v \in VacuumRemoves(S, a, pr, m)
    PROVE  \E w \in S : v < w
<1>1. Rank(v, S) >= Retained(m) /\ v \in S
  BY DEF VacuumRemoves, Doomed
<1>2. Rank(v, S) # 0
  BY <1>1 DEF Retained
<1>3. {w \in S : w > v} # {}
  BY <1>2, FS_EmptySet DEF Rank
<1>4. PICK w \in S : w > v
  BY <1>3
<1>5. QED
  BY <1>1, <1>4, MaxVersionAssumption DEF Versions

LEMMA InstallOnlyStep ==
    ASSUME TypeOK, \A q \in Procs : \A j \in Jobs[q] : j.kind # "disable",
           NEW p \in Procs, InstallOnly(p), ProcessStep(p)
    PROVE  InstallOnly(p)'
<1>0. proc[p] \in Local /\ proc \in [Procs -> Local]
  BY DEF TypeOK, ProcOK
<1>1. ASSUME proc'[p].job = proc[p].job,
             proc'[p].pc \notin DisableLabels \cup {"dropin"}
      PROVE  InstallOnly(p)'
  BY <1>1 DEF InstallOnly, At
<1>2. ASSUME InstallFails(p) \/ ImageDone(p) PROVE InstallOnly(p)'
  BY <1>1, <1>2, InstallFailsNext, NextTransferNext DEF ImageDone, DisableLabels
<1>3. ASSUME NEW r, Return(p, r) PROVE InstallOnly(p)'
  BY <1>1, <1>3, ReturnIdle DEF DisableLabels
<1>4. CASE Crash(p)
  BY <1>3, <1>4 DEF Crash
<1>5. CASE Begin(p)
  <2>1. PICK j \in Jobs[p] :
          proc' = [proc EXCEPT ![p] =
            [Idle EXCEPT !.job = j, !.res = "ok", !.dom = enabled,
               !.feats = IF j.kind = "update" THEN FeatureOrder ELSE <<>>,
               !.pc = IF j.kind = "update" THEN "next"
                      ELSE IF j.kind = "disable" /\ j.now /\ ImagesOf[j.feature] # <<>>
                      THEN "check" ELSE "dropin"]]
    BY <1>5 DEF Begin
  <2>2. j.kind # "disable" /\ j.kind \in {"update", "enable", "disable"}
    <3>1. j \in Job
      BY StagingAssumption
    <3>2. QED
      BY <3>1 DEF Job
  <2>3. /\ proc'[p].job = j
        /\ proc'[p].pc = IF j.kind = "update" THEN "next" ELSE "dropin"
    BY <1>0, <2>1, <2>2 DEF Idle
  <2>4. QED
    BY <2>2, <2>3 DEF InstallOnly, At, DisableLabels
<1>6. CASE WriteDropIn(p)
  <2>1. CASE proc' = [proc EXCEPT ![p].pc = "next", ![p].todo = ImagesOf[Feature(p)]]
    <3>1. proc'[p].job = proc[p].job /\ proc'[p].pc = "next"
      BY <1>0, <2>1 DEF Local
    <3>2. QED
      BY <1>1, <3>1 DEF DisableLabels
  <2>2. QED
    BY <1>3, <1>6, <2>1 DEF WriteDropIn, InstallOnly
<1>7. CASE \/ DropInFails(p) \/ Refresh(p) \/ RefreshFails(p)
           \/ FinishWithoutRefresh(p)
  BY <1>3, <1>7 DEF DropInFails, Refresh, RefreshFails, FinishWithoutRefresh
<1>8. CASE NextFeature(p) \/ NextImage(p)
  <2>1. proc'[p].job = proc[p].job /\ proc'[p].pc \in {"next", "fetch"}
    BY <1>0, <1>8 DEF NextFeature, NextImage, Local, At, InstallOnly
  <2>2. QED
    BY <1>1, <2>1 DEF DisableLabels
<1>9. CASE InstallStep(p)
  <2>1. CASE \/ FetchFails(p) \/ InspectFails(p) \/ DownloadFails(p)
             \/ RenameFails(p) \/ VacuumEnds(p)
    BY <1>2, <2>1
    DEF FetchFails, InspectFails, DownloadFails, RenameFails, VacuumEnds
  <2>2. CASE \/ Fetch(p) \/ Inspect(p) \/ RemoveLegacy(p) \/ Download(p)
             \/ ScanVacuum(p) \/ VacuumOne(p)
    <3>1. /\ proc'[p].job = proc[p].job
          /\ proc'[p].pc \in Labels \ (DisableLabels \cup {"dropin"})
      BY <1>0, <2>2 DEF Fetch, Inspect, RemoveLegacy, Download, ScanVacuum,
                        VacuumOne, Local, Labels, DisableLabels, At
    <3>2. QED
      BY <1>1, <3>1
  <2>3. ASSUME NEW l \in {"pick", "scan"}, proc' = [proc EXCEPT ![p].pc = l]
        PROVE  InstallOnly(p)'
    <3>1. proc'[p].job = proc[p].job /\ proc'[p].pc = l
      BY <1>0, <2>3 DEF Local
    <3>2. QED
      BY <1>1, <3>1 DEF DisableLabels
  <2>4. CASE PickTarget(p)
    <3>1. CASE proc' = [proc EXCEPT ![p].pc = "rename",
                                    ![p].choice = Newest(staged[Img(p)])]
      <4>1. proc'[p].job = proc[p].job /\ proc'[p].pc = "rename"
        BY <1>0, <3>1 DEF Local
      <4>2. QED
        BY <1>1, <4>1 DEF DisableLabels
    <3>2. QED
      BY <1>2, <2>4, <3>1 DEF PickTarget
  <2>5. CASE VerifyLink(p) \/ RenameLink(p)
    BY <1>2, <2>3, <2>5 DEF VerifyLink, RenameLink
  <2>6. QED
    BY <1>9, <2>1, <2>2, <2>4, <2>5 DEF InstallStep
<1>10. CASE DisableStep(p)
  <2>1. CASE PurgeDone(p) \/ PurgeFails(p) \/ ReadStaging(p) \/ PurgeLegacy(p)
             \/ PurgeOne(p)
    BY <2>1 DEF PurgeDone, PurgeFails, ReadStaging, PurgeLegacy, PurgeOne,
                InstallOnly, DisableLabels, At
  <2>2. CASE CheckMerged(p) \/ CheckBlind(p) \/ Unmerge(p) \/ UnmergeFails(p)
             \/ Unlink(p)
    BY <2>2 DEF CheckMerged, CheckBlind, Unmerge, UnmergeFails, Unlink,
                InstallOnly, DisableLabels, At
  <2>3. QED
    BY <1>10, <2>1, <2>2 DEF DisableStep
<1>11. QED
  BY <1>4, <1>5, <1>6, <1>7, <1>8, <1>9, <1>10 DEF ProcessStep, CommandStep

\* A step that is no disable's leaves something newer wherever there was.
LEMMA StillOlder ==
    ASSUME TypeOK, NEW p \in Procs, InstallOnly(p), OlderInv(p), ProcessStep(p),
           NEW i \in Images, NEW v \in Versions, NEW w \in staged[i], v < w
    PROVE  \E x \in staged'[i] : v < x
<1>0. /\ staged \in [Images -> SUBSET Versions]
      /\ proc[p] \in Local
  BY DEF TypeOK, HostOK, ProcOK
<1>1. CASE UNCHANGED staged \/ Download(p)
  BY <1>0, <1>1 DEF Download
<1>2. CASE VacuumOne(p)
  <2>1. /\ proc[p].doomed \in SUBSET Versions /\ proc[p].doomed # {}
        /\ At(p, "vacuum")
        /\ staged' = [staged EXCEPT ![Img(p)] = @ \ {Newest(proc[p].doomed)}]
    BY <1>0, <1>2 DEF VacuumOne, Local
  <2>2. Newest(proc[p].doomed) \in proc[p].doomed
    BY <2>1, NewestIsGreatest
  <2>3. PICK u \in staged[Img(p)] : Newest(proc[p].doomed) < u
    BY <2>1, <2>2 DEF OlderInv
  <2>4. CASE i = Img(p) /\ w = Newest(proc[p].doomed)
    <3>1. u \in staged[i] /\ w < u
      BY <2>3, <2>4
    <3>2. v \in Int /\ w \in Int /\ u \in Int
      BY <1>0, <3>1, MaxVersionAssumption DEF Versions
    <3>3. v < u /\ u # w
      BY <3>1, <3>2
    <3>4. u \in staged'[i]
      BY <1>0, <2>1, <2>4, <3>1, <3>3
    <3>5. QED
      BY <3>3, <3>4
  <2>5. CASE ~(i = Img(p) /\ w = Newest(proc[p].doomed))
    BY <1>0, <2>1, <2>5
  <2>6. QED
    BY <2>4, <2>5
<1>3. ~PurgeOne(p)
  BY DEF PurgeOne, InstallOnly, DisableLabels, At
<1>4. QED
  BY <1>1, <1>2, <1>3, StagedSteps

LEMMA OlderStep ==
    ASSUME TypeOK, NEW p \in Procs, NEW q \in Procs, InstallOnly(p),
           OlderInv(p), OlderInv(q), ProcessStep(p)
    PROVE  OlderInv(q)'
<1>0. /\ staged \in [Images -> SUBSET Versions]
      /\ proc \in [Procs -> Local]
      /\ proc[p] \in Local /\ proc[q] \in Local
  BY DEF TypeOK, HostOK, ProcOK
<1>1. ASSUME At(q, "vacuum"), proc'[q].todo = proc[q].todo,
             proc'[q].doomed \subseteq proc[q].doomed
      PROVE  OlderInv(q)'
  <2>1. Img(q) \in Images
    <3>1. proc[q].pc \in ImageLabels
      BY <1>1 DEF At, ImageLabels, Labels
    <3>2. QED
      BY <3>1, ImgType DEF TypeOK
  <2>2. ASSUME NEW v \in proc'[q].doomed
        PROVE  \E x \in staged'[Img(q)] : v < x
    <3>1. v \in proc[q].doomed /\ v \in Versions
      BY <1>0, <1>1, <2>2 DEF Local
    <3>2. PICK w \in staged[Img(q)] : v < w
      BY <1>1, <3>1 DEF OlderInv
    <3>3. QED
      BY <2>1, <3>1, <3>2, StillOlder
  <2>3. QED
    BY <1>1, <2>2 DEF OlderInv, Img
<1>2. CASE q # p
  <2>1. proc'[q] = proc[q]
    BY <1>2, OthersStay
  <2>2. CASE At(q, "vacuum")
    BY <1>1, <2>1, <2>2
  <2>3. CASE ~At(q, "vacuum")
    BY <2>1, <2>3 DEF OlderInv, At
  <2>4. QED
    BY <2>2, <2>3
<1>3. CASE q = p /\ proc'[p].pc # "vacuum"
  BY <1>3 DEF OlderInv, At
<1>4. CASE q = p /\ VacuumOne(p)
  <2>1. /\ At(p, "vacuum")
        /\ proc'[p].todo = proc[p].todo
        /\ proc'[p].doomed \subseteq proc[p].doomed
    BY <1>0, <1>4 DEF VacuumOne, Local
  <2>2. QED
    BY <1>1, <1>4, <2>1
<1>5. CASE q = p /\ ScanVacuum(p)
  <2>1. Img(p) \in Images
    <3>1. proc[p].pc \in ImageLabels
      BY <1>5 DEF ScanVacuum, At, ImageLabels, Labels
    <3>2. QED
      BY <3>1, ImgType DEF TypeOK
  <2>2. /\ proc'[p].todo = proc[p].todo
        /\ proc'[p].doomed = VacuumRemoves(staged[Img(p)], legacy[Img(p)],
                                           Protect[Img(p)], InstancesMax[Img(p)])
        /\ staged' = staged
    BY <1>0, <1>5 DEF ScanVacuum, Local, dirs
  <2>3. staged[Img(p)] \in SUBSET Versions /\ InstancesMax[Img(p)] \in Int
    BY <1>0, <2>1, StagingAssumption
  <2>4. \A v \in proc'[p].doomed : \E w \in staged'[Img(p)] : v < w
    BY <2>2, <2>3, DoomedIsOlder
  <2>5. QED
    BY <1>5, <2>2, <2>4 DEF OlderInv, Img
<1>6. QED
  BY <1>2, <1>3, <1>4, <1>5, VacuumLabel

\* The invariant: no disable runs, and every vacuum removes only what is older
\* than something else.
RetentionInv == \A q \in Procs : InstallOnly(q) /\ OlderInv(q)

LEMMA RetentionInit == Init => RetentionInv
  BY DEF Init, RetentionInv, InstallOnly, OlderInv, DisableLabels, At, Idle, NoJob

LEMMA RetentionNext ==
    ASSUME \A q \in Procs : \A j \in Jobs[q] : j.kind # "disable"
    PROVE  TypeOK /\ RetentionInv /\ [Next]_vars => RetentionInv'
<1>. SUFFICES ASSUME TypeOK, RetentionInv, [Next]_vars, NEW q \in Procs
              PROVE  InstallOnly(q)' /\ OlderInv(q)'
  BY DEF RetentionInv
<1>0. InstallOnly(q) /\ OlderInv(q)
  BY DEF RetentionInv
<1>1. ASSUME NEW p \in Procs, ProcessStep(p)
      PROVE  InstallOnly(q)' /\ OlderInv(q)'
  <2>1. OlderInv(q)'
    BY <1>1, OlderStep DEF RetentionInv
  <2>2. CASE q = p
    <3>1. InstallOnly(p)'
      BY <1>0, <1>1, <2>2, InstallOnlyStep DEF RetentionInv
    <3>2. QED
      BY <2>1, <2>2, <3>1 DEF InstallOnly, At
  <2>3. CASE q # p
    BY <1>0, <1>1, <2>1, <2>3, OthersStay DEF InstallOnly, At
  <2>4. QED
    BY <2>1, <2>2, <2>3
<1>2. CASE Reboot
  BY <1>0, <1>2, RebootLabel DEF InstallOnly, OlderInv, DisableLabels, At
<1>3. CASE UNCHANGED <<staged, proc>>
  BY <1>0, <1>3 DEF InstallOnly, OlderInv, At, Img
<1>4. QED
  BY <1>1, <1>2, <1>3 DEF Next, ProcessStep, Release, vars, dirs

\* No step makes a directory empty, or its newest image older.
LEMMA NewestStep ==
    ASSUME TypeOK, RetentionInv, NEW p \in Procs, ProcessStep(p),
           NEW i \in Images, staged[i] # {}
    PROVE  staged'[i] # {} /\ Newest(staged[i]) <= Newest(staged'[i])
<1>0. /\ staged \in [Images -> SUBSET Versions]
      /\ staged[i] \in SUBSET Versions
      /\ proc[p] \in Local /\ ProcOK
  BY DEF TypeOK, HostOK, ProcOK
<1>. DEFINE n == Newest(staged[i])
<1>1. n \in staged[i] /\ \A w \in staged[i] : w <= n
  BY <1>0, NewestIsGreatest
<1>2. n \in staged'[i] /\ staged'[i] \in SUBSET Versions
  <2>1. CASE UNCHANGED staged
    BY <1>0, <1>1, <2>1
  <2>2. CASE Download(p)
    <3>1. proc[p].target \in Versions
      BY <1>0, <2>2 DEF Download, At, ProcOK, TargetLabels, Local, VersionOrNone
    <3>2. QED
      BY <1>0, <1>1, <2>2, <3>1 DEF Download
  <2>3. CASE VacuumOne(p)
    <3>1. /\ proc[p].doomed \in SUBSET Versions /\ proc[p].doomed # {}
          /\ At(p, "vacuum")
          /\ staged' = [staged EXCEPT ![Img(p)] = @ \ {Newest(proc[p].doomed)}]
      BY <1>0, <2>3 DEF VacuumOne, Local
    <3>2. Newest(proc[p].doomed) \in proc[p].doomed
      BY <3>1, NewestIsGreatest
    <3>3. PICK u \in staged[Img(p)] : Newest(proc[p].doomed) < u
      BY <3>1, <3>2 DEF OlderInv, RetentionInv
    <3>4. CASE i = Img(p)
      <4>1. u <= n /\ u \in Int /\ n \in Int /\ Newest(proc[p].doomed) \in Int
        BY <1>0, <1>1, <3>1, <3>2, <3>3, <3>4, MaxVersionAssumption DEF Versions
      <4>2. n # Newest(proc[p].doomed)
        BY <3>3, <4>1
      <4>3. QED
        BY <1>0, <1>1, <3>1, <4>2
    <3>5. QED
      BY <1>0, <1>1, <3>1, <3>4
  <2>4. ~PurgeOne(p)
    BY DEF PurgeOne, RetentionInv, InstallOnly, DisableLabels, At
  <2>5. QED
    BY <2>1, <2>2, <2>3, <2>4, StagedSteps
<1>3. QED
  BY <1>2, NewestIsGreatest

\* Where no disable is given, neither the last image of a directory nor its
\* newest is ever removed, however many processes update and enable at once.
THEOREM NewestStays ==
    ASSUME \A q \in Procs : \A j \in Jobs[q] : j.kind # "disable"
    PROVE  Spec => InstallsKeepNewest
<1>1. Init => TypeOK /\ RetentionInv
  BY InitTypes, RetentionInit
<1>2. TypeOK /\ RetentionInv /\ [Next]_vars => (TypeOK /\ RetentionInv)'
  BY NextTypes, RetentionNext
<1>3. TypeOK /\ RetentionInv /\ [Next]_vars
        => [\A i \in Images :
              (staged[i] # {} /\ staged'[i] # staged[i]
                 /\ ~\E p \in Procs : proc[p].job.kind = "disable" /\ ~At(p, "idle"))
                => staged'[i] # {} /\ Newest(staged[i]) <= Newest(staged'[i])]_vars
  <2>1. ASSUME TypeOK, RetentionInv, Next, NEW i \in Images,
               staged[i] # {}, staged'[i] # staged[i]
        PROVE  staged'[i] # {} /\ Newest(staged[i]) <= Newest(staged'[i])
    <3>1. ASSUME NEW p \in Procs, ProcessStep(p)
          PROVE  staged'[i] # {} /\ Newest(staged[i]) <= Newest(staged'[i])
      BY <2>1, <3>1, NewestStep
    <3>2. ~(Reboot \/ \E k \in Images : Release(k))
      BY <2>1 DEF Reboot, Release, dirs
    <3>3. QED
      BY <2>1, <3>1, <3>2 DEF Next, ProcessStep
  <2>2. QED
    BY <2>1
<1>4. QED
  BY <1>1, <1>2, <1>3, PTL DEF Spec, InstallsKeepNewest

-----------------------------------------------------------------------------
(* One command at a time: what Staging then guarantees.  A success means     *)
(* what it says, a vacuum keeps to its bound, --force is needed where it     *)
(* should be, and what the links serve implements ImageService.              *)

\* What one command at a time retains, what its success means, and what a disable
\* without --force leaves alone.

\* The labels of the loop over transfers, and of a disable after its check.
LoopLabels == ImageLabels \cup {"next"}
RemoveLabels == {"unlink", "readdir", "rmlegacy", "purge"}

\* What is left to do: the transfers at hand, and those of the features that are
\* still to come.
Pending(p) ==
    {proc[p].todo[k] : k \in DOMAIN proc[p].todo}
      \cup UNION {ImagesOfFeature(f) :
                    f \in {g \in Features :
                             proc[p].dom[g]
                               /\ \E k \in DOMAIN proc[p].feats : proc[p].feats[k] = g}}

\* What the command is to reach for an image.
Linked(i) == staged[i] # {} /\ link[i] = Newest(staged[i])
Removed(i) ==
    /\ staged[i] = {}
    /\ legacy[i] = NoVersion
    /\ "unlink" \notin Faults => link[i] = NoVersion
Reached(p, i) == IF proc[p].job.kind = "disable" THEN Removed(i) ELSE Linked(i)

\* Each kind of command keeps to its own steps and its own transfers.
KindInv(p) ==
    /\ IF proc[p].job.kind = "disable"
       THEN proc[p].pc \in DisableLabels \cup {"idle", "dropin", "next"}
       ELSE proc[p].pc \notin DisableLabels
    /\ proc[p].job.kind = "update" => ~At(p, "dropin")
    /\ proc[p].job.kind # "update" =>
         /\ proc[p].feats = <<>>
         /\ \A k \in DOMAIN proc[p].todo :
              proc[p].todo[k] \in ImagesOfFeature(Feature(p))

\* The features the command loaded or wrote are as it left them.
EnabledInv(p) ==
    /\ (proc[p].job.kind = "update" /\ proc[p].pc \in LoopLabels)
         => proc[p].dom = enabled
    /\ (proc[p].job.kind = "disable" /\ proc[p].pc \in LoopLabels \cup {"unmerge"})
         => ~enabled[Feature(p)]

\* What it knows of the directory and the link of the transfer at hand.
HeadInv(p) ==
    LET i == Img(p)
    IN /\ At(p, "rename") => staged[i] # {} /\ proc[p].choice = Newest(staged[i])
       /\ proc[p].pc \in {"scan", "vacuum"} => Linked(i)
       /\ At(p, "vacuum") =>
            /\ Newest(staged[i]) \notin proc[p].doomed
            /\ Cardinality((staged[i] \ proc[p].doomed) \ {Protect[i], legacy[i]})
                 <= Retained(InstancesMax[i])
       /\ (proc[p].pc \in {"readdir", "rmlegacy", "purge"} /\ "unlink" \notin Faults)
            => link[i] = NoVersion
       /\ proc[p].pc \in {"rmlegacy", "purge"} => staged[i] \subseteq proc[p].doomed
       /\ At(p, "purge") => legacy[i] = NoVersion

\* A disable --now without --force that got through its check met no active
\* image of its feature.
CheckedInv(p) ==
    (proc[p].job.kind = "disable" /\ ~proc[p].job.force
       /\ \/ proc[p].pc \in RemoveLabels \cup {"unmerge", "next"}
          \/ At(p, "dropin") /\ proc[p].job.now)
      => \A i \in ImagesOfFeature(Feature(p)) :
           /\ legacy[i] = NoVersion
           /\ (proc[p].pc \in {"dropin", "unmerge"} /\ "active" \notin Faults)
                => merged[i] = NoVersion

\* As long as nothing failed, an image is reached or still to come ...
LoopInv(p) ==
    (proc[p].pc \in LoopLabels /\ proc[p].res = "ok")
      => \A i \in Handled(p) : i \in Pending(p) \/ Reached(p, i)

\* ... and when the command returned ok, every image is.
OutcomeInv(p) ==
    (At(p, "idle") /\ proc[p].res = "ok"
       /\ (proc[p].job.kind = "update" \/ proc[p].job.now))
      => /\ \A i \in Handled(p) : Reached(p, i)
         /\ proc[p].job.kind = "disable" => ~enabled[Feature(p)]
         /\ (proc[p].job.refresh
               /\ (proc[p].job.kind = "update" \/ ImagesOf[Feature(p)] # <<>>))
              => merged = ServedNow

SoloInv(p) ==
    /\ KindInv(p)
    /\ EnabledInv(p)
    /\ HeadInv(p)
    /\ CheckedInv(p)
    /\ LoopInv(p)
    /\ OutcomeInv(p)

-----------------------------------------------------------------------------
\* What a process keeps of its command when it returns, goes on to the next
\* transfer, or starts.

LEMMA ReturnFacts ==
    ASSUME TypeOK, NEW p \in Procs, NEW r, Return(p, r)
    PROVE  /\ proc'[p].pc = "idle"
           /\ proc'[p].job = proc[p].job
           /\ proc'[p].res = r
           /\ proc'[p].feats = <<>>
           /\ proc'[p].todo = <<>>
  BY DEF Return, TypeOK, ProcOK, Idle

LEMMA NextTransferFacts ==
    ASSUME TypeOK, NEW p \in Procs, NEW r, proc[p].todo # <<>>, NextTransfer(p, r)
    PROVE  /\ proc'[p].pc = "next"
           /\ proc'[p].job = proc[p].job
           /\ proc'[p].res = r
           /\ proc'[p].dom = proc[p].dom
           /\ proc'[p].feats = proc[p].feats
           /\ proc'[p].todo = Tail(proc[p].todo)
           /\ \A k \in DOMAIN proc'[p].todo :
                \E l \in DOMAIN proc[p].todo : proc'[p].todo[k] = proc[p].todo[l]
           /\ \A k \in DOMAIN proc[p].todo :
                \/ proc[p].todo[k] = Img(p)
                \/ \E l \in DOMAIN proc'[p].todo : proc'[p].todo[l] = proc[p].todo[k]
<1>. DEFINE s == proc[p].todo
<1>1. /\ proc'[p].pc = "next"
      /\ proc'[p].job = proc[p].job
      /\ proc'[p].res = r
      /\ proc'[p].dom = proc[p].dom
      /\ proc'[p].feats = proc[p].feats
      /\ proc'[p].todo = Tail(s)
  BY DEF NextTransfer, TypeOK, ProcOK, Idle
<1>2. s \in Seq(Images) /\ s # <<>>
  BY DEF TypeOK, ProcOK, Local
<1>3. /\ DOMAIN Tail(s) = 1 .. Len(s) - 1
      /\ DOMAIN s = 1 .. Len(s)
      /\ Len(s) \in Nat
      /\ \A k \in 1 .. Len(s) - 1 : Tail(s)[k] = s[k + 1]
      /\ Head(s) = s[1]
  BY <1>2
<1>4. \A k \in DOMAIN Tail(s) : k + 1 \in DOMAIN s /\ Tail(s)[k] = s[k + 1]
  BY <1>3
<1>5. \A k \in DOMAIN s : k = 1 \/ (k - 1 \in DOMAIN Tail(s) /\ Tail(s)[k - 1] = s[k])
  BY <1>3
<1>6. \A k \in DOMAIN proc'[p].todo :
        \E l \in DOMAIN proc[p].todo : proc'[p].todo[k] = proc[p].todo[l]
  BY <1>1, <1>4
<1>7. \A k \in DOMAIN proc[p].todo :
        \/ proc[p].todo[k] = Img(p)
        \/ \E l \in DOMAIN proc'[p].todo : proc'[p].todo[l] = proc[p].todo[k]
  BY <1>1, <1>3, <1>5 DEF Img
<1>8. QED
  BY <1>1, <1>6, <1>7

LEMMA BeginFacts ==
    ASSUME TypeOK, NEW p \in Procs, Begin(p)
    PROVE  \E j \in Job :
             /\ proc'[p].job = j
             /\ proc'[p].res = "ok"
             /\ proc'[p].dom = enabled
             /\ proc'[p].todo = <<>>
             /\ proc'[p].feats = (IF j.kind = "update" THEN FeatureOrder ELSE <<>>)
             /\ proc'[p].pc = (IF j.kind = "update" THEN "next"
                               ELSE IF j.kind = "disable" /\ j.now /\ ImagesOf[j.feature] # <<>>
                               THEN "check" ELSE "dropin")
             /\ UNCHANGED <<dirs, host>>
<1>1. PICK j \in Jobs[p] :
         proc' = [proc EXCEPT ![p] =
           [Idle EXCEPT !.job = j, !.res = "ok", !.dom = enabled,
              !.feats = IF j.kind = "update" THEN FeatureOrder ELSE <<>>,
              !.pc = IF j.kind = "update" THEN "next"
                     ELSE IF j.kind = "disable" /\ j.now /\ ImagesOf[j.feature] # <<>>
                     THEN "check" ELSE "dropin"]]
  BY DEF Begin
<1>2. j \in Job
  BY StagingAssumption
<1>3. QED
  BY <1>1, <1>2 DEF Begin, TypeOK, ProcOK, Idle

-----------------------------------------------------------------------------
\* Each part of the invariant is kept by each step.

LEMMA KindFrame ==
    ASSUME NEW p \in Procs, KindInv(p), proc'[p].job = proc[p].job,
           proc'[p].feats = proc[p].feats, proc'[p].todo = proc[p].todo,
           IF proc[p].job.kind = "disable"
           THEN proc'[p].pc \in DisableLabels \cup {"idle", "dropin", "next"}
           ELSE proc'[p].pc \notin DisableLabels \cup {"dropin"}
    PROVE  KindInv(p)'
<1>1. ImagesOfFeature(Feature(p))' = ImagesOfFeature(Feature(p))
  BY DEF ImagesOfFeature, Feature
<1>2. QED
  BY <1>1 DEF KindInv, At

LEMMA KindStep ==
    ASSUME TypeOK, NEW p \in Procs, KindInv(p), ProcessStep(p)
    PROVE  KindInv(p)'
<1>0. proc[p] \in Local /\ proc \in [Procs -> Local] /\ proc[p].job \in Job
  BY DEF TypeOK, ProcOK, Local
<1>1. ASSUME NEW r, Return(p, r) PROVE KindInv(p)'
  BY <1>1, ReturnFacts DEF KindInv, At, DisableLabels
<1>2. ASSUME NEW r, NextTransfer(p, r), proc[p].todo # <<>> PROVE KindInv(p)'
  <2>1. ImagesOfFeature(Feature(p))' = ImagesOfFeature(Feature(p))
    BY <1>2, NextTransferFacts DEF ImagesOfFeature, Feature
  <2>2. QED
    BY <1>2, <2>1, NextTransferFacts DEF KindInv, At, DisableLabels
<1>3. ASSUME InstallFails(p), proc[p].todo # <<>> PROVE KindInv(p)'
  BY <1>1, <1>2, <1>3 DEF InstallFails
<1>4. proc[p].pc \in ImageLabels => proc[p].todo # <<>>
  BY DEF TypeOK, ProcOK
<1>5. CASE Begin(p)
  <2>1. PICK j \in Job :
          /\ proc'[p].job = j
          /\ proc'[p].todo = <<>>
          /\ proc'[p].feats = (IF j.kind = "update" THEN FeatureOrder ELSE <<>>)
          /\ proc'[p].pc = (IF j.kind = "update" THEN "next"
                            ELSE IF j.kind = "disable" /\ j.now /\ ImagesOf[j.feature] # <<>>
                            THEN "check" ELSE "dropin")
    BY <1>5, BeginFacts
  <2>2. QED
    BY <2>1 DEF KindInv, At, DisableLabels
<1>6. CASE Crash(p) \/ DropInFails(p) \/ Refresh(p) \/ RefreshFails(p)
           \/ FinishWithoutRefresh(p) \/ UnmergeFails(p) \/ PurgeFails(p)
  BY <1>1, <1>6 DEF Crash, DropInFails, Refresh, RefreshFails, FinishWithoutRefresh,
                    UnmergeFails, PurgeFails
<1>7. CASE WriteDropIn(p) \/ Unmerge(p)
  <2>1. CASE proc' = [proc EXCEPT ![p].pc = "next", ![p].todo = ImagesOf[Feature(p)]]
    <3>1. /\ proc'[p].pc = "next"
          /\ proc'[p].job = proc[p].job
          /\ proc'[p].feats = proc[p].feats
          /\ proc'[p].todo = ImagesOf[Feature(p)]
      BY <1>0, <2>1 DEF Local
    <3>2. proc[p].job.kind # "update"
      BY <1>7 DEF KindInv, WriteDropIn, Unmerge, At, DisableLabels
    <3>3. \A k \in DOMAIN ImagesOf[Feature(p)] :
            ImagesOf[Feature(p)][k] \in ImagesOfFeature(Feature(p))'
      BY <3>1 DEF ImagesOfFeature, Feature
    <3>4. QED
      BY <3>1, <3>2, <3>3 DEF KindInv, At, DisableLabels
  <2>2. CASE proc[p].job.kind # "enable" /\ At(p, "dropin")
             /\ proc' = [proc EXCEPT ![p].pc = "unmerge"]
    <3>1. /\ proc'[p].pc = "unmerge"
          /\ proc'[p].job = proc[p].job
          /\ proc'[p].feats = proc[p].feats
          /\ proc'[p].todo = proc[p].todo
      BY <1>0, <2>2 DEF Local
    <3>2. proc[p].job.kind = "disable"
      BY <1>0, <2>2 DEF KindInv, Job
    <3>3. QED
      BY <3>1, <3>2, KindFrame DEF DisableLabels
  <2>3. QED
    BY <1>1, <1>7, <2>1, <2>2 DEF WriteDropIn, Unmerge
<1>8. CASE NextFeature(p)
  <2>1. /\ proc'[p].pc = "next"
        /\ proc'[p].job = proc[p].job
    BY <1>0, <1>8 DEF NextFeature, Local, At
  <2>2. proc[p].job.kind = "update"
    BY <1>0, <1>8 DEF KindInv, NextFeature, Local
  <2>3. QED
    BY <2>1, <2>2 DEF KindInv, At, DisableLabels
<1>9. CASE NextImage(p)
  <2>1. /\ proc'[p].pc = IF proc[p].job.kind = "disable" THEN "unlink" ELSE "fetch"
        /\ proc'[p].job = proc[p].job
        /\ proc'[p].feats = proc[p].feats
        /\ proc'[p].todo = proc[p].todo
    BY <1>0, <1>9 DEF NextImage, Local
  <2>2. QED
    BY <2>1, KindFrame DEF DisableLabels
<1>10. CASE \/ FetchFails(p) \/ InspectFails(p) \/ DownloadFails(p) \/ RenameFails(p)
            \/ VacuumEnds(p) \/ PurgeDone(p)
  <2>1. proc[p].todo # <<>>
    BY <1>4, <1>10 DEF FetchFails, InspectFails, DownloadFails, RenameFails, VacuumEnds,
                       PurgeDone, At, ImageLabels, Labels
  <2>2. QED
    BY <1>2, <1>3, <1>10, <2>1 DEF FetchFails, InspectFails, DownloadFails, RenameFails,
                                   VacuumEnds, PurgeDone, ImageDone
<1>11. CASE \/ Fetch(p) \/ Inspect(p) \/ RemoveLegacy(p) \/ Download(p)
            \/ ScanVacuum(p) \/ VacuumOne(p)
  <2>1. /\ proc'[p].job = proc[p].job
        /\ proc'[p].feats = proc[p].feats
        /\ proc'[p].todo = proc[p].todo
        /\ proc'[p].pc \notin DisableLabels \cup {"dropin"}
        /\ proc[p].job.kind # "disable"
    BY <1>0, <1>11 DEF Fetch, Inspect, RemoveLegacy, Download, ScanVacuum, VacuumOne,
                       Local, At, DisableLabels, KindInv
  <2>2. QED
    BY <2>1, KindFrame
<1>12. CASE VerifyLink(p) \/ PickTarget(p) \/ RenameLink(p)
  <2>1. proc[p].todo # <<>> /\ proc[p].job.kind # "disable"
    BY <1>4, <1>12 DEF VerifyLink, PickTarget, RenameLink, At, ImageLabels, Labels,
                       KindInv, DisableLabels
  <2>2. ASSUME NEW l \in {"pick", "scan"}, proc' = [proc EXCEPT ![p].pc = l]
        PROVE  KindInv(p)'
    <3>1. /\ proc'[p].job = proc[p].job
          /\ proc'[p].feats = proc[p].feats
          /\ proc'[p].todo = proc[p].todo
          /\ proc'[p].pc = l
      BY <1>0, <2>2 DEF Local
    <3>2. QED
      BY <2>1, <3>1, KindFrame DEF DisableLabels
  <2>3. ASSUME NEW v, proc' = [proc EXCEPT ![p].pc = "rename", ![p].choice = v]
        PROVE  KindInv(p)'
    <3>1. /\ proc'[p].job = proc[p].job
          /\ proc'[p].feats = proc[p].feats
          /\ proc'[p].todo = proc[p].todo
          /\ proc'[p].pc = "rename"
      BY <1>0, <2>3 DEF Local
    <3>2. QED
      BY <2>1, <3>1, KindFrame DEF DisableLabels
  <2>4. CASE VerifyLink(p)
    BY <1>2, <1>3, <2>1, <2>2, <2>4 DEF VerifyLink, ImageDone
  <2>5. CASE PickTarget(p)
    BY <1>3, <2>1, <2>3, <2>5 DEF PickTarget
  <2>6. CASE RenameLink(p)
    BY <1>2, <2>1, <2>2, <2>6 DEF RenameLink, ImageDone
  <2>7. QED
    BY <1>12, <2>4, <2>5, <2>6
<1>13. CASE CheckMerged(p) \/ CheckBlind(p)
  <2>1. CASE proc' = [proc EXCEPT ![p].pc = "dropin"]
    <3>1. /\ proc'[p].job = proc[p].job
          /\ proc'[p].feats = proc[p].feats
          /\ proc'[p].todo = proc[p].todo
          /\ proc'[p].pc = "dropin"
      BY <1>0, <2>1 DEF Local
    <3>2. proc[p].job.kind = "disable"
      BY <1>13 DEF CheckMerged, CheckBlind, KindInv, At, DisableLabels
    <3>3. QED
      BY <3>1, <3>2, KindFrame
  <2>2. QED
    BY <1>1, <1>13, <2>1 DEF CheckMerged, CheckBlind
<1>14. CASE Unlink(p) \/ ReadStaging(p) \/ PurgeLegacy(p) \/ PurgeOne(p)
  <2>1. /\ proc'[p].job = proc[p].job
        /\ proc'[p].feats = proc[p].feats
        /\ proc'[p].todo = proc[p].todo
        /\ proc'[p].pc \in DisableLabels
        /\ proc[p].job.kind = "disable"
    BY <1>0, <1>14 DEF Unlink, ReadStaging, PurgeLegacy, PurgeOne, Local, At,
                       DisableLabels, KindInv
  <2>2. QED
    BY <2>1, KindFrame
<1>15. QED
  BY <1>5, <1>6, <1>7, <1>8, <1>9, <1>10, <1>11, <1>12, <1>13, <1>14
  DEF ProcessStep, CommandStep, InstallStep, DisableStep

\* The steps that keep the command, what is left to do and the drop-ins: from one
\* transfer's label to the next.
Moves(p) ==
    /\ proc[p].pc \in LoopLabels
    /\ proc'[p].pc \in ImageLabels
    /\ proc'[p].job = proc[p].job
    /\ proc'[p].res = proc[p].res
    /\ proc'[p].dom = proc[p].dom
    /\ proc'[p].feats = proc[p].feats
    /\ proc'[p].todo = proc[p].todo
    /\ enabled' = enabled

\* A transfer is done with.
Advances(p) ==
    /\ proc[p].pc \in ImageLabels
    /\ proc[p].todo # <<>>
    /\ enabled' = enabled
    /\ NextTransfer(p, proc[p].res) \/ NextTransfer(p, "failed")

LEMMA StepShape ==
    ASSUME TypeOK, NEW p \in Procs, ProcessStep(p)
    PROVE  \/ Moves(p) \/ Advances(p) \/ \E r \in Results : Return(p, r)
           \/ Begin(p) \/ WriteDropIn(p) \/ Unmerge(p) \/ NextFeature(p)
           \/ CheckMerged(p) \/ CheckBlind(p)
<1>0. proc[p] \in Local /\ proc \in [Procs -> Local] /\ proc[p].res \in Results
  BY DEF TypeOK, ProcOK, Local
<1>1. {"ok", "failed", "crashed"} \subseteq Results
  BY DEF Results
<1>2. proc[p].pc \in ImageLabels => proc[p].todo # <<>>
  BY DEF TypeOK, ProcOK
<1>3. CASE Crash(p) \/ DropInFails(p) \/ Refresh(p) \/ RefreshFails(p)
           \/ FinishWithoutRefresh(p) \/ UnmergeFails(p) \/ PurgeFails(p)
  BY <1>0, <1>1, <1>3 DEF Crash, DropInFails, Refresh, RefreshFails,
                          FinishWithoutRefresh, UnmergeFails, PurgeFails
<1>4. CASE NextImage(p)
  <2>1. CASE proc[p].job.kind = "disable"
    BY <1>0, <1>4, <2>1 DEF NextImage, Moves, Local, LoopLabels, ImageLabels, Labels, At, host
  <2>2. CASE proc[p].job.kind # "disable"
    BY <1>0, <1>4, <2>2 DEF NextImage, Moves, Local, LoopLabels, ImageLabels, Labels, At, host
  <2>3. QED
    BY <2>1, <2>2
<1>5. ASSUME InstallFails(p), proc[p].pc \in ImageLabels, enabled' = enabled
      PROVE  Advances(p) \/ \E r \in Results : Return(p, r)
  BY <1>1, <1>2, <1>5 DEF InstallFails, Advances
<1>6. ASSUME ImageDone(p), proc[p].pc \in ImageLabels, enabled' = enabled
      PROVE  Advances(p)
  BY <1>0, <1>2, <1>6 DEF ImageDone, Advances
<1>7. CASE \/ FetchFails(p) \/ InspectFails(p) \/ DownloadFails(p) \/ RenameFails(p)
           \/ VacuumEnds(p) \/ PurgeDone(p)
  <2>1. proc[p].pc \in ImageLabels /\ enabled' = enabled
    BY <1>7 DEF FetchFails, InspectFails, DownloadFails, RenameFails, VacuumEnds,
                PurgeDone, At, ImageLabels, Labels, host
  <2>2. InstallFails(p) \/ ImageDone(p)
    BY <1>7 DEF FetchFails, InspectFails, DownloadFails, RenameFails, VacuumEnds,
                PurgeDone
  <2>3. QED
    BY <1>5, <1>6, <2>1, <2>2
<1>8. CASE \/ Fetch(p) \/ Inspect(p) \/ RemoveLegacy(p) \/ Download(p)
           \/ ScanVacuum(p) \/ VacuumOne(p)
  BY <1>0, <1>8 DEF Fetch, Inspect, RemoveLegacy, Download, ScanVacuum, VacuumOne,
                    Moves, Local, At, LoopLabels, ImageLabels, Labels, host
<1>9. CASE Unlink(p) \/ ReadStaging(p) \/ PurgeLegacy(p) \/ PurgeOne(p)
  BY <1>0, <1>9 DEF Unlink, ReadStaging, PurgeLegacy, PurgeOne,
                    Moves, Local, At, LoopLabels, ImageLabels, Labels, host
<1>10. CASE VerifyLink(p) \/ PickTarget(p) \/ RenameLink(p)
  <2>1. proc[p].pc \in ImageLabels /\ enabled' = enabled
    BY <1>10 DEF VerifyLink, PickTarget, RenameLink, At, ImageLabels, Labels, host
  <2>2. ASSUME NEW l \in {"pick", "scan"}, proc' = [proc EXCEPT ![p].pc = l]
        PROVE  Moves(p)
    BY <1>0, <2>1, <2>2 DEF Moves, Local, LoopLabels, ImageLabels, Labels
  <2>3. ASSUME NEW v, proc' = [proc EXCEPT ![p].pc = "rename", ![p].choice = v]
        PROVE  Moves(p)
    BY <1>0, <2>1, <2>3 DEF Moves, Local, LoopLabels, ImageLabels, Labels
  <2>4. QED
    BY <1>5, <1>6, <1>10, <2>1, <2>2, <2>3 DEF VerifyLink, PickTarget, RenameLink
<1>11. QED
  BY <1>3, <1>4, <1>7, <1>8, <1>9, <1>10
  DEF ProcessStep, CommandStep, InstallStep, DisableStep

LEMMA EnabledStep ==
    ASSUME TypeOK, NEW p \in Procs, KindInv(p), EnabledInv(p), ProcessStep(p)
    PROVE  EnabledInv(p)'
<1>0. /\ proc[p] \in Local /\ proc \in [Procs -> Local] /\ proc[p].job \in Job
      /\ enabled \in [Features -> BOOLEAN]
      /\ Feature(p) \in Features
  BY DEF TypeOK, ProcOK, HostOK, Local, Feature, Job
<1>1. ASSUME NEW r, Return(p, r) PROVE EnabledInv(p)'
  BY <1>1, ReturnFacts DEF EnabledInv, LoopLabels, ImageLabels
<1>2. CASE Moves(p)
  BY <1>2 DEF Moves, EnabledInv, LoopLabels, Feature
<1>3. CASE Advances(p)
  <2>1. /\ proc[p].pc \in LoopLabels
        /\ proc'[p].job = proc[p].job
        /\ proc'[p].dom = proc[p].dom
        /\ enabled' = enabled
    BY <1>3, NextTransferFacts DEF Advances, LoopLabels
  <2>2. QED
    BY <2>1 DEF EnabledInv, Feature
<1>4. CASE Begin(p)
  <2>1. PICK j \in Job :
          /\ proc'[p].job = j
          /\ proc'[p].dom = enabled
          /\ proc'[p].pc = (IF j.kind = "update" THEN "next"
                            ELSE IF j.kind = "disable" /\ j.now /\ ImagesOf[j.feature] # <<>>
                            THEN "check" ELSE "dropin")
          /\ UNCHANGED <<dirs, host>>
    BY <1>4, BeginFacts
  <2>2. QED
    BY <2>1 DEF EnabledInv, LoopLabels, ImageLabels, Labels, host
<1>5. CASE WriteDropIn(p)
  <2>1. enabled' = [enabled EXCEPT ![Feature(p)] = proc[p].job.kind = "enable"]
    BY <1>5 DEF WriteDropIn
  <2>2. ASSUME proc'[p].job = proc[p].job, proc[p].job.kind # "update"
        PROVE  EnabledInv(p)'
    BY <1>0, <2>1, <2>2 DEF EnabledInv, Feature
  <2>3. proc[p].job.kind # "update"
    BY <1>5 DEF WriteDropIn, KindInv
  <2>4. proc'[p].job = proc[p].job
    BY <1>0, <1>5, ReturnFacts DEF WriteDropIn, Local
  <2>5. QED
    BY <2>2, <2>3, <2>4
<1>6. CASE Unmerge(p) \/ NextFeature(p)
  <2>1. /\ proc'[p].job = proc[p].job
        /\ proc'[p].dom = proc[p].dom
        /\ enabled' = enabled
    BY <1>0, <1>6 DEF Unmerge, NextFeature, Local, host
  <2>2. proc[p].pc \in LoopLabels \/ At(p, "unmerge")
    BY <1>6 DEF Unmerge, NextFeature, At, LoopLabels
  <2>3. At(p, "unmerge") => proc[p].job.kind = "disable"
    BY DEF KindInv, At, DisableLabels
  <2>4. QED
    BY <2>1, <2>2, <2>3 DEF EnabledInv, Feature, At
<1>7. CASE CheckMerged(p) \/ CheckBlind(p)
  <2>1. CASE proc' = [proc EXCEPT ![p].pc = "dropin"]
    <3>1. proc'[p].pc = "dropin"
      BY <1>0, <2>1
    <3>2. QED
      BY <3>1 DEF EnabledInv, LoopLabels, ImageLabels
  <2>2. QED
    BY <1>1, <1>7, <2>1 DEF CheckMerged, CheckBlind
<1>8. QED
  BY <1>1, <1>2, <1>3, <1>4, <1>5, <1>6, <1>7, StepShape

\* A CurrentSymlink is never made, only removed.
LEMMA LegacyOnlyGoes ==
    ASSUME TypeOK, NEW p \in Procs, ProcessStep(p), NEW i \in Images,
           legacy[i] = NoVersion
    PROVE  legacy'[i] = NoVersion
<1>0. legacy \in [Images -> VersionOrNone]
  BY DEF TypeOK, HostOK
<1>1. CASE RemoveLegacy(p) \/ PurgeLegacy(p)
  BY <1>0, <1>1 DEF RemoveLegacy, PurgeLegacy
<1>2. CASE ~(RemoveLegacy(p) \/ PurgeLegacy(p))
  <2>1. CASE \/ Begin(p) \/ Crash(p)
             \/ WriteDropIn(p) \/ DropInFails(p) \/ NextFeature(p) \/ NextImage(p)
             \/ Refresh(p) \/ RefreshFails(p) \/ FinishWithoutRefresh(p)
    BY <2>1 DEF Begin, Crash, WriteDropIn, DropInFails, NextFeature, NextImage,
                Refresh, RefreshFails, FinishWithoutRefresh, dirs
  <2>2. CASE InstallStep(p)
    BY <1>2, <2>2
    DEF InstallStep, Fetch, FetchFails, Inspect, InspectFails, VerifyLink, Download,
        DownloadFails, PickTarget, RenameLink, RenameFails, ScanVacuum, VacuumOne,
        VacuumEnds, dirs
  <2>3. CASE DisableStep(p)
    BY <1>2, <2>3
    DEF DisableStep, CheckMerged, CheckBlind, Unmerge, UnmergeFails, Unlink,
        ReadStaging, PurgeOne, PurgeDone, PurgeFails, dirs
  <2>4. QED
    BY <2>1, <2>2, <2>3 DEF ProcessStep, CommandStep
<1>3. QED
  BY <1>1, <1>2

LEMMA CheckedStep ==
    ASSUME TypeOK, NEW p \in Procs, KindInv(p), CheckedInv(p), ProcessStep(p)
    PROVE  CheckedInv(p)'
<1>. DEFINE F == ImagesOfFeature(Feature(p))
<1>0. /\ proc[p] \in Local /\ proc \in [Procs -> Local] /\ proc[p].job \in Job
      /\ Feature(p) \in Features
  BY DEF TypeOK, ProcOK, Local, Feature, Job
<1>1. F \subseteq Images
  BY <1>0, StagingAssumption DEF ImagesOfFeature
<1>2. ASSUME NEW r, Return(p, r) PROVE CheckedInv(p)'
  BY <1>2, ReturnFacts DEF CheckedInv, RemoveLabels, At
<1>3. KindInv(p)'
  BY KindStep
\* Later than the write of the drop-in, only the CurrentSymlinks matter.
<1>4. ASSUME proc'[p].job = proc[p].job,
             proc'[p].pc \in RemoveLabels \cup {"next"},
             proc[p].job.kind = "disable" =>
               proc[p].pc \in RemoveLabels \cup {"next", "unmerge"}
      PROVE  CheckedInv(p)'
  <2>1. SUFFICES ASSUME proc[p].job.kind = "disable", ~proc[p].job.force, NEW i \in F
                 PROVE  legacy'[i] = NoVersion
    BY <1>4 DEF CheckedInv, At, RemoveLabels, ImagesOfFeature, Feature
  <2>2. legacy[i] = NoVersion
    BY <1>4, <2>1 DEF CheckedInv
  <2>3. QED
    BY <1>1, <2>2, LegacyOnlyGoes
<1>5. ASSUME proc'[p].job = proc[p].job, proc[p].job.kind # "disable"
      PROVE  CheckedInv(p)'
  BY <1>5 DEF CheckedInv
<1>6. CASE Moves(p) \/ Advances(p)
  <2>1. /\ proc'[p].job = proc[p].job
        /\ proc'[p].pc \in LoopLabels
        /\ proc[p].pc \in LoopLabels
    BY <1>6, NextTransferFacts DEF Moves, Advances, LoopLabels
  <2>2. CASE proc[p].job.kind = "disable"
    <3>1. /\ proc[p].pc \in RemoveLabels \cup {"next"}
          /\ proc'[p].pc \in RemoveLabels \cup {"next"}
      BY <1>3, <2>1, <2>2 DEF KindInv, LoopLabels, ImageLabels, Labels, DisableLabels,
                              RemoveLabels
    <3>2. QED
      BY <1>4, <2>1, <3>1
  <2>3. QED
    BY <1>5, <2>1, <2>2
<1>7. CASE Begin(p)
  <2>1. PICK j \in Job :
          /\ proc'[p].job = j
          /\ proc'[p].pc = (IF j.kind = "update" THEN "next"
                            ELSE IF j.kind = "disable" /\ j.now /\ ImagesOf[j.feature] # <<>>
                            THEN "check" ELSE "dropin")
    BY <1>7, BeginFacts
  <2>2. CASE j.kind = "disable" /\ j.now /\ ImagesOf[j.feature] = <<>>
    <3>1. ImagesOfFeature(j.feature) = {}
      BY <2>2 DEF ImagesOfFeature
    <3>2. ImagesOfFeature(Feature(p))' = {}
      BY <2>1, <3>1 DEF ImagesOfFeature, Feature
    <3>3. QED
      BY <3>2 DEF CheckedInv
  <2>3. CASE j.kind # "disable" \/ ~j.now \/ ImagesOf[j.feature] # <<>>
    BY <2>1, <2>3 DEF CheckedInv, RemoveLabels, At
  <2>4. QED
    BY <2>2, <2>3
<1>8. CASE WriteDropIn(p)
  <2>1. CASE proc[p].job.kind # "enable" /\ proc[p].job.now
             /\ proc' = [proc EXCEPT ![p].pc = "unmerge"]
    <3>1. proc'[p].job = proc[p].job /\ proc'[p].pc = "unmerge"
      BY <1>0, <2>1 DEF Local
    <3>2. UNCHANGED <<legacy, merged>> /\ At(p, "dropin")
      BY <1>8 DEF WriteDropIn, dirs
    <3>3. QED
      BY <2>1, <3>1, <3>2 DEF CheckedInv, At, RemoveLabels, ImagesOfFeature, Feature
  <2>2. CASE proc[p].job.kind = "enable"
             /\ proc' = [proc EXCEPT ![p].pc = "next", ![p].todo = ImagesOf[Feature(p)]]
    <3>1. proc'[p].job = proc[p].job
      BY <1>0, <2>2 DEF Local
    <3>2. QED
      BY <1>5, <2>2, <3>1
  <2>3. QED
    BY <1>2, <1>8, <2>1, <2>2 DEF WriteDropIn
<1>9. CASE Unmerge(p)
  <2>1. /\ proc'[p].job = proc[p].job
        /\ proc'[p].pc = "next"
        /\ proc[p].pc = "unmerge"
    BY <1>0, <1>9 DEF Unmerge, Local, At
  <2>2. QED
    BY <1>4, <2>1
<1>10. CASE NextFeature(p)
  <2>1. proc'[p].job = proc[p].job
    BY <1>0, <1>10 DEF NextFeature, Local
  <2>2. proc[p].job.kind = "update"
    BY <1>0, <1>10 DEF KindInv, NextFeature, Local
  <2>3. QED
    BY <1>5, <2>1, <2>2
<1>11. CASE CheckMerged(p) \/ CheckBlind(p)
  <2>1. CASE proc' = [proc EXCEPT ![p].pc = "dropin"]
             /\ (proc[p].job.force \/ \A i \in F : ~Active(i))
    <3>1. proc'[p].job = proc[p].job /\ proc'[p].pc = "dropin"
      BY <1>0, <2>1 DEF Local
    <3>2. UNCHANGED <<legacy, merged>>
      BY <1>11 DEF CheckMerged, CheckBlind, dirs, host
    <3>3. QED
      BY <2>1, <3>1, <3>2 DEF CheckedInv, At, RemoveLabels, ImagesOfFeature, Feature,
                              Active
  <2>2. CASE CheckBlind(p)
    <3>1. proc'[p].job = proc[p].job /\ proc'[p].pc = "dropin"
      BY <1>0, <2>2 DEF CheckBlind, Local
    <3>2. /\ UNCHANGED <<legacy, merged>>
          /\ "active" \in Faults
          /\ \A i \in F : legacy[i] = NoVersion
      BY <2>2 DEF CheckBlind, dirs, host, Fault, Active
    <3>3. QED
      BY <3>1, <3>2 DEF CheckedInv, At, RemoveLabels, ImagesOfFeature, Feature
  <2>3. QED
    BY <1>2, <1>11, <2>1, <2>2 DEF CheckMerged
<1>12. QED
  BY <1>2, <1>6, <1>7, <1>8, <1>9, <1>10, <1>11, StepShape

\* What a process knows of the transfer at hand.
LEMMA HeadFrame ==
    ASSUME NEW p \in Procs, proc'[p].pc \notin LinkLabels
    PROVE  HeadInv(p)'
  BY DEF HeadInv, At, LinkLabels

LEMMA InstallHead ==
    ASSUME TypeOK, NEW p \in Procs, HeadInv(p), InstallStep(p)
    PROVE  HeadInv(p)'
<1>. DEFINE i == Img(p)
<1>0. proc[p] \in Local /\ proc \in [Procs -> Local] /\ ProcOK
  BY DEF TypeOK, ProcOK
<1>1. i \in Images /\ proc[p].todo # <<>>
  BY <1>0, ImgType DEF InstallStep, Fetch, FetchFails, Inspect, InspectFails,
         RemoveLegacy, VerifyLink, Download, DownloadFails, PickTarget, RenameLink,
         RenameFails, ScanVacuum, VacuumOne, VacuumEnds, At, Labels, ImageLabels
<1>2. /\ staged \in [Images -> SUBSET Versions] /\ staged[i] \in SUBSET Versions
      /\ link \in [Images -> VersionOrNone]
      /\ InstancesMax[i] \in Int
  BY <1>1, StagingAssumption DEF TypeOK, HostOK
<1>3. ASSUME InstallFails(p) \/ ImageDone(p) PROVE HeadInv(p)'
  <2>1. proc'[p].pc \notin LinkLabels
    BY <1>3, InstallFailsNext, NextTransferNext DEF ImageDone, LinkLabels
  <2>2. QED
    BY <2>1, HeadFrame
<1>4. CASE \/ FetchFails(p) \/ InspectFails(p) \/ DownloadFails(p) \/ RenameFails(p)
           \/ VacuumEnds(p)
  BY <1>3, <1>4 DEF FetchFails, InspectFails, DownloadFails, RenameFails, VacuumEnds
<1>5. CASE Fetch(p) \/ Inspect(p) \/ RemoveLegacy(p) \/ Download(p)
  <2>1. proc'[p].pc \notin LinkLabels
    BY <1>0, <1>5 DEF Fetch, Inspect, RemoveLegacy, Download, Local, LinkLabels
  <2>2. QED
    BY <2>1, HeadFrame
<1>6. CASE VerifyLink(p)
  <2>1. CASE proc' = [proc EXCEPT ![p].pc = "pick"]
    <3>1. proc'[p].pc \notin LinkLabels
      BY <1>0, <2>1 DEF Local, LinkLabels
    <3>2. QED
      BY <3>1, HeadFrame
  <2>2. QED
    BY <1>3, <1>6, <2>1 DEF VerifyLink
<1>7. CASE PickTarget(p)
  <2>1. CASE staged[i] # {}
    <3>1. /\ proc'[p].pc = "rename"
          /\ proc'[p].choice = Newest(staged[i])
          /\ proc'[p].todo = proc[p].todo
          /\ staged' = staged
      BY <1>0, <1>7, <2>1 DEF PickTarget, Local, dirs
    <3>2. QED
      BY <2>1, <3>1 DEF HeadInv, At, Img
  <2>2. QED
    BY <1>3, <1>7, <2>1 DEF PickTarget
<1>8. CASE RenameLink(p)
  <2>1. CASE proc' = [proc EXCEPT ![p].pc = "scan"]
    <3>1. /\ proc'[p].pc = "scan"
          /\ proc'[p].todo = proc[p].todo
          /\ staged' = staged
          /\ staged[i] # {}
          /\ link'[i] = Newest(staged[i])
      BY <1>0, <1>1, <1>2, <1>8, <2>1 DEF RenameLink, Local, HeadInv
    <3>2. QED
      BY <3>1 DEF HeadInv, Linked, At, Img
  <2>2. QED
    BY <1>3, <1>8, <2>1 DEF RenameLink
<1>9. CASE ScanVacuum(p)
  <2>1. /\ proc'[p].pc = "vacuum"
        /\ proc'[p].doomed = VacuumRemoves(staged[i], legacy[i], Protect[i], InstancesMax[i])
        /\ proc'[p].todo = proc[p].todo
        /\ UNCHANGED <<staged, link, legacy>>
    BY <1>0, <1>9 DEF ScanVacuum, Local, dirs
  <2>2. Linked(i)
    BY <1>9 DEF HeadInv, ScanVacuum, At
  <2>3. Newest(staged[i]) \notin proc'[p].doomed
    BY <1>2, <2>1, <2>2, NewestIsKept DEF Linked
  <2>4. Cardinality((staged[i] \ proc'[p].doomed) \ {Protect[i], legacy[i]})
          <= Retained(InstancesMax[i])
    BY <1>2, <2>1, VacuumBound
  <2>5. QED
    BY <2>1, <2>2, <2>3, <2>4 DEF HeadInv, Linked, At, Img
<1>10. CASE VacuumOne(p)
  <2>1. proc[p].doomed \in SUBSET Versions /\ proc[p].doomed # {} /\ At(p, "vacuum")
    BY <1>0, <1>10 DEF VacuumOne, Local
  <2>. DEFINE v == Newest(proc[p].doomed)
  <2>2. v \in proc[p].doomed
    BY <2>1, NewestIsGreatest
  <2>3. /\ staged' = [staged EXCEPT ![i] = @ \ {v}]
        /\ proc' = [proc EXCEPT ![p].doomed = @ \ {v}]
        /\ UNCHANGED <<link, legacy>>
    BY <1>10 DEF VacuumOne
  <2>. HIDE DEF v
  <2>4. /\ proc'[p].pc = "vacuum"
        /\ proc'[p].doomed = proc[p].doomed \ {v}
        /\ proc'[p].todo = proc[p].todo
        /\ staged'[i] = staged[i] \ {v}
    BY <1>0, <1>1, <1>2, <2>1, <2>3 DEF Local, At
  <2>5. /\ Linked(i)
        /\ Newest(staged[i]) \notin proc[p].doomed
        /\ Cardinality((staged[i] \ proc[p].doomed) \ {Protect[i], legacy[i]})
             <= Retained(InstancesMax[i])
    BY <2>1 DEF HeadInv, At
  <2>6. staged'[i] # {} /\ Newest(staged'[i]) = Newest(staged[i])
    BY <1>2, <2>2, <2>4, <2>5, NewestSurvives DEF Linked
  <2>7. staged'[i] \ proc'[p].doomed = staged[i] \ proc[p].doomed
    BY <2>2, <2>4
  <2>8. QED
    BY <2>3, <2>4, <2>5, <2>6, <2>7 DEF HeadInv, Linked, At, Img
<1>11. QED
  BY <1>4, <1>5, <1>6, <1>7, <1>8, <1>9, <1>10 DEF InstallStep

LEMMA DisableHead ==
    ASSUME TypeOK, NEW p \in Procs, HeadInv(p), DisableStep(p)
    PROVE  HeadInv(p)'
<1>. DEFINE i == Img(p)
<1>0. proc[p] \in Local /\ proc \in [Procs -> Local] /\ ProcOK
  BY DEF TypeOK, ProcOK
<1>1. ASSUME proc[p].pc \in {"unlink", "readdir", "rmlegacy", "purge"}
      PROVE  /\ i \in Images
             /\ staged \in [Images -> SUBSET Versions]
             /\ link \in [Images -> VersionOrNone]
             /\ legacy \in [Images -> VersionOrNone]
  BY <1>0, <1>1, ImgType DEF ImageLabels, Labels, TypeOK, HostOK
<1>2. CASE \/ CheckMerged(p) \/ CheckBlind(p) \/ Unmerge(p) \/ UnmergeFails(p)
           \/ PurgeDone(p) \/ PurgeFails(p)
  <2>1. proc'[p].pc \notin LinkLabels
    BY <1>0, <1>2, ReturnIdle, NextTransferNext
    DEF CheckMerged, CheckBlind, Unmerge, UnmergeFails, PurgeDone, PurgeFails,
        ImageDone, LinkLabels, Local
  <2>2. QED
    BY <2>1, HeadFrame
<1>3. CASE Unlink(p)
  <2>1. proc'[p].pc = "readdir" /\ proc'[p].todo = proc[p].todo
    BY <1>0, <1>3 DEF Unlink, Local
  <2>2. "unlink" \notin Faults => link'[i] = NoVersion
    BY <1>1, <1>3 DEF Unlink, At, Fault
  <2>3. QED
    BY <2>1, <2>2 DEF HeadInv, At, Img
<1>4. CASE ReadStaging(p)
  <2>1. /\ proc'[p].pc = IF legacy[i] # NoVersion THEN "rmlegacy" ELSE "purge"
        /\ proc'[p].doomed = staged[i]
        /\ proc'[p].todo = proc[p].todo
        /\ UNCHANGED <<staged, link, legacy>>
    BY <1>0, <1>4 DEF ReadStaging, Local, dirs
  <2>2. "unlink" \notin Faults => link[i] = NoVersion
    BY <1>4 DEF ReadStaging, At, HeadInv
  <2>3. QED
    BY <2>1, <2>2 DEF HeadInv, At, Img
<1>5. CASE PurgeLegacy(p)
  <2>1. /\ proc'[p].pc = "purge"
        /\ proc'[p].doomed = proc[p].doomed
        /\ proc'[p].todo = proc[p].todo
        /\ UNCHANGED <<staged, link>>
        /\ legacy' = [legacy EXCEPT ![i] = NoVersion]
    BY <1>0, <1>5 DEF PurgeLegacy, Local
  <2>2. /\ "unlink" \notin Faults => link[i] = NoVersion
        /\ staged[i] \subseteq proc[p].doomed
        /\ legacy'[i] = NoVersion
    BY <1>1, <1>5, <2>1 DEF PurgeLegacy, At, HeadInv
  <2>3. QED
    BY <2>1, <2>2 DEF HeadInv, At, Img
<1>6. CASE PurgeOne(p)
  <2>1. PICK v \in proc[p].doomed :
          /\ staged' = [staged EXCEPT ![i] = @ \ {v}]
          /\ proc' = [proc EXCEPT ![p].doomed = @ \ {v}]
    BY <1>6 DEF PurgeOne
  <2>2. /\ proc'[p].pc = "purge"
        /\ proc'[p].doomed = proc[p].doomed \ {v}
        /\ proc'[p].todo = proc[p].todo
        /\ UNCHANGED <<link, legacy>>
    BY <1>0, <1>6, <2>1 DEF PurgeOne, Local, At
  <2>3. /\ "unlink" \notin Faults => link[i] = NoVersion
        /\ staged[i] \subseteq proc[p].doomed
        /\ legacy[i] = NoVersion
    BY <1>6 DEF PurgeOne, At, HeadInv
  <2>4. staged'[i] = staged[i] \ {v}
    BY <1>1, <1>6, <2>1 DEF PurgeOne, At
  <2>5. QED
    BY <2>2, <2>3, <2>4 DEF HeadInv, At, Img
<1>7. QED
  BY <1>2, <1>3, <1>4, <1>5, <1>6 DEF DisableStep

LEMMA HeadStep ==
    ASSUME TypeOK, NEW p \in Procs, HeadInv(p), ProcessStep(p)
    PROVE  HeadInv(p)'
<1>0. proc[p] \in Local /\ proc \in [Procs -> Local]
  BY DEF TypeOK, ProcOK
<1>1. CASE Begin(p)
  <2>1. proc'[p].pc \in {"next", "check", "dropin"}
    BY <1>1, BeginFacts
  <2>2. QED
    BY <2>1, HeadFrame DEF LinkLabels
<1>2. CASE \/ Crash(p) \/ DropInFails(p) \/ Refresh(p) \/ RefreshFails(p)
           \/ FinishWithoutRefresh(p)
  <2>1. proc'[p].pc = "idle"
    BY <1>2, ReturnIdle DEF Crash, DropInFails, Refresh, RefreshFails, FinishWithoutRefresh
  <2>2. QED
    BY <2>1, HeadFrame DEF LinkLabels
<1>3. CASE WriteDropIn(p) \/ NextFeature(p) \/ NextImage(p)
  <2>1. proc'[p].pc \notin LinkLabels
    BY <1>0, <1>3, ReturnIdle DEF WriteDropIn, NextFeature, NextImage, LinkLabels, Local, At
  <2>2. QED
    BY <2>1, HeadFrame
<1>4. QED
  BY <1>1, <1>2, <1>3, InstallHead, DisableHead DEF ProcessStep, CommandStep

\* A step changes the directory and the link of the transfer at hand, no other.
LEMMA OtherImages ==
    ASSUME TypeOK, NEW p \in Procs, ProcessStep(p), NEW i \in Images,
           ~(proc[p].pc \in ImageLabels /\ i = Img(p))
    PROVE  staged'[i] = staged[i] /\ link'[i] = link[i] /\ legacy'[i] = legacy[i]
<1>0. /\ staged \in [Images -> SUBSET Versions]
      /\ link \in [Images -> VersionOrNone]
      /\ legacy \in [Images -> VersionOrNone]
  BY DEF TypeOK, HostOK
<1>1. CASE \/ Begin(p) \/ Crash(p)
           \/ WriteDropIn(p) \/ DropInFails(p) \/ NextFeature(p) \/ NextImage(p)
           \/ Refresh(p) \/ RefreshFails(p) \/ FinishWithoutRefresh(p)
  BY <1>1 DEF Begin, Crash, WriteDropIn, DropInFails, NextFeature, NextImage,
              Refresh, RefreshFails, FinishWithoutRefresh, dirs
<1>2. CASE InstallStep(p)
  <2>1. proc[p].pc \in ImageLabels
    BY <1>2 DEF InstallStep, Fetch, FetchFails, Inspect, InspectFails,
         RemoveLegacy, VerifyLink, Download, DownloadFails, PickTarget, RenameLink,
         RenameFails, ScanVacuum, VacuumOne, VacuumEnds, At, Labels, ImageLabels
  <2>2. QED
    BY <1>0, <1>2, <2>1
    DEF InstallStep, Fetch, FetchFails, Inspect, InspectFails, RemoveLegacy, VerifyLink,
        Download, DownloadFails, PickTarget, RenameLink, RenameFails, ScanVacuum,
        VacuumOne, VacuumEnds, dirs
<1>3. CASE Unlink(p) \/ ReadStaging(p) \/ PurgeLegacy(p) \/ PurgeOne(p)
  <2>1. proc[p].pc \in ImageLabels
    BY <1>3 DEF Unlink, ReadStaging, PurgeLegacy, PurgeOne, At, Labels, ImageLabels
  <2>2. QED
    BY <1>0, <1>3, <2>1 DEF Unlink, ReadStaging, PurgeLegacy, PurgeOne, dirs
<1>4. CASE \/ CheckMerged(p) \/ CheckBlind(p) \/ Unmerge(p) \/ UnmergeFails(p)
           \/ PurgeDone(p) \/ PurgeFails(p)
  BY <1>4 DEF CheckMerged, CheckBlind, Unmerge, UnmergeFails, PurgeDone, PurgeFails, dirs
<1>5. QED
  BY <1>1, <1>2, <1>3, <1>4 DEF ProcessStep, CommandStep, DisableStep

\* What is handled and what an image has reached, where nothing of it changes.
LEMMA HandledFrame ==
    ASSUME NEW p \in Procs, proc'[p].job = proc[p].job, enabled' = enabled
    PROVE  Handled(p)' = Handled(p)
  BY DEF Handled, ImagesOfFeature, Feature

LEMMA ReachedFrame ==
    ASSUME NEW p \in Procs, NEW i \in Images, Reached(p, i),
           proc'[p].job = proc[p].job,
           staged'[i] = staged[i], link'[i] = link[i], legacy'[i] = legacy[i]
    PROVE  Reached(p, i)'
  BY DEF Reached, Removed, Linked

LEMMA PendingFrame ==
    ASSUME NEW p \in Procs, proc'[p].todo = proc[p].todo,
           proc'[p].dom = proc[p].dom, proc'[p].feats = proc[p].feats
    PROVE  Pending(p)' = Pending(p)
  BY DEF Pending, ImagesOfFeature

LEMMA HandledImages ==
    ASSUME TypeOK, NEW p \in Procs
    PROVE  Handled(p) \subseteq Images
<1>1. Feature(p) \in Features
  BY DEF TypeOK, ProcOK, Local, Job, Feature
<1>2. \A f \in Features : ImagesOfFeature(f) \subseteq Images
  BY StagingAssumption DEF ImagesOfFeature
<1>3. QED
  BY <1>1, <1>2 DEF Handled

\* A transfer that is done with leaves the rest to do; one of an update's features
\* that is entered leaves its transfers to do.
LEMMA AdvancePending ==
    ASSUME TypeOK, NEW p \in Procs, Advances(p)
    PROVE  Pending(p) \subseteq Pending(p)' \cup {Img(p)}
<1>1. /\ proc'[p].dom = proc[p].dom
      /\ proc'[p].feats = proc[p].feats
      /\ \A k \in DOMAIN proc[p].todo :
           \/ proc[p].todo[k] = Img(p)
           \/ \E l \in DOMAIN proc'[p].todo : proc'[p].todo[l] = proc[p].todo[k]
  BY NextTransferFacts DEF Advances
<1>2. QED
  BY <1>1 DEF Pending, ImagesOfFeature

LEMMA FeaturePending ==
    ASSUME TypeOK, NEW p \in Procs, NextFeature(p)
    PROVE  Pending(p) \subseteq Pending(p)'
<1>. DEFINE fs == proc[p].feats
            h == Head(fs)
<1>1. /\ proc[p] \in Local /\ proc \in [Procs -> Local]
      /\ fs \in Seq(Features) /\ fs # <<>>
      /\ proc[p].todo = <<>>
  BY DEF TypeOK, ProcOK, Local, NextFeature
<1>2. /\ proc'[p].dom = proc[p].dom
      /\ proc'[p].feats = Tail(fs)
      /\ proc'[p].todo = (IF proc[p].dom[h] THEN ImagesOf[h] ELSE <<>>)
  BY <1>1 DEF NextFeature, Local
<1>3. \A k \in DOMAIN fs : fs[k] = h \/ \E l \in DOMAIN Tail(fs) : Tail(fs)[l] = fs[k]
  <2>1. /\ DOMAIN Tail(fs) = 1 .. Len(fs) - 1
        /\ DOMAIN fs = 1 .. Len(fs)
        /\ Len(fs) \in Nat
        /\ \A k \in 1 .. Len(fs) - 1 : Tail(fs)[k] = fs[k + 1]
        /\ Head(fs) = fs[1]
    BY <1>1
  <2>2. \A k \in DOMAIN fs : k = 1 \/ (k - 1 \in DOMAIN Tail(fs) /\ Tail(fs)[k - 1] = fs[k])
    BY <2>1
  <2>3. QED
    BY <2>1, <2>2
<1>. HIDE DEF fs, h
<1>4. ASSUME NEW i \in Pending(p) PROVE i \in Pending(p)'
  <2>1. ~\E k \in DOMAIN proc[p].todo : TRUE
    BY <1>1
  <2>2. PICK g \in Features : /\ i \in ImagesOfFeature(g)
                              /\ proc[p].dom[g]
                              /\ \E k \in DOMAIN fs : fs[k] = g
    BY <1>4, <2>1 DEF Pending, fs
  <2>3. CASE g = h
    BY <1>2, <2>2, <2>3 DEF Pending, ImagesOfFeature
  <2>4. CASE g # h
    <3>1. \E l \in DOMAIN Tail(fs) : Tail(fs)[l] = g
      BY <1>3, <2>2, <2>4
    <3>2. QED
      BY <1>2, <2>2, <3>1 DEF Pending, ImagesOfFeature
  <2>5. QED
    BY <2>3, <2>4
<1>5. QED
  BY <1>4

\* A transfer that is done with, without a failure, is where the command was to
\* bring it.
LEMMA DoneIsReached ==
    ASSUME TypeOK, NEW p \in Procs, KindInv(p), HeadInv(p), ProcessStep(p),
           Advances(p), proc'[p].res = "ok", NEW i, i = Img(p)
    PROVE  Reached(p, i)'
<1>0. proc[p] \in Local /\ proc \in [Procs -> Local] /\ ProcOK
  BY DEF TypeOK, ProcOK
<1>1. /\ proc'[p].pc = "next"
      /\ proc'[p].job = proc[p].job
      /\ proc[p].pc \in ImageLabels
  BY NextTransferFacts DEF Advances
<1>2. i \in Images /\ staged \in [Images -> SUBSET Versions]
      /\ link \in [Images -> VersionOrNone]
  BY <1>0, <1>1, ImgType DEF TypeOK, HostOK
<1>3. ASSUME InstallFails(p) PROVE FALSE
  <2>1. proc'[p].res = "failed"
    BY <1>3, ReturnFacts, NextTransferFacts DEF InstallFails, Advances
  <2>2. QED
    BY <2>1
<1>4. ASSUME proc[p].job.kind # "disable", staged'[i] # {}, link'[i] = Newest(staged'[i])
      PROVE  Reached(p, i)'
  BY <1>1, <1>4 DEF Reached, Linked
<1>5. CASE VerifyLink(p)
  <2>1. proc[p].job.kind # "disable"
    BY <1>5 DEF VerifyLink, KindInv, At, DisableLabels
  <2>2. ~(proc' = [proc EXCEPT ![p].pc = "pick"])
    BY <1>0, <1>1 DEF Local
  <2>3. UNCHANGED <<staged, link>> /\ staged[i] # {} /\ link[i] = Newest(staged[i])
    BY <1>3, <1>5, <2>2 DEF VerifyLink, LinkIsCurrent, dirs
  <2>4. QED
    BY <1>4, <2>1, <2>3
<1>6. CASE RenameLink(p)
  <2>1. proc[p].job.kind # "disable"
    BY <1>6 DEF RenameLink, KindInv, At, DisableLabels
  <2>2. /\ staged' = staged
        /\ staged[i] # {}
        /\ link'[i] = Newest(staged[i])
    BY <1>2, <1>6 DEF RenameLink, HeadInv
  <2>3. QED
    BY <1>4, <2>1, <2>2
<1>7. CASE VacuumEnds(p)
  <2>1. proc[p].job.kind # "disable"
    BY <1>7 DEF VacuumEnds, KindInv, At, DisableLabels
  <2>2. UNCHANGED <<staged, link>> /\ Linked(i)
    BY <1>7 DEF VacuumEnds, HeadInv, dirs, At
  <2>3. QED
    BY <1>4, <2>1, <2>2 DEF Linked
<1>8. CASE PurgeDone(p)
  <2>1. proc[p].job.kind = "disable"
    BY <1>8 DEF PurgeDone, KindInv, At, DisableLabels
  <2>2. /\ UNCHANGED <<staged, link, legacy>>
        /\ staged[i] = {}
        /\ legacy[i] = NoVersion
        /\ "unlink" \notin Faults => link[i] = NoVersion
    BY <1>8 DEF PurgeDone, HeadInv, dirs, At
  <2>3. QED
    BY <1>1, <2>1, <2>2 DEF Reached, Removed
<1>9. CASE \/ FetchFails(p) \/ InspectFails(p) \/ DownloadFails(p) \/ RenameFails(p)
  BY <1>3, <1>9 DEF FetchFails, InspectFails, DownloadFails, RenameFails
<1>10. CASE \/ Fetch(p) \/ Inspect(p) \/ RemoveLegacy(p) \/ Download(p)
            \/ ScanVacuum(p) \/ VacuumOne(p) \/ Unlink(p) \/ ReadStaging(p)
            \/ PurgeLegacy(p) \/ PurgeOne(p)
  <2>1. proc'[p].pc # "next"
    BY <1>0, <1>10 DEF Fetch, Inspect, RemoveLegacy, Download, ScanVacuum, VacuumOne,
                       Unlink, ReadStaging, PurgeLegacy, PurgeOne, Local, At
  <2>2. QED
    BY <1>1, <2>1
<1>11. CASE PickTarget(p)
  <2>1. ~(proc' = [proc EXCEPT ![p].pc = "rename", ![p].choice = Newest(staged[Img(p)])])
    BY <1>0, <1>1 DEF Local
  <2>2. QED
    BY <1>3, <1>11, <2>1 DEF PickTarget
<1>12. CASE PurgeFails(p) \/ Crash(p)
  BY <1>1, <1>12, ReturnFacts DEF PurgeFails, Crash
<1>13. CASE \/ Begin(p) \/ WriteDropIn(p) \/ DropInFails(p) \/ NextFeature(p) \/ NextImage(p)
            \/ Refresh(p) \/ RefreshFails(p) \/ FinishWithoutRefresh(p)
            \/ CheckMerged(p) \/ CheckBlind(p) \/ Unmerge(p) \/ UnmergeFails(p)
  BY <1>1, <1>13
  DEF Begin, WriteDropIn, DropInFails, NextFeature, NextImage, Refresh, RefreshFails,
      FinishWithoutRefresh, CheckMerged, CheckBlind, Unmerge, UnmergeFails, LoopDone,
      At, ImageLabels
<1>14. QED
  BY <1>5, <1>6, <1>7, <1>8, <1>9, <1>10, <1>11, <1>12, <1>13
  DEF ProcessStep, CommandStep, InstallStep, DisableStep

LEMMA LoopStep ==
    ASSUME TypeOK, NEW p \in Procs, KindInv(p), EnabledInv(p), HeadInv(p), LoopInv(p),
           ProcessStep(p)
    PROVE  LoopInv(p)'
<1>0. /\ proc[p] \in Local /\ proc \in [Procs -> Local]
      /\ Handled(p) \subseteq Images
  BY HandledImages DEF TypeOK, ProcOK
<1>1. ASSUME proc'[p].pc \notin LoopLabels PROVE LoopInv(p)'
  BY <1>1 DEF LoopInv
<1>2. ASSUME NEW r, Return(p, r) PROVE LoopInv(p)'
  BY <1>1, <1>2, ReturnFacts DEF LoopLabels, ImageLabels
<1>3. CASE Moves(p)
  <2>1. Handled(p)' = Handled(p) /\ Pending(p)' = Pending(p)
    BY <1>3, HandledFrame, PendingFrame DEF Moves
  <2>2. ASSUME NEW i \in Handled(p), proc[p].res = "ok", i \notin Pending(p)
        PROVE  Reached(p, i)'
    <3>1. Reached(p, i) /\ i \in Images
      BY <1>0, <1>3, <2>2 DEF Moves, LoopInv
    <3>2. ~(proc[p].pc \in ImageLabels /\ i = Img(p))
      <4>1. SUFFICES ASSUME proc[p].pc \in ImageLabels PROVE Img(p) \in Pending(p)
        BY <2>2
      <4>2. proc[p].todo \in Seq(Images) /\ proc[p].todo # <<>>
        BY <1>0, <4>1 DEF Local, TypeOK, ProcOK
      <4>3. 1 \in DOMAIN proc[p].todo /\ Img(p) = proc[p].todo[1]
        BY <4>2 DEF Img
      <4>4. QED
        BY <4>3 DEF Pending
    <3>3. QED
      BY <1>3, <3>1, <3>2, OtherImages, ReachedFrame DEF Moves
  <2>3. QED
    BY <1>3, <2>1, <2>2 DEF LoopInv, Moves
<1>4. CASE Advances(p)
  <2>1. /\ proc'[p].job = proc[p].job
        /\ enabled' = enabled
        /\ proc[p].pc \in LoopLabels
    BY <1>4, NextTransferFacts DEF Advances, LoopLabels
  <2>2. Handled(p)' = Handled(p)
    BY <2>1, HandledFrame
  <2>3. ASSUME proc'[p].res = "ok", NEW i \in Handled(p), i \notin Pending(p)'
        PROVE  Reached(p, i)'
    <3>1. CASE i = Img(p)
      BY <1>4, <2>3, <3>1, DoneIsReached
    <3>2. CASE i # Img(p)
      <4>1. proc[p].res = "ok"
        BY <1>4, <2>3, NextTransferFacts DEF Advances
      <4>2. i \notin Pending(p)
        BY <1>4, <2>3, <3>2, AdvancePending
      <4>3. Reached(p, i) /\ i \in Images
        BY <1>0, <2>1, <2>3, <4>1, <4>2 DEF LoopInv
      <4>4. QED
        BY <2>1, <3>2, <4>3, OtherImages, ReachedFrame
    <3>3. QED
      BY <3>1, <3>2
  <2>4. QED
    BY <2>2, <2>3 DEF LoopInv
<1>5. CASE Begin(p)
  <2>1. PICK j \in Job :
          /\ proc'[p].job = j
          /\ proc'[p].dom = enabled
          /\ proc'[p].feats = (IF j.kind = "update" THEN FeatureOrder ELSE <<>>)
          /\ proc'[p].pc = (IF j.kind = "update" THEN "next"
                            ELSE IF j.kind = "disable" /\ j.now /\ ImagesOf[j.feature] # <<>>
                            THEN "check" ELSE "dropin")
          /\ UNCHANGED <<dirs, host>>
    BY <1>5, BeginFacts
  <2>2. CASE j.kind = "update"
    <3>1. ASSUME NEW i \in Handled(p)' PROVE i \in Pending(p)'
      <4>1. PICK g \in Features : enabled[g] /\ i \in ImagesOfFeature(g)
        BY <2>1, <2>2, <3>1 DEF Handled, ImagesOfFeature, host
      <4>2. \E k \in DOMAIN proc'[p].feats : proc'[p].feats[k] = g
        BY <2>1, <2>2, StagingAssumption
      <4>3. proc'[p].dom[g]
        BY <2>1, <4>1
      <4>4. QED
        BY <4>1, <4>2, <4>3 DEF Pending, ImagesOfFeature
    <3>2. QED
      BY <3>1 DEF LoopInv
  <2>3. CASE j.kind # "update"
    <3>1. proc'[p].pc \notin LoopLabels
      BY <2>1, <2>3 DEF LoopLabels, ImageLabels, Labels
    <3>2. QED
      BY <1>1, <3>1
  <2>4. QED
    BY <2>2, <2>3
<1>6. CASE WriteDropIn(p) \/ Unmerge(p)
  <2>1. CASE proc' = [proc EXCEPT ![p].pc = "next", ![p].todo = ImagesOf[Feature(p)]]
    <3>1. /\ proc'[p].job = proc[p].job
          /\ proc'[p].todo = ImagesOf[Feature(p)]
      BY <1>0, <2>1 DEF Local
    <3>2. proc[p].job.kind # "update"
      BY <1>6 DEF WriteDropIn, Unmerge, KindInv, At, DisableLabels
    <3>3. Handled(p)' \subseteq Pending(p)'
      BY <3>1, <3>2 DEF Handled, Pending, ImagesOfFeature, Feature
    <3>4. QED
      BY <3>3 DEF LoopInv
  <2>2. CASE proc' = [proc EXCEPT ![p].pc = "unmerge"]
    <3>1. proc'[p].pc = "unmerge"
      BY <1>0, <2>2 DEF Local
    <3>2. QED
      BY <1>1, <3>1 DEF LoopLabels, ImageLabels, Labels
  <2>3. QED
    BY <1>2, <1>6, <2>1, <2>2 DEF WriteDropIn, Unmerge
<1>7. CASE NextFeature(p)
  <2>1. /\ proc'[p].job = proc[p].job
        /\ proc'[p].res = proc[p].res
        /\ UNCHANGED <<staged, link, legacy, enabled>>
        /\ proc[p].pc \in LoopLabels
    BY <1>0, <1>7 DEF NextFeature, Local, dirs, host, LoopLabels, At
  <2>2. Handled(p)' = Handled(p) /\ Pending(p) \subseteq Pending(p)'
    BY <1>7, <2>1, HandledFrame, FeaturePending
  <2>3. ASSUME NEW i \in Handled(p), Reached(p, i)
        PROVE  Reached(p, i)'
    BY <1>0, <2>1, <2>3, ReachedFrame
  <2>4. QED
    BY <2>1, <2>2, <2>3 DEF LoopInv
<1>8. CASE CheckMerged(p) \/ CheckBlind(p)
  <2>1. CASE proc' = [proc EXCEPT ![p].pc = "dropin"]
    <3>1. proc'[p].pc = "dropin"
      BY <1>0, <2>1 DEF Local
    <3>2. QED
      BY <1>1, <3>1 DEF LoopLabels, ImageLabels
  <2>2. QED
    BY <1>2, <1>8, <2>1 DEF CheckMerged, CheckBlind
<1>9. QED
  BY <1>2, <1>3, <1>4, <1>5, <1>6, <1>7, <1>8, StepShape

LEMMA OutcomeStep ==
    ASSUME TypeOK, NEW p \in Procs, KindInv(p), EnabledInv(p), LoopInv(p),
           ProcessStep(p)
    PROVE  OutcomeInv(p)'
<1>0. /\ proc[p] \in Local /\ proc \in [Procs -> Local]
      /\ enabled \in [Features -> BOOLEAN]
      /\ Feature(p) \in Features
      /\ proc[p].job.kind \in {"update", "enable", "disable"}
      /\ Handled(p) \subseteq Images
  BY HandledImages DEF TypeOK, HostOK, ProcOK, Local, Job, Feature
<1>1. ASSUME proc'[p].pc # "idle" PROVE OutcomeInv(p)'
  BY <1>1 DEF OutcomeInv, At
<1>2. ASSUME NEW r \in {"failed", "refused", "crashed"}, Return(p, r)
      PROVE  OutcomeInv(p)'
  BY <1>2, ReturnFacts DEF OutcomeInv
<1>3. CASE Moves(p) \/ Advances(p)
  BY <1>1, <1>3, NextTransferFacts DEF Moves, Advances, ImageLabels
<1>4. CASE Begin(p)
  <2>1. proc'[p].pc \in {"next", "check", "dropin"}
    BY <1>4, BeginFacts
  <2>2. QED
    BY <1>1, <2>1
<1>5. CASE Crash(p) \/ DropInFails(p) \/ RefreshFails(p) \/ UnmergeFails(p) \/ PurgeFails(p)
  BY <1>2, <1>5 DEF Crash, DropInFails, RefreshFails, UnmergeFails, PurgeFails
<1>6. CASE Refresh(p) \/ FinishWithoutRefresh(p)
  <2>1. /\ LoopDone(p)
        /\ Return(p, proc[p].res)
        /\ UNCHANGED <<staged, link, legacy, enabled>>
        /\ proc[p].job.refresh => merged' = ServedNow
    BY <1>6 DEF Refresh, FinishWithoutRefresh, dirs, host
  <2>2. /\ proc'[p].job = proc[p].job
        /\ proc'[p].res = proc[p].res
    BY <2>1, ReturnFacts
  <2>3. Pending(p) = {}
    BY <2>1 DEF Pending, LoopDone
  <2>4. proc[p].pc = "next" /\ proc[p].pc \in LoopLabels
    BY <2>1 DEF LoopDone, At, LoopLabels
  <2>5. Handled(p)' = Handled(p)
    BY <2>1, <2>2, HandledFrame
  <2>6. ASSUME proc'[p].res = "ok", NEW i \in Handled(p) PROVE Reached(p, i)'
    <3>1. Reached(p, i) /\ i \in Images
      BY <1>0, <2>2, <2>3, <2>4, <2>6 DEF LoopInv
    <3>2. QED
      BY <2>1, <2>2, <3>1, ReachedFrame
  <2>7. (proc[p].job.kind = "disable" => ~enabled[Feature(p)])'
    BY <2>1, <2>2, <2>4 DEF EnabledInv, Feature
  <2>8. ServedNow' = ServedNow
    BY <2>1 DEF ServedNow
  <2>9. QED
    BY <2>1, <2>2, <2>5, <2>6, <2>7, <2>8 DEF OutcomeInv
<1>7. CASE WriteDropIn(p)
  <2>1. CASE Return(p, "ok") /\ (~proc[p].job.now \/ ImagesOf[Feature(p)] = <<>>)
    <3>1. proc'[p].job = proc[p].job
      BY <2>1, ReturnFacts
    <3>2. proc[p].job.kind # "update"
      BY <1>7 DEF WriteDropIn, KindInv
    <3>3. CASE ~proc[p].job.now
      BY <3>1, <3>2, <3>3 DEF OutcomeInv
    <3>4. CASE ImagesOf[Feature(p)] = <<>>
      <4>1. Handled(p)' = {}
        BY <3>1, <3>2, <3>4 DEF Handled, ImagesOfFeature, Feature
      <4>2. (proc[p].job.kind = "disable" => ~enabled[Feature(p)])'
        BY <1>0, <1>7, <3>1 DEF WriteDropIn, Feature
      <4>3. ImagesOf[Feature(p)]' = <<>>
        BY <3>1, <3>4 DEF Feature
      <4>4. QED
        BY <3>1, <3>2, <4>1, <4>2, <4>3 DEF OutcomeInv
    <3>5. QED
      BY <2>1, <3>3, <3>4
  <2>2. CASE \/ proc' = [proc EXCEPT ![p].pc = "next", ![p].todo = ImagesOf[Feature(p)]]
             \/ proc' = [proc EXCEPT ![p].pc = "unmerge"]
    <3>1. proc'[p].pc # "idle"
      BY <1>0, <2>2 DEF Local
    <3>2. QED
      BY <1>1, <3>1
  <2>3. QED
    BY <1>7, <2>1, <2>2 DEF WriteDropIn
<1>8. CASE Unmerge(p) \/ NextFeature(p) \/ NextImage(p)
  <2>1. proc'[p].pc # "idle"
    BY <1>0, <1>8 DEF Unmerge, NextFeature, NextImage, Local, At
  <2>2. QED
    BY <1>1, <2>1
<1>9. CASE CheckMerged(p) \/ CheckBlind(p)
  <2>1. CASE proc' = [proc EXCEPT ![p].pc = "dropin"]
    <3>1. proc'[p].pc # "idle"
      BY <1>0, <2>1 DEF Local
    <3>2. QED
      BY <1>1, <3>1
  <2>2. QED
    BY <1>2, <1>9, <2>1 DEF CheckMerged, CheckBlind
<1>10. CASE InstallStep(p)
  <2>1. CASE \/ FetchFails(p) \/ InspectFails(p) \/ DownloadFails(p) \/ RenameFails(p)
    <3>1. CASE Return(p, "failed")
      BY <1>2, <3>1
    <3>2. CASE NextTransfer(p, "failed")
      <4>1. proc'[p].pc = "next"
        BY <3>2, NextTransferNext
      <4>2. QED
        BY <1>1, <4>1
    <3>3. QED
      BY <2>1, <3>1, <3>2
      DEF FetchFails, InspectFails, DownloadFails, RenameFails, InstallFails
  <2>2. CASE VerifyLink(p) \/ PickTarget(p)
    <3>1. CASE InstallFails(p)
      BY <1>1, <1>2, <3>1, NextTransferNext DEF InstallFails
    <3>2. CASE ~InstallFails(p)
      <4>1. proc'[p].pc # "idle"
        BY <1>0, <2>2, <3>2, NextTransferNext DEF VerifyLink, PickTarget, ImageDone, Local
      <4>2. QED
        BY <1>1, <4>1
    <3>3. QED
      BY <3>1, <3>2
  <2>3. CASE \/ Fetch(p) \/ Inspect(p) \/ RemoveLegacy(p) \/ Download(p)
             \/ ScanVacuum(p) \/ VacuumOne(p)
    <3>1. proc'[p].pc # "idle"
      BY <1>0, <2>3
      DEF Fetch, Inspect, RemoveLegacy, Download, ScanVacuum, VacuumOne, Local, At
    <3>2. QED
      BY <1>1, <3>1
  <2>4. CASE RenameLink(p) \/ VacuumEnds(p)
    <3>1. proc'[p].pc # "idle"
      BY <1>0, <2>4, NextTransferNext DEF RenameLink, VacuumEnds, ImageDone, Local
    <3>2. QED
      BY <1>1, <3>1
  <2>5. QED
    BY <1>10, <2>1, <2>2, <2>3, <2>4 DEF InstallStep
<1>11. CASE \/ Unlink(p) \/ ReadStaging(p) \/ PurgeLegacy(p) \/ PurgeOne(p)
            \/ PurgeDone(p)
  <2>1. proc'[p].pc # "idle"
    BY <1>0, <1>11, NextTransferNext
    DEF Unlink, ReadStaging, PurgeLegacy, PurgeOne, PurgeDone, ImageDone, Local, At
  <2>2. QED
    BY <1>1, <2>1
<1>12. QED
  BY <1>4, <1>5, <1>6, <1>7, <1>8, <1>9, <1>10, <1>11
  DEF ProcessStep, CommandStep, DisableStep

LEMMA SoloStep ==
    ASSUME TypeOK, NEW p \in Procs, SoloInv(p), ProcessStep(p)
    PROVE  SoloInv(p)'
  BY KindStep, EnabledStep, HeadStep, CheckedStep, LoopStep, OutcomeStep DEF SoloInv

\* The restart of the host, which ends a command, merges what the links serve.
LEMMA SoloReboot ==
    ASSUME TypeOK, NEW p \in Procs, SoloInv(p), Reboot
    PROVE  SoloInv(p)'
<1>1. /\ proc'[p].pc = "idle"
      /\ proc'[p].job = proc[p].job
      /\ UNCHANGED <<staged, link, legacy, enabled>>
      /\ merged' = ServedNow
  BY RebootLabel DEF Reboot, dirs
<1>2. ServedNow' = ServedNow
  BY <1>1 DEF ServedNow
<1>3. \/ At(p, "idle") /\ proc'[p] = proc[p]
      \/ /\ proc'[p].res = "crashed"
         /\ proc'[p].feats = <<>>
         /\ proc'[p].todo = <<>>
  BY DEF Reboot, At, Idle
<1>4. KindInv(p)'
  BY SMTT(30), <1>1, <1>3 DEF SoloInv, KindInv, At, DisableLabels, ImagesOfFeature, Feature
<1>5. EnabledInv(p)' /\ LoopInv(p)' /\ CheckedInv(p)' /\ HeadInv(p)'
  BY <1>1 DEF EnabledInv, LoopInv, CheckedInv, HeadInv, LoopLabels, ImageLabels,
              RemoveLabels, At
<1>6. OutcomeInv(p)'
  <2>1. CASE At(p, "idle") /\ proc'[p] = proc[p]
    <3>1. Handled(p)' = Handled(p)
      BY <1>1, HandledFrame
    <3>2. ASSUME NEW i \in Handled(p), Reached(p, i) PROVE Reached(p, i)'
      BY <1>1, <3>2, HandledImages, ReachedFrame
    <3>3. QED
      BY <1>1, <1>2, <2>1, <3>1, <3>2 DEF SoloInv, OutcomeInv, At, Feature
  <2>2. CASE proc'[p].res = "crashed"
    BY <2>2 DEF OutcomeInv
  <2>3. QED
    BY <1>3, <2>1, <2>2
<1>7. QED
  BY <1>4, <1>5, <1>6 DEF SoloInv

LEMMA SoloInit ==
    ASSUME NEW p \in Procs
    PROVE  Init => SoloInv(p)
  BY DEF Init, SoloInv, KindInv, EnabledInv, HeadInv, CheckedInv, LoopInv, OutcomeInv,
         At, Idle, NoJob, LoopLabels, ImageLabels, RemoveLabels, DisableLabels

LEMMA SoloNext ==
    ASSUME NEW u, Procs = {u}
    PROVE  TypeOK /\ SoloInv(u) /\ [Next]_vars => SoloInv(u)'
<1>. SUFFICES ASSUME TypeOK, SoloInv(u), [Next]_vars PROVE SoloInv(u)'
  OBVIOUS
<1>0. u \in Procs
  OBVIOUS
<1>1. CASE UNCHANGED <<staged, link, legacy, merged, enabled, proc>>
  <2>0. /\ staged' = staged /\ link' = link /\ legacy' = legacy /\ merged' = merged
        /\ enabled' = enabled /\ proc' = proc
    BY <1>1
  <2>1. KindInv(u)'
    BY <2>0 DEF SoloInv, KindInv, At, ImagesOfFeature, Feature
  <2>2. EnabledInv(u)'
    BY <2>0 DEF SoloInv, EnabledInv, Feature
  <2>3. HeadInv(u)'
    BY <2>0 DEF SoloInv, HeadInv, At, Img, Linked
  <2>4. CheckedInv(u)'
    BY <2>0 DEF SoloInv, CheckedInv, At, ImagesOfFeature, Feature
  <2>5. Handled(u)' = Handled(u) /\ Pending(u)' = Pending(u)
    BY <2>0 DEF Handled, Pending, ImagesOfFeature, Feature, Img
  <2>6. \A i : Reached(u, i)' <=> Reached(u, i)
    BY <2>0 DEF Reached, Removed, Linked
  <2>7. LoopInv(u)'
    BY <2>0, <2>5, <2>6 DEF SoloInv, LoopInv
  <2>8. OutcomeInv(u)'
    <3>1. ServedNow' = ServedNow
      BY <2>0 DEF ServedNow
    <3>2. QED
      BY <2>0, <2>5, <2>6, <3>1 DEF SoloInv, OutcomeInv, At, Feature
  <2>9. QED
    BY <2>1, <2>2, <2>3, <2>4, <2>7, <2>8 DEF SoloInv
<1>2. ASSUME NEW p \in Procs, ProcessStep(p) PROVE SoloInv(u)'
  <2>1. p = u
    OBVIOUS
  <2>2. ProcessStep(u)
    BY <1>2, <2>1
  <2>3. QED
    BY <1>0, <2>2, SoloStep
<1>3. CASE Reboot
  BY <1>0, <1>3, SoloReboot
<1>4. QED
  BY <1>1, <1>2, <1>3 DEF Next, ProcessStep, Release, vars, dirs

\* The invariant holds in every state, through every failure, crash and restart.
LEMMA Solo ==
    ASSUME NEW u, Procs = {u}
    PROVE  Spec => [](TypeOK /\ SoloInv(u))
<1>1. Init => TypeOK /\ SoloInv(u)
  BY InitTypes, SoloInit
<1>2. TypeOK /\ SoloInv(u) /\ [Next]_vars => (TypeOK /\ SoloInv(u))'
  BY NextTypes, SoloNext
<1>3. QED
  BY <1>1, <1>2, PTL DEF Spec

\* With one command at a time, once an install's vacuum has removed all it
\* listed, its directory holds InstancesMax images at most, but for the protected
\* one and the one behind a CurrentSymlink, however many it held.
THEOREM VacuumsKeepToTheBound ==
    ASSUME NEW u, Procs = {u}
    PROVE  Spec => []RetentionBound
<1>1. SoloInv(u) => RetentionBound
  <2>1. SUFFICES ASSUME SoloInv(u), At(u, "vacuum"), proc[u].doomed = {},
                        NEW i, i = Img(u)
                 PROVE  Cardinality(staged[i] \ {Protect[i], legacy[i]})
                          <= Retained(InstancesMax[i])
    BY DEF RetentionBound
  <2>2. Cardinality((staged[i] \ proc[u].doomed) \ {Protect[i], legacy[i]})
          <= Retained(InstancesMax[i])
    BY <2>1 DEF SoloInv, HeadInv
  <2>3. staged[i] \ proc[u].doomed = staged[i]
    BY <2>1
  <2>4. QED
    BY <2>2, <2>3
<1>2. QED
  BY <1>1, Solo, PTL

\* With one command at a time, an update or an enable --now that returns without
\* an error leaves each of its images linked at the newest staged version, and
\* merged if it was to refresh: whatever failed, crashed or was published before.
THEOREM SuccessServes ==
    ASSUME NEW u, Procs = {u}
    PROVE  Spec => []SuccessMeansServed
<1>1. TypeOK /\ SoloInv(u) => SuccessMeansServed
  <2>1. SUFFICES ASSUME TypeOK, SoloInv(u), At(u, "idle"), proc[u].res = "ok",
                        \/ proc[u].job.kind = "update"
                        \/ proc[u].job.kind = "enable" /\ proc[u].job.now,
                        NEW i \in Handled(u)
                 PROVE  /\ staged[i] # {}
                        /\ link[i] = Newest(staged[i])
                        /\ proc[u].job.refresh => merged[i] = link[i]
    BY DEF SuccessMeansServed, Succeeded
  <2>2. i \in Images /\ staged[i] \in SUBSET Versions
    BY <2>1, HandledImages DEF TypeOK, HostOK
  <2>3. staged[i] # {} /\ link[i] = Newest(staged[i])
    BY <2>1 DEF SoloInv, OutcomeInv, Reached, Linked
  <2>4. ASSUME proc[u].job.refresh PROVE merged[i] = link[i]
    <3>1. proc[u].job.kind = "update" \/ ImagesOf[Feature(u)] # <<>>
      BY <2>1 DEF Handled, ImagesOfFeature
    <3>2. merged = ServedNow
      BY <2>1, <2>4, <3>1 DEF SoloInv, OutcomeInv
    <3>3. link[i] \in staged[i]
      BY <2>2, <2>3, NewestIsGreatest
    <3>4. QED
      BY <2>2, <3>2, <3>3 DEF ServedNow, Served
  <2>5. QED
    BY <2>3, <2>4
<1>2. QED
  BY <1>1, Solo, PTL

\* With one command at a time and unlinks that do not fail, a disable --now that
\* returns without an error leaves no image of its feature staged, linked or
\* behind a CurrentSymlink, and what else the links serve merged again.
THEOREM SuccessRemoves ==
    ASSUME NEW u, Procs = {u}, "unlink" \notin Faults
    PROVE  Spec => []SuccessMeansRemoved
<1>1. SoloInv(u) => SuccessMeansRemoved
  <2>1. SUFFICES ASSUME SoloInv(u), At(u, "idle"), proc[u].res = "ok",
                        proc[u].job.kind = "disable", proc[u].job.now
                 PROVE  /\ ~enabled[Feature(u)]
                        /\ \A i \in ImagesOfFeature(Feature(u)) :
                             staged[i] = {} /\ link[i] = NoVersion /\ legacy[i] = NoVersion
                        /\ (proc[u].job.refresh /\ ImagesOf[Feature(u)] # <<>>)
                             => merged = ServedNow
    BY DEF SuccessMeansRemoved, Succeeded
  <2>2. Handled(u) = ImagesOfFeature(Feature(u))
    BY <2>1 DEF Handled
  <2>3. QED
    BY <2>1, <2>2 DEF SoloInv, OutcomeInv, Reached, Removed
<1>2. QED
  BY <1>1, Solo, PTL

\* With one command at a time and a merge state that can be read, a disable
\* without --force goes on to unmerge only when no image of its feature is merged,
\* and never takes away an image behind a CurrentSymlink.
THEOREM ForceIsRequired ==
    ASSUME NEW u, Procs = {u}, "active" \notin Faults
    PROVE  Spec => ForceRequired
<1>1. TypeOK /\ SoloInv(u) /\ [Next]_vars
        => [\A p \in Procs :
              (proc[p].job.kind = "disable" /\ ~proc[p].job.force)
                => /\ At(p, "unmerge") /\ ~At(p, "unmerge")'
                     => \A i \in ImagesOfFeature(Feature(p)) : merged[i] = NoVersion
                   /\ At(p, "rmlegacy") => legacy' = legacy]_vars
  <2>1. SUFFICES ASSUME TypeOK, SoloInv(u), Next,
                        proc[u].job.kind = "disable", ~proc[u].job.force
                 PROVE  /\ At(u, "unmerge")
                             => \A i \in ImagesOfFeature(Feature(u)) : merged[i] = NoVersion
                        /\ At(u, "rmlegacy") => legacy' = legacy
    OBVIOUS
  <2>2. At(u, "unmerge") => \A i \in ImagesOfFeature(Feature(u)) : merged[i] = NoVersion
    BY <2>1 DEF SoloInv, CheckedInv, At
  <2>3. ASSUME At(u, "rmlegacy") PROVE legacy' = legacy
    <3>0. u \in Procs /\ legacy \in [Images -> VersionOrNone]
      BY <2>1 DEF TypeOK, HostOK
    <3>1. ImagesOfFeature(Feature(u)) \subseteq Images /\ Img(u) \in ImagesOfFeature(Feature(u))
      <4>1. Img(u) \in Images /\ proc[u].todo # <<>> /\ proc[u].todo \in Seq(Images)
        BY <2>1, <2>3, <3>0, ImgType DEF At, ImageLabels, Labels, TypeOK, ProcOK, Local
      <4>2. 1 \in DOMAIN proc[u].todo /\ Img(u) = proc[u].todo[1]
        BY <4>1 DEF Img
      <4>3. Feature(u) \in Features
        BY <2>1, <3>0 DEF TypeOK, ProcOK, Local, Job, Feature
      <4>4. QED
        BY <2>1, <4>2, <4>3, StagingAssumption DEF SoloInv, KindInv, ImagesOfFeature
    <3>2. legacy[Img(u)] = NoVersion
      BY <2>1, <2>3, <3>1 DEF SoloInv, CheckedInv, At, RemoveLabels
    <3>3. CASE Reboot \/ \E k \in Images : Release(k)
      BY <3>3 DEF Reboot, Release, dirs
    <3>4. CASE \E p \in Procs : ProcessStep(p)
      <4>1. ProcessStep(u)
        <5>1. PICK p \in Procs : ProcessStep(p)
          BY <3>4
        <5>2. p = u
          OBVIOUS
        <5>3. QED
          BY <5>1, <5>2
      <4>2. legacy'[Img(u)] = legacy[Img(u)]
        BY <2>1, <3>0, <3>1, <3>2, <4>1, LegacyOnlyGoes
      <4>3. \A i \in Images : legacy'[i] = legacy[i]
        BY <2>1, <3>0, <4>1, <4>2, OtherImages
      <4>4. legacy' \in [Images -> VersionOrNone]
        BY <2>1, NextTypes DEF TypeOK, HostOK
      <4>5. QED
        BY <3>0, <4>3, <4>4
    <3>5. QED
      BY <2>1, <3>3, <3>4 DEF Next, ProcessStep
  <2>4. QED
    BY <2>2, <2>3
<1>2. QED
  BY <1>1, Solo, PTL DEF Spec, ForceRequired

-----------------------------------------------------------------------------
\* One command at a time implements ImageService: what a link serves only ever moves
\* up, without a gap, until a running disable removes it.

\* What each step does to what the links serve, and to what is being removed.

LEMMA RemovingType == TypeOK => Removing \subseteq Images
<1>. SUFFICES ASSUME TypeOK PROVE Removing \subseteq Images
  OBVIOUS
<1>1. ASSUME NEW p \in Procs PROVE ImagesOfFeature(Feature(p)) \subseteq Images
  <2>1. Feature(p) \in Features
    BY DEF TypeOK, ProcOK, Local, Job, Feature
  <2>2. ImagesOf[Feature(p)] \in Seq(Images)
    BY <2>1, StagingAssumption
  <2>3. QED
    BY <2>2 DEF ImagesOfFeature
<1>2. QED
  BY <1>1 DEF Removing

\* A step that changes what no link serves may only change what is removed.
LEMMA ServedFrame ==
    ASSUME TypeOK', ServedNow' = ServedNow
    PROVE  View!Operate
<1>1. (TypeOK => Removing \subseteq Images)'
  BY RemovingType, PTL
<1>2. Removing' \in SUBSET Images
  BY <1>1
<1>3. QED
  BY <1>2 DEF View!Operate

\* A command that goes on removes what it removed before.
LEMMA RemovingFrame ==
    ASSUME TypeOK, NEW u, Procs = {u}, ~At(u, "idle"), ~At(u, "idle")',
           proc'[u].job = proc[u].job
    PROVE  Removing' = Removing
  BY DEF Removing, Feature

\* Downloads and removals do not touch the image a link names.
LEMMA StagingKeepsServed ==
    ASSUME TypeOK, NEW u \in Procs, LinkInv(u),
           Download(u) \/ VacuumOne(u) \/ PurgeOne(u)
    PROVE  ServedNow' = ServedNow
<1>. DEFINE i == Img(u)
<1>1. i \in Images
  BY ImgType DEF Download, VacuumOne, PurgeOne, At, ImageLabels, Labels, TypeOK
<1>2. CASE Download(u)
  <2>1. /\ \A j \in Images : staged[j] \subseteq staged'[j]
        /\ link' = link
    BY <1>2 DEF Download, TypeOK, HostOK
  <2>2. \A j \in Images : Served(link[j], staged'[j]) = Served(link[j], staged[j])
    <3>1. ASSUME NEW j \in Images, link[j] \notin staged[j] PROVE link[j] = NoVersion
      BY <3>1 DEF LinkInv, LinkNeverDangles
    <3>2. QED
      BY <2>1, <3>1 DEF Served
  <2>3. QED
    BY <2>1, <2>2 DEF ServedNow
<1>3. CASE VacuumOne(u)
  <2>1. PICK v \in proc[u].doomed : staged' = [staged EXCEPT ![i] = @ \ {v}]
    <3>1. proc[u].doomed \in SUBSET Versions /\ proc[u].doomed # {}
      BY <1>3 DEF VacuumOne, TypeOK, ProcOK, Local
    <3>2. QED
      BY <1>3, <3>1, NewestIsGreatest DEF VacuumOne
  <2>2. link' = link /\ link[i] # v
    BY <1>3, <2>1 DEF VacuumOne, LinkInv
  <2>3. \A j \in Images : link[j] \in staged'[j] <=> link[j] \in staged[j]
    BY <2>1, <2>2 DEF TypeOK, HostOK
  <2>4. QED
    BY <2>2, <2>3 DEF ServedNow, Served
<1>4. CASE PurgeOne(u)
  <2>1. link' = link /\ link[i] = NoVersion
    BY <1>4 DEF PurgeOne, LinkInv, At
  <2>2. \A j \in Images \ {i} : staged'[j] = staged[j]
    BY <1>4 DEF PurgeOne, TypeOK, HostOK
  <2>3. \A j \in Images : Served(link[j], staged'[j]) = Served(link[j], staged[j])
    BY <2>1, <2>2 DEF Served
  <2>4. QED
    BY <2>1, <2>3 DEF ServedNow
<1>5. QED
  BY <1>2, <1>3, <1>4

\* A rename of the link serves the newest staged image: the one that was served,
\* or a newer one.
LEMMA RenameUpgrades ==
    ASSUME TypeOK, TypeOK', NEW u, Procs = {u}, LinkInv(u), RenameLink(u)
    PROVE  View!Next
<1>. DEFINE i == Img(u)
            v == Newest(staged[i])
<1>0. u \in Procs
  OBVIOUS
<1>1. i \in Images /\ proc[u].todo # <<>>
  BY <1>0, ImgType DEF RenameLink, At, ImageLabels, Labels, TypeOK
<1>2. staged[i] # {} /\ staged[i] \in SUBSET Versions
  BY <1>1 DEF RenameLink, LinkInv, TypeOK, HostOK
<1>3. /\ v \in staged[i] /\ v \in Versions
      /\ \A w \in staged[i] : w <= v
  BY <1>2, NewestIsGreatest
<1>4. /\ link' = [link EXCEPT ![i] = v]
      /\ staged' = staged
  BY DEF RenameLink, LinkInv
<1>5. ServedNow' = [ServedNow EXCEPT ![i] = v]
  BY <1>1, <1>3, <1>4 DEF ServedNow, Served, TypeOK, HostOK
<1>6. ServedNow[i] = NoVersion \/ ServedNow[i] \in staged[i]
  BY <1>1 DEF ServedNow, Served
<1>7. CASE ServedNow[i] = v
  <2>1. ServedNow' = ServedNow
    BY <1>1, <1>5, <1>7 DEF ServedNow
  <2>2. QED
    BY <2>1, ServedFrame DEF View!Next
<1>8. CASE ServedNow[i] # v
  <2>1. ServedNow[i] = NoVersion \/ v > ServedNow[i]
    BY <1>2, <1>3, <1>6, <1>8, MaxVersionAssumption DEF Versions
  <2>2. Removing' = Removing
    <3>1. proc'[u].job = proc[u].job /\ proc'[u].pc \in {"next", "scan"}
      <4>1. CASE ImageDone(u)
        BY <1>0, <4>1 DEF ImageDone, NextTransfer, TypeOK, ProcOK, Idle
      <4>2. CASE proc' = [proc EXCEPT ![u].pc = "scan"]
        BY <1>0, <4>2 DEF TypeOK, ProcOK, Local
      <4>3. QED
        BY <4>1, <4>2 DEF RenameLink
    <3>2. QED
      BY <3>1, RemovingFrame DEF RenameLink, At
  <2>3. View!Upgrade(i)
    BY <1>3, <1>5, <2>1, <2>2 DEF View!Upgrade
  <2>4. QED
    BY <1>1, <2>3 DEF View!Next
<1>9. QED
  BY <1>7, <1>8

\* An unlink takes away an image of the feature that is being disabled.
LEMMA UnlinkWithdraws ==
    ASSUME TypeOK, NEW u, Procs = {u}, "unlink" \notin Faults, KindInv(u), Unlink(u)
    PROVE  View!Next
<1>. DEFINE i == Img(u)
<1>0. u \in Procs /\ proc[u] \in Local /\ proc \in [Procs -> Local]
  BY DEF TypeOK, ProcOK
<1>1. i \in Images /\ proc[u].todo # <<>>
  BY <1>0, ImgType DEF Unlink, At, ImageLabels, Labels, TypeOK
<1>2. /\ link' = [link EXCEPT ![i] = NoVersion]
      /\ staged' = staged
      /\ proc' = [proc EXCEPT ![u].pc = "readdir"]
  BY DEF Unlink, Fault
<1>3. ServedNow' = [ServedNow EXCEPT ![i] = NoVersion]
  BY <1>1, <1>2 DEF ServedNow, Served, TypeOK, HostOK
<1>4. Removing' = Removing
  <2>1. proc'[u].job = proc[u].job /\ proc'[u].pc = "readdir"
    BY <1>0, <1>2 DEF Local
  <2>2. QED
    BY <2>1, RemovingFrame DEF Unlink, At
<1>5. i \in Removing
  <2>1. proc[u].job.kind = "disable" /\ ~At(u, "idle")
    BY DEF KindInv, DisableLabels, Unlink, At
  <2>2. 1 \in DOMAIN proc[u].todo /\ i = proc[u].todo[1]
    BY <1>0, <1>1 DEF Local, Img
  <2>3. i \in ImagesOfFeature(Feature(u))
    BY <2>1, <2>2 DEF KindInv
  <2>4. QED
    BY <1>0, <2>1, <2>3 DEF Removing
<1>6. View!Withdraw(i)
  BY <1>3, <1>4, <1>5 DEF View!Withdraw
<1>7. QED
  BY <1>1, <1>6 DEF View!Next

LEMMA StepImplements ==
    ASSUME NEW u, Procs = {u}, "unlink" \notin Faults
    PROVE  /\ TypeOK /\ TypeOK' /\ LinkInv(u) /\ KindInv(u)
           /\ [Next]_vars
           => [View!Next]_<<ServedNow, Removing>>
<1>. SUFFICES ASSUME TypeOK, TypeOK', LinkInv(u), KindInv(u), [Next]_vars
              PROVE  [View!Next]_<<ServedNow, Removing>>
  OBVIOUS
<1>0. u \in Procs
  OBVIOUS
<1>1. ASSUME UNCHANGED <<staged, link>> PROVE View!Next
  <2>1. ServedNow' = ServedNow
    BY <1>1 DEF ServedNow, Served
  <2>2. QED
    BY <2>1, ServedFrame DEF View!Next
<1>2. ASSUME Download(u) \/ VacuumOne(u) \/ PurgeOne(u) PROVE View!Next
  BY <1>0, <1>2, StagingKeepsServed, ServedFrame DEF View!Next
<1>3. ASSUME RenameLink(u) PROVE View!Next
  BY <1>3, RenameUpgrades
<1>4. ASSUME Unlink(u) PROVE View!Next
  BY <1>4, UnlinkWithdraws
<1>5. ASSUME InstallStep(u) PROVE View!Next
  <2>1. CASE \/ Fetch(u) \/ FetchFails(u) \/ Inspect(u) \/ InspectFails(u)
             \/ RemoveLegacy(u) \/ VerifyLink(u) \/ DownloadFails(u)
             \/ PickTarget(u) \/ RenameFails(u) \/ ScanVacuum(u) \/ VacuumEnds(u)
    <3>1. UNCHANGED <<staged, link>>
      BY <2>1 DEF Fetch, FetchFails, Inspect, InspectFails, RemoveLegacy, VerifyLink,
                  DownloadFails, PickTarget, RenameFails, ScanVacuum, VacuumEnds, dirs
    <3>2. QED
      BY <3>1, <1>1
  <2>2. QED
    BY <1>2, <1>3, <1>5, <2>1 DEF InstallStep
<1>6. ASSUME DisableStep(u) PROVE View!Next
  <2>1. CASE \/ CheckMerged(u) \/ CheckBlind(u) \/ Unmerge(u) \/ UnmergeFails(u)
             \/ ReadStaging(u) \/ PurgeLegacy(u) \/ PurgeDone(u) \/ PurgeFails(u)
    <3>1. UNCHANGED <<staged, link>>
      BY <2>1 DEF CheckMerged, CheckBlind, Unmerge, UnmergeFails, ReadStaging,
                  PurgeLegacy, PurgeDone, PurgeFails, dirs
    <3>2. QED
      BY <3>1, <1>1
  <2>2. QED
    BY <1>2, <1>4, <1>6, <2>1 DEF DisableStep
<1>7. ASSUME \/ Begin(u) \/ Crash(u) \/ Reboot
             \/ WriteDropIn(u) \/ DropInFails(u) \/ NextFeature(u) \/ NextImage(u)
             \/ Refresh(u) \/ RefreshFails(u) \/ FinishWithoutRefresh(u)
      PROVE  View!Next
  <2>1. UNCHANGED <<staged, link>>
    BY <1>7 DEF Begin, Crash, Reboot, WriteDropIn, DropInFails, NextFeature, NextImage,
                Refresh, RefreshFails, FinishWithoutRefresh, dirs
  <2>2. QED
    BY <2>1, <1>1
<1>8. CASE UNCHANGED vars \/ \E i \in Images : Release(i)
  <2>1. UNCHANGED <<staged, link>>
    BY <1>8 DEF vars, Release, dirs
  <2>2. QED
    BY <2>1, <1>1
<1>9. ASSUME NEW p \in Procs, Begin(p) \/ CommandStep(p) \/ Crash(p)
      PROVE  View!Next
  <2>1. p = u
    OBVIOUS
  <2>2. Begin(u) \/ CommandStep(u) \/ Crash(u)
    BY <1>9, <2>1
  <2>3. QED
    BY <1>5, <1>6, <1>7, <2>2 DEF CommandStep
<1>10. QED
  BY <1>7, <1>8, <1>9 DEF Next

LEMMA InitImplements == Init => View!Init
<1>. SUFFICES ASSUME Init PROVE View!Init
  OBVIOUS
<1>1. ServedNow = [i \in Images |-> NoVersion]
  BY DEF Init, ServedNow, Served
<1>2. Removing = {}
  BY DEF Init, Removing, At, Idle
<1>3. QED
  BY <1>1, <1>2 DEF View!Init

\* One command at a time, with unlinks that do not fail, is what ImageService
\* promises systemd-sysext: through every failure, crash and reboot the version
\* a link serves is only ever replaced by a newer one, in one step, and only a
\* disable of a feature takes away one of that feature's own images.
THEOREM SequentialRefinement ==
    ASSUME NEW u, Procs = {u}, "unlink" \notin Faults
    PROVE  Spec => ImplementsImageService
<1>1. u \in Procs
  OBVIOUS
<1>2. Init => TypeOK /\ LinkInv(u) /\ SoloInv(u)
  BY <1>1, InitTypes, LinkInvInit, SoloInit
<1>3. TypeOK /\ LinkInv(u) /\ SoloInv(u) /\ [Next]_vars
        => (TypeOK /\ LinkInv(u) /\ SoloInv(u))'
  BY NextTypes, LinkInvNext, SoloNext
<1>4. /\ TypeOK /\ TypeOK' /\ LinkInv(u) /\ SoloInv(u)
      /\ [Next]_vars
      => [View!Next]_<<ServedNow, Removing>>
  BY StepImplements DEF SoloInv
<1>5. Init => View!Init
  BY InitImplements
<1>6. QED
  BY <1>2, <1>3, <1>4, <1>5, PTL DEF Spec, ImplementsImageService, View!Spec
=============================================================================
