---------------------------- MODULE CatalogProofs ----------------------------
(***************************************************************************)
(* What holds of catalog adds and removes for any catalogs, components,   *)
(* images, failures and commands.                                         *)
(***************************************************************************)
EXTENDS Catalog, SysextDirProofs

-----------------------------------------------------------------------------
\* Types.

ImageLabels == {"install", "download", "link", "vacuum", "unmerge", "unlink", "purge"}
DropInStates == {"absent", "disabled", "enabled", "irregular"}

Txn == [pc : Labels, op : {"none", "add", "remove"},
        res : {"none", "ok", "failed", "refused", "crashed"},
        repo : Repos, rev : Revisions \cup {0}, force : BOOLEAN, refresh : BOOLEAN,
        todo : Seq(Images), target : VersionOrNone, fresh : BOOLEAN, captured : BOOLEAN]

FilesType == [Components -> File] \X [Components -> File]
               \X [Components -> DropInStates] \X SUBSET Components
DirsType == [Images -> SUBSET Versions] \X [Images -> VersionOrNone]

\* The definitions, the directories, the command, and the rest.
FilesOK ==
    /\ transfer \in [Components -> File]
    /\ feature \in [Components -> File]
    /\ dropin \in [Components -> DropInStates]
    /\ linked \subseteq Components

DirsOK ==
    /\ staged \in [Images -> SUBSET Versions]
    /\ link \in [Images -> VersionOrNone]
    /\ merged \in [Images -> VersionOrNone]

TxnOK ==
    /\ txn \in Txn
    /\ txn.pc \in AddLabels => txn.rev \in Revisions
    /\ txn.pc = "download" => txn.target # NoVersion
    /\ txn.pc \in ImageLabels => txn.todo # <<>>
    /\ txn.pc \in {"link", "vacuum"} => staged[Head(txn.todo)] # {}

RestOK ==
    /\ published \in [Repos -> Revisions \cup {0}]
    /\ offered \in [Images -> VersionOrNone]
    /\ before \in FilesType \X DirsType
    /\ broken \in BOOLEAN
    /\ faults \in Nat /\ ops \in Nat

TypeInv == FilesOK /\ DirsOK /\ TxnOK /\ RestOK

\* What the command found, by name.
WasTransfer == before[1][1]
WasFeature == before[1][2]
WasDropIn == before[1][3]
WasLinked == before[1][4]
WasStaged == before[2][1]
WasLink == before[2][2]

\* Nothing is typed wrong at first.
LEMMA InitType == Init => TypeInv
<1>. SUFFICES ASSUME Init PROVE TypeInv
  OBVIOUS
<1>1. FilesOK /\ DirsOK
  BY CatalogAssumption, MaxVersionAssumption
     DEF Init, FilesOK, DirsOK, File, DropInStates, VersionOrNone
<1>2. TxnOK
  BY CatalogAssumption DEF Init, TxnOK, Txn, Labels, AddLabels, ImageLabels, VersionOrNone
<1>3. before \in FilesType \X DirsType
  BY <1>1 DEF Init, FilesOK, DirsOK, FilesType, DirsType, world, files, dirs
<1>4. QED
  BY <1>1, <1>2, <1>3, CatalogAssumption DEF Init, TypeInv, RestOK

\* The step to another label keeps the command's record well typed.
LEMMA GotoType ==
  ASSUME TypeInv, NEW l \in Labels, Goto(l)
  PROVE  /\ txn' \in Txn /\ txn'.pc = l
         /\ txn' = [txn EXCEPT !.pc = l]
         /\ txn'.rev = txn.rev /\ txn'.target = txn.target /\ txn'.todo = txn.todo
         /\ txn'.repo = txn.repo
  BY DEF TypeInv, TxnOK, Txn, Goto

\* A command that returns does, too.
LEMMA ReturnType ==
  ASSUME TypeInv, NEW r \in {"ok", "failed", "refused", "crashed"}, Return(r)
  PROVE  /\ txn' \in Txn /\ txn'.pc = "idle"
         /\ txn'.op = txn.op /\ txn'.res = r /\ txn'.repo = txn.repo
  BY DEF TypeInv, TxnOK, Txn, Return, Labels

\* The loop over a feature's transfers ends with the last one.
LEMMA NextImageType ==
  ASSUME TypeInv, txn.todo # <<>>, NEW next \in Labels, NEW after \in Labels,
         NextImage(next, after)
  PROVE  /\ txn' \in Txn
         /\ \/ txn'.pc = after
            \/ txn'.pc = next /\ txn'.todo # <<>>
         /\ txn'.rev = txn.rev /\ txn'.repo = txn.repo
<1>1. Tail(txn.todo) \in Seq(Images)
  BY DEF TypeInv, TxnOK, Txn
<1>2. QED
  BY <1>1 DEF TypeInv, TxnOK, Txn, NextImage

\* At a label about an image there is one.
LEMMA ImgType ==
  ASSUME TypeInv, txn.pc \in ImageLabels
  PROVE  /\ txn.todo \in Seq(Images) /\ txn.todo # <<>>
         /\ Img \in Images /\ Img = Head(txn.todo)
<1>1. txn.todo \in Seq(Images) /\ txn.todo # <<>>
  BY DEF TypeInv, TxnOK, Txn
<1>2. QED
  BY <1>1 DEF Img

\* The command's catalog and component.
LEMMA CompType ==
  ASSUME TypeInv
  PROVE  /\ Repo \in Repos /\ Comp \in Components
         /\ Repo = txn.repo /\ Comp = ComponentOf[txn.repo]
  BY CatalogAssumption DEF TypeInv, TxnOK, Txn, Repo, Comp

\* The images a remove tears down.
LEMMA TargetsType ==
  ASSUME TypeInv
  PROVE  Targets \in Seq(Images)
<1>1. ImagesIn[Comp] \in Seq(Images)
  BY CompType, CatalogAssumption
<1>2. OthersIn[Comp] \in Seq(Images)
  <2>1. OthersIn[Comp] \in Seq(Images \ {main})
    BY CompType, CatalogAssumption
  <2>2. QED
    BY <2>1
<1>3. QED
  BY <1>1, <1>2 DEF Targets

\* What systemd-sysext would merge.
LEMMA ServedType ==
  ASSUME TypeInv
  PROVE  ServedNow \in [Images -> VersionOrNone]
<1>1. ASSUME NEW i \in Images PROVE Served(link[i], staged[i]) \in VersionOrNone
  BY DEF TypeInv, DirsOK, Served, VersionOrNone
<1>2. QED
  BY <1>1 DEF ServedNow

\* What the rollback restores.
LEMMA PriorType ==
  ASSUME TypeInv
  PROVE  /\ WasTransfer \in [Components -> File] /\ WasFeature \in [Components -> File]
         /\ WasDropIn \in [Components -> DropInStates] /\ WasLinked \subseteq Components
         /\ WasStaged \in [Images -> SUBSET Versions]
         /\ WasLink \in [Images -> VersionOrNone]
         /\ Prior.transfer = WasTransfer[Comp] /\ Prior.feature = WasFeature[Comp]
         /\ Prior.dropin = WasDropIn[Comp]
         /\ Prior.staged = WasStaged[main] /\ Prior.link = WasLink[main]
         /\ Prior.transfer \in File /\ Prior.feature \in File
         /\ Prior.dropin \in DropInStates
         /\ Prior.staged \in SUBSET Versions /\ Prior.link \in VersionOrNone
<1>1. before \in FilesType \X DirsType
  BY DEF TypeInv, RestOK
<1>2. /\ WasTransfer \in [Components -> File] /\ WasFeature \in [Components -> File]
      /\ WasDropIn \in [Components -> DropInStates] /\ WasLinked \subseteq Components
  BY <1>1 DEF FilesType, WasTransfer, WasFeature, WasDropIn, WasLinked
<1>3. WasStaged \in [Images -> SUBSET Versions] /\ WasLink \in [Images -> VersionOrNone]
  BY <1>1 DEF DirsType, WasStaged, WasLink
<1>4. /\ Prior.transfer = WasTransfer[Comp] /\ Prior.feature = WasFeature[Comp]
      /\ Prior.dropin = WasDropIn[Comp]
      /\ Prior.staged = WasStaged[main] /\ Prior.link = WasLink[main]
  BY DEF Prior, WasTransfer, WasFeature, WasDropIn, WasStaged, WasLink
<1>5. QED
  BY <1>2, <1>3, <1>4, CompType, CatalogAssumption

\* The labels, one by one.
LEMMA LabelSet ==
  Labels = {"idle", "transfer", "feature", "snapshot", "dropin", "install", "download",
            "link", "vacuum", "refresh", "undoNew", "undoOld", "undoLink", "undoDropIn",
            "undoFeature", "undoTransfer", "undoDirs", "check", "disable", "unmerge",
            "unlink", "purge", "remerge", "rmTransfer", "rmFeature", "rmDropIn"}
  BY DEF Labels, AddLabels, UndoLabels, RemoveLabels

\* Every step of an add, or of its rollback, keeps the types.
LEMMA AddStepType ==
  ASSUME TypeInv, AddStep
  PROVE  TypeInv'
<1>. USE DEF TypeInv
<1>1. CASE WriteTransfer
  <2>1. FilesOK'
    BY <1>1, CompType DEF WriteTransfer, FilesOK, TxnOK, AddLabels, At, File, Generated
  <2>2. DirsOK'
    BY <1>1 DEF WriteTransfer, DirsOK, dirs, world
  <2>3. RestOK'
    BY <1>1 DEF WriteTransfer, RestOK, Fault, remote, history
  <2>4. TxnOK'
    BY <1>1, GotoType, ReturnType, LabelSet
       DEF WriteTransfer, TxnOK, At, AddLabels, ImageLabels, Undo, world, dirs
  <2>5. QED
    BY <2>1, <2>2, <2>3, <2>4
<1>2. CASE WriteFeature
  <2>1. FilesOK'
    BY <1>2, CompType DEF WriteFeature, FilesOK, TxnOK, AddLabels, At, File, Generated
  <2>2. DirsOK'
    BY <1>2 DEF WriteFeature, DirsOK, dirs, world
  <2>3. RestOK'
    BY <1>2 DEF WriteFeature, RestOK, Fault, remote, history
  <2>4. TxnOK'
    BY <1>2, GotoType, ReturnType, LabelSet
       DEF WriteFeature, TxnOK, At, AddLabels, ImageLabels, Undo, world, dirs
  <2>5. QED
    BY <2>1, <2>2, <2>3, <2>4
<1>3. CASE SnapshotManagedState
  <2>1. FilesOK'
    BY <1>3 DEF SnapshotManagedState, FilesOK, files, world
  <2>2. DirsOK'
    BY <1>3 DEF SnapshotManagedState, DirsOK, dirs, world
  <2>3. RestOK'
    BY <1>3 DEF SnapshotManagedState, RestOK, Fault, remote, history
  <2>4. TxnOK'
    BY <1>3, ImgType, LabelSet
       DEF SnapshotManagedState, TxnOK, Txn, AddLabels, ImageLabels, At, world, dirs
  <2>5. QED
    BY <2>1, <2>2, <2>3, <2>4
<1>4. CASE EnableDropIn
  <2>1. FilesOK'
    BY <1>4, CompType DEF EnableDropIn, FilesOK, DropInStates
  <2>2. DirsOK'
    BY <1>4 DEF EnableDropIn, DirsOK, dirs, world
  <2>3. RestOK'
    BY <1>4 DEF EnableDropIn, RestOK, Fault, remote, history
  <2>4. TxnOK'
    <3>1. CASE Undo
      BY <1>4, <3>1, GotoType, LabelSet
         DEF EnableDropIn, TxnOK, At, AddLabels, ImageLabels, Undo, world, dirs
    <3>2. CASE txn' = [txn EXCEPT !.pc = "install", !.todo = ImagesIn[Comp]]
      <4>1. ImagesIn[Comp] \in Seq(Images) /\ ImagesIn[Comp] # <<>>
        BY CompType, CatalogAssumption
      <4>2. /\ txn' \in Txn /\ txn'.pc = "install" /\ txn'.todo = ImagesIn[Comp]
            /\ txn'.rev = txn.rev
        BY <3>2, <4>1, LabelSet DEF TxnOK, Txn
      <4>3. QED
        BY <1>4, <4>1, <4>2 DEF EnableDropIn, TxnOK, At, AddLabels, ImageLabels
    <3>3. QED
      BY <1>4, <3>1, <3>2 DEF EnableDropIn
  <2>5. QED
    BY <2>1, <2>2, <2>3, <2>4
<1>5. CASE Select
  <2>1. FilesOK'
    BY <1>5 DEF Select, FilesOK, files, world
  <2>2. DirsOK'
    BY <1>5 DEF Select, DirsOK, dirs, world
  <2>3. RestOK'
    BY <1>5 DEF Select, RestOK, Fault, remote, history
  <2>4. TxnOK'
    <3>1. At("install") /\ txn.rev \in Revisions /\ Img \in Images /\ txn.todo # <<>>
      BY <1>5, ImgType DEF Select, TxnOK, At, AddLabels, ImageLabels
    <3>2. CASE NextImage("install", "refresh")
      BY <3>1, <3>2, NextImageType, LabelSet DEF TxnOK, AddLabels, ImageLabels
    <3>3. CASE ~NextImage("install", "refresh")
      <4>1. PICK fresh \in BOOLEAN :
              /\ fresh = UpToDate(offered[Img], staged[Img], NoVersion)
              /\ txn' = [txn EXCEPT !.target = offered[Img], !.fresh = fresh,
                                   !.pc = IF fresh THEN "link" ELSE "download"]
        BY <1>5, <3>3 DEF Select, UpToDate
      <4>2. offered[Img] \in VersionOrNone /\ offered[Img] # NoVersion
        BY <1>5, <3>1 DEF Select, RestOK
      <4>3. /\ txn' \in Txn /\ txn'.todo = txn.todo /\ txn'.rev = txn.rev
            /\ txn'.target = offered[Img]
            /\ txn'.pc = IF fresh THEN "link" ELSE "download"
        BY ZenonT(60), <4>1, <4>2, LabelSet DEF TxnOK, Txn
      <4>4. fresh => staged'[Head(txn'.todo)] # {}
        BY <1>5, <4>1, <4>3, ImgType, <3>1
           DEF Select, UpToDate, At, ImageLabels, world, dirs
      <4>5. QED
        BY <3>1, <4>2, <4>3, <4>4 DEF TxnOK, AddLabels, ImageLabels
    <3>4. QED
      BY <3>2, <3>3
  <2>5. QED
    BY <2>1, <2>2, <2>3, <2>4
<1>6. CASE Download
  <2>1. FilesOK'
    BY <1>6 DEF Download, FilesOK, files, world
  <2>2. DirsOK'
    BY <1>6, ImgType DEF Download, DirsOK, TxnOK, Txn, At, ImageLabels, VersionOrNone
  <2>3. RestOK'
    BY <1>6 DEF Download, RestOK, Fault, remote, history
  <2>4. TxnOK'
    <3>1. /\ At("download") /\ Img \in Images /\ Img = Head(txn.todo)
          /\ txn.todo # <<>> /\ txn.rev \in Revisions
      BY <1>6, ImgType DEF Download, TxnOK, At, AddLabels, ImageLabels
    <3>2. /\ txn' \in Txn /\ txn'.pc = "link" /\ txn'.todo = txn.todo
          /\ txn'.rev = txn.rev
      BY <1>6, GotoType, LabelSet DEF Download
    <3>3. txn.target \in staged'[Img]
      BY <1>6, <3>1 DEF Download, DirsOK
    <3>4. QED
      BY <3>1, <3>2, <3>3 DEF TxnOK, AddLabels, ImageLabels
  <2>5. QED
    BY <2>1, <2>2, <2>3, <2>4
<1>7. CASE LinkImage
  <2>1. FilesOK'
    BY <1>7 DEF LinkImage, FilesOK, files, world
  <2>2. DirsOK'
    BY <1>7, ImgType, NewestIsGreatest DEF LinkImage, DirsOK, TxnOK, At, ImageLabels, VersionOrNone
  <2>3. RestOK'
    BY <1>7 DEF LinkImage, RestOK, Fault, remote, history
  <2>4. TxnOK'
    <3>1. /\ txn.pc = "link" /\ txn.todo # <<>> /\ txn.rev \in Revisions
          /\ staged[Head(txn.todo)] # {} /\ staged' = staged
      BY <1>7 DEF LinkImage, TxnOK, At, AddLabels, ImageLabels
    <3>2. CASE NextImage("install", "refresh")
      <4>1. /\ txn' \in Txn /\ txn'.rev = txn.rev
            /\ txn'.pc = "refresh" \/ (txn'.pc = "install" /\ txn'.todo # <<>>)
        BY <3>1, <3>2, NextImageType, LabelSet
      <4>2. QED
        BY <3>1, <4>1 DEF TxnOK, AddLabels, ImageLabels
    <3>3. CASE Goto("vacuum")
      <4>1. /\ txn' \in Txn /\ txn'.pc = "vacuum"
            /\ txn'.rev = txn.rev /\ txn'.todo = txn.todo
        BY <3>3, GotoType, LabelSet
      <4>2. QED
        BY <3>1, <4>1 DEF TxnOK, AddLabels, ImageLabels
    <3>4. QED
      BY <1>7, <3>2, <3>3 DEF LinkImage
  <2>5. QED
    BY <2>1, <2>2, <2>3, <2>4
<1>8. CASE Vacuum
  <2>1. FilesOK'
    BY <1>8 DEF Vacuum, FilesOK, files, world
  <2>2. DirsOK'
    BY <1>8, ImgType DEF Vacuum, DirsOK, At, ImageLabels
  <2>3. RestOK'
    BY <1>8 DEF Vacuum, RestOK, Fault, remote, history
  <2>4. TxnOK'
    <3>1. txn.todo # <<>> /\ txn.rev \in Revisions /\ NextImage("install", "refresh")
      BY <1>8 DEF Vacuum, TxnOK, At, AddLabels, ImageLabels
    <3>2. /\ txn' \in Txn /\ txn'.rev = txn.rev
          /\ txn'.pc = "refresh" \/ (txn'.pc = "install" /\ txn'.todo # <<>>)
      BY <3>1, NextImageType, LabelSet
    <3>3. QED
      BY <3>1, <3>2 DEF TxnOK, AddLabels, ImageLabels
  <2>5. QED
    BY <2>1, <2>2, <2>3, <2>4
<1>9. CASE RefreshAdded
  <2>1. FilesOK'
    BY <1>9 DEF RefreshAdded, FilesOK, files, world
  <2>2. DirsOK'
    BY <1>9, ServedType DEF RefreshAdded, DirsOK, world, dirs
  <2>3. RestOK'
    BY <1>9 DEF RefreshAdded, RestOK, Fault, remote, history
  <2>4. TxnOK'
    BY <1>9, GotoType, ReturnType, LabelSet
       DEF RefreshAdded, TxnOK, At, AddLabels, ImageLabels, Undo, world, dirs
  <2>5. QED
    BY <2>1, <2>2, <2>3, <2>4
<1>10. CASE AddFails
  <2>1. FilesOK'
    BY <1>10 DEF AddFails, FilesOK, files, world
  <2>2. DirsOK'
    BY <1>10 DEF AddFails, DirsOK, dirs, world
  <2>3. RestOK'
    BY <1>10 DEF AddFails, RestOK, Fault, remote, history
  <2>4. TxnOK'
    BY <1>10, GotoType, ReturnType, LabelSet
       DEF AddFails, TxnOK, At, AddLabels, ImageLabels, Undo, world, dirs
  <2>5. QED
    BY <2>1, <2>2, <2>3, <2>4
<1>11. CASE UndoNewImages
  <2>1. FilesOK'
    BY <1>11 DEF UndoNewImages, FilesOK, files, world
  <2>2. DirsOK'
    BY <1>11, PriorType, CatalogAssumption DEF UndoNewImages, DirsOK
  <2>3. RestOK'
    BY <1>11 DEF UndoNewImages, RestOK, Fault, remote, history
  <2>4. TxnOK'
    BY <1>11, GotoType, ReturnType, LabelSet
       DEF UndoNewImages, TxnOK, At, AddLabels, ImageLabels, Undo, world, dirs
  <2>5. QED
    BY <2>1, <2>2, <2>3, <2>4
<1>12. CASE UndoOldImages
  <2>1. FilesOK'
    BY <1>12 DEF UndoOldImages, FilesOK, files, world
  <2>2. DirsOK'
    BY <1>12, PriorType, CatalogAssumption DEF UndoOldImages, DirsOK
  <2>3. RestOK'
    BY <1>12 DEF UndoOldImages, RestOK, Fault, remote, history
  <2>4. TxnOK'
    BY <1>12, GotoType, ReturnType, LabelSet
       DEF UndoOldImages, TxnOK, At, AddLabels, ImageLabels, Undo, world, dirs
  <2>5. QED
    BY <2>1, <2>2, <2>3, <2>4
<1>13. CASE UndoLink
  <2>1. FilesOK'
    BY <1>13 DEF UndoLink, FilesOK, files, world
  <2>2. DirsOK'
    BY <1>13, PriorType, CatalogAssumption DEF UndoLink, DirsOK
  <2>3. RestOK'
    BY <1>13 DEF UndoLink, RestOK, Fault, remote, history
  <2>4. TxnOK'
    BY <1>13, GotoType, ReturnType, LabelSet
       DEF UndoLink, TxnOK, At, AddLabels, ImageLabels, Undo, world, dirs
  <2>5. QED
    BY <2>1, <2>2, <2>3, <2>4
<1>14. CASE UndoDropIn
  <2>1. FilesOK'
    BY <1>14, CompType, PriorType DEF UndoDropIn, FilesOK
  <2>2. DirsOK'
    BY <1>14 DEF UndoDropIn, DirsOK, dirs, world
  <2>3. RestOK'
    BY <1>14 DEF UndoDropIn, RestOK, Fault, remote, history
  <2>4. TxnOK'
    BY <1>14, GotoType, ReturnType, LabelSet
       DEF UndoDropIn, TxnOK, At, AddLabels, ImageLabels, Undo, world, dirs
  <2>5. QED
    BY <2>1, <2>2, <2>3, <2>4
<1>15. CASE UndoFeature
  <2>1. FilesOK'
    BY <1>15, CompType, PriorType DEF UndoFeature, FilesOK
  <2>2. DirsOK'
    BY <1>15 DEF UndoFeature, DirsOK, dirs, world
  <2>3. RestOK'
    BY <1>15 DEF UndoFeature, RestOK, Fault, remote, history
  <2>4. TxnOK'
    BY <1>15, GotoType, ReturnType, LabelSet
       DEF UndoFeature, TxnOK, At, AddLabels, ImageLabels, Undo, world, dirs
  <2>5. QED
    BY <2>1, <2>2, <2>3, <2>4
<1>16. CASE UndoTransfer
  <2>1. FilesOK'
    BY <1>16, CompType, PriorType DEF UndoTransfer, FilesOK
  <2>2. DirsOK'
    BY <1>16 DEF UndoTransfer, DirsOK, dirs, world
  <2>3. RestOK'
    BY <1>16 DEF UndoTransfer, RestOK, Fault, remote, history
  <2>4. TxnOK'
    BY <1>16, GotoType, ReturnType, LabelSet
       DEF UndoTransfer, TxnOK, At, AddLabels, ImageLabels, Undo, world, dirs
  <2>5. QED
    BY <2>1, <2>2, <2>3, <2>4
<1>17. CASE UndoDirs
  <2>1. FilesOK'
    BY <1>17, CompType DEF UndoDirs, FilesOK, DropInStates
  <2>2. DirsOK'
    BY <1>17 DEF UndoDirs, DirsOK, dirs, world
  <2>3. RestOK'
    BY <1>17 DEF UndoDirs, RestOK, Fault, remote, history
  <2>4. TxnOK'
    BY <1>17, GotoType, ReturnType, LabelSet
       DEF UndoDirs, TxnOK, At, AddLabels, ImageLabels, Undo, world, dirs
  <2>5. QED
    BY <2>1, <2>2, <2>3, <2>4
<1>18. CASE UndoFails
  <2>1. FilesOK'
    BY <1>18 DEF UndoFails, FilesOK, files, world
  <2>2. DirsOK'
    BY <1>18 DEF UndoFails, DirsOK, dirs, world
  <2>3. RestOK'
    BY <1>18 DEF UndoFails, RestOK, Fault, remote, history
  <2>4. TxnOK'
    BY <1>18, GotoType, ReturnType, LabelSet
       DEF UndoFails, TxnOK, At, AddLabels, ImageLabels, Undo, world, dirs
  <2>5. QED
    BY <2>1, <2>2, <2>3, <2>4
<1>q. QED
  BY <1>1, <1>2, <1>3, <1>4, <1>5, <1>6, <1>7, <1>8, <1>9, <1>10, <1>11, <1>12, <1>13, <1>14, <1>15, <1>16, <1>17, <1>18 DEF AddStep

\* Every step of a remove does.
LEMMA RemoveStepType ==
  ASSUME TypeInv, RemoveStep
  PROVE  TypeInv'
<1>. USE DEF TypeInv
<1>1. CASE CheckMerged
  <2>1. FilesOK'
    BY <1>1 DEF CheckMerged, FilesOK, files, world
  <2>2. DirsOK'
    BY <1>1 DEF CheckMerged, DirsOK, dirs, world
  <2>3. RestOK'
    BY <1>1 DEF CheckMerged, RestOK, Fault, remote, history
  <2>4. TxnOK'
    BY <1>1, GotoType, ReturnType, LabelSet
       DEF CheckMerged, TxnOK, At, AddLabels, ImageLabels, Undo, world, dirs
  <2>5. QED
    BY <2>1, <2>2, <2>3, <2>4
<1>2. CASE CheckBlind
  <2>1. FilesOK'
    BY <1>2 DEF CheckBlind, FilesOK, files, world
  <2>2. DirsOK'
    BY <1>2 DEF CheckBlind, DirsOK, dirs, world
  <2>3. RestOK'
    BY <1>2 DEF CheckBlind, RestOK, Fault, remote, history
  <2>4. TxnOK'
    BY <1>2, GotoType, ReturnType, LabelSet
       DEF CheckBlind, TxnOK, At, AddLabels, ImageLabels, Undo, world, dirs
  <2>5. QED
    BY <2>1, <2>2, <2>3, <2>4
<1>3. CASE DisableDropIn
  <2>1. FilesOK'
    BY <1>3, CompType DEF DisableDropIn, FilesOK, DropInStates
  <2>2. DirsOK'
    BY <1>3 DEF DisableDropIn, DirsOK, dirs, world
  <2>3. RestOK'
    BY <1>3 DEF DisableDropIn, RestOK, Fault, remote, history
  <2>4. TxnOK'
    <3>1. CASE Return("failed")
      BY <3>1, ReturnType DEF TxnOK, AddLabels, ImageLabels
    <3>2. CASE txn' = [txn EXCEPT !.todo = Targets,
                         !.pc = IF Targets = <<>> THEN "rmTransfer" ELSE "unmerge"]
      <4>1. Targets \in Seq(Images)
        BY TargetsType
      <4>2. /\ txn' \in Txn /\ txn'.todo = Targets
            /\ txn'.pc = IF Targets = <<>> THEN "rmTransfer" ELSE "unmerge"
        BY ZenonT(60), <3>2, <4>1, LabelSet DEF TxnOK, Txn
      <4>3. QED
        BY <4>2 DEF TxnOK, AddLabels, ImageLabels
    <3>3. QED
      BY <1>3, <3>1, <3>2 DEF DisableDropIn
  <2>5. QED
    BY <2>1, <2>2, <2>3, <2>4
<1>4. CASE Unmerge
  <2>1. FilesOK'
    BY <1>4 DEF Unmerge, FilesOK, files, world
  <2>2. DirsOK'
    BY <1>4 DEF Unmerge, DirsOK, VersionOrNone, world, dirs
  <2>3. RestOK'
    BY <1>4 DEF Unmerge, RestOK, Fault, remote, history
  <2>4. TxnOK'
    BY <1>4, GotoType, LabelSet
       DEF Unmerge, TxnOK, At, AddLabels, ImageLabels, world, dirs
  <2>5. QED
    BY <2>1, <2>2, <2>3, <2>4
<1>5. CASE Unlink
  <2>1. FilesOK'
    BY <1>5 DEF Unlink, FilesOK, files, world
  <2>2. DirsOK'
    BY <1>5, ImgType DEF Unlink, DirsOK, At, ImageLabels, VersionOrNone
  <2>3. RestOK'
    BY <1>5 DEF Unlink, RestOK, Fault, remote, history
  <2>4. TxnOK'
    BY <1>5, GotoType, ReturnType, LabelSet
       DEF Unlink, TxnOK, At, AddLabels, ImageLabels, Undo, world, dirs
  <2>5. QED
    BY <2>1, <2>2, <2>3, <2>4
<1>6. CASE Purge
  <2>1. FilesOK'
    BY <1>6 DEF Purge, FilesOK, files, world
  <2>2. DirsOK'
    BY <1>6, ImgType DEF Purge, DirsOK, At, ImageLabels
  <2>3. RestOK'
    BY <1>6 DEF Purge, RestOK, Fault, remote, history
  <2>4. TxnOK'
    <3>1. txn.todo # <<>>
      BY <1>6, ImgType DEF Purge, At, ImageLabels
    <3>2. CASE NextImage("unlink", "remerge")
      BY <3>1, <3>2, NextImageType, LabelSet DEF TxnOK, AddLabels, ImageLabels
    <3>3. CASE Return("failed")
      BY <3>3, ReturnType DEF TxnOK, AddLabels, ImageLabels
    <3>4. QED
      BY <1>6, <3>2, <3>3 DEF Purge
  <2>5. QED
    BY <2>1, <2>2, <2>3, <2>4
<1>7. CASE Remerge
  <2>1. FilesOK'
    BY <1>7 DEF Remerge, FilesOK, files, world
  <2>2. DirsOK'
    BY <1>7, ServedType DEF Remerge, DirsOK, world, dirs
  <2>3. RestOK'
    BY <1>7 DEF Remerge, RestOK, Fault, remote, history
  <2>4. TxnOK'
    BY <1>7, GotoType, ReturnType, LabelSet
       DEF Remerge, TxnOK, At, AddLabels, ImageLabels, Undo, world, dirs
  <2>5. QED
    BY <2>1, <2>2, <2>3, <2>4
<1>8. CASE RemoveTransfer
  <2>1. FilesOK'
    BY <1>8, CompType DEF RemoveTransfer, FilesOK, File
  <2>2. DirsOK'
    BY <1>8 DEF RemoveTransfer, DirsOK, dirs, world
  <2>3. RestOK'
    BY <1>8 DEF RemoveTransfer, RestOK, Fault, remote, history
  <2>4. TxnOK'
    BY <1>8, GotoType, ReturnType, LabelSet
       DEF RemoveTransfer, TxnOK, At, AddLabels, ImageLabels, Undo, world, dirs
  <2>5. QED
    BY <2>1, <2>2, <2>3, <2>4
<1>9. CASE RemoveFeature
  <2>1. FilesOK'
    BY <1>9, CompType DEF RemoveFeature, FilesOK, File
  <2>2. DirsOK'
    BY <1>9 DEF RemoveFeature, DirsOK, dirs, world
  <2>3. RestOK'
    BY <1>9 DEF RemoveFeature, RestOK, Fault, remote, history
  <2>4. TxnOK'
    BY <1>9, GotoType, ReturnType, LabelSet
       DEF RemoveFeature, TxnOK, At, AddLabels, ImageLabels, Undo, world, dirs
  <2>5. QED
    BY <2>1, <2>2, <2>3, <2>4
<1>10. CASE RemoveDropIn
  <2>1. FilesOK'
    BY <1>10, CompType DEF RemoveDropIn, FilesOK, DropInStates
  <2>2. DirsOK'
    BY <1>10 DEF RemoveDropIn, DirsOK, dirs, world
  <2>3. RestOK'
    BY <1>10 DEF RemoveDropIn, RestOK, Fault, remote, history
  <2>4. TxnOK'
    BY <1>10, GotoType, ReturnType, LabelSet
       DEF RemoveDropIn, TxnOK, At, AddLabels, ImageLabels, Undo, world, dirs
  <2>5. QED
    BY <2>1, <2>2, <2>3, <2>4
<1>11. CASE RemoveFails
  <2>1. FilesOK'
    BY <1>11 DEF RemoveFails, FilesOK, files, world
  <2>2. DirsOK'
    BY <1>11 DEF RemoveFails, DirsOK, dirs, world
  <2>3. RestOK'
    BY <1>11 DEF RemoveFails, RestOK, Fault, remote, history
  <2>4. TxnOK'
    BY <1>11, GotoType, ReturnType, LabelSet
       DEF RemoveFails, TxnOK, At, AddLabels, ImageLabels, Undo, world, dirs
  <2>5. QED
    BY <2>1, <2>2, <2>3, <2>4
<1>q. QED
  BY <1>1, <1>2, <1>3, <1>4, <1>5, <1>6, <1>7, <1>8, <1>9, <1>10, <1>11 DEF RemoveStep

\* A command begins with what it found, or is refused.
LEMMA BeginType ==
  ASSUME TypeInv, NEW op \in {"add", "remove"}, NEW candidates \in SUBSET Repos,
         NEW allowed, NEW force \in BOOLEAN, NEW refresh \in BOOLEAN,
         NEW first \in {"transfer", "check"},
         first = "transfer" => \A r \in candidates : published[r] # 0,
         Begin(op, candidates, allowed, force, refresh, first)
  PROVE  TypeInv'
<1>. USE DEF TypeInv
<1>1. FilesOK' /\ DirsOK'
  BY DEF Begin, FilesOK, DirsOK, world, files, dirs
<1>2. RestOK'
  <2>1. world \in FilesType \X DirsType
    BY DEF FilesOK, DirsOK, FilesType, DirsType, world, files, dirs
  <2>2. QED
    BY <2>1 DEF Begin, RestOK, remote
<1>3. TxnOK'
  <2>1. CASE txn' = [txn EXCEPT !.op = op, !.res = "refused"]
    <3>1. txn' \in Txn /\ txn'.pc = "idle"
      BY <2>1 DEF Begin, At, TxnOK, Txn
    <3>2. QED
      BY <3>1 DEF TxnOK, AddLabels, ImageLabels
  <2>2. ASSUME NEW r \in candidates,
               txn' = [pc |-> first, op |-> op, res |-> "none", repo |-> r,
                       rev |-> published[r], force |-> force, refresh |-> refresh,
                       todo |-> <<>>, target |-> NoVersion, fresh |-> FALSE,
                       captured |-> FALSE]
        PROVE  TxnOK'
    <3>1. published[r] \in Revisions \cup {0}
      BY DEF RestOK
    <3>2. txn' \in Txn /\ txn'.pc = first /\ txn'.rev = published[r]
      BY <2>2, <3>1, LabelSet DEF Txn, VersionOrNone
    <3>3. QED
      BY <3>1, <3>2 DEF TxnOK, AddLabels, ImageLabels
  <2>3. QED
    BY <2>1, <2>2 DEF Begin
<1>4. QED
  BY <1>1, <1>2, <1>3

\* Every step keeps the types.
LEMMA NextType ==
  ASSUME TypeInv, [Next]_vars
  PROVE  TypeInv'
<1>. USE DEF TypeInv
<1>1. ASSUME NEW asked \in SUBSET Repos, NEW refresh \in BOOLEAN, BeginAdd(asked, refresh)
      PROVE  TypeInv'
  BY <1>1, BeginType DEF BeginAdd
<1>2. ASSUME NEW asked \in SUBSET Repos, NEW force \in BOOLEAN, NEW refresh \in BOOLEAN,
             BeginRemove(asked, force, refresh)
      PROVE  TypeInv'
  BY <1>2, BeginType DEF BeginRemove
<1>3. CASE AddStep
  BY <1>3, AddStepType
<1>4. CASE RemoveStep
  BY <1>4, RemoveStepType
<1>5. CASE Crash
  <2>1. TxnOK'
    BY <1>5, ReturnType DEF Crash, TxnOK, AddLabels, ImageLabels
  <2>2. FilesOK' /\ DirsOK' /\ RestOK'
    BY <1>5 DEF Crash, FilesOK, DirsOK, RestOK, Fault, world, files, dirs, remote, history
  <2>3. QED
    BY <2>1, <2>2
<1>6. CASE Publish
  <2>1. FilesOK' /\ DirsOK' /\ TxnOK'
    BY <1>6 DEF Publish, FilesOK, DirsOK, TxnOK, world, files, dirs
  <2>2. RestOK'
    BY <1>6 DEF Publish, RestOK, history
  <2>3. QED
    BY <2>1, <2>2
<1>7. ASSUME NEW c \in Components, Edit(c)
      PROVE  TypeInv'
  <2>1. FilesOK'
    BY <1>7 DEF Edit, FilesOK, File
  <2>2. DirsOK' /\ RestOK'
    BY <1>7 DEF Edit, DirsOK, RestOK, dirs, remote, history
  <2>3. txn' \in Txn /\ txn'.pc = "idle"
    BY <1>7 DEF Edit, At, TxnOK, Txn
  <2>4. TxnOK'
    BY <2>3 DEF TxnOK, AddLabels, ImageLabels
  <2>5. QED
    BY <2>1, <2>2, <2>4
<1>8. CASE UNCHANGED vars
  BY <1>8 DEF vars, FilesOK, DirsOK, TxnOK, RestOK, files, dirs, remote, history
<1>9. QED
  BY <1>1, <1>2, <1>3, <1>4, <1>5, <1>6, <1>7, <1>8 DEF Next

\* The definitions, the drop-ins, the staging directories, the links and the
\* command's record are always well typed, and the loop over a feature's
\* transfers is never at an image it has none of.
THEOREM CatalogTypes == Spec => []TypeInv
<1>1. Init => TypeInv
  BY InitType
<1>2. TypeInv /\ [Next]_vars => TypeInv'
  BY NextType
<1>3. QED
  BY <1>1, <1>2, PTL DEF Spec

-----------------------------------------------------------------------------
\* Ownership.

TxnLabels == AddLabels \cup UndoLabels

\* While a command runs, the definitions of its name in its component are
\* absent or its catalog's; so were those an add found, to which it may return.
OwnerInv ==
    /\ OneOwner
    /\ ~At("idle") => Writable(transfer[Comp], Repo) /\ Writable(feature[Comp], Repo)
    /\ txn.pc \in TxnLabels =>
         Writable(WasTransfer[Comp], Repo) /\ Writable(WasFeature[Comp], Repo)

\* What a step of a running command leaves alone, and where it may lead.
RunningStep ==
    /\ ~At("idle")
    /\ txn'.repo = txn.repo /\ txn'.op = txn.op /\ before' = before
    /\ txn'.pc \in TxnLabels => txn.pc \in TxnLabels
    /\ txn'.pc \in RemoveLabels => txn.pc \in RemoveLabels

\* A step changes the definitions, if at all, of its own component, to files
\* that are absent or its catalog's.
OwnDefinitions ==
    /\ \E file : /\ Writable(file, Repo)
                 /\ transfer' \in {transfer, [transfer EXCEPT ![Comp] = file]}
    /\ \E file : /\ Writable(file, Repo)
                 /\ feature' \in {feature, [feature EXCEPT ![Comp] = file]}

\* A step of an add or of its rollback is a step of a running command.
LEMMA AddRuns ==
  ASSUME TypeInv, AddStep
  PROVE  RunningStep /\ txn.pc \in TxnLabels
<1>. USE DEF TypeInv, RunningStep, TxnLabels, AddLabels, UndoLabels, RemoveLabels, At
<1>1. CASE WriteTransfer \/ WriteFeature \/ SnapshotManagedState
  BY <1>1 DEF WriteTransfer, WriteFeature, SnapshotManagedState, Goto, TxnOK, Txn, history
<1>2. CASE EnableDropIn
  BY ZenonT(60), <1>2 DEF EnableDropIn, Undo, Goto, TxnOK, Txn, history
<1>3. CASE Select
  BY ZenonT(60), <1>3 DEF Select, NextImage, TxnOK, Txn, history
<1>4. CASE Download \/ LinkImage
  BY <1>4 DEF Download, LinkImage, NextImage, Goto, TxnOK, Txn, history
<1>5. CASE Vacuum \/ RefreshAdded
  BY <1>5 DEF Vacuum, RefreshAdded, NextImage, Return, TxnOK, Txn, history
<1>6. CASE AddFails
  BY <1>6 DEF AddFails, Undo, Goto, TxnOK, Txn, history
<1>7. CASE UndoNewImages \/ UndoOldImages \/ UndoLink
  BY <1>7 DEF UndoNewImages, UndoOldImages, UndoLink, Goto, TxnOK, Txn, history
<1>8. CASE UndoDropIn \/ UndoFeature \/ UndoTransfer
  BY <1>8 DEF UndoDropIn, UndoFeature, UndoTransfer, Goto, TxnOK, Txn, history
<1>9. CASE UndoDirs
  BY <1>9 DEF UndoDirs, Return, TxnOK, Txn, history
<1>10. CASE UndoFails
  BY <1>10 DEF UndoFails, Goto, TxnOK, Txn
<1>11. QED
  BY <1>1, <1>2, <1>3, <1>4, <1>5, <1>6, <1>7, <1>8, <1>9, <1>10 DEF AddStep

\* So is a step of a remove.
LEMMA RemoveRuns ==
  ASSUME TypeInv, RemoveStep
  PROVE  RunningStep /\ txn.pc \in RemoveLabels
<1>. USE DEF TypeInv, RunningStep, TxnLabels, AddLabels, UndoLabels, RemoveLabels, At
<1>1. CASE CheckMerged \/ CheckBlind
  BY ZenonT(60), <1>1 DEF CheckMerged, CheckBlind, Goto, Return, TxnOK, Txn, history
<1>2. CASE DisableDropIn
  <2>1. CASE Return("failed")
    BY <1>2, <2>1 DEF DisableDropIn, Return, TxnOK, Txn, history
  <2>2. CASE txn' = [txn EXCEPT !.todo = Targets,
                       !.pc = IF Targets = <<>> THEN "rmTransfer" ELSE "unmerge"]
    <3>1. txn'.repo = txn.repo /\ txn'.op = txn.op /\ txn'.pc \in {"rmTransfer", "unmerge"}
      BY <2>2 DEF TxnOK, Txn
    <3>2. QED
      BY <1>2, <3>1 DEF DisableDropIn, history
  <2>3. QED
    BY <1>2, <2>1, <2>2 DEF DisableDropIn
<1>3. CASE Unmerge \/ Unlink \/ Remerge
  BY <1>3 DEF Unmerge, Unlink, Remerge, Goto, TxnOK, Txn, history
<1>4. CASE Purge
  BY ZenonT(60), <1>4 DEF Purge, NextImage, Return, TxnOK, Txn, history
<1>5. CASE RemoveTransfer \/ RemoveFeature \/ RemoveDropIn
  BY ZenonT(60), <1>5
     DEF RemoveTransfer, RemoveFeature, RemoveDropIn, Goto, Return, TxnOK, Txn, history
<1>6. CASE RemoveFails
  BY <1>6 DEF RemoveFails, Return, TxnOK, Txn, history
<1>7. QED
  BY <1>1, <1>2, <1>3, <1>4, <1>5, <1>6 DEF RemoveStep

\* A running command writes only its own definitions.
LEMMA RunningOwns ==
  ASSUME TypeInv, OwnerInv, AddStep \/ RemoveStep
  PROVE  OwnDefinitions
<1>. USE DEF OwnDefinitions
<1>1. Writable(Absent, Repo)
  BY DEF Writable
<1>2. CASE WriteTransfer \/ WriteFeature
  <2>1. txn.rev \in Revisions
    BY <1>2 DEF WriteTransfer, WriteFeature, TypeInv, TxnOK, At, AddLabels
  <2>2. Writable([repo |-> Repo, rev |-> txn.rev], Repo)
    BY <2>1, CompType DEF Writable, Generated
  <2>3. QED
    BY <1>1, <1>2, <2>2 DEF WriteTransfer, WriteFeature
<1>3. CASE UndoFeature \/ UndoTransfer
  <2>1. Writable(Prior.transfer, Repo) /\ Writable(Prior.feature, Repo)
    BY <1>3, PriorType
       DEF UndoFeature, UndoTransfer, OwnerInv, TxnLabels, UndoLabels, At
  <2>2. QED
    BY <1>1, <1>3, <2>1 DEF UndoFeature, UndoTransfer
<1>4. CASE RemoveTransfer \/ RemoveFeature
  BY <1>1, <1>4 DEF RemoveTransfer, RemoveFeature
<1>5. CASE UNCHANGED <<transfer, feature>>
  BY <1>1, <1>5
<1>6. QED
  <2>1. AddStep => \/ WriteTransfer \/ WriteFeature \/ UndoFeature \/ UndoTransfer
                   \/ UNCHANGED <<transfer, feature>>
    BY DEF AddStep, SnapshotManagedState, EnableDropIn, Select, Download, LinkImage, Vacuum,
           RefreshAdded, AddFails, UndoNewImages, UndoOldImages, UndoLink, UndoDropIn,
           UndoDirs, UndoFails, world, files
  <2>2. RemoveStep => RemoveTransfer \/ RemoveFeature \/ UNCHANGED <<transfer, feature>>
    BY DEF RemoveStep, CheckMerged, CheckBlind, DisableDropIn, Unmerge, Unlink, Purge,
           Remerge, RemoveDropIn, RemoveFails, world, files
  <2>3. QED
    BY <1>2, <1>3, <1>4, <1>5, <2>1, <2>2

\* At first nothing is generated.
LEMMA InitOwner == Init => OwnerInv
<1>. SUFFICES ASSUME Init PROVE OwnerInv
  OBVIOUS
<1>1. \A c \in Components : transfer[c] \notin Generated
  BY CatalogAssumption DEF Init
<1>2. QED
  BY <1>1 DEF Init, OwnerInv, OneOwner, At, TxnLabels, AddLabels, UndoLabels

\* Every step keeps the ownership of the definitions.
LEMMA NextOwner ==
  ASSUME TypeInv, OwnerInv, [Next]_vars
  PROVE  OwnerInv'
<1>1. CASE AddStep \/ RemoveStep
  <2>1. RunningStep /\ OwnDefinitions
    BY <1>1, AddRuns, RemoveRuns, RunningOwns
  <2>2. Comp' = Comp /\ Repo' = Repo /\ Comp \in Components
    BY <2>1, CompType DEF RunningStep, Comp, Repo
  <2>3. Writable(transfer[Comp], Repo) /\ Writable(feature[Comp], Repo)
    BY <2>1 DEF RunningStep, OwnerInv
  <2>4. /\ Writable(transfer'[Comp], Repo)
        /\ \A c \in Components : c # Comp => transfer'[c] = transfer[c]
    <3>1. PICK file : /\ Writable(file, Repo)
                      /\ transfer' \in {transfer, [transfer EXCEPT ![Comp] = file]}
      BY <2>1 DEF OwnDefinitions
    <3>2. transfer \in [Components -> File]
      BY DEF TypeInv, FilesOK
    <3>3. QED
      BY <2>2, <2>3, <3>1, <3>2
  <2>5. /\ Writable(feature'[Comp], Repo)
        /\ \A c \in Components : c # Comp => feature'[c] = feature[c]
    <3>1. PICK file : /\ Writable(file, Repo)
                      /\ feature' \in {feature, [feature EXCEPT ![Comp] = file]}
      BY <2>1 DEF OwnDefinitions
    <3>2. feature \in [Components -> File]
      BY DEF TypeInv, FilesOK
    <3>3. QED
      BY <2>2, <2>3, <3>1, <3>2
  <2>6. OneOwner'
    <3>1. SUFFICES ASSUME NEW c \in Components,
                          transfer'[c] \in Generated, feature'[c] \in Generated
                   PROVE  transfer'[c].repo = feature'[c].repo
      BY DEF OneOwner
    <3>2. CASE c = Comp
      BY <2>4, <2>5, <3>1, <3>2, CatalogAssumption DEF Writable
    <3>3. CASE c # Comp
      BY <2>4, <2>5, <3>1, <3>3 DEF OwnerInv, OneOwner
    <3>4. QED
      BY <3>2, <3>3
  <2>7. txn'.pc \in TxnLabels =>
          Writable(WasTransfer'[Comp], Repo) /\ Writable(WasFeature'[Comp], Repo)
    BY <2>1 DEF RunningStep, OwnerInv, WasTransfer, WasFeature
  <2>8. QED
    BY <2>2, <2>4, <2>5, <2>6, <2>7 DEF OwnerInv, Writable
<1>2. ASSUME At("idle"), NEW op, NEW candidates, NEW allowed, NEW force, NEW refresh, NEW first,
             \A r \in allowed \cap candidates : /\ Writable(transfer[ComponentOf[r]], r)
                                                /\ Writable(feature[ComponentOf[r]], r),
             Begin(op, candidates, allowed, force, refresh, first)
      PROVE  OwnerInv'
  <2>1. world' = world /\ before' = world
    BY <1>2 DEF Begin
  <2>2. OneOwner'
    BY <2>1 DEF OwnerInv, OneOwner, world, files
  <2>3. CASE txn' = [txn EXCEPT !.op = op, !.res = "refused"]
    <3>1. txn'.pc = "idle"
      BY <1>2, <2>3 DEF At, TypeInv, TxnOK, Txn
    <3>2. QED
      BY <2>2, <3>1 DEF OwnerInv, At, TxnLabels, AddLabels, UndoLabels
  <2>4. ASSUME NEW r \in allowed \cap candidates, txn'.repo = r
        PROVE  OwnerInv'
    <3>1. Repo' = r /\ Comp' = ComponentOf[r]
      BY <2>4 DEF Repo, Comp
    <3>2. /\ transfer' = transfer /\ feature' = feature
          /\ WasTransfer' = transfer /\ WasFeature' = feature
      BY <2>1 DEF world, files, WasTransfer, WasFeature
    <3>3. QED
      BY <1>2, <2>2, <3>1, <3>2 DEF OwnerInv, Writable
  <2>5. QED
    BY <1>2, <2>3, <2>4 DEF Begin
<1>3. ASSUME NEW asked, NEW refresh, BeginAdd(asked, refresh)
      PROVE  OwnerInv'
  <2>. DEFINE candidates == {r \in asked : published[r] # 0}
              allowed == {r \in Repos : /\ Writable(transfer[ComponentOf[r]], r)
                                        /\ Writable(feature[ComponentOf[r]], r)}
  <2>1. Begin("add", candidates, allowed, FALSE, refresh, "transfer")
    BY <1>3 DEF BeginAdd
  <2>2. At("idle")
    BY <2>1 DEF Begin
  <2>3. \A r \in allowed \cap candidates : /\ Writable(transfer[ComponentOf[r]], r)
                                           /\ Writable(feature[ComponentOf[r]], r)
    OBVIOUS
  <2>. HIDE DEF candidates, allowed
  <2>4. QED
    BY <1>2, <2>1, <2>2, <2>3
<1>4. ASSUME NEW asked, NEW force, NEW refresh, BeginRemove(asked, force, refresh)
      PROVE  OwnerInv'
  <2>1. At("idle")
    BY <1>4 DEF BeginRemove, Begin
  <2>2. QED
    BY <1>2, <1>4, <2>1 DEF BeginRemove, Writable
<1>5. CASE Crash
  <2>1. txn'.pc = "idle"
    BY <1>5, ReturnType DEF Crash
  <2>2. QED
    BY <1>5, <2>1 DEF Crash, OwnerInv, OneOwner, world, files, At, TxnLabels, AddLabels, UndoLabels
<1>6. ASSUME NEW c \in Components, Edit(c)
      PROVE  OwnerInv'
  <2>1. txn'.pc = "idle"
    BY <1>6 DEF Edit, At, TypeInv, TxnOK, Txn
  <2>2. OneOwner'
    BY <1>6, CatalogAssumption DEF Edit, OwnerInv, OneOwner, TypeInv, FilesOK
  <2>3. QED
    BY <2>1, <2>2 DEF OwnerInv, At, TxnLabels, AddLabels, UndoLabels
<1>7. CASE Publish \/ UNCHANGED vars
  BY <1>7 DEF Publish, vars, world, files, history, OwnerInv, OneOwner, Writable, At, Comp, Repo,
              WasTransfer, WasFeature
<1>8. QED
  BY <1>1, <1>3, <1>4, <1>5, <1>6, <1>7 DEF Next

\* Two catalogs that share a component never end up with one file each.
THEOREM OneOwnerAlways == Spec => []OneOwner
<1>1. Init => TypeInv /\ OwnerInv
  BY InitType, InitOwner
<1>2. TypeInv /\ OwnerInv /\ [Next]_vars => TypeInv' /\ OwnerInv'
  BY NextType, NextOwner
<1>3. OwnerInv => OneOwner
  BY DEF OwnerInv
<1>4. QED
  BY <1>1, <1>2, <1>3, PTL DEF Spec

\* No command changes a definition it did not generate, not even to undo.
THEOREM ForeignUntouchedAlways == Spec => ForeignUntouched
<1>. DEFINE Kept == \A c \in Components :
              /\ ~At("idle") /\ ~Writable(transfer[c], Repo) => transfer'[c] = transfer[c]
              /\ ~At("idle") /\ ~Writable(feature[c], Repo) => feature'[c] = feature[c]
<1>1. Init => TypeInv /\ OwnerInv
  BY InitType, InitOwner
<1>2. TypeInv /\ OwnerInv /\ [Next]_vars => TypeInv' /\ OwnerInv'
  BY NextType, NextOwner
<1>3. TypeInv /\ OwnerInv /\ [Next]_vars => [Kept]_vars
  <2>1. SUFFICES ASSUME TypeInv, OwnerInv, Next, ~At("idle")
                 PROVE  Kept
    OBVIOUS
  <2>2. CASE AddStep \/ RemoveStep
    <3>1. OwnDefinitions /\ Comp \in Components
      BY <2>1, <2>2, RunningOwns, CompType
    <3>2. Writable(transfer[Comp], Repo) /\ Writable(feature[Comp], Repo)
      BY <2>1 DEF OwnerInv
    <3>3. transfer \in [Components -> File] /\ feature \in [Components -> File]
      BY <2>1 DEF TypeInv, FilesOK
    <3>4. \A c \in Components : c # Comp => transfer'[c] = transfer[c] /\ feature'[c] = feature[c]
      BY <3>1, <3>3 DEF OwnDefinitions
    <3>5. QED
      BY <3>2, <3>4
  <2>3. CASE UNCHANGED <<transfer, feature>>
    BY <2>3
  <2>4. QED
    BY <2>1, <2>2, <2>3
       DEF Next, BeginAdd, BeginRemove, Begin, Crash, Publish, Edit, world, files
<1>4. QED
  BY <1>1, <1>2, <1>3, PTL DEF Spec, ForeignUntouched

-----------------------------------------------------------------------------
\* Drop-ins.

\* Where a remove is once it has disabled the feature.
Disabled == {"unmerge", "unlink", "purge", "remerge", "rmTransfer", "rmFeature", "rmDropIn"}

\* No drop-in waits for a feature that is not there, and what an add may return
\* to is no such drop-in either.  The feature file is there from its writing on,
\* and an undo that never wrote it finds it as the add did; a remove deletes it
\* with the drop-in disabled.
ArmInv ==
    /\ \A c \in Components : dropin[c] = "enabled" => feature[c] # Absent
    /\ txn.pc \in TxnLabels => (WasDropIn[Comp] = "enabled" => WasFeature[Comp] # Absent)
    /\ txn.pc \in {"transfer", "feature"} => feature[Comp] = WasFeature[Comp]
    /\ txn.pc \in AddLabels \ {"transfer", "feature"} => feature[Comp] # Absent
    /\ txn.pc \in {"undoNew", "undoOld", "undoLink", "undoDropIn"} =>
         feature[Comp] # Absent \/ feature[Comp] = WasFeature[Comp]
    /\ txn.pc = "undoFeature" => dropin[Comp] = WasDropIn[Comp]
    /\ txn.pc \in Disabled => dropin[Comp] = "disabled"

\* A running command keeps its catalog and what it found.
LEMMA RunningSame ==
  ASSUME TypeInv, AddStep \/ RemoveStep
  PROVE  /\ Comp' = Comp /\ Repo' = Repo /\ Comp \in Components /\ before' = before
         /\ WasTransfer' = WasTransfer /\ WasFeature' = WasFeature /\ WasDropIn' = WasDropIn
         /\ WasLinked' = WasLinked /\ WasStaged' = WasStaged /\ WasLink' = WasLink
         /\ txn'.op = txn.op
         /\ ~broken' => ~broken
<1>1. RunningStep
  BY AddRuns, RemoveRuns
<1>2. ~broken' => ~broken
  <2>1. AddStep => broken' = broken \/ broken'
    BY DEF AddStep, WriteTransfer, WriteFeature, SnapshotManagedState, EnableDropIn, Select,
           Download, LinkImage, Vacuum, RefreshAdded, AddFails, UndoNewImages, UndoOldImages,
           UndoLink, UndoDropIn, UndoFeature, UndoTransfer, UndoDirs, UndoFails, history
  <2>2. RemoveStep => broken' = broken
    BY DEF RemoveStep, CheckMerged, CheckBlind, DisableDropIn, Unmerge, Unlink, Purge, Remerge,
           RemoveTransfer, RemoveFeature, RemoveDropIn, RemoveFails, history
  <2>3. QED
    BY <2>1, <2>2
<1>3. QED
  BY <1>1, <1>2, CompType
     DEF RunningStep, Comp, Repo, WasTransfer, WasFeature, WasDropIn, WasLinked, WasStaged, WasLink

\* Every step of an add, or of its rollback, keeps it.
LEMMA AddArm ==
  ASSUME TypeInv, ~broken => ArmInv, AddStep, ~broken'
  PROVE  ArmInv'
<1>1. /\ Comp' = Comp /\ Comp \in Components
      /\ WasFeature' = WasFeature /\ WasDropIn' = WasDropIn /\ ArmInv
  BY RunningSame
<1>2. feature \in [Components -> File] /\ dropin \in [Components -> DropInStates] /\ txn \in Txn
  BY DEF TypeInv, FilesOK, TxnOK
<1>. USE <1>1, <1>2 DEF ArmInv, TxnLabels, AddLabels, UndoLabels, Disabled, At
<1>3. CASE WriteTransfer \/ SnapshotManagedState
  BY ZenonT(60), <1>3 DEF WriteTransfer, SnapshotManagedState, Goto, Txn, world, files
<1>4. CASE WriteFeature
  <2>1. [repo |-> Repo, rev |-> txn.rev] # Absent
    <3>1. txn.rev \in Revisions
      BY <1>4 DEF WriteFeature, TypeInv, TxnOK
    <3>2. [repo |-> Repo, rev |-> txn.rev] \in Generated
      BY <3>1, CompType DEF Generated
    <3>3. QED
      BY <3>2, CatalogAssumption
  <2>2. txn'.pc = "snapshot"
    BY <1>4 DEF WriteFeature, Goto, Txn
  <2>3. QED
    BY <1>4, <2>1, <2>2 DEF WriteFeature
<1>5. CASE EnableDropIn
  <2>1. CASE Undo
    <3>1. txn'.pc \in {"undoNew", "undoDropIn"}
      BY <2>1 DEF Undo, Goto, Txn
    <3>2. dropin' = dropin /\ feature' = feature
      BY <1>5, <2>1, <3>1 DEF EnableDropIn, Txn
    <3>3. QED
      BY <1>5, <3>1, <3>2 DEF EnableDropIn
  <2>2. CASE /\ dropin' = [dropin EXCEPT ![Comp] = "enabled"]
             /\ txn' = [txn EXCEPT !.pc = "install", !.todo = ImagesIn[Comp]]
    <3>1. txn'.pc = "install"
      BY <2>2 DEF Txn
    <3>2. QED
      BY <1>5, <2>2, <3>1 DEF EnableDropIn
  <2>3. QED
    BY <1>5, <2>1, <2>2 DEF EnableDropIn
<1>6. CASE Select \/ Download \/ LinkImage \/ Vacuum
  <2>1. txn.pc \in AddLabels \ {"transfer", "feature"}
    BY <1>6 DEF Select, Download, LinkImage, Vacuum
  <2>2. txn'.pc \in AddLabels \ {"transfer", "feature"}
    BY <1>6 DEF Select, Download, LinkImage, Vacuum, NextImage, Goto, Txn
  <2>3. feature' = feature /\ dropin' = dropin
    BY <1>6 DEF Select, Download, LinkImage, Vacuum, world, files
  <2>4. QED
    BY <2>1, <2>2, <2>3
<1>7. CASE RefreshAdded
  BY <1>7 DEF RefreshAdded, Return, Txn, world, files
<1>8. CASE AddFails
  <2>1. txn.pc \in AddLabels
    BY <1>8 DEF AddFails
  <2>2. txn'.pc \in {"undoNew", "undoDropIn"}
    BY <1>8 DEF AddFails, Undo, Goto, Txn
  <2>3. feature' = feature /\ dropin' = dropin
    BY <1>8 DEF AddFails, world, files
  <2>4. QED
    BY <2>1, <2>2, <2>3
<1>9. CASE UndoNewImages \/ UndoOldImages \/ UndoLink
  <2>1. txn.pc \in {"undoNew", "undoOld", "undoLink"}
    BY <1>9 DEF UndoNewImages, UndoOldImages, UndoLink
  <2>2. txn'.pc \in {"undoOld", "undoLink", "undoDropIn"}
    BY <1>9 DEF UndoNewImages, UndoOldImages, UndoLink, Goto, Txn
  <2>3. feature' = feature /\ dropin' = dropin
    BY <1>9 DEF UndoNewImages, UndoOldImages, UndoLink, files
  <2>4. QED
    BY <2>1, <2>2, <2>3
<1>10. CASE UndoDropIn
  <2>1. txn'.pc = "undoFeature" /\ dropin' = [dropin EXCEPT ![Comp] = WasDropIn[Comp]]
    BY <1>10, PriorType DEF UndoDropIn, Goto, Txn
  <2>2. QED
    BY <1>10, <2>1 DEF UndoDropIn
<1>11. CASE UndoFeature
  <2>1. txn'.pc = "undoTransfer" /\ feature' = [feature EXCEPT ![Comp] = WasFeature[Comp]]
    BY <1>11, PriorType DEF UndoFeature, Goto, Txn
  <2>2. QED
    BY <1>11, <2>1 DEF UndoFeature
<1>12. CASE UndoTransfer
  BY <1>12 DEF UndoTransfer, Goto, Txn
<1>13. CASE UndoDirs
  <2>1. txn'.pc = "idle" /\ feature' = feature
    BY <1>13 DEF UndoDirs, Return, Txn
  <2>2. QED
    BY <1>13, <2>1 DEF UndoDirs
<1>14. CASE UndoFails
  BY <1>14 DEF UndoFails
<1>15. QED
  BY <1>3, <1>4, <1>5, <1>6, <1>7, <1>8, <1>9, <1>10, <1>11, <1>12, <1>13, <1>14 DEF AddStep

\* Every step of a remove does.
LEMMA RemoveArm ==
  ASSUME TypeInv, ~broken => ArmInv, RemoveStep, ~broken'
  PROVE  ArmInv'
<1>1. Comp' = Comp /\ Comp \in Components /\ ArmInv
  BY RunningSame
<1>2. feature \in [Components -> File] /\ dropin \in [Components -> DropInStates] /\ txn \in Txn
  BY DEF TypeInv, FilesOK, TxnOK
<1>. USE <1>1, <1>2 DEF ArmInv, TxnLabels, AddLabels, UndoLabels, Disabled, At
<1>3. CASE CheckMerged \/ CheckBlind \/ RemoveFails
  <2>1. txn'.pc \in {"disable", "idle"}
    BY <1>3 DEF CheckMerged, CheckBlind, RemoveFails, Goto, Return, Txn
  <2>2. feature' = feature /\ dropin' = dropin
    BY <1>3 DEF CheckMerged, CheckBlind, RemoveFails, world, files
  <2>3. QED
    BY <2>1, <2>2
<1>4. CASE DisableDropIn
  <2>1. CASE Return("failed") /\ UNCHANGED dropin
    BY <1>4, <2>1 DEF DisableDropIn, Return, Txn
  <2>2. CASE /\ dropin' = [dropin EXCEPT ![Comp] = "disabled"]
             /\ txn' = [txn EXCEPT !.todo = Targets,
                          !.pc = IF Targets = <<>> THEN "rmTransfer" ELSE "unmerge"]
    <3>1. txn'.pc \in {"rmTransfer", "unmerge"}
      BY <2>2 DEF Txn
    <3>2. QED
      BY <1>4, <2>2, <3>1 DEF DisableDropIn
  <2>3. QED
    BY <1>4, <2>1, <2>2 DEF DisableDropIn
<1>5. CASE Unmerge \/ Unlink \/ Purge \/ Remerge \/ RemoveTransfer
  <2>1. txn.pc \in Disabled
    BY <1>5 DEF Unmerge, Unlink, Purge, Remerge, RemoveTransfer
  <2>2. txn'.pc \in Disabled \cup {"idle"}
    BY <1>5 DEF Unmerge, Unlink, Purge, Remerge, RemoveTransfer, NextImage, Goto, Return, Txn
  <2>3. feature' = feature /\ dropin' = dropin
    BY <1>5 DEF Unmerge, Unlink, Purge, Remerge, RemoveTransfer, world, files
  <2>4. QED
    BY <2>1, <2>2, <2>3
<1>6. CASE RemoveFeature
  <2>1. txn'.pc = "rmDropIn"
    BY <1>6 DEF RemoveFeature, Goto, Txn
  <2>2. QED
    BY <1>6, <2>1 DEF RemoveFeature
<1>7. CASE RemoveDropIn
  <2>1. txn'.pc = "idle"
    BY <1>7 DEF RemoveDropIn, Return, Txn
  <2>2. QED
    BY <1>7, <2>1 DEF RemoveDropIn
<1>8. QED
  BY <1>3, <1>4, <1>5, <1>6, <1>7 DEF RemoveStep

\* A drop-in that enables never waits for a feature that is not there, unless a
\* rollback reported that it could not restore.
THEOREM NoArmedDropInAlways == Spec => []NoArmedDropIn
<1>1. Init => TypeInv /\ (~broken => ArmInv)
  <2>1. Init => TypeInv
    BY InitType
  <2>2. Init => ArmInv
    BY CatalogAssumption
       DEF Init, ArmInv, TxnLabels, AddLabels, UndoLabels, Disabled
  <2>3. QED
    BY <2>1, <2>2
<1>2. TypeInv /\ (~broken => ArmInv) /\ [Next]_vars => TypeInv' /\ (~broken => ArmInv)'
  <2>1. SUFFICES ASSUME TypeInv, ~broken => ArmInv, [Next]_vars, ~broken'
                 PROVE  ArmInv'
    BY NextType
  <2>2. CASE AddStep \/ RemoveStep
    BY <2>1, <2>2, AddArm, RemoveArm
  <2>3. ASSUME NEW op, NEW candidates, NEW allowed, NEW force, NEW refresh,
               NEW first \in {"transfer", "check"},
               candidates \subseteq Repos,
               Begin(op, candidates, allowed, force, refresh, first)
        PROVE  ArmInv'
    <3>1. /\ broken' = broken /\ feature' = feature /\ dropin' = dropin
          /\ WasFeature' = feature /\ WasDropIn' = dropin /\ At("idle")
      BY <2>3 DEF Begin, world, files, WasFeature, WasDropIn
    <3>2. ArmInv
      BY <2>1, <3>1
    <3>3. CASE txn' = [txn EXCEPT !.op = op, !.res = "refused"]
      <4>1. txn'.pc = "idle"
        BY <3>1, <3>3 DEF At, TypeInv, TxnOK, Txn
      <4>2. QED
        BY <3>1, <3>2, <4>1 DEF ArmInv, TxnLabels, AddLabels, UndoLabels, Disabled
    <3>4. ASSUME NEW r \in Repos, txn'.repo = r, txn'.pc = first
          PROVE  ArmInv'
      <4>1. Comp' \in Components
        BY <3>4, CatalogAssumption DEF Comp
      <4>2. QED
        BY <3>1, <3>2, <3>4, <4>1 DEF ArmInv, TxnLabels, AddLabels, UndoLabels, Disabled
    <3>5. QED
      BY <2>3, <3>3, <3>4 DEF Begin
  <2>4. ASSUME NEW asked \in SUBSET Repos, NEW refresh, BeginAdd(asked, refresh)
        PROVE  ArmInv'
    <3>. DEFINE candidates == {r \in asked : published[r] # 0}
    <3>1. candidates \subseteq Repos
      OBVIOUS
    <3>2. PICK allowed : Begin("add", candidates, allowed, FALSE, refresh, "transfer")
      BY <2>4 DEF BeginAdd
    <3>. HIDE DEF candidates
    <3>3. QED
      BY <2>3, <3>1, <3>2
  <2>5. ASSUME NEW asked \in SUBSET Repos, NEW force, NEW refresh,
               BeginRemove(asked, force, refresh)
        PROVE  ArmInv'
    <3>. DEFINE candidates == {r \in asked : LET file == feature[ComponentOf[r]]
                                             IN file \in Generated /\ file.repo = r}
    <3>1. candidates \subseteq Repos
      OBVIOUS
    <3>2. PICK allowed : Begin("remove", candidates, allowed, force, refresh, "check")
      BY <2>5 DEF BeginRemove
    <3>. HIDE DEF candidates
    <3>3. QED
      BY <2>3, <3>1, <3>2
  <2>6. CASE Crash
    <3>1. txn'.pc = "idle"
      BY <2>1, <2>6, ReturnType DEF Crash
    <3>2. QED
      BY <2>1, <2>6, <3>1
         DEF Crash, ArmInv, world, files, history, TxnLabels, AddLabels, UndoLabels, Disabled
  <2>7. ASSUME NEW c \in Components, Edit(c)
        PROVE  ArmInv'
    <3>1. txn'.pc = "idle"
      BY <2>1, <2>7 DEF Edit, At, TypeInv, TxnOK, Txn
    <3>2. QED
      BY <2>1, <2>7, <3>1, CatalogAssumption
         DEF Edit, ArmInv, history, TypeInv, FilesOK, TxnLabels, AddLabels, UndoLabels, Disabled
  <2>8. CASE Publish \/ UNCHANGED vars
    BY <2>1, <2>8 DEF Publish, vars, world, files, history, ArmInv, Comp, WasFeature, WasDropIn
  <2>9. QED
    BY <2>1, <2>2, <2>4, <2>5, <2>6, <2>7, <2>8 DEF Next
<1>3. TypeInv /\ (~broken => ArmInv) => NoArmedDropIn
  BY DEF ArmInv, NoArmedDropIn
<1>4. QED
  BY <1>1, <1>2, <1>3, PTL DEF Spec

-----------------------------------------------------------------------------
\* The rollback.

AgreeBut(f, g, x) == \A y \in DOMAIN f : y # x => f[y] = g[y]

EarlyAdd == {"transfer", "feature", "snapshot", "dropin"}
LateUndo == {"undoDropIn", "undoFeature", "undoTransfer", "undoDirs"}

\* While an add or its rollback runs, nothing but its own definitions differs
\* from what the add found, and each is what it was before the add wrote it and
\* after the rollback restored it.
FilesBack ==
    /\ AgreeBut(transfer, WasTransfer, Comp)
    /\ AgreeBut(feature, WasFeature, Comp)
    /\ AgreeBut(dropin, WasDropIn, Comp)
    /\ txn.pc \in {"transfer", "undoDirs"} => transfer[Comp] = WasTransfer[Comp]
    /\ txn.pc \in {"transfer", "feature", "undoTransfer", "undoDirs"} =>
         feature[Comp] = WasFeature[Comp]
    /\ txn.pc \in EarlyAdd \cup {"undoFeature", "undoTransfer", "undoDirs"} =>
         dropin[Comp] = WasDropIn[Comp]

\* Nothing but the image of the generated transfer differs, and it is what it
\* was until the snapshot and after the rollback restored it.
DirsBack ==
    /\ AgreeBut(staged, WasStaged, main)
    /\ AgreeBut(link, WasLink, main)
    /\ txn.pc \in EarlyAdd \cup LateUndo => link[main] = WasLink[main]
    /\ txn.pc \in EarlyAdd \cup LateUndo \cup {"undoLink"} => staged[main] = WasStaged[main]
    /\ txn.pc = "undoOld" => staged[main] \subseteq WasStaged[main]

\* What the rollback needs to know of the command.
Tracked ==
    /\ txn.op = "add"
    /\ WasLinked = {}
    /\ txn.pc \in AddLabels => (txn.captured <=> txn.pc \notin {"transfer", "feature", "snapshot"})
    /\ txn.pc \in {"install", "download", "link", "vacuum"} => txn.todo = <<main>>

RestoreInv ==
    /\ linked = {}
    /\ txn.pc \in TxnLabels => Tracked /\ FilesBack /\ DirsBack
    /\ txn.pc \in RemoveLabels => txn.op = "remove"
    /\ Ended("add", "failed") => world = before

\* Equal parts make an equal whole.
LEMMA RestoredWorld ==
  ASSUME TypeInv, FilesBack, DirsBack, linked = WasLinked, txn.pc = "undoDirs"
  PROVE  world = before
<1>1. /\ transfer \in [Components -> File] /\ WasTransfer \in [Components -> File]
      /\ feature \in [Components -> File] /\ WasFeature \in [Components -> File]
      /\ dropin \in [Components -> DropInStates] /\ WasDropIn \in [Components -> DropInStates]
  BY PriorType DEF TypeInv, FilesOK
<1>2. /\ staged \in [Images -> SUBSET Versions] /\ WasStaged \in [Images -> SUBSET Versions]
      /\ link \in [Images -> VersionOrNone] /\ WasLink \in [Images -> VersionOrNone]
  BY PriorType DEF TypeInv, DirsOK
<1>3. transfer = WasTransfer /\ feature = WasFeature /\ dropin = WasDropIn
  <2>1. \A c \in Components : /\ transfer[c] = WasTransfer[c] /\ feature[c] = WasFeature[c]
                              /\ dropin[c] = WasDropIn[c]
    BY <1>1 DEF FilesBack, AgreeBut
  <2>2. QED
    BY <1>1, <2>1
<1>4. staged = WasStaged /\ link = WasLink
  <2>1. \A i \in Images : staged[i] = WasStaged[i] /\ link[i] = WasLink[i]
    BY <1>2 DEF DirsBack, AgreeBut, LateUndo
  <2>2. QED
    BY <1>2, <2>1
<1>5. before = <<<<WasTransfer, WasFeature, WasDropIn, WasLinked>>, <<WasStaged, WasLink>>>>
  <2>1. before \in FilesType \X DirsType
    BY DEF TypeInv, RestOK
  <2>2. QED
    BY <2>1 DEF FilesType, DirsType, WasTransfer, WasFeature, WasDropIn, WasLinked,
                WasStaged, WasLink
<1>6. QED
  BY <1>3, <1>4, <1>5 DEF world, files, dirs

\* The loop over one image ends after it.
LEMMA OneImage ==
  ASSUME NEW i
  PROVE  Head(<<i>>) = i /\ Tail(<<i>>) = <<>>
  OBVIOUS

\* A step of the rollback, or of an add, leaves the drop-in directories alone
\* when none is a symlink.
LEMMA AddRestores ==
  ASSUME TypeInv, ~broken => RestoreInv, AddStep, ~broken',
         \A c \in Components : ImagesIn[c] = <<main>>
  PROVE  RestoreInv'
<1>1. /\ Comp' = Comp /\ Comp \in Components /\ txn'.op = txn.op
      /\ WasTransfer' = WasTransfer /\ WasFeature' = WasFeature /\ WasDropIn' = WasDropIn
      /\ WasLinked' = WasLinked /\ WasStaged' = WasStaged /\ WasLink' = WasLink
      /\ RestoreInv
  BY RunningSame
<1>2. txn.pc \in TxnLabels /\ Tracked /\ FilesBack /\ DirsBack /\ linked = {}
  BY <1>1, AddRuns DEF RestoreInv
<1>3. /\ transfer \in [Components -> File] /\ feature \in [Components -> File]
      /\ dropin \in [Components -> DropInStates]
      /\ staged \in [Images -> SUBSET Versions] /\ link \in [Images -> VersionOrNone]
      /\ WasStaged \in [Images -> SUBSET Versions] /\ main \in Images
      /\ txn \in Txn
  BY PriorType, CatalogAssumption DEF TypeInv, FilesOK, DirsOK, TxnOK
<1>4. SUFFICES ASSUME ~UndoDirs
               PROVE  \/ linked' = linked /\ Tracked' /\ FilesBack' /\ DirsBack' /\ ~At("idle")'
                      \/ txn'.pc = "idle" /\ txn'.res = "ok" /\ linked' = linked
  <2>1. CASE UndoDirs
    <3>1. txn'.pc = "idle" /\ linked' = linked /\ dropin' = dropin
      BY <1>2, <2>1 DEF UndoDirs, Return, TypeInv, TxnOK, Txn
    <3>2. world' = world /\ before' = before
      BY <2>1, <3>1 DEF UndoDirs, world, files, dirs, history
    <3>3. world = before
      BY <1>2, <2>1, RestoredWorld DEF UndoDirs, At, Tracked
    <3>4. QED
      BY <1>2, <3>1, <3>2, <3>3
         DEF RestoreInv, TxnLabels, AddLabels, UndoLabels, RemoveLabels
  <2>2. CASE ~UndoDirs
    <3>1. CASE linked' = linked /\ Tracked' /\ FilesBack' /\ DirsBack' /\ ~At("idle")'
      BY <1>2, <3>1, AddRuns DEF RunningStep, RestoreInv, Ended, TxnLabels,
         AddLabels, UndoLabels, RemoveLabels, At
    <3>2. CASE txn'.pc = "idle" /\ txn'.res = "ok" /\ linked' = linked
      BY <1>2, <3>2 DEF RestoreInv, Ended, TxnLabels, AddLabels, UndoLabels, RemoveLabels
    <3>3. QED
      BY <1>4, <2>2, <3>1, <3>2
  <2>3. QED
    BY <2>1, <2>2
<1>. USE <1>1, <1>2, <1>3
<1>. USE DEF Tracked, AddLabels, UndoLabels, At, EarlyAdd, LateUndo
<1>5. CASE WriteTransfer
  <2>1. txn' = [txn EXCEPT !.pc = "feature"] /\ At("transfer")
    BY <1>5 DEF WriteTransfer, Goto
  <2>2. FilesBack'
    BY <1>5, <2>1 DEF WriteTransfer, FilesBack, AgreeBut, Txn
  <2>3. DirsBack'
    BY <1>5, <2>1 DEF WriteTransfer, DirsBack, AgreeBut, Txn, dirs
  <2>4. QED
    BY <1>5, <2>1, <2>2, <2>3 DEF WriteTransfer, Txn
<1>6. CASE WriteFeature
  <2>1. txn' = [txn EXCEPT !.pc = "snapshot"] /\ At("feature")
    BY <1>6 DEF WriteFeature, Goto
  <2>2. FilesBack'
    BY <1>6, <2>1 DEF WriteFeature, FilesBack, AgreeBut, Txn
  <2>3. DirsBack'
    BY <1>6, <2>1 DEF WriteFeature, DirsBack, AgreeBut, Txn, dirs
  <2>4. QED
    BY <1>6, <2>1, <2>2, <2>3 DEF WriteFeature, Txn
<1>7. CASE SnapshotManagedState
  <2>1. txn' = [txn EXCEPT !.pc = "dropin", !.captured = TRUE] /\ At("snapshot")
    BY <1>7 DEF SnapshotManagedState
  <2>2. FilesBack'
    BY <1>7, <2>1 DEF SnapshotManagedState, FilesBack, AgreeBut, Txn, world, files
  <2>3. DirsBack'
    BY <1>7, <2>1 DEF SnapshotManagedState, DirsBack, AgreeBut, Txn, world, dirs
  <2>4. QED
    BY <1>7, <2>1, <2>2, <2>3 DEF SnapshotManagedState, Txn, world, files
<1>8. CASE EnableDropIn
  <2>1. At("dropin") /\ txn.captured /\ linked' = linked
    BY <1>8 DEF EnableDropIn
  <2>3. CASE Undo /\ UNCHANGED dropin
    <3>1. txn' = [txn EXCEPT !.pc = "undoNew"]
      BY <2>1, <2>3 DEF Undo, Goto
    <3>2. FilesBack' /\ DirsBack'
      BY <1>8, <2>3, <3>1 DEF EnableDropIn, FilesBack, DirsBack, AgreeBut, Txn, dirs
    <3>3. QED
      BY <2>1, <3>1, <3>2 DEF Txn
  <2>4. CASE /\ dropin' = [dropin EXCEPT ![Comp] = "enabled"]
             /\ txn' = [txn EXCEPT !.pc = "install", !.todo = ImagesIn[Comp]]
    <3>1. txn'.pc = "install" /\ txn'.todo = <<main>> /\ txn'.captured
      BY <2>1, <2>4 DEF Txn
    <3>2. FilesBack'
      BY <1>8, <2>4, <3>1 DEF EnableDropIn, FilesBack, AgreeBut
    <3>3. DirsBack'
      BY <1>8, <2>4, <3>1 DEF EnableDropIn, DirsBack, AgreeBut, dirs
    <3>4. QED
      BY <2>1, <3>1, <3>2, <3>3
  <2>5. QED
    BY <1>8, <2>3, <2>4 DEF EnableDropIn
<1>9. ASSUME txn.pc \in {"install", "download", "link", "vacuum"},
             NextImage("install", "refresh") \/ \E l \in {"download", "link", "vacuum"} :
               /\ txn'.pc = l /\ txn'.todo = txn.todo /\ txn'.captured = txn.captured,
             UNCHANGED files,
             staged' = staged \/ \E S : staged' = [staged EXCEPT ![main] = S],
             link' = link \/ \E v : link' = [link EXCEPT ![main] = v]
      PROVE  linked' = linked /\ Tracked' /\ FilesBack' /\ DirsBack' /\ ~At("idle")'
  <2>1. Tail(txn.todo) = <<>>
    BY <1>9, OneImage
  <2>2. /\ txn'.pc \in {"download", "link", "vacuum", "refresh"}
        /\ txn'.captured
        /\ txn'.pc # "refresh" => txn'.todo = <<main>>
    BY <1>9, <2>1 DEF NextImage, Txn
  <2>3. FilesBack'
    BY <1>9, <2>2 DEF FilesBack, AgreeBut, files
  <2>4. DirsBack'
    BY <1>9, <2>2 DEF DirsBack, AgreeBut
  <2>5. QED
    BY <1>9, <2>2, <2>3, <2>4 DEF files
<1>10. txn.pc \in {"install", "download", "link", "vacuum"} => Img = main
  BY OneImage DEF Img
<1>11. CASE Select
  BY <1>9, <1>11 DEF Select, Txn, world, dirs
<1>12. CASE Download
  BY <1>9, <1>10, <1>12 DEF Download, Goto, Txn
<1>13. CASE LinkImage
  BY <1>9, <1>10, <1>13 DEF LinkImage, Goto, Txn
<1>14. CASE Vacuum
  BY <1>9, <1>10, <1>14 DEF Vacuum
<1>15. CASE RefreshAdded
  BY <1>15 DEF RefreshAdded, Return, Txn, world, files
<1>16. CASE AddFails
  <2>1. txn.pc \in AddLabels /\ UNCHANGED world
    BY <1>16 DEF AddFails
  <2>2. txn' = [txn EXCEPT !.pc = IF txn.captured THEN "undoNew" ELSE "undoDropIn"]
    BY <1>16 DEF AddFails, Undo, Goto
  <2>3. txn.captured \/ txn.pc \in EarlyAdd
    BY <2>1
  <2>4. txn'.pc = IF txn.captured THEN "undoNew" ELSE "undoDropIn"
    BY <2>2 DEF Txn
  <2>5. FilesBack'
    BY <2>1, <2>4 DEF FilesBack, AgreeBut, world, files
  <2>6. DirsBack'
    BY <2>1, <2>3, <2>4 DEF DirsBack, AgreeBut, world, dirs
  <2>7. QED
    BY <2>1, <2>4, <2>5, <2>6 DEF world, files
<1>17. CASE UndoNewImages
  <2>1. txn'.pc = "undoOld" /\ staged' = [staged EXCEPT ![main] = @ \cap WasStaged[main]]
    BY <1>17, PriorType DEF UndoNewImages, Goto, Txn
  <2>2. FilesBack' /\ DirsBack'
    BY <1>17, <2>1 DEF UndoNewImages, FilesBack, DirsBack, AgreeBut, files
  <2>3. QED
    BY <1>17, <2>1, <2>2 DEF UndoNewImages, files
<1>18. CASE UndoOldImages
  <2>1. txn'.pc = "undoLink" /\ staged' = [staged EXCEPT ![main] = @ \cup WasStaged[main]]
    BY <1>18, PriorType DEF UndoOldImages, Goto, Txn
  <2>2. staged[main] \cup WasStaged[main] = WasStaged[main]
    BY <1>18 DEF UndoOldImages, DirsBack
  <2>3. FilesBack' /\ DirsBack'
    BY <1>18, <2>1, <2>2 DEF UndoOldImages, FilesBack, DirsBack, AgreeBut, files
  <2>4. QED
    BY <1>18, <2>1, <2>3 DEF UndoOldImages, files
<1>19. CASE UndoLink
  <2>1. txn'.pc = "undoDropIn" /\ link' = [link EXCEPT ![main] = WasLink[main]]
    BY <1>19, PriorType DEF UndoLink, Goto, Txn
  <2>2. FilesBack' /\ DirsBack'
    BY <1>19, <2>1 DEF UndoLink, FilesBack, DirsBack, AgreeBut, files
  <2>3. QED
    BY <1>19, <2>1, <2>2 DEF UndoLink, files
<1>20. CASE UndoDropIn
  <2>1. txn'.pc = "undoFeature" /\ dropin' = [dropin EXCEPT ![Comp] = WasDropIn[Comp]]
    BY <1>20, PriorType DEF UndoDropIn, Goto, Txn
  <2>2. FilesBack' /\ DirsBack'
    BY <1>20, <2>1 DEF UndoDropIn, FilesBack, DirsBack, AgreeBut, dirs
  <2>3. QED
    BY <1>20, <2>1, <2>2 DEF UndoDropIn
<1>21. CASE UndoFeature
  <2>1. txn'.pc = "undoTransfer" /\ feature' = [feature EXCEPT ![Comp] = WasFeature[Comp]]
    BY <1>21, PriorType DEF UndoFeature, Goto, Txn
  <2>2. FilesBack' /\ DirsBack'
    BY <1>21, <2>1 DEF UndoFeature, FilesBack, DirsBack, AgreeBut, dirs
  <2>3. QED
    BY <1>21, <2>1, <2>2 DEF UndoFeature
<1>22. CASE UndoTransfer
  <2>1. txn'.pc = "undoDirs" /\ transfer' = [transfer EXCEPT ![Comp] = WasTransfer[Comp]]
    BY <1>22, PriorType DEF UndoTransfer, Goto, Txn
  <2>2. FilesBack' /\ DirsBack'
    BY <1>22, <2>1 DEF UndoTransfer, FilesBack, DirsBack, AgreeBut, dirs
  <2>3. QED
    BY <1>22, <2>1, <2>2 DEF UndoTransfer
<1>23. CASE UndoFails
  BY <1>23 DEF UndoFails
<1>24. QED
  BY <1>4, <1>5, <1>6, <1>7, <1>8, <1>11, <1>12, <1>13, <1>14, <1>15, <1>16, <1>17, <1>18,
     <1>19, <1>20, <1>21, <1>22, <1>23 DEF AddStep

\* A remove is no add.
LEMMA RemoveRestores ==
  ASSUME TypeInv, ~broken => RestoreInv, RemoveStep, ~broken'
  PROVE  RestoreInv'
<1>1. RestoreInv /\ txn'.op = txn.op
  BY RunningSame
<1>2. txn.pc \in RemoveLabels /\ txn'.pc \notin TxnLabels
  <2>1. txn.pc \in RemoveLabels /\ RunningStep
    BY RemoveRuns
  <2>2. QED
    BY <2>1 DEF RunningStep, TxnLabels, AddLabels, UndoLabels, RemoveLabels
<1>3. linked' = linked
  BY DEF RemoveStep, CheckMerged, CheckBlind, DisableDropIn, Unmerge, Unlink, Purge, Remerge,
         RemoveTransfer, RemoveFeature, RemoveDropIn, RemoveFails, world, files
<1>4. QED
  BY <1>1, <1>2, <1>3 DEF RestoreInv, Ended

\* How a command begins, or is refused.
LEMMA BeginStep ==
  ASSUME TypeInv, NEW asked, NEW force, NEW refresh,
         BeginAdd(asked, refresh) \/ BeginRemove(asked, force, refresh)
  PROVE  /\ At("idle") /\ world' = world /\ before' = world /\ broken' = broken
         /\ \/ txn'.pc = "idle" /\ txn'.res = "refused"
            \/ txn'.pc = "transfer" /\ txn'.op = "add" /\ txn'.captured = FALSE
            \/ txn'.pc = "check" /\ txn'.op = "remove"
<1>1. ASSUME NEW op, NEW candidates, NEW allowed, NEW f, NEW r, NEW first,
             Begin(op, candidates, allowed, f, r, first)
      PROVE  /\ At("idle") /\ world' = world /\ before' = world /\ broken' = broken
             /\ \/ txn'.pc = "idle" /\ txn'.res = "refused"
                \/ txn'.pc = first /\ txn'.op = op /\ txn'.captured = FALSE
  <2>1. At("idle") /\ world' = world /\ before' = world /\ broken' = broken
    BY <1>1 DEF Begin
  <2>2. CASE txn' = [txn EXCEPT !.op = op, !.res = "refused"]
    BY <2>1, <2>2 DEF At, TypeInv, TxnOK, Txn
  <2>3. ASSUME NEW c,
               txn' = [pc |-> first, op |-> op, res |-> "none", repo |-> c,
                       rev |-> published[c], force |-> f, refresh |-> r,
                       todo |-> <<>>, target |-> NoVersion, fresh |-> FALSE,
                       captured |-> FALSE]
        PROVE  txn'.pc = first /\ txn'.op = op /\ txn'.captured = FALSE
    BY <2>3
  <2>4. QED
    BY <1>1, <2>1, <2>2, <2>3 DEF Begin
<1>2. CASE BeginAdd(asked, refresh)
  <2>1. PICK candidates, allowed : Begin("add", candidates, allowed, FALSE, refresh, "transfer")
    BY <1>2 DEF BeginAdd
  <2>2. QED
    BY <1>1, <2>1
<1>3. CASE BeginRemove(asked, force, refresh)
  <2>1. PICK candidates, allowed : Begin("remove", candidates, allowed, force, refresh, "check")
    BY <1>3 DEF BeginRemove
  <2>2. QED
    BY <1>1, <2>1
<1>4. QED
  BY <1>2, <1>3

\* Every step keeps what the rollback needs.
LEMMA NextRestores ==
  ASSUME TypeInv, ~broken => RestoreInv, [Next]_vars, ~broken',
         LinkedDropIns = {}, \A c \in Components : ImagesIn[c] = <<main>>
  PROVE  RestoreInv'
<1>1. CASE AddStep \/ RemoveStep
  BY <1>1, AddRestores, RemoveRestores
<1>2. ASSUME NEW asked, NEW force, NEW refresh,
             BeginAdd(asked, refresh) \/ BeginRemove(asked, force, refresh)
      PROVE  RestoreInv'
  <2>1. /\ At("idle") /\ world' = world /\ before' = world
        /\ \/ txn'.pc = "idle" /\ txn'.res = "refused"
           \/ txn'.pc = "transfer" /\ txn'.op = "add" /\ txn'.captured = FALSE
           \/ txn'.pc = "check" /\ txn'.op = "remove"
    BY <1>2, BeginStep
  <2>2. broken' = broken
    BY <1>2, BeginStep
  <2>3. RestoreInv /\ linked = {} /\ linked' = linked
    BY <2>1, <2>2 DEF RestoreInv, world, files
  <2>4. /\ WasTransfer' = transfer' /\ WasFeature' = feature' /\ WasDropIn' = dropin'
        /\ WasLinked' = linked' /\ WasStaged' = staged' /\ WasLink' = link'
    BY <2>1 DEF world, files, dirs, WasTransfer, WasFeature, WasDropIn, WasLinked,
                WasStaged, WasLink
  <2>5. FilesBack' /\ DirsBack'
    BY <2>4 DEF FilesBack, DirsBack, AgreeBut
  <2>6. txn'.pc = "transfer" => Tracked'
    BY <2>1, <2>3, <2>4 DEF Tracked
  <2>7. QED
    BY <2>1, <2>3, <2>5, <2>6
       DEF RestoreInv, Ended, At, TxnLabels, AddLabels, UndoLabels, RemoveLabels
<1>3. CASE Crash
  <2>1. txn'.pc = "idle" /\ txn'.res = "crashed"
    BY <1>3, ReturnType DEF Crash
  <2>2. QED
    BY <1>3, <2>1 DEF Crash, RestoreInv, Ended, world, files, history,
       TxnLabels, AddLabels, UndoLabels, RemoveLabels
<1>4. ASSUME NEW c \in Components, Edit(c)
      PROVE  RestoreInv'
  <2>1. txn'.pc = "idle" /\ txn'.op = "none"
    BY <1>4 DEF Edit, At, TypeInv, TxnOK, Txn
  <2>2. QED
    BY <1>4, <2>1 DEF Edit, RestoreInv, Ended, history,
       TxnLabels, AddLabels, UndoLabels, RemoveLabels
<1>5. CASE Publish \/ UNCHANGED vars
  <2>1. world' = world /\ before' = before /\ txn' = txn /\ broken' = broken
    BY <1>5 DEF Publish, vars, world, history
  <2>2. QED
    BY <2>1 DEF RestoreInv, Ended, At, Tracked, FilesBack, DirsBack, world, files, dirs,
       Comp, WasTransfer, WasFeature, WasDropIn, WasLinked, WasStaged, WasLink, AgreeBut
<1>6. QED
  BY <1>1, <1>2, <1>3, <1>4, <1>5 DEF Next

\* A failed add leaves every definition, drop-in, image and link as it found
\* them, wherever it failed, unless it reported that it could not: for any
\* number of failures, when no drop-in directory is a symlink and the generated
\* transfer is the only one that names the feature.
THEOREM FailedAddRestoresAlways ==
  ASSUME LinkedDropIns = {}, \A c \in Components : ImagesIn[c] = <<main>>
  PROVE  Spec => []FailedAddRestores
<1>1. Init => RestoreInv
  BY DEF Init, RestoreInv, Ended, TxnLabels, AddLabels, UndoLabels, RemoveLabels
<1>2. TypeInv /\ (~broken => RestoreInv) /\ [Next]_vars => (~broken => RestoreInv)'
  BY NextRestores
<1>3. (~broken => RestoreInv) => FailedAddRestores
  BY DEF RestoreInv, FailedAddRestores
<1>4. QED
  BY <1>1, <1>2, <1>3, InitType, NextType, PTL DEF Spec


-----------------------------------------------------------------------------
\* Orphans.

Managed(stagedIn, transferAt) ==
    stagedIn[main] # {} => \E c \in Components : transferAt[c] # Absent

\* Something manages the image of the generated transfer, and did when the add
\* began; from where an add has written its transfer until its rollback has put
\* the images back, that transfer does; a remove has torn the image down before
\* it deletes the transfer.
ManagedInv ==
    /\ Managed(staged, transfer)
    /\ txn.pc \in TxnLabels => Managed(WasStaged, WasTransfer)
    /\ txn.pc \in (AddLabels \ {"transfer"}) \cup {"undoNew", "undoOld", "undoLink"} =>
         transfer[Comp] # Absent
    /\ txn.pc \in {"unmerge", "unlink", "purge"} /\ transfer[Comp] # Absent =>
         txn.todo = <<main>>
    /\ txn.pc \in {"remerge", "rmTransfer"} => transfer[Comp] = Absent \/ staged[main] = {}

\* Every step of an add, or of its rollback, keeps it.
LEMMA AddManaged ==
  ASSUME TypeInv, ~broken => RestoreInv /\ ManagedInv, AddStep, ~broken'
  PROVE  ManagedInv'
<1>1. /\ Comp' = Comp /\ Comp \in Components
      /\ WasTransfer' = WasTransfer /\ WasStaged' = WasStaged
      /\ RestoreInv /\ ManagedInv
  BY RunningSame
<1>2. txn.pc \in TxnLabels /\ Tracked /\ FilesBack /\ DirsBack
  BY <1>1, AddRuns DEF RestoreInv
<1>3. txn'.pc \in TxnLabels => Managed(WasStaged, WasTransfer)'
  BY <1>1, <1>2 DEF ManagedInv, Managed
<1>4. /\ transfer \in [Components -> File] /\ WasTransfer \in [Components -> File]
      /\ staged \in [Images -> SUBSET Versions] /\ main \in Images /\ txn \in Txn
  BY PriorType, CatalogAssumption DEF TypeInv, FilesOK, DirsOK, TxnOK
<1>. USE DEF TxnLabels, AddLabels, UndoLabels, At
<1>5. ASSUME transfer'[Comp] # Absent,
             txn'.pc \notin {"unmerge", "unlink", "purge", "remerge", "rmTransfer"}
      PROVE  ManagedInv'
  BY <1>1, <1>3, <1>5 DEF ManagedInv, Managed
<1>6. ASSUME UNCHANGED <<transfer, staged>>,
             txn'.pc \in {"idle", "undoDropIn", "undoFeature", "undoTransfer", "undoDirs"}
      PROVE  ManagedInv'
  BY <1>1, <1>3, <1>6 DEF ManagedInv, Managed
<1>7. CASE WriteTransfer
  <2>1. [repo |-> Repo, rev |-> txn.rev] \in Generated
    BY <1>7, CompType DEF WriteTransfer, TypeInv, TxnOK, Generated
  <2>2. transfer'[Comp] # Absent
    BY <1>1, <1>4, <1>7, <2>1, CatalogAssumption DEF WriteTransfer
  <2>3. txn'.pc = "feature"
    BY <1>4, <1>7 DEF WriteTransfer, Goto, Txn
  <2>4. QED
    BY <1>5, <2>2, <2>3
<1>8. CASE WriteFeature \/ SnapshotManagedState \/ Select \/ Download \/ LinkImage \/ Vacuum
  <2>1. transfer' = transfer /\ txn.pc \in AddLabels \ {"transfer"}
    BY <1>8 DEF WriteFeature, SnapshotManagedState, Select, Download, LinkImage, Vacuum,
                world, files
  <2>2. txn'.pc \in AddLabels
    BY <1>4, <1>8
       DEF WriteFeature, SnapshotManagedState, Select, Download, LinkImage, Vacuum,
           NextImage, Goto, Txn
  <2>3. QED
    BY <1>1, <1>5, <2>1, <2>2 DEF ManagedInv
<1>9. CASE EnableDropIn
  <2>1. transfer' = transfer /\ txn.pc = "dropin"
    BY <1>9 DEF EnableDropIn
  <2>2. txn'.pc \in {"undoNew", "undoDropIn", "install"}
    <3>1. CASE Undo
      BY <1>4, <3>1 DEF Undo, Goto, Txn
    <3>2. CASE txn' = [txn EXCEPT !.pc = "install", !.todo = ImagesIn[Comp]]
      BY <1>4, <3>2 DEF Txn
    <3>3. QED
      BY <1>9, <3>1, <3>2 DEF EnableDropIn
  <2>3. QED
    BY <1>1, <1>5, <2>1, <2>2 DEF ManagedInv
<1>10. CASE RefreshAdded \/ UndoLink \/ UndoDropIn \/ UndoFeature \/ UndoDirs
  <2>1. UNCHANGED <<transfer, staged>>
    BY <1>10 DEF RefreshAdded, UndoLink, UndoDropIn, UndoFeature, UndoDirs, world, files, dirs
  <2>2. txn'.pc \in {"idle", "undoDropIn", "undoFeature", "undoTransfer"}
    BY <1>4, <1>10 DEF RefreshAdded, UndoLink, UndoDropIn, UndoFeature, UndoDirs, Goto, Return, Txn
  <2>3. QED
    BY <1>6, <2>1, <2>2
<1>11. CASE AddFails
  <2>1. UNCHANGED <<transfer, staged>> /\ txn.pc \in AddLabels
    BY <1>11 DEF AddFails, world, files, dirs
  <2>2. txn'.pc = IF txn.captured THEN "undoNew" ELSE "undoDropIn"
    BY <1>4, <1>11 DEF AddFails, Undo, Goto, Txn
  <2>3. txn.captured => txn.pc # "transfer"
    BY <1>2, <2>1 DEF Tracked
  <2>4. QED
    BY <1>1, <1>5, <1>6, <2>1, <2>2, <2>3 DEF ManagedInv
<1>12. CASE UndoNewImages \/ UndoOldImages
  <2>1. transfer' = transfer /\ txn.pc \in {"undoNew", "undoOld"}
    BY <1>12 DEF UndoNewImages, UndoOldImages, files
  <2>2. txn'.pc \in {"undoOld", "undoLink"}
    BY <1>4, <1>12 DEF UndoNewImages, UndoOldImages, Goto, Txn
  <2>3. QED
    BY <1>1, <1>5, <2>1, <2>2 DEF ManagedInv
<1>13. CASE UndoTransfer
  <2>1. transfer' = [transfer EXCEPT ![Comp] = WasTransfer[Comp]] /\ staged' = staged
    BY <1>13, PriorType DEF UndoTransfer, dirs
  <2>2. \A c \in Components : transfer'[c] = WasTransfer[c]
    BY <1>1, <1>2, <1>4, <2>1 DEF FilesBack, AgreeBut
  <2>3. staged[main] = WasStaged[main]
    BY <1>2, <1>13 DEF UndoTransfer, DirsBack, LateUndo
  <2>4. txn'.pc = "undoDirs"
    BY <1>4, <1>13 DEF UndoTransfer, Goto, Txn
  <2>5. Managed(WasStaged, WasTransfer)
    BY <1>1, <1>13 DEF UndoTransfer, ManagedInv
  <2>6. QED
    BY <1>1, <1>3, <2>1, <2>2, <2>3, <2>4, <2>5 DEF ManagedInv, Managed
<1>14. CASE UndoFails
  BY <1>14 DEF UndoFails
<1>15. QED
  BY <1>7, <1>8, <1>9, <1>10, <1>11, <1>12, <1>13, <1>14 DEF AddStep

\* Every step of a remove does.
LEMMA RemoveManaged ==
  ASSUME TypeInv, ~broken => ManagedInv, RemoveStep, ~broken',
         \A c \in Components : ImagesIn[c] = <<main>>
  PROVE  ManagedInv'
<1>1. Comp' = Comp /\ Comp \in Components /\ ManagedInv
  BY RunningSame
<1>2. txn.pc \in RemoveLabels /\ txn'.pc \notin TxnLabels
  BY RemoveRuns DEF RunningStep, TxnLabels, AddLabels, UndoLabels, RemoveLabels
<1>3. /\ transfer \in [Components -> File] /\ main \in Images /\ txn \in Txn
      /\ staged \in [Images -> SUBSET Versions]
  BY CatalogAssumption DEF TypeInv, FilesOK, DirsOK, TxnOK
<1>4. txn'.pc \notin (AddLabels \ {"transfer"}) \cup {"undoNew", "undoOld", "undoLink"}
  BY <1>2 DEF TxnLabels, UndoLabels
<1>. USE <1>1, <1>2, <1>3, <1>4 DEF ManagedInv, At
<1>5. CASE CheckMerged \/ CheckBlind \/ RemoveFails
  <2>1. txn'.pc \in {"disable", "idle"} /\ UNCHANGED <<transfer, staged>>
    BY <1>5 DEF CheckMerged, CheckBlind, RemoveFails, Goto, Return, Txn, world, files, dirs
  <2>2. QED
    BY <2>1 DEF Managed
<1>6. CASE DisableDropIn
  <2>1. UNCHANGED <<transfer, staged>>
    BY <1>6 DEF DisableDropIn, dirs
  <2>2. CASE Return("failed")
    <3>1. txn'.pc = "idle"
      BY <2>2, ReturnType
    <3>2. QED
      BY <2>1, <3>1 DEF Managed
  <2>3. CASE txn' = [txn EXCEPT !.todo = Targets,
                       !.pc = IF Targets = <<>> THEN "rmTransfer" ELSE "unmerge"]
    <3>1. transfer[Comp] # Absent => Targets = <<main>>
      BY DEF Targets
    <3>2. /\ txn'.todo = Targets
          /\ txn'.pc = IF Targets = <<>> THEN "rmTransfer" ELSE "unmerge"
      BY <2>3 DEF Txn
    <3>3. <<main>> # <<>>
      OBVIOUS
    <3>4. QED
      BY <2>1, <3>1, <3>2, <3>3 DEF Managed
  <2>4. QED
    BY <1>6, <2>2, <2>3 DEF DisableDropIn
<1>7. CASE Unmerge \/ Unlink
  <2>1. /\ txn.pc \in {"unmerge", "unlink"} /\ txn'.pc \in {"unlink", "purge"}
        /\ txn'.todo = txn.todo /\ UNCHANGED <<transfer, staged>>
    BY <1>7 DEF Unmerge, Unlink, Goto, Txn, world, files, dirs
  <2>2. QED
    BY <2>1 DEF Managed
<1>8. CASE Purge
  <2>1. txn.pc = "purge" /\ transfer' = transfer /\ Img \in Images /\ txn.todo # <<>>
    BY <1>8, ImgType DEF Purge, ImageLabels, files
  <2>2. staged'[main] \subseteq staged[main]
    BY <1>8, <2>1 DEF Purge
  <2>3. CASE Return("failed")
    <3>1. txn'.pc = "idle"
      BY <2>3, ReturnType
    <3>2. QED
      BY <2>1, <2>2, <3>1 DEF Managed
  <2>4. CASE staged' = [staged EXCEPT ![Img] = {}] /\ NextImage("unlink", "remerge")
    <3>1. txn'.pc = IF Tail(txn.todo) = <<>> THEN "remerge" ELSE "unlink"
      BY <2>4 DEF NextImage, Txn
    <3>2. CASE transfer[Comp] = Absent
      BY <2>1, <2>2, <3>1, <3>2 DEF Managed
    <3>3. CASE transfer[Comp] # Absent
      <4>1. txn.todo = <<main>>
        BY <2>1, <3>3
      <4>2. Img = main /\ Tail(txn.todo) = <<>>
        BY <4>1, OneImage DEF Img
      <4>3. staged'[main] = {} /\ txn'.pc = "remerge"
        BY <2>4, <3>1, <4>2
      <4>4. QED
        BY <2>1, <2>2, <4>3 DEF Managed
    <3>4. QED
      BY <3>2, <3>3
  <2>5. QED
    BY <1>8, <2>3, <2>4 DEF Purge
<1>9. CASE Remerge
  <2>1. txn.pc = "remerge" /\ txn'.pc = "rmTransfer" /\ UNCHANGED <<transfer, staged>>
    BY <1>9 DEF Remerge, Goto, Txn, world, files, dirs
  <2>2. QED
    BY <2>1 DEF Managed
<1>10. CASE RemoveTransfer
  <2>1. /\ txn.pc = "rmTransfer" /\ txn'.pc = "rmFeature" /\ staged' = staged
        /\ transfer' = [transfer EXCEPT ![Comp] = Absent]
    BY <1>10 DEF RemoveTransfer, Goto, Txn, dirs
  <2>2. CASE transfer[Comp] = Absent
    <3>1. transfer' = transfer
      BY <2>1, <2>2
    <3>2. QED
      BY <2>1, <3>1 DEF Managed
  <2>3. CASE staged[main] = {}
    BY <2>1, <2>3 DEF Managed
  <2>4. QED
    BY <2>1, <2>2, <2>3
<1>11. CASE RemoveFeature \/ RemoveDropIn
  <2>1. txn'.pc \in {"rmDropIn", "idle"} /\ UNCHANGED <<transfer, staged>>
    BY <1>11 DEF RemoveFeature, RemoveDropIn, Goto, Return, Txn, dirs
  <2>2. QED
    BY <2>1 DEF Managed
<1>12. QED
  BY <1>5, <1>6, <1>7, <1>8, <1>9, <1>10, <1>11 DEF RemoveStep

\* Every step keeps an image managed.
LEMMA NextManaged ==
  ASSUME TypeInv, ~broken => RestoreInv /\ ManagedInv, [Next]_vars, ~broken',
         \A c \in Components : ImagesIn[c] = <<main>>
  PROVE  ManagedInv'
<1>. USE DEF TxnLabels, AddLabels, UndoLabels
<1>1. CASE AddStep \/ RemoveStep
  BY <1>1, AddManaged, RemoveManaged
<1>2. ASSUME NEW asked, NEW force, NEW refresh,
             BeginAdd(asked, refresh) \/ BeginRemove(asked, force, refresh)
      PROVE  ManagedInv'
  <2>1. world' = world /\ before' = world /\ txn'.pc \in {"idle", "transfer", "check"}
    BY <1>2, BeginStep
  <2>2. broken' = broken
    BY <1>2, BeginStep
  <2>3. Managed(staged, transfer)' /\ Managed(WasStaged, WasTransfer)'
    BY <2>1, <2>2 DEF ManagedInv, Managed, world, files, dirs, WasStaged, WasTransfer
  <2>4. QED
    BY <2>1, <2>3 DEF ManagedInv
<1>3. CASE Crash
  <2>1. txn'.pc = "idle" /\ UNCHANGED <<transfer, staged, broken>>
    BY <1>3, ReturnType DEF Crash, world, files, dirs, history
  <2>2. QED
    BY <2>1 DEF ManagedInv, Managed
<1>4. ASSUME NEW c \in Components, Edit(c)
      PROVE  ManagedInv'
  <2>1. txn'.pc = "idle" /\ UNCHANGED <<staged, broken>>
    BY <1>4 DEF Edit, At, TypeInv, TxnOK, Txn, dirs, history
  <2>2. \A d \in Components : transfer[d] # Absent => transfer'[d] # Absent
    BY <1>4, CatalogAssumption DEF Edit, TypeInv, FilesOK
  <2>3. QED
    BY <2>1, <2>2 DEF ManagedInv, Managed
<1>5. CASE Publish \/ UNCHANGED vars
  <2>1. world' = world /\ before' = before /\ txn' = txn /\ broken' = broken
    BY <1>5 DEF Publish, vars, world, history
  <2>2. QED
    BY <2>1 DEF ManagedInv, Managed, world, files, dirs, Comp, WasTransfer, WasStaged
<1>6. QED
  BY <1>1, <1>2, <1>3, <1>4, <1>5 DEF Next

\* No image of the name is ever staged without a transfer that manages it,
\* whatever fails and whenever a command is killed, unless a rollback reported
\* that it could not restore: under the assumptions of FailedAddRestoresAlways.
THEOREM ImagesAreManagedAlways ==
  ASSUME LinkedDropIns = {}, \A c \in Components : ImagesIn[c] = <<main>>
  PROVE  Spec => []ImagesAreManaged
<1>. DEFINE Inv == ~broken => RestoreInv /\ ManagedInv
<1>1. Init => Inv
  <2>1. Init => RestoreInv
    BY DEF Init, RestoreInv, Ended, TxnLabels, AddLabels, UndoLabels, RemoveLabels
  <2>2. Init => ManagedInv
    BY CatalogAssumption DEF Init, ManagedInv, Managed, TxnLabels, AddLabels, UndoLabels
  <2>3. QED
    BY <2>1, <2>2
<1>2. TypeInv /\ Inv /\ [Next]_vars => Inv'
  BY NextRestores, NextManaged
<1>3. Inv => ImagesAreManaged
  BY DEF ManagedInv, Managed, ImagesAreManaged
<1>. HIDE DEF Inv
<1>4. QED
  BY <1>1, <1>2, <1>3, InitType, NextType, PTL DEF Spec

-----------------------------------------------------------------------------
\* What success means.

\* A running command goes on with its own steps, or ends.
LEMMA RunningLabels ==
  ASSUME TypeInv
  PROVE  /\ AddStep => txn'.pc \in TxnLabels \cup {"idle"}
         /\ RemoveStep => txn'.pc \in RemoveLabels \cup {"idle"}
<1>1. AddStep \/ RemoveStep => txn'.pc \in {"idle"} \cup TxnLabels \cup RemoveLabels
  <2>1. AddStep \/ RemoveStep => TypeInv'
    BY NextType DEF Next
  <2>2. QED
    BY <2>1 DEF TypeInv, TxnOK, Txn, Labels, TxnLabels
<1>2. txn.pc \in TxnLabels => txn.pc \notin RemoveLabels
  BY DEF TxnLabels, AddLabels, UndoLabels, RemoveLabels
<1>3. QED
  BY <1>1, <1>2, AddRuns, RemoveRuns DEF RunningStep

Done(i) == staged[i] # {} /\ link[i] = Newest(staged[i])

OwnConf == [repo |-> Repo, rev |-> txn.rev]

\* An add that has written a definition still has it, and one that has gone past
\* an image has that image staged and linked at the newest.
AddInv ==
    /\ txn.pc \in AddLabels \ {"transfer"} => transfer[Comp] = OwnConf
    /\ txn.pc \in AddLabels \ {"transfer", "feature"} => feature[Comp] = OwnConf
    /\ txn.pc \in {"install", "download", "link", "vacuum", "refresh"} =>
         /\ dropin[Comp] = "enabled"
         /\ \A i \in Among(ImagesIn[Comp]) :
              (txn.pc # "refresh" /\ i \in Among(txn.todo)) \/ Done(i)
    /\ txn.pc = "vacuum" => Done(Img)
    /\ txn.pc \in RemoveLabels => txn.op = "remove"
    /\ AddIsComplete

\* Nothing of the loop is lost when it goes on.
LEMMA AmongTail ==
  ASSUME NEW S, NEW s \in Seq(S), s # <<>>
  PROVE  /\ Among(s) = {Head(s)} \cup Among(Tail(s))
         /\ Tail(s) = <<>> => Among(s) = {Head(s)}
<1>1. Len(s) \in Nat /\ Len(s) >= 1 /\ DOMAIN s = 1 .. Len(s)
  OBVIOUS
<1>2. /\ Len(Tail(s)) = Len(s) - 1 /\ DOMAIN Tail(s) = 1 .. (Len(s) - 1)
      /\ \A k \in 1 .. (Len(s) - 1) : Tail(s)[k] = s[k + 1]
  OBVIOUS
<1>3. Head(s) = s[1]
  OBVIOUS
<1>4. Among(s) = {Head(s)} \cup Among(Tail(s))
  <2>1. ASSUME NEW x \in Among(s) PROVE x \in {Head(s)} \cup Among(Tail(s))
    <3>1. PICK k \in 1 .. Len(s) : x = s[k]
      BY <1>1 DEF Among
    <3>2. CASE k = 1
      BY <1>3, <3>1, <3>2
    <3>3. CASE k # 1
      <4>1. k - 1 \in 1 .. (Len(s) - 1) /\ (k - 1) + 1 = k
        BY <1>1, <3>3
      <4>2. Tail(s)[k - 1] = x
        BY <1>2, <3>1, <4>1
      <4>3. QED
        BY <1>2, <4>1, <4>2 DEF Among
    <3>4. QED
      BY <3>2, <3>3
  <2>2. ASSUME NEW x \in Among(Tail(s)) PROVE x \in Among(s)
    <3>1. PICK k \in 1 .. (Len(s) - 1) : x = Tail(s)[k]
      BY <1>2 DEF Among
    <3>2. x = s[k + 1] /\ k + 1 \in 1 .. Len(s)
      BY <1>1, <1>2, <3>1
    <3>3. QED
      BY <1>1, <3>2 DEF Among
  <2>3. Head(s) \in Among(s)
    BY <1>1, <1>3 DEF Among
  <2>4. QED
    BY <2>1, <2>2, <2>3
<1>5. Tail(s) = <<>> => Among(Tail(s)) = {}
  BY DEF Among
<1>6. QED
  BY <1>4, <1>5

\* A step of the loop that has done its image, and leaves the others and the
\* files alone.
LEMMA LoopDone ==
  ASSUME TypeInv, AddInv, txn.pc \in {"install", "link", "vacuum"}, UNCHANGED files,
         NextImage("install", "refresh"),
         staged'[Img] # {}, link'[Img] = Newest(staged'[Img]),
         \A i \in Images \ {Img} : staged'[i] = staged[i] /\ link'[i] = link[i]
  PROVE  AddInv'
<1>1. /\ txn.todo \in Seq(Images) /\ txn.todo # <<>> /\ Img \in Images /\ Img = Head(txn.todo)
  BY ImgType DEF ImageLabels
<1>2. /\ txn'.pc = IF Tail(txn.todo) = <<>> THEN "refresh" ELSE "install"
      /\ txn'.todo = Tail(txn.todo) /\ txn'.repo = txn.repo /\ txn'.rev = txn.rev
  BY DEF NextImage, TypeInv, TxnOK, Txn
<1>3. Comp \in Components /\ Comp' = Comp /\ Repo' = Repo /\ OwnConf' = OwnConf
  BY <1>2, CompType DEF Comp, Repo, OwnConf
<1>4. ASSUME NEW i \in Among(ImagesIn[Comp])
      PROVE  (txn'.pc # "refresh" /\ i \in Among(txn'.todo)) \/ Done(i)'
  <2>1. i \in Images
    <3>1. ImagesIn[Comp] \in Seq(Images)
      BY <1>3, CatalogAssumption
    <3>2. QED
      BY <3>1 DEF Among
  <2>2. CASE i \in Among(txn.todo)
    <3>1. i = Img \/ (i \in Among(Tail(txn.todo)) /\ Tail(txn.todo) # <<>>)
      BY <1>1, <2>2, AmongTail
    <3>2. CASE i = Img
      BY <3>2 DEF Done
    <3>3. QED
      BY <1>2, <3>1, <3>2
  <2>3. CASE i \notin Among(txn.todo)
    <3>1. Done(i) /\ i # Img
      BY <1>1, <2>3, AmongTail DEF AddInv
    <3>2. QED
      BY <2>1, <3>1 DEF Done
  <2>4. QED
    BY <2>2, <2>3
<1>5. UNCHANGED <<transfer, feature, dropin>>
  BY DEF files
<1>6. txn'.pc \in {"install", "refresh"}
  BY <1>2
<1>7. AddIsComplete'
  BY <1>6 DEF AddIsComplete, Ended, At
<1>8. QED
  BY <1>3, <1>4, <1>5, <1>6, <1>7 DEF AddInv, AddLabels, RemoveLabels

\* Every step of an add, or of its rollback, keeps it.
LEMMA AddCompletes ==
  ASSUME TypeInv, AddInv, AddStep
  PROVE  AddInv'
<1>1. /\ Comp' = Comp /\ Comp \in Components /\ Repo' = Repo /\ txn'.op = txn.op
      /\ txn.pc \in TxnLabels
  BY RunningSame, AddRuns
<1>2. /\ transfer \in [Components -> File] /\ feature \in [Components -> File]
      /\ dropin \in [Components -> DropInStates] /\ txn \in Txn
      /\ staged \in [Images -> SUBSET Versions] /\ link \in [Images -> VersionOrNone]
  BY DEF TypeInv, FilesOK, DirsOK, TxnOK
<1>3. \A i \in Among(ImagesIn[Comp]) : i \in Images
  <2>1. ImagesIn[Comp] \in Seq(Images)
    BY <1>1, CatalogAssumption
  <2>2. QED
    BY <2>1 DEF Among
<1>4. ASSUME txn'.pc \in UndoLabels
      PROVE  AddInv'
  BY <1>4 DEF AddInv, AddIsComplete, Ended, At, AddLabels, UndoLabels, RemoveLabels
<1>5. ASSUME NEW l \in Labels, Goto(l)
      PROVE  /\ txn'.pc = l /\ txn'.todo = txn.todo /\ OwnConf' = OwnConf /\ Img' = Img
             /\ l # "idle" => AddIsComplete'
  BY <1>2, <1>5 DEF Goto, Txn, OwnConf, Repo, Img, AddIsComplete, Ended, At
<1>6. CASE WriteTransfer
  <2>1. Goto("feature") /\ txn.pc = "transfer"
    BY <1>6 DEF WriteTransfer, At
  <2>2. txn'.pc = "feature" /\ OwnConf' = OwnConf /\ AddIsComplete'
    BY <1>5, <2>1 DEF Labels, AddLabels
  <2>3. transfer'[Comp] = OwnConf
    BY <1>1, <1>2, <1>6 DEF WriteTransfer, OwnConf
  <2>4. QED
    BY <1>1, <2>2, <2>3 DEF AddInv, AddLabels, RemoveLabels
<1>7. CASE WriteFeature
  <2>1. Goto("snapshot") /\ txn.pc = "feature" /\ transfer' = transfer
    BY <1>7 DEF WriteFeature, At
  <2>2. txn'.pc = "snapshot" /\ OwnConf' = OwnConf /\ AddIsComplete'
    BY <1>5, <2>1 DEF Labels, AddLabels
  <2>3. feature'[Comp] = OwnConf
    BY <1>1, <1>2, <1>7 DEF WriteFeature, OwnConf
  <2>4. QED
    BY <1>1, <2>1, <2>2, <2>3 DEF AddInv, AddLabels, RemoveLabels
<1>8. CASE SnapshotManagedState
  <2>1. /\ txn.pc = "snapshot" /\ txn'.pc = "dropin" /\ OwnConf' = OwnConf
        /\ UNCHANGED <<transfer, feature>>
    BY <1>1, <1>2, <1>8 DEF SnapshotManagedState, At, Txn, OwnConf, world, files
  <2>2. AddIsComplete'
    BY <2>1 DEF AddIsComplete, Ended, At
  <2>3. QED
    BY <1>1, <2>1, <2>2 DEF AddInv, AddLabels, RemoveLabels
<1>9. CASE EnableDropIn
  <2>1. CASE Undo
    <3>1. txn'.pc \in {"undoNew", "undoDropIn"}
      BY <1>2, <2>1 DEF Undo, Goto, Txn
    <3>2. QED
      BY <1>4, <3>1 DEF UndoLabels
  <2>2. CASE /\ dropin' = [dropin EXCEPT ![Comp] = "enabled"]
             /\ txn' = [txn EXCEPT !.pc = "install", !.todo = ImagesIn[Comp]]
    <3>1. /\ txn.pc = "dropin" /\ txn'.pc = "install" /\ txn'.todo = ImagesIn[Comp]
          /\ OwnConf' = OwnConf /\ dropin'[Comp] = "enabled" /\ UNCHANGED <<transfer, feature>>
      BY <1>1, <1>2, <1>9, <2>2 DEF EnableDropIn, At, Txn, OwnConf
    <3>2. AddIsComplete'
      BY <3>1 DEF AddIsComplete, Ended, At
    <3>3. QED
      BY <1>1, <3>1, <3>2 DEF AddInv, AddLabels, RemoveLabels
  <2>3. QED
    BY <1>9, <2>1, <2>2 DEF EnableDropIn
<1>10. CASE Select
  <2>1. txn.pc = "install" /\ UNCHANGED <<transfer, feature, dropin, linked, staged, link>>
    BY <1>10 DEF Select, At, world, files, dirs
  <2>2. Img \in Images /\ offered[Img] \in VersionOrNone /\ staged[Img] \in SUBSET Versions
    BY <1>2, <2>1, ImgType DEF ImageLabels, TypeInv, RestOK
  <2>3. CASE /\ UpToDate(offered[Img], staged[Img], NoVersion)
             /\ LinkIsCurrent(link[Img], staged[Img])
             /\ NextImage("install", "refresh")
    <3>1. staged'[Img] # {} /\ link'[Img] = Newest(staged'[Img])
      BY <2>1, <2>3 DEF UpToDate, LinkIsCurrent
    <3>2. QED
      BY <2>1, <2>3, <3>1, LoopDone DEF files
  <2>4. ASSUME NEW v, NEW fresh, NEW l \in {"link", "download"},
               txn' = [txn EXCEPT !.target = v, !.fresh = fresh, !.pc = l]
        PROVE  AddInv'
    <3>1. txn'.pc = l /\ txn'.todo = txn.todo /\ OwnConf' = OwnConf
      BY <1>1, <1>2, <2>4 DEF Txn, OwnConf
    <3>2. AddIsComplete'
      BY <3>1 DEF AddIsComplete, Ended, At
    <3>3. QED
      BY <1>1, <2>1, <3>1, <3>2 DEF AddInv, Done, AddLabels, RemoveLabels
  <2>5. QED
    <3>1. CASE /\ UpToDate(offered[Img], staged[Img], NoVersion)
               /\ LinkIsCurrent(link[Img], staged[Img])
      BY <1>10, <2>3, <3>1 DEF Select
    <3>2. CASE ~(/\ UpToDate(offered[Img], staged[Img], NoVersion)
                 /\ LinkIsCurrent(link[Img], staged[Img]))
      <4>1. txn' = [txn EXCEPT !.target = offered[Img],
                      !.fresh = UpToDate(offered[Img], staged[Img], NoVersion),
                      !.pc = IF UpToDate(offered[Img], staged[Img], NoVersion)
                             THEN "link" ELSE "download"]
        BY <1>10, <3>2 DEF Select
      <4>2. QED
        BY <2>4, <4>1
    <3>3. QED
      BY <3>1, <3>2
<1>11. CASE Download
  <2>1. /\ txn.pc = "download" /\ UNCHANGED <<transfer, feature, dropin, link>>
        /\ Goto("link") /\ \A i \in Images \ {Img} : staged'[i] = staged[i]
    BY <1>2, <1>11 DEF Download, At, files
  <2>2. txn'.pc = "link" /\ txn'.todo = txn.todo /\ OwnConf' = OwnConf /\ AddIsComplete'
    BY <1>5, <2>1 DEF Labels, AddLabels
  <2>3. Img \in Among(txn.todo)
    BY <2>1, ImgType, AmongTail DEF ImageLabels
  <2>4. QED
    BY <1>1, <1>3, <2>1, <2>2, <2>3 DEF AddInv, Done, AddLabels, RemoveLabels
<1>12. CASE LinkImage
  <2>1. /\ txn.pc = "link" /\ UNCHANGED <<files, staged>> /\ Img \in Images
        /\ staged[Img] # {} /\ link'[Img] = Newest(staged[Img])
        /\ \A i \in Images \ {Img} : link'[i] = link[i]
    <3>1. txn.pc = "link" /\ Img \in Images /\ Img = Head(txn.todo)
      BY <1>12, ImgType DEF LinkImage, At, ImageLabels
    <3>2. staged[Img] # {}
      BY <3>1 DEF TypeInv, TxnOK
    <3>3. QED
      BY <1>2, <1>12, <3>1, <3>2 DEF LinkImage
  <2>2. CASE NextImage("install", "refresh")
    BY <2>1, <2>2, LoopDone
  <2>3. CASE Goto("vacuum")
    <3>1. /\ txn'.pc = "vacuum" /\ txn'.todo = txn.todo /\ OwnConf' = OwnConf /\ Img' = Img
          /\ AddIsComplete'
      BY <1>5, <2>3 DEF Labels, AddLabels
    <3>2. UNCHANGED <<transfer, feature, dropin>> /\ Done(Img)'
      BY <2>1, <3>1 DEF Done, files
    <3>3. Img \in Among(txn.todo)
      BY <2>1, ImgType, AmongTail DEF ImageLabels
    <3>4. QED
      BY <1>1, <1>3, <2>1, <3>1, <3>2, <3>3 DEF AddInv, Done, AddLabels, RemoveLabels
  <2>4. QED
    BY <1>12, <2>2, <2>3 DEF LinkImage
<1>13. CASE Vacuum
  <2>. DEFINE doomed == VacuumRemoves(staged[Img], NoVersion, NoVersion, InstancesMax[Img])
  <2>1. /\ txn.pc = "vacuum" /\ UNCHANGED <<files, link>> /\ Img \in Images
        /\ staged[Img] \in SUBSET Versions /\ InstancesMax[Img] \in Int
        /\ staged[Img] # {} /\ link[Img] = Newest(staged[Img])
        /\ NextImage("install", "refresh")
    BY <1>2, <1>13, ImgType, CatalogAssumption DEF Vacuum, At, AddInv, Done, ImageLabels
  <2>2. PICK gone \in SUBSET doomed : staged' = [staged EXCEPT ![Img] = @ \ gone]
    <3>1. CASE staged' = [staged EXCEPT ![Img] = @ \ doomed]
      BY <3>1
    <3>2. CASE \E v \in doomed : staged' = [staged EXCEPT ![Img] = @ \ {w \in doomed : w > v}]
      BY <3>2
    <3>3. QED
      BY <1>13, <3>1, <3>2 DEF Vacuum
  <2>3. Newest(staged[Img]) \notin gone
    BY <2>1, <2>2, NewestIsKept
  <2>4. /\ staged'[Img] # {} /\ Newest(staged'[Img]) = Newest(staged[Img])
        /\ \A i \in Images \ {Img} : staged'[i] = staged[i]
    <3>1. staged'[Img] = staged[Img] \ gone /\ \A i \in Images \ {Img} : staged'[i] = staged[i]
      BY <1>2, <2>1, <2>2
    <3>2. QED
      BY <2>1, <2>3, <3>1, NewestSurvives
  <2>5. QED
    BY <2>1, <2>4, LoopDone
<1>14. CASE RefreshAdded
  <2>1. /\ txn.pc = "refresh" /\ txn'.pc = "idle" /\ txn'.refresh = txn.refresh
        /\ OwnConf' = OwnConf /\ UNCHANGED <<transfer, feature, dropin, staged, link>>
        /\ merged' = IF txn.refresh THEN ServedNow ELSE merged
    BY <1>1, <1>2, <1>14 DEF RefreshAdded, Return, At, Txn, OwnConf, world, files, dirs
  <2>2. txn'.refresh => merged' = ServedNow'
    BY <2>1 DEF ServedNow
  <2>3. /\ transfer[Comp] = OwnConf /\ feature[Comp] = OwnConf /\ dropin[Comp] = "enabled"
        /\ \A i \in Among(ImagesIn[Comp]) : staged[i] # {} /\ link[i] = Newest(staged[i])
    BY <2>1 DEF AddInv, AddLabels, Done
  <2>4. AddIsComplete'
    BY <1>1, <2>1, <2>2, <2>3 DEF AddIsComplete, OwnConf
  <2>5. QED
    BY <2>1, <2>4 DEF AddInv, AddLabels, RemoveLabels
<1>15. CASE AddFails
  <2>1. txn'.pc \in {"undoNew", "undoDropIn"}
    BY <1>2, <1>15 DEF AddFails, Undo, Goto, Txn
  <2>2. QED
    BY <1>4, <2>1 DEF UndoLabels
<1>16. CASE UndoNewImages \/ UndoOldImages \/ UndoLink \/ UndoDropIn \/ UndoFeature \/ UndoTransfer
            \/ UndoFails
  <2>1. txn'.pc \in UndoLabels
    BY <1>2, <1>16
       DEF UndoNewImages, UndoOldImages, UndoLink, UndoDropIn, UndoFeature, UndoTransfer,
           UndoFails, Goto, Txn, UndoLabels
  <2>2. QED
    BY <1>4, <2>1
<1>17. CASE UndoDirs
  <2>1. txn'.pc = "idle" /\ txn'.res = "failed"
    BY <1>17, ReturnType DEF UndoDirs
  <2>2. QED
    BY <2>1 DEF AddInv, AddIsComplete, Ended, AddLabels, RemoveLabels
<1>18. QED
  BY <1>6, <1>7, <1>8, <1>9, <1>10, <1>11, <1>12, <1>13, <1>14, <1>15, <1>16, <1>17 DEF AddStep

\* A successful add leaves the conf of one catalog, enabled, its images staged,
\* linked at the newest and, unless told not to, merged: for any catalogs,
\* components, images, failures and commands.
THEOREM AddIsCompleteAlways == Spec => []AddIsComplete
<1>1. Init => AddInv
  BY DEF Init, AddInv, AddIsComplete, Ended, At, AddLabels, RemoveLabels
<1>2. TypeInv /\ AddInv /\ [Next]_vars => AddInv'
  <2>1. SUFFICES ASSUME TypeInv, AddInv, [Next]_vars PROVE AddInv'
    OBVIOUS
  <2>. USE DEF AddLabels, RemoveLabels
  <2>2. CASE AddStep
    BY <2>1, <2>2, AddCompletes
  <2>3. CASE RemoveStep
    <3>1. txn.pc \in RemoveLabels /\ txn'.op = txn.op /\ txn'.pc \in RemoveLabels \cup {"idle"}
      BY <2>1, <2>3, RemoveRuns, RunningSame, RunningLabels
    <3>2. txn'.op = "remove"
      BY <2>1, <3>1 DEF AddInv
    <3>3. QED
      BY <3>1, <3>2 DEF AddInv, AddIsComplete, Ended
  <2>4. ASSUME NEW asked, NEW force, NEW refresh,
               BeginAdd(asked, refresh) \/ BeginRemove(asked, force, refresh)
        PROVE  AddInv'
    <3>1. \/ txn'.pc = "idle" /\ txn'.res = "refused"
          \/ txn'.pc = "transfer" /\ txn'.op = "add"
          \/ txn'.pc = "check" /\ txn'.op = "remove"
      BY <2>1, <2>4, BeginStep
    <3>2. QED
      BY <3>1 DEF AddInv, AddIsComplete, Ended, At
  <2>5. CASE Crash
    <3>1. txn'.pc = "idle" /\ txn'.res = "crashed"
      BY <2>1, <2>5, ReturnType DEF Crash
    <3>2. QED
      BY <3>1 DEF AddInv, AddIsComplete, Ended
  <2>6. ASSUME NEW c \in Components, Edit(c)
        PROVE  AddInv'
    <3>1. txn'.pc = "idle" /\ txn'.op = "none"
      BY <2>1, <2>6 DEF Edit, At, TypeInv, TxnOK, Txn
    <3>2. QED
      BY <3>1 DEF AddInv, AddIsComplete, Ended
  <2>7. CASE Publish \/ UNCHANGED vars
    BY <2>1, <2>7
       DEF Publish, vars, world, files, dirs, AddInv, AddIsComplete, Ended, At, Comp, Repo, Img,
           OwnConf, Done, ServedNow
  <2>8. QED
    BY <2>1, <2>2, <2>3, <2>4, <2>5, <2>6, <2>7 DEF Next
<1>3. AddInv => AddIsComplete
  BY DEF AddInv
<1>4. QED
  BY <1>1, <1>2, <1>3, InitType, NextType, PTL DEF Spec

-----------------------------------------------------------------------------
\* A remove deletes its files in an order, and each stays deleted.
RemoveInv ==
    /\ txn.pc \in {"rmFeature", "rmDropIn"} => transfer[Comp] = Absent
    /\ txn.pc = "rmDropIn" => feature[Comp] = Absent
    /\ txn.pc \in TxnLabels => txn.op = "add"
    /\ Ended("remove", "ok") =>
         transfer[Comp] = Absent /\ feature[Comp] = Absent /\ dropin[Comp] = "absent"

\* Every step of a remove keeps it.
LEMMA RemoveCompletes ==
  ASSUME TypeInv, RemoveInv, RemoveStep
  PROVE  RemoveInv'
<1>1. /\ Comp' = Comp /\ Comp \in Components /\ txn.pc \in RemoveLabels
      /\ txn'.pc \in RemoveLabels \cup {"idle"}
  BY RunningSame, RemoveRuns, RunningLabels
<1>2. /\ transfer \in [Components -> File] /\ feature \in [Components -> File]
      /\ dropin \in [Components -> DropInStates] /\ txn \in Txn
  BY DEF TypeInv, FilesOK, TxnOK
<1>3. txn'.pc \notin TxnLabels
  BY <1>1 DEF TxnLabels, AddLabels, UndoLabels, RemoveLabels
<1>4. ASSUME txn'.pc \notin {"rmFeature", "rmDropIn"},
             txn'.pc = "idle" => txn'.res # "ok"
      PROVE  RemoveInv'
  BY <1>3, <1>4 DEF RemoveInv, Ended, At
<1>5. CASE CheckMerged \/ CheckBlind \/ RemoveFails
  <2>1. txn'.pc = "disable" \/ (txn'.pc = "idle" /\ txn'.res \in {"refused", "failed"})
    BY <1>2, <1>5 DEF CheckMerged, CheckBlind, RemoveFails, Goto, Return, Txn
  <2>2. QED
    BY <1>4, <2>1
<1>6. CASE DisableDropIn
  <2>1. CASE Return("failed")
    BY <1>4, <2>1, ReturnType
  <2>2. CASE txn' = [txn EXCEPT !.todo = Targets,
                       !.pc = IF Targets = <<>> THEN "rmTransfer" ELSE "unmerge"]
    <3>1. txn'.pc \in {"rmTransfer", "unmerge"}
      BY <1>2, <2>2 DEF Txn
    <3>2. QED
      BY <1>4, <3>1
  <2>3. QED
    BY <1>6, <2>1, <2>2 DEF DisableDropIn
<1>7. CASE Unmerge \/ Unlink \/ Remerge
  <2>1. txn'.pc \in {"unlink", "purge", "rmTransfer"}
    BY <1>2, <1>7 DEF Unmerge, Unlink, Remerge, Goto, Txn
  <2>2. QED
    BY <1>4, <2>1
<1>8. CASE Purge
  <2>1. \/ txn'.pc \in {"unlink", "remerge"}
        \/ txn'.pc = "idle" /\ txn'.res = "failed"
    BY <1>2, <1>8 DEF Purge, NextImage, Return, Txn
  <2>2. QED
    BY <1>4, <2>1
<1>9. CASE RemoveTransfer
  <2>1. txn'.pc = "rmFeature" /\ transfer'[Comp] = Absent
    BY <1>1, <1>2, <1>9 DEF RemoveTransfer, Goto, Txn
  <2>2. QED
    BY <1>1, <1>3, <2>1 DEF RemoveInv, Ended, At
<1>10. CASE RemoveFeature
  <2>1. txn.pc = "rmFeature" /\ txn'.pc = "rmDropIn" /\ feature'[Comp] = Absent /\ transfer' = transfer
    BY <1>1, <1>2, <1>10 DEF RemoveFeature, At, Goto, Txn
  <2>2. QED
    BY <1>1, <1>3, <2>1 DEF RemoveInv, Ended, At
<1>11. CASE RemoveDropIn
  <2>1. /\ txn.pc = "rmDropIn" /\ txn'.pc = "idle" /\ dropin'[Comp] = "absent"
        /\ UNCHANGED <<transfer, feature>>
    BY <1>1, <1>2, <1>11 DEF RemoveDropIn, At, Return, Txn
  <2>2. QED
    BY <1>1, <1>3, <2>1 DEF RemoveInv, Ended, At
<1>12. QED
  BY <1>5, <1>6, <1>7, <1>8, <1>9, <1>10, <1>11 DEF RemoveStep

\* A successful remove leaves no file of the add, and no image of the name is
\* served unless another transfer manages it or a rollback could not restore:
\* also after commands that were killed, under the assumptions of
\* FailedAddRestoresAlways.
THEOREM RemoveIsCompleteAlways ==
  ASSUME LinkedDropIns = {}, \A c \in Components : ImagesIn[c] = <<main>>
  PROVE  Spec => []RemoveIsComplete
<1>1. Init => RemoveInv
  BY DEF Init, RemoveInv, Ended, TxnLabels, AddLabels, UndoLabels
<1>2. TypeInv /\ RemoveInv /\ [Next]_vars => RemoveInv'
  <2>1. SUFFICES ASSUME TypeInv, RemoveInv, [Next]_vars PROVE RemoveInv'
    OBVIOUS
  <2>. USE DEF TxnLabels, AddLabels, UndoLabels
  <2>2. CASE AddStep
    <3>1. txn.pc \in TxnLabels /\ txn'.op = txn.op /\ txn'.pc \in TxnLabels \cup {"idle"}
      BY <2>1, <2>2, AddRuns, RunningSame, RunningLabels
    <3>2. txn'.op = "add"
      BY <2>1, <3>1 DEF RemoveInv
    <3>3. QED
      BY <3>1, <3>2 DEF RemoveInv, Ended
  <2>3. CASE RemoveStep
    BY <2>1, <2>3, RemoveCompletes
  <2>4. ASSUME NEW asked, NEW force, NEW refresh,
               BeginAdd(asked, refresh) \/ BeginRemove(asked, force, refresh)
        PROVE  RemoveInv'
    <3>1. \/ txn'.pc = "idle" /\ txn'.res = "refused"
          \/ txn'.pc = "transfer" /\ txn'.op = "add"
          \/ txn'.pc = "check" /\ txn'.op = "remove"
      BY <2>1, <2>4, BeginStep
    <3>2. QED
      BY <3>1 DEF RemoveInv, Ended, At
  <2>5. CASE Crash
    <3>1. txn'.pc = "idle" /\ txn'.res = "crashed"
      BY <2>1, <2>5, ReturnType DEF Crash
    <3>2. QED
      BY <3>1 DEF RemoveInv, Ended
  <2>6. ASSUME NEW c \in Components, Edit(c)
        PROVE  RemoveInv'
    <3>1. txn'.pc = "idle" /\ txn'.op = "none"
      BY <2>1, <2>6 DEF Edit, At, TypeInv, TxnOK, Txn
    <3>2. QED
      BY <3>1 DEF RemoveInv, Ended
  <2>7. CASE Publish \/ UNCHANGED vars
    BY <2>1, <2>7 DEF Publish, vars, world, files, RemoveInv, Ended, At, Comp
  <2>8. QED
    BY <2>1, <2>2, <2>3, <2>4, <2>5, <2>6, <2>7 DEF Next
<1>3. RemoveInv /\ ImagesAreManaged => RemoveIsComplete
  BY CatalogAssumption DEF RemoveInv, ImagesAreManaged, RemoveIsComplete, ServedNow, Served
<1>4. Spec => []ImagesAreManaged
  BY ImagesAreManagedAlways
<1>5. QED
  BY <1>1, <1>2, <1>3, <1>4, InitType, NextType, PTL DEF Spec
=============================================================================
