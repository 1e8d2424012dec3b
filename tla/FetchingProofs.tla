---------------------------- MODULE FetchingProofs ----------------------------
(***************************************************************************)
(* What a run installs and remembers, for any sources, transfers, builds, *)
(* orders, publications, failures and numbers of runs.                     *)
(***************************************************************************)
EXTENDS Fetching, TLAPS

-----------------------------------------------------------------------------
\* The inductive invariant.

\* The labels at which a run holds a manifest, and at which it has accepted it.
Accepted == {"select", "temp", "body", "unpack", "rename", "copy"}
Holding == Accepted \cup {"sig"}

\* Signatures are of signed builds, and what is cached as verified is signed.
SourceInv ==
    /\ \A s \in Sources : pub[s].sig = NoBuild \/ pub[s].sig \in Signed
    /\ \A s \in Sources :
         cache[s] = NoManifest
           \/ /\ cache[s].build \in Builds
              /\ cache[s].verified => cache[s].build \in Signed

\* The manifest a run goes by is one that was published, and one that was
\* verified if the transfer requires it.
RunInv ==
    /\ run.pc \in Holding => run.m.build \in Builds
    /\ run.m.verified => run.m.build \in Signed
    /\ run.pc \in Accepted /\ T \in NeedVerify => run.m.verified

\* What is in the temporary files when they are used.
TempInv ==
    /\ run.pc \notin {"body", "unpack", "rename", "copy"} => temp = NoTemps
    /\ At("body") => temp["download"].build = run.m.build
    /\ At("unpack") => T \in Compressed
    /\ At("rename") => Ready = [build |-> run.m.build, state |-> "disk"]
    /\ At("copy") => temp["copy"].build = run.m.build

TargetInv == VerifiedMeansSigned /\ TargetIsWhole

Inv == TypeOK /\ SourceInv /\ RunInv /\ TempInv /\ TargetInv

-----------------------------------------------------------------------------
\* Types.

LEMMA ConstantFacts ==
    /\ Builds \subseteq Nat /\ NoBuild \notin Builds
    /\ Builds \subseteq 0 .. MaxBuild /\ NoBuild \in 0 .. MaxBuild
    /\ \A b \in Builds : VersionOf[b] \in Versions
    /\ 1 \in 1 .. MaxAttempts
    /\ NoManifest \in Manifest
    /\ NoFile \in File
    /\ NoTemps \in [Temps -> File]
  BY FetchingAssumption DEF Builds, NoBuild, Versions, NoManifest, Manifest,
     NoFile, File, NoTemps

LEMMA TType ==
    ASSUME TypeOK, run.i <= Len(run.order)
    PROVE  run.i \in DOMAIN run.order /\ T \in Transfers /\ S \in Sources
<1>1. run.i \in Nat \ {0} /\ run.order \in Seq(Transfers)
  BY FetchingAssumption DEF TypeOK, Run
<1>2. run.i \in DOMAIN run.order /\ T \in Transfers
  BY <1>1 DEF T
<1>3. QED
  BY <1>2, FetchingAssumption DEF S

LEMMA BusyType ==
    ASSUME TypeOK, run.pc \notin {"idle", "next"}
    PROVE  T \in Transfers /\ S \in Sources
<1>1. run.i \in DOMAIN run.order /\ run.order \in Seq(Transfers)
  BY FetchingAssumption DEF TypeOK, Run
<1>2. T \in Transfers
  BY <1>1 DEF T
<1>3. QED
  BY <1>2, FetchingAssumption DEF S

LEMMA AdvanceType ==
    ASSUME NEW r \in Run, Advance(r)
    PROVE  run' \in Run /\ run'.pc = "next" /\ run'.m = NoManifest
<1>1. r.i + 1 \in Nat \ {0} /\ "next" \in Labels
  BY DEF Run, Labels
<1>2. QED
  BY <1>1, ConstantFacts DEF Advance, Run

LEMMA GiveUpType ==
    ASSUME TypeOK, GiveUp \/ GiveUpDisturbed
    PROVE  run' \in Run /\ run'.pc = "next" /\ run'.m = NoManifest
<1>1. /\ [run EXCEPT !.failed = TRUE] \in Run
      /\ [run EXCEPT !.failed = TRUE, !.calm = FALSE] \in Run
  BY DEF TypeOK, Run
<1>2. QED
  BY <1>1, AdvanceType DEF GiveUp, GiveUpDisturbed

LEMMA RetryType ==
    ASSUME TypeOK, run.pc \in Requesting
    PROVE  /\ Retry(run) \in Run
           /\ Retry(run).pc = IF run.pc = "body" THEN "temp" ELSE run.pc
           /\ Retry(run).m = run.m /\ Retry(run).i = run.i
           /\ Retry(run).order = run.order /\ Retry(run).used = run.used
           /\ Retry(run).attempt = run.attempt /\ Retry(run).failed = run.failed
           /\ Retry(run).cancelled = run.cancelled
           /\ Retry(run).calm => /\ run.calm /\ run.hits + 1 < MaxAttempts
                                 /\ Retry(run).hits = run.hits + 1
<1>. DEFINE pc == IF run.pc = "body" THEN "temp" ELSE run.pc
            hits == IF run.hits < MaxAttempts THEN run.hits + 1 ELSE run.hits
            calm == run.calm /\ run.hits + 1 < MaxAttempts
<1>1. run \in Run
  BY DEF TypeOK
<1>2. pc \in Labels /\ calm \in BOOLEAN
  BY <1>1 DEF Run, Labels
<1>3. hits \in 0 .. MaxAttempts
  BY <1>1, FetchingAssumption DEF Run
<1>4. Retry(run) = [run EXCEPT !.pc = pc, !.hits = hits, !.calm = calm]
  BY <1>1 DEF Retry, Run
<1>. HIDE DEF pc, hits, calm
<1>5. /\ Retry(run) \in Run
      /\ Retry(run).pc = pc
      /\ Retry(run).m = run.m /\ Retry(run).i = run.i
      /\ Retry(run).order = run.order /\ Retry(run).used = run.used
      /\ Retry(run).attempt = run.attempt /\ Retry(run).failed = run.failed
      /\ Retry(run).cancelled = run.cancelled
      /\ Retry(run).calm = calm /\ Retry(run).hits = hits
  BY <1>1, <1>2, <1>3, <1>4 DEF Run
<1>6. calm => run.calm /\ run.hits + 1 < MaxAttempts /\ hits = run.hits + 1
  BY <1>1, FetchingAssumption DEF calm, hits, Run
<1>7. QED
  BY <1>5, <1>6 DEF pc

LEMMA SucceedType ==
    ASSUME TypeOK, run.pc \notin {"idle", "next"}, Succeed
    PROVE  /\ run' \in Run /\ run'.pc = "next" /\ run'.m = NoManifest
           /\ cache' = [cache EXCEPT ![S] = run.m]
           /\ cache' \in [Sources -> Manifest]
<1>1. T \in Transfers /\ S \in Sources
  BY BusyType
<1>2. run.m \in Manifest /\ run.m.build \in 0 .. MaxBuild
  BY DEF TypeOK, Run, Manifest
<1>3. [run EXCEPT !.used[T] = run.m.build] \in Run
  BY <1>1, <1>2 DEF TypeOK, Run
<1>4. QED
  BY <1>1, <1>2, <1>3, AdvanceType DEF Succeed, TypeOK

LEMMA FaultType ==
    ASSUME TypeOK, NEW k, Fault(k)
    PROVE  faults' \in 0 .. MaxFaults
  BY FetchingAssumption DEF TypeOK, Fault

-----------------------------------------------------------------------------
\* Ways for a step to end, each of which keeps the invariant.

\* No label at which the run holds a manifest or a temporary file.
LEMMA RestKeeps ==
    ASSUME Inv, run' \in Run, run'.pc \in {"idle", "next", "sums"},
           run'.pc = "sums" => run'.i \in DOMAIN run'.order,
           run'.m.verified => run'.m.build \in Signed,
           temp' = NoTemps, UNCHANGED <<pub, target, cache>>, debris' \in BOOLEAN,
           faults' \in 0 .. MaxFaults, runs' \in 0 .. MaxRuns
    PROVE  Inv'
<1>1. TypeOK'
  BY ConstantFacts DEF Inv, TypeOK
<1>2. SourceInv' /\ TargetInv'
  BY DEF Inv, SourceInv, TargetInv, VerifiedMeansSigned, TargetIsWhole
<1>3. RunInv'
  BY DEF RunInv, Holding, Accepted
<1>4. TempInv'
  BY DEF TempInv, At
<1>5. QED
  BY <1>1, <1>2, <1>3, <1>4 DEF Inv

LEMMA GiveUpKeeps ==
    ASSUME Inv, run' \in Run, run'.pc = "next", run'.m = NoManifest,
           temp' = NoTemps, UNCHANGED <<pub, target, debris, cache>>,
           faults' \in 0 .. MaxFaults, runs' \in 0 .. MaxRuns
    PROVE  Inv'
<1>1. debris' \in BOOLEAN
  BY DEF Inv, TypeOK
<1>2. QED
  BY <1>1, RestKeeps DEF NoManifest

\* A transfer succeeds: its image, if it has a new one, is whole and signed.
LEMMA SucceedKeeps ==
    ASSUME Inv, run.pc \in Accepted, Succeed, temp' = NoTemps,
           UNCHANGED <<pub, debris, faults, runs>>,
           \/ target' = target
           \/ target' = [target EXCEPT ![T][V] =
                           [build |-> run.m.build, state |-> "disk"]]
    PROVE  Inv'
<1>0. TypeOK /\ run.pc \notin {"idle", "next"}
  BY DEF Inv, Accepted
<1>1. T \in Transfers /\ S \in Sources
  BY <1>0, BusyType
<1>2. /\ run' \in Run /\ run'.pc = "next" /\ run'.m = NoManifest
      /\ cache' = [cache EXCEPT ![S] = run.m]
      /\ cache' \in [Sources -> Manifest]
  BY <1>0, SucceedType
<1>3. /\ run.m.build \in Builds /\ V \in Versions
      /\ run.m.verified => run.m.build \in Signed
      /\ T \in NeedVerify => run.m.build \in Signed
  BY ConstantFacts DEF Inv, RunInv, Holding, V
<1>4. TargetInv' /\ target' \in [Transfers -> [Versions -> File]]
  <2>1. CASE target' = target
    BY <2>1 DEF Inv, TypeOK, TargetInv, VerifiedMeansSigned, TargetIsWhole
  <2>2. CASE target' = [target EXCEPT ![T][V] =
                          [build |-> run.m.build, state |-> "disk"]]
    <3>. DEFINE new == [build |-> run.m.build, state |-> "disk"]
    <3>1. new \in File /\ new.build = run.m.build /\ new.state = "disk"
      BY <1>3 DEF File
    <3>. HIDE DEF new
    <3>2. target \in [Transfers -> [Versions -> File]]
      BY DEF Inv, TypeOK
    <3>3. target' \in [Transfers -> [Versions -> File]]
      BY <1>1, <1>3, <2>2, <3>1, <3>2 DEF new
    <3>4. \A t \in Transfers : \A v \in Versions :
            target'[t][v] = IF t = T /\ v = V THEN new ELSE target[t][v]
      BY <1>1, <1>3, <2>2, <3>2 DEF new
    <3>5. TargetIsWhole'
      BY <1>3, <3>1, <3>4 DEF Inv, TargetInv, TargetIsWhole, V
    <3>6. NeedVerify \subseteq Transfers
      BY FetchingAssumption
    <3>7. VerifiedMeansSigned'
      BY <1>3, <3>1, <3>4, <3>6 DEF Inv, TargetInv, VerifiedMeansSigned
    <3>8. QED
      BY <3>3, <3>5, <3>7 DEF TargetInv
  <2>3. QED
    BY <2>1, <2>2
<1>5. TypeOK'
  BY <1>0, <1>2, <1>4, ConstantFacts DEF TypeOK
<1>6. SourceInv'
  BY <1>1, <1>2, <1>3 DEF Inv, TypeOK, SourceInv
<1>7. RunInv'
  BY <1>2 DEF RunInv, Holding, Accepted, NoManifest
<1>8. TempInv'
  BY <1>2 DEF TempInv, At
<1>9. QED
  BY <1>4, <1>5, <1>6, <1>7, <1>8 DEF Inv

\* A step that changes the run and the temporary files only, and goes on with
\* the transfer at hand.
LEMMA GoOnKeeps ==
    ASSUME Inv, run' \in Run, run'.i \in DOMAIN run'.order, RunInv', TempInv',
           temp' \in [Temps -> File], UNCHANGED <<pub, target, debris, cache>>,
           faults' \in 0 .. MaxFaults, runs' \in 0 .. MaxRuns
    PROVE  Inv'
<1>1. TypeOK'
  BY DEF Inv, TypeOK
<1>2. SourceInv' /\ TargetInv'
  BY DEF Inv, SourceInv, TargetInv, VerifiedMeansSigned, TargetIsWhole
<1>3. QED
  BY <1>1, <1>2 DEF Inv

LEMMA GotoType ==
    ASSUME TypeOK, NEW l \in Labels, Goto(l)
    PROVE  /\ run' \in Run /\ run'.pc = l /\ run'.m = run.m
           /\ run'.i = run.i /\ run'.order = run.order
  BY ConstantFacts DEF TypeOK, Run, Goto

\* The transfer at hand stays the transfer at hand.
LEMMA SameTransfer ==
    ASSUME run'.i = run.i, run'.order = run.order
    PROVE  T' = T
  BY DEF T

-----------------------------------------------------------------------------
\* The steps of a run.

LEMMA LocalSteps ==
    ASSUME Inv, End \/ Choose \/ Cancel
    PROVE  Inv'
<1>0. TypeOK /\ run \in Run /\ faults \in 0 .. MaxFaults /\ runs \in 0 .. MaxRuns
  BY DEF Inv, TypeOK
<1>1. CASE End
  <2>1. /\ run' \in Run /\ run'.pc = "idle" /\ run'.m = run.m
        /\ temp' = NoTemps
    BY <1>0, <1>1 DEF End, Run, Labels, Inv, TempInv, At
  <2>2. QED
    BY <1>0, <1>1, <2>1, RestKeeps DEF End, Inv, TypeOK, RunInv
<1>2. CASE Choose
  <2>. DEFINE usable == cache[S] # NoManifest /\ (T \in NeedVerify => cache[S].verified)
  <2>1. run.i \in DOMAIN run.order /\ T \in Transfers /\ S \in Sources
    BY <1>0, <1>2, TType DEF Choose
  <2>2. /\ run' = [run EXCEPT !.pc = IF usable THEN "select" ELSE "sums",
                              !.m = IF usable THEN cache[S] ELSE NoManifest]
        /\ UNCHANGED <<pub, target, temp, debris, cache, faults, runs>>
    BY <1>2 DEF Choose
  <2>3. temp = NoTemps
    BY <1>2 DEF Choose, Inv, TempInv, At
  <2>4. cache[S] \in Manifest
    BY <1>0, <2>1 DEF TypeOK
  <2>5. CASE usable
    <3>1. /\ run' \in Run /\ run'.pc = "select" /\ run'.m = cache[S]
          /\ run'.i = run.i /\ run'.order = run.order
      BY <1>0, <2>2, <2>4, <2>5 DEF Run, Labels
    <3>2. /\ cache[S].build \in Builds
          /\ cache[S].verified => cache[S].build \in Signed
      BY <2>1, <2>5 DEF Inv, SourceInv
    <3>3. RunInv'
      BY <2>5, <3>1, <3>2, SameTransfer DEF RunInv
    <3>4. TempInv'
      BY <2>2, <2>3, <3>1 DEF TempInv, At
    <3>5. QED
      BY <1>0, <2>1, <2>2, <2>3, <3>1, <3>3, <3>4, GoOnKeeps, ConstantFacts
  <2>6. CASE ~usable
    <3>1. /\ run' \in Run /\ run'.pc = "sums" /\ run'.m = NoManifest
          /\ run'.i = run.i /\ run'.order = run.order
      BY <1>0, <2>2, <2>6, ConstantFacts DEF Run, Labels
    <3>2. QED
      BY <1>0, <2>1, <2>2, <2>3, <3>1, RestKeeps DEF NoManifest, TypeOK
  <2>7. QED
    BY <2>5, <2>6
<1>3. CASE Cancel
  <2>1. /\ run' \in Run /\ run'.pc = run.pc /\ run'.m = run.m
        /\ run'.i = run.i /\ run'.order = run.order
    BY <1>0, <1>3 DEF Cancel, Run
  <2>2. faults' \in 0 .. MaxFaults
    BY <1>0, <1>3, FaultType DEF Cancel
  <2>3. TypeOK'
    BY <1>0, <1>3, <2>1, <2>2 DEF Cancel, TypeOK
  <2>4. UNCHANGED <<pub, target, temp, debris, cache, runs>>
    BY <1>3 DEF Cancel
  <2>5. SourceInv' /\ TargetInv'
    BY <2>4 DEF Inv, SourceInv, TargetInv, VerifiedMeansSigned, TargetIsWhole
  <2>6. T' = T /\ Ready' = Ready
    BY <2>1, <2>4, SameTransfer DEF Ready
  <2>7. RunInv' /\ TempInv'
    BY <2>1, <2>4, <2>6 DEF Inv, RunInv, TempInv, At
  <2>8. QED
    BY <2>3, <2>5, <2>7 DEF Inv
<1>4. QED
  BY <1>1, <1>2, <1>3

LEMMA RequestSteps ==
    ASSUME Inv, \/ GetSums \/ GetSig \/ KeyringFails \/ Transient \/ RequestFails
    PROVE  Inv'
<1>0. TypeOK /\ run \in Run /\ faults \in 0 .. MaxFaults /\ runs \in 0 .. MaxRuns
  BY DEF Inv, TypeOK
<1>1. run.pc \in Requesting
  BY DEF GetSums, GetSig, KeyringFails, Transient, RequestFails, At, Requesting
<1>2. /\ T \in Transfers /\ S \in Sources
      /\ run.i \in DOMAIN run.order
  BY <1>0, <1>1, BusyType DEF Requesting, TypeOK
<1>3. ASSUME temp' = NoTemps, GiveUp \/ GiveUpDisturbed,
             UNCHANGED <<pub, target, debris, cache, runs>>,
             faults' \in 0 .. MaxFaults
      PROVE  Inv'
  BY <1>0, <1>3, GiveUpType, GiveUpKeeps
<1>4. CASE GetSums
  <2>. DEFINE l == IF T \in NeedVerify THEN "sig" ELSE "select"
              m == [build |-> pub[S].sums, verified |-> FALSE]
  <2>1. /\ run' = [run EXCEPT !.pc = l, !.m = m, !.attempt = 1]
        /\ UNCHANGED <<pub, target, temp, debris, cache, faults, runs>>
    BY <1>4 DEF GetSums
  <2>2. m \in Manifest /\ m.build \in Builds /\ m.verified = FALSE /\ l \in Labels
    BY <1>0, <1>2, ConstantFacts DEF TypeOK, Manifest, Labels
  <2>. HIDE DEF m
  <2>3. /\ run' \in Run /\ run'.pc = l /\ run'.m = m
        /\ run'.i = run.i /\ run'.order = run.order
    BY <1>0, <2>1, <2>2, ConstantFacts DEF Run
  <2>4. temp = NoTemps
    BY <1>4 DEF GetSums, Inv, TempInv, At
  <2>5. T' = T
    BY <2>3, SameTransfer
  <2>6. RunInv'
    BY <2>2, <2>3, <2>5 DEF RunInv, Accepted
  <2>7. TempInv'
    BY <2>1, <2>3, <2>4 DEF TempInv, At
  <2>8. QED
    BY <1>0, <1>2, <2>1, <2>3, <2>4, <2>6, <2>7, GoOnKeeps, ConstantFacts
<1>5. CASE GetSig
  <2>1. temp = NoTemps /\ UNCHANGED <<pub, target, temp, debris, cache, faults, runs>>
    BY <1>5 DEF GetSig, Inv, TempInv, At
  <2>2. CASE pub[S].sig = run.m.build
    <3>1. run' = [run EXCEPT !.pc = "select", !.m.verified = TRUE, !.attempt = 1]
      BY <1>5, <2>2 DEF GetSig
    <3>2. run.m \in Manifest
      BY <1>0 DEF Run
    <3>3. /\ run' \in Run /\ run'.pc = "select" /\ run'.m.build = run.m.build
          /\ run'.m.verified = TRUE
          /\ run'.i = run.i /\ run'.order = run.order
      BY <1>0, <3>1, <3>2, ConstantFacts DEF Run, Manifest, Labels
    <3>4. run.m.build \in Builds
      BY <1>5 DEF GetSig, At, Inv, RunInv, Holding
    <3>5. run.m.build \in Signed
      BY <1>2, <2>2, <3>4, ConstantFacts DEF Inv, SourceInv
    <3>6. RunInv'
      BY <3>3, <3>4, <3>5 DEF RunInv
    <3>7. TempInv'
      BY <2>1, <3>3 DEF TempInv, At
    <3>8. QED
      BY <1>0, <1>2, <2>1, <3>3, <3>6, <3>7, GoOnKeeps, ConstantFacts
  <2>3. CASE pub[S].sig # run.m.build
    BY <1>0, <1>3, <1>5, <2>1, <2>3 DEF GetSig
  <2>4. QED
    BY <2>2, <2>3
<1>6. CASE KeyringFails
  <2>1. temp' = NoTemps
    BY <1>6 DEF KeyringFails, Inv, TempInv, At
  <2>2. QED
    BY <1>0, <1>3, <1>6, <2>1, FaultType DEF KeyringFails
<1>7. CASE Transient
  <2>. DEFINE r == Retry(run)
  <2>0. /\ r \in Run /\ r.m = run.m /\ r.i = run.i /\ r.order = run.order
        /\ r.pc = IF run.pc = "body" THEN "temp" ELSE run.pc
    BY <1>0, <1>1, RetryType
  <2>1. temp' = NoTemps /\ UNCHANGED <<pub, target, debris, cache, faults, runs>>
    BY <1>7 DEF Transient
  <2>. HIDE DEF r
  <2>2. CASE run.attempt = MaxAttempts \/ run.cancelled
    <3>1. Advance([r EXCEPT !.failed = TRUE])
      BY <1>7, <2>2 DEF Transient, r
    <3>2. [r EXCEPT !.failed = TRUE] \in Run
      BY <2>0 DEF Run
    <3>3. QED
      BY <1>0, <2>1, <3>1, <3>2, AdvanceType, GiveUpKeeps
  <2>3. CASE ~(run.attempt = MaxAttempts \/ run.cancelled)
    <3>1. run' = [r EXCEPT !.attempt = @ + 1]
      BY <1>7, <2>3 DEF Transient, r
    <3>2. r.attempt = run.attempt /\ run.attempt + 1 \in 1 .. MaxAttempts
      BY <1>0, <2>3, FetchingAssumption DEF r, Retry, Run
    <3>3. /\ run' \in Run /\ run'.m = run.m /\ run'.i = run.i /\ run'.order = run.order
          /\ run'.pc = IF run.pc = "body" THEN "temp" ELSE run.pc
      BY <2>0, <3>1, <3>2 DEF Run
    <3>4. T' = T /\ run'.pc \in {"sums", "sig", "temp"}
      BY <1>1, <3>3, SameTransfer DEF Requesting
    <3>5. RunInv'
      BY <1>1, <3>3, <3>4 DEF Inv, RunInv, Accepted, Holding, Requesting
    <3>6. TempInv'
      BY <2>1, <3>4 DEF TempInv, At
    <3>7. QED
      BY <1>0, <1>2, <2>1, <3>3, <3>5, <3>6, GoOnKeeps, ConstantFacts
  <2>4. QED
    BY <2>2, <2>3
<1>8. CASE RequestFails
  <2>1. faults' \in 0 .. MaxFaults
    BY <1>0, <1>8, FaultType DEF RequestFails
  <2>2. QED
    BY <1>3, <1>8, <2>1 DEF RequestFails
<1>9. QED
  BY <1>4, <1>5, <1>6, <1>7, <1>8

LEMMA DownloadSteps ==
    ASSUME Inv, \/ Select \/ OpenTemp \/ TempFails \/ GetBody \/ BodyFails \/ Unpack
                \/ UnpackFails \/ Rename \/ ChmodFails \/ RenameFails \/ Copy \/ CopyFails
    PROVE  Inv'
<1>0. TypeOK /\ run \in Run /\ faults \in 0 .. MaxFaults /\ runs \in 0 .. MaxRuns
  BY DEF Inv, TypeOK
<1>1. run.pc \in Accepted
  BY DEF Select, OpenTemp, TempFails, GetBody, BodyFails, Unpack, UnpackFails,
         Rename, ChmodFails, RenameFails, Copy, CopyFails, At, Accepted
<1>2. /\ T \in Transfers /\ S \in Sources
      /\ run.i \in DOMAIN run.order
  BY <1>0, <1>1, BusyType DEF Accepted, TypeOK
<1>3. /\ run.m.build \in Builds
      /\ run.m.verified => run.m.build \in Signed
      /\ T \in NeedVerify => run.m.verified
  BY <1>1 DEF Inv, RunInv, Holding
<1>4. temp \in [Temps -> File] /\ "download" \in Temps /\ "unpacked" \in Temps
        /\ "copy" \in Temps
  BY <1>0 DEF TypeOK, Temps
<1>5. ASSUME NEW k, Fault(k), temp' = NoTemps, GiveUpDisturbed,
             UNCHANGED <<pub, target, debris, cache, runs>>
      PROVE  Inv'
  BY <1>0, <1>5, FaultType, GiveUpType, GiveUpKeeps
<1>6. CASE \/ TempFails \/ BodyFails \/ UnpackFails \/ ChmodFails \/ CopyFails
  <2>1. CASE TempFails
    BY <1>5, <2>1 DEF TempFails, Inv, TempInv, At
  <2>2. QED
    BY <1>5, <1>6, <2>1 DEF BodyFails, UnpackFails, ChmodFails, CopyFails
<1>7. ASSUME NEW l \in Accepted, Goto(l), temp' \in [Temps -> File], TempInv',
             UNCHANGED <<pub, target, debris, cache, faults, runs>>
      PROVE  Inv'
  <2>1. /\ run' \in Run /\ run'.pc = l /\ run'.m = run.m
        /\ run'.i = run.i /\ run'.order = run.order
    BY <1>0, <1>7, GotoType DEF Accepted, Labels
  <2>2. RunInv'
    BY <1>3, <2>1, SameTransfer DEF RunInv
  <2>3. QED
    BY <1>0, <1>2, <1>7, <2>1, <2>2, GoOnKeeps
<1>8. CASE Select
  <2>1. temp = NoTemps /\ UNCHANGED <<pub, target, temp, debris, faults, runs>>
    BY <1>8 DEF Select, Inv, TempInv, At
  <2>2. CASE GiveUp /\ UNCHANGED cache
    BY <1>0, <2>1, <2>2, GiveUpType, GiveUpKeeps
  <2>3. CASE Succeed
    BY <1>1, <2>1, <2>3, SucceedKeeps
  <2>4. CASE Goto("temp") /\ UNCHANGED cache
    <3>1. run'.pc = "temp"
      BY <1>0, <2>4, GotoType DEF Labels
    <3>2. TempInv'
      BY <2>1, <3>1 DEF TempInv, At
    <3>3. QED
      BY <1>4, <1>7, <2>1, <2>4, <3>2 DEF Accepted
  <2>5. QED
    BY <1>8, <2>2, <2>3, <2>4 DEF Select
<1>9. CASE OpenTemp
  <2>. DEFINE new == [build |-> run.m.build, state |-> "cached"]
  <2>1. new \in File /\ new.build = run.m.build
    BY <1>3 DEF File
  <2>2. /\ temp' = [temp EXCEPT !["download"] = new]
        /\ run' = [run EXCEPT !.pc = "body"]
        /\ UNCHANGED <<pub, target, debris, cache, faults, runs>>
    BY <1>9 DEF OpenTemp
  <2>. HIDE DEF new
  <2>3. temp' \in [Temps -> File] /\ temp'["download"] = new
    BY <1>4, <2>1, <2>2
  <2>4. /\ run' \in Run /\ run'.pc = "body" /\ run'.m = run.m
        /\ run'.i = run.i /\ run'.order = run.order
    BY <1>0, <2>2 DEF Run, Labels
  <2>5. TempInv'
    BY <2>1, <2>3, <2>4 DEF TempInv, At
  <2>6. RunInv'
    BY <1>3, <2>4, SameTransfer DEF RunInv
  <2>7. QED
    BY <1>0, <1>2, <2>2, <2>3, <2>4, <2>5, <2>6, GoOnKeeps
<1>10. CASE GetBody
  <2>. DEFINE l == IF T \in Compressed THEN "unpack" ELSE "rename"
  <2>1. UNCHANGED <<pub, target, debris, cache, faults, runs>>
    BY <1>10 DEF GetBody
  <2>2. CASE Image(S, V) = run.m.build
    <3>1. temp' = [temp EXCEPT !["download"].state = "disk"] /\ Goto(l)
      BY <1>10, <2>2 DEF GetBody
    <3>2. temp["download"].build = run.m.build
      BY <1>10 DEF GetBody, Inv, TempInv
    <3>3. /\ temp'["download"] = [build |-> run.m.build, state |-> "disk"]
          /\ temp' \in [Temps -> File]
      <4>1. temp["download"] \in File
        BY <1>4
      <4>2. [temp["download"] EXCEPT !.state = "disk"]
              = [build |-> run.m.build, state |-> "disk"]
        BY <3>2, <4>1 DEF File, NoFile
      <4>3. [build |-> run.m.build, state |-> "disk"] \in File
        BY <1>3 DEF File
      <4>4. QED
        BY <1>4, <3>1, <4>2, <4>3
    <3>4. /\ run'.pc = l /\ run'.m = run.m
          /\ run'.i = run.i /\ run'.order = run.order
      BY <1>0, <3>1, GotoType DEF Labels
    <3>5. Ready' = IF T \in Compressed THEN temp'["unpacked"] ELSE temp'["download"]
      BY <3>4, SameTransfer DEF Ready
    <3>6. TempInv'
      BY <3>3, <3>4, <3>5, SameTransfer DEF TempInv, At
    <3>7. QED
      BY <1>7, <2>1, <3>1, <3>3, <3>6 DEF Accepted
  <2>3. CASE Image(S, V) # run.m.build
    BY <1>0, <1>10, <2>1, <2>3, GiveUpType, GiveUpKeeps DEF GetBody
  <2>4. QED
    BY <2>2, <2>3
<1>11. CASE Unpack
  <2>. DEFINE new == [build |-> run.m.build, state |-> "disk"]
  <2>1. new \in File
    BY <1>3 DEF File
  <2>2. /\ temp' = [NoTemps EXCEPT !["unpacked"] = new]
        /\ Goto("rename")
        /\ UNCHANGED <<pub, target, debris, cache, faults, runs>>
    BY <1>11 DEF Unpack
  <2>. HIDE DEF new
  <2>3. temp' \in [Temps -> File] /\ temp'["unpacked"] = new
    BY <1>4, <2>1, <2>2, ConstantFacts
  <2>4. /\ run'.pc = "rename" /\ run'.m = run.m
        /\ run'.i = run.i /\ run'.order = run.order
    BY <1>0, <2>2, GotoType DEF Labels
  <2>5. T \in Compressed
    BY <1>11 DEF Unpack, Inv, TempInv
  <2>6. TempInv'
    BY <2>3, <2>4, <2>5, SameTransfer DEF TempInv, At, Ready, new
  <2>7. QED
    BY <1>7, <2>2, <2>3, <2>6 DEF Accepted
<1>12. CASE Rename
  <2>1. Ready = [build |-> run.m.build, state |-> "disk"]
    BY <1>12 DEF Rename, Inv, TempInv
  <2>2. QED
    BY <1>1, <1>12, <2>1, SucceedKeeps DEF Rename
<1>13. CASE RenameFails
  <2>. DEFINE new == [build |-> run.m.build, state |-> "cached"]
  <2>1. Ready = [build |-> run.m.build, state |-> "disk"]
    BY <1>13 DEF RenameFails, Inv, TempInv
  <2>2. [Ready EXCEPT !.state = "cached"] = new /\ new \in File
          /\ new.build = run.m.build
    BY <1>3, <2>1 DEF File
  <2>3. /\ temp' = [temp EXCEPT !["copy"] = new]
        /\ run' = [run EXCEPT !.pc = "copy", !.calm = FALSE]
        /\ UNCHANGED <<pub, target, debris, cache, runs>>
    BY <1>13, <2>2 DEF RenameFails
  <2>. HIDE DEF new
  <2>4. temp' \in [Temps -> File] /\ temp'["copy"] = new
    BY <1>4, <2>2, <2>3
  <2>5. /\ run' \in Run /\ run'.pc = "copy" /\ run'.m = run.m
        /\ run'.i = run.i /\ run'.order = run.order
    BY <1>0, <2>3 DEF Run, Labels
  <2>6. TempInv'
    BY <2>2, <2>4, <2>5 DEF TempInv, At
  <2>7. RunInv'
    BY <1>3, <2>5, SameTransfer DEF RunInv
  <2>8. faults' \in 0 .. MaxFaults
    BY <1>0, <1>13, FaultType DEF RenameFails
  <2>9. QED
    BY <1>0, <1>2, <2>3, <2>4, <2>5, <2>6, <2>7, <2>8, GoOnKeeps
<1>14. CASE Copy
  <2>1. [temp["copy"] EXCEPT !.state = "disk"]
          = [build |-> run.m.build, state |-> "disk"]
    <3>1. temp["copy"].build = run.m.build
      BY <1>14 DEF Copy, Inv, TempInv
    <3>2. temp["copy"] \in File
      BY <1>4
    <3>3. QED
      BY <3>1, <3>2 DEF File, NoFile
  <2>2. QED
    BY <1>1, <1>14, <2>1, SucceedKeeps DEF Copy
<1>15. QED
  BY <1>6, <1>8, <1>9, <1>10, <1>11, <1>12, <1>13, <1>14

-----------------------------------------------------------------------------
\* A run starts, is killed, loses the power; a build is published.

LEMMA StartKeeps ==
    ASSUME Inv, Start
    PROVE  Inv'
<1>. DEFINE calm == \A t \in Transfers : /\ Consistent(SourceOf[t])
                                         /\ VersionOf[pub[SourceOf[t]].sums] >= MinVersion[t]
            unused == [t \in Transfers |-> NoBuild]
            none == [s \in Sources |-> NoManifest]
<1>0. TypeOK /\ run \in Run
  BY DEF Inv, TypeOK
<1>1. /\ cache' = none
      /\ run' = [run EXCEPT !.pc = "next", !.i = 1, !.m = NoManifest, !.attempt = 1,
                   !.cancelled = FALSE, !.failed = FALSE, !.hits = 0, !.calm = calm,
                   !.used = unused]
      /\ runs > 0 /\ runs' = runs - 1
      /\ UNCHANGED <<pub, target, temp, debris, faults>>
  BY DEF Start
<1>2. /\ calm \in BOOLEAN /\ unused \in [Transfers -> 0 .. MaxBuild]
      /\ 0 \in 0 .. MaxAttempts /\ 1 \in Nat \ {0}
      /\ "next" \in Labels
  BY ConstantFacts, FetchingAssumption DEF Labels
<1>. HIDE DEF calm, unused, none
<1>3. run' \in Run /\ run'.pc = "next" /\ run'.m = NoManifest
  BY <1>0, <1>1, <1>2, ConstantFacts DEF Run
<1>4. temp' = NoTemps
  <2>1. run.pc = "idle"
    BY DEF Start, At
  <2>2. temp = NoTemps
    BY <2>1 DEF Inv, TempInv
  <2>3. QED
    BY <1>1, <2>2
<1>5. TypeOK'
  <2>1. none \in [Sources -> Manifest]
    BY ConstantFacts DEF none
  <2>2. runs' \in 0 .. MaxRuns
    BY <1>0, <1>1, FetchingAssumption DEF TypeOK
  <2>3. UNCHANGED <<pub, target, temp, debris, faults>> /\ cache' \in [Sources -> Manifest]
    BY <1>1, <2>1
  <2>4. QED
    BY <1>0, <1>3, <2>2, <2>3 DEF TypeOK
<1>6. SourceInv' /\ TargetInv'
  BY <1>1 DEF none, Inv, SourceInv, TargetInv, VerifiedMeansSigned, TargetIsWhole
<1>7. RunInv' /\ TempInv'
  BY <1>3, <1>4 DEF RunInv, TempInv, At, Holding, Accepted, NoManifest
<1>8. QED
  BY <1>5, <1>6, <1>7 DEF Inv

LEMMA StopKeeps ==
    ASSUME Inv, Crash \/ PowerLoss
    PROVE  Inv'
<1>0. TypeOK /\ run \in Run
  BY DEF Inv, TypeOK
<1>. DEFINE kept == [t \in Transfers |-> [v \in Versions |->
                      IF target[t][v].state = "cached"
                      THEN [target[t][v] EXCEPT !.state = "torn"]
                      ELSE target[t][v]]]
<1>1. kept = target
  <2>1. target \in [Transfers -> [Versions -> File]]
    BY <1>0 DEF TypeOK
  <2>2. ASSUME NEW t \in Transfers, NEW v \in Versions
        PROVE  target[t][v].state # "cached"
    BY DEF Inv, TargetInv, TargetIsWhole, NoFile
  <2>3. \A t \in Transfers : kept[t] = target[t]
    BY <2>1, <2>2
  <2>. HIDE DEF kept
  <2>4. kept \in [Transfers -> [Versions -> File]]
    <3>1. kept = [t \in Transfers |-> target[t]]
      BY <2>3 DEF kept
    <3>2. QED
      BY <2>1, <3>1
  <2>5. QED
    BY <2>1, <2>3, <2>4
<1>2. Stop(target) /\ faults' \in 0 .. MaxFaults
  BY <1>0, <1>1, FaultType DEF Crash, PowerLoss
<1>3. run' = [run EXCEPT !.pc = "idle", !.failed = TRUE, !.calm = FALSE]
  BY <1>2 DEF Stop
<1>4. run' \in Run /\ run'.pc = "idle" /\ run'.m = run.m
  BY <1>0, <1>3 DEF Run, Labels
<1>5. QED
  BY <1>0, <1>2, <1>4, RestKeeps DEF Stop, Inv, TypeOK, RunInv

LEMMA PublishKeeps ==
    ASSUME Inv, NEW s \in Sources, NEW k \in {"image", "sums", "sig"}, Publish(s, k)
    PROVE  Inv'
<1>0. TypeOK /\ run \in Run
  BY DEF Inv, TypeOK
<1>1. PICK b \in Builds : /\ k = "sig" => b \in Signed
                          /\ pub' = [pub EXCEPT ![s][k] = b]
  BY DEF Publish
<1>2. /\ run' = [run EXCEPT !.calm = FALSE]
      /\ UNCHANGED <<target, temp, debris, cache, faults, runs>>
  BY DEF Publish
<1>3. /\ run' \in Run /\ run'.pc = run.pc /\ run'.m = run.m
      /\ run'.i = run.i /\ run'.order = run.order
  BY <1>0, <1>2 DEF Run
<1>. DEFINE Entry == [image : Builds, sums : Builds, sig : 0 .. MaxBuild]
<1>4. /\ pub' \in [Sources -> Entry]
      /\ \A r \in Sources : pub'[r].sig = NoBuild \/ pub'[r].sig \in Signed
  <2>0. pub \in [Sources -> Entry] /\ b \in 0 .. MaxBuild
    BY <1>0, ConstantFacts DEF TypeOK
  <2>1. \A r \in Sources : pub[r].sig = NoBuild \/ pub[r].sig \in Signed
    BY DEF Inv, SourceInv
  <2>2. CASE k = "image"
    <3>1. pub' = [pub EXCEPT ![s].image = b]
      BY <1>1, <2>2
    <3>2. QED
      BY <2>0, <2>1, <3>1
  <2>3. CASE k = "sums"
    <3>1. pub' = [pub EXCEPT ![s].sums = b]
      BY <1>1, <2>3
    <3>2. QED
      BY <2>0, <2>1, <3>1
  <2>4. CASE k = "sig"
    <3>1. pub' = [pub EXCEPT ![s].sig = b] /\ b \in Signed
      BY <1>1, <2>4
    <3>2. QED
      BY <2>0, <2>1, <3>1
  <2>5. QED
    BY <2>2, <2>3, <2>4
<1>5. TypeOK'
  BY <1>0, <1>2, <1>3, <1>4 DEF TypeOK
<1>6. SourceInv' /\ TargetInv'
  BY <1>2, <1>4 DEF Inv, SourceInv, TargetInv, VerifiedMeansSigned, TargetIsWhole
<1>7. T' = T /\ Ready' = Ready
  BY <1>2, <1>3, SameTransfer DEF Ready
<1>8. RunInv' /\ TempInv'
  BY <1>2, <1>3, <1>7 DEF Inv, RunInv, TempInv, At
<1>9. QED
  BY <1>5, <1>6, <1>8 DEF Inv

-----------------------------------------------------------------------------
\* The theorems.

LEMMA InitInv == Init => Inv
<1>. SUFFICES ASSUME Init PROVE Inv
  OBVIOUS
<1>1. /\ run \in Run /\ run.pc = "idle" /\ run.m = NoManifest
  <2>1. PICK o \in Orders :
          run = [pc |-> "idle", order |-> o, i |-> 1, m |-> NoManifest, attempt |-> 1,
                 cancelled |-> FALSE, failed |-> FALSE, calm |-> FALSE, hits |-> 0,
                 used |-> [t \in Transfers |-> NoBuild]]
    BY DEF Init
  <2>2. 0 \in 0 .. MaxAttempts /\ NoBuild \in 0 .. MaxBuild
    BY ConstantFacts, FetchingAssumption
  <2>3. QED
    BY <2>1, <2>2, ConstantFacts DEF Run, Labels
<1>2. 1 \in Builds
  BY FetchingAssumption DEF Builds
<1>3. TypeOK
  <2>1. pub \in [Sources -> [image : Builds, sums : Builds, sig : 0 .. MaxBuild]]
    BY <1>2, ConstantFacts DEF Init
  <2>2. /\ target \in [Transfers -> [Versions -> File]]
        /\ temp \in [Temps -> File] /\ debris \in BOOLEAN
        /\ cache \in [Sources -> Manifest]
    BY ConstantFacts DEF Init
  <2>3. faults \in 0 .. MaxFaults /\ runs \in 0 .. MaxRuns
    BY FetchingAssumption DEF Init
  <2>4. QED
    BY <1>1, <2>1, <2>2, <2>3 DEF TypeOK
<1>4. SourceInv
  BY DEF Init, SourceInv
<1>5. RunInv /\ TempInv
  BY <1>1 DEF Init, RunInv, TempInv, At, Holding, Accepted, NoManifest
<1>6. TargetInv
  <2>1. NeedVerify \subseteq Transfers
    BY FetchingAssumption
  <2>2. QED
    BY <2>1 DEF Init, TargetInv, VerifiedMeansSigned, TargetIsWhole
<1>7. QED
  BY <1>3, <1>4, <1>5, <1>6 DEF Inv

LEMMA NextInv == Inv /\ [Next]_vars => Inv'
<1>. SUFFICES ASSUME Inv, [Next]_vars PROVE Inv'
  OBVIOUS
<1>1. CASE Client
  BY <1>1, LocalSteps, RequestSteps, DownloadSteps DEF Client
<1>2. CASE Start \/ Cancel \/ Crash \/ PowerLoss
  BY <1>2, StartKeeps, LocalSteps, StopKeeps
<1>3. ASSUME NEW s \in Sources, NEW k \in {"image", "sums", "sig"}, Publish(s, k)
      PROVE  Inv'
  BY <1>3, PublishKeeps
<1>4. CASE UNCHANGED vars
  BY <1>4 DEF vars, Inv, TypeOK, SourceInv, RunInv, TempInv, TargetInv,
              VerifiedMeansSigned, TargetIsWhole, At, T, Ready
<1>5. QED
  BY <1>1, <1>2, <1>3, <1>4 DEF Next

LEMMA InvAlways == Spec => []Inv
  BY InitInv, NextInv, PTL DEF Spec

\* A run holds a manifest and a place in its order whenever it uses them, and
\* attempts and histories stay in their bounds.
THEOREM FetchingTypes == Spec => []TypeOK
<1>1. Inv => TypeOK
  BY DEF Inv
<1>2. QED
  BY <1>1, InvAlways, PTL

\* A transfer that requires verification only ever installs what a signed
\* manifest lists: for any number of transfers that share sources, in any
\* order, whatever is published while the run goes on.
THEOREM InstalledIsSigned == Spec => []VerifiedMeansSigned
<1>1. Inv => VerifiedMeansSigned
  BY DEF Inv, TargetInv
<1>2. QED
  BY <1>1, InvAlways, PTL

\* What is under a target name is on disk, whole, and of that name's version,
\* after any number of crashes and power losses at any point.
THEOREM InstalledIsWhole == Spec => []TargetIsWhole
<1>1. Inv => TargetIsWhole
  BY DEF Inv, TargetInv
<1>2. QED
  BY <1>1, InvAlways, PTL

\* No failure of a download leaves a temporary file behind.
THEOREM TempFilesGo == Spec => []NoTempLeft
<1>1. Inv => NoTempLeft
  BY DEF Inv, TempInv, NoTempLeft
<1>2. QED
  BY <1>1, InvAlways, PTL

-----------------------------------------------------------------------------
\* What a run remembers.

\* A transfer that is still to come has used no manifest.  One that required
\* verification has left its manifest in the cache, and a manifest that is cached
\* as verified is the one every transfer goes by.
UsedInv ==
    /\ \A k \in DOMAIN run.order : run.i <= k => run.used[run.order[k]] = NoBuild
    /\ \A t \in NeedVerify : run.used[t] # NoBuild =>
         cache[SourceOf[t]] = [build |-> run.used[t], verified |-> TRUE]
    /\ run.pc \in {"sums", "sig"} => ~cache[S].verified
    /\ run.pc \in Accepted /\ cache[S].verified => run.m = cache[S]
    /\ OneVerifiedManifest

\* While a run is calm its sources stay as they were when it started: consistent,
\* and what it holds and has cached is what they publish.  Each attempt but the
\* first was after a transient failure.
CalmInv ==
    run.calm =>
      /\ ~run.failed /\ ~run.cancelled /\ run.attempt <= run.hits + 1
      /\ \A t \in Transfers : /\ Consistent(SourceOf[t])
                              /\ VersionOf[pub[SourceOf[t]].sums] >= MinVersion[t]
      /\ \A s \in Sources : cache[s] = NoManifest \/ cache[s].build = pub[s].sums
      /\ run.pc \in Holding => run.m.build = pub[S].sums

HistInv == UsedInv /\ CalmInv

SameRun == run'.order = run.order /\ run'.i = run.i /\ run'.used = run.used

LEMMA AdvanceFields ==
    ASSUME NEW r \in Run, Advance(r)
    PROVE  /\ run'.pc = "next" /\ run'.i = r.i + 1 /\ run'.order = r.order
           /\ run'.used = r.used /\ run'.m = NoManifest /\ run'.attempt = 1
           /\ run'.calm = r.calm /\ run'.failed = r.failed
           /\ run'.cancelled = r.cancelled /\ run'.hits = r.hits
  BY DEF Advance, Run

\* Between two transfers, and after the last one.
LEMMA UsedRests ==
    ASSUME TypeOK, UsedInv, run'.order = run.order, run'.used = run.used,
           run'.i \in {run.i, run.i + 1}, run'.pc \in {"idle", "next"}, cache' = cache
    PROVE  UsedInv'
<1>1. \A k \in DOMAIN run'.order : run'.i <= k => run'.used[run'.order[k]] = NoBuild
  <2>1. run.i \in Nat /\ run.order \in Seq(Transfers)
    BY FetchingAssumption DEF TypeOK, Run
  <2>2. \A k \in DOMAIN run.order : run'.i <= k => run.i <= k
    BY <2>1
  <2>3. QED
    BY <2>2 DEF UsedInv
<1>2. QED
  BY <1>1 DEF UsedInv, OneVerifiedManifest, Accepted

LEMMA UsedGoesOn ==
    ASSUME UsedInv, SameRun, cache' = cache,
           run'.pc \in {"sums", "sig"} => ~cache[S].verified,
           run'.pc \in Accepted /\ cache[S].verified => run'.m = cache[S]
    PROVE  UsedInv'
  BY DEF UsedInv, OneVerifiedManifest, SameRun, S, T

\* A transfer is given up: the run is disturbed, or was not calm.
LEMMA GivenUpKeeps ==
    ASSUME TypeOK, HistInv, cache' = cache, GiveUpDisturbed \/ (GiveUp /\ ~run.calm)
    PROVE  HistInv'
<1>. DEFINE r == [run EXCEPT !.failed = TRUE]
            d == [run EXCEPT !.failed = TRUE, !.calm = FALSE]
<1>1. /\ r \in Run /\ r.i = run.i /\ r.order = run.order /\ r.used = run.used
      /\ r.calm = run.calm
      /\ d \in Run /\ d.i = run.i /\ d.order = run.order /\ d.used = run.used
      /\ d.calm = FALSE
  BY DEF TypeOK, Run
<1>2. Advance(d) \/ (Advance(r) /\ ~run.calm)
  BY DEF GiveUp, GiveUpDisturbed
<1>. HIDE DEF r, d
<1>3. /\ run'.i = run.i + 1 /\ run'.order = run.order /\ run'.used = run.used
      /\ run'.pc = "next" /\ ~run'.calm
  BY <1>1, <1>2, AdvanceFields
<1>4. QED
  BY <1>3, UsedRests DEF HistInv, CalmInv

\* A transfer succeeds by the manifest it holds, which is the verified one of its
\* source if there is one.
LEMMA SucceedKeepsHist ==
    ASSUME Inv, HistInv, run.pc \in Accepted, Succeed, pub' = pub
    PROVE  HistInv'
<1>0. TypeOK /\ run \in Run
  BY DEF Inv, TypeOK
<1>1. /\ T \in Transfers /\ S \in Sources /\ run.i \in DOMAIN run.order
      /\ run.order \in Seq(Transfers) /\ run.i \in Nat \ {0} /\ run.order \in Orders
  BY <1>0, BusyType, FetchingAssumption DEF Accepted, TypeOK, Run
<1>2. /\ run.m \in Manifest /\ run.m.build \in Builds
      /\ T \in NeedVerify => run.m.verified
  BY <1>0 DEF Inv, RunInv, Holding, Run
<1>3. cache \in [Sources -> Manifest] /\ run.used \in [Transfers -> 0 .. MaxBuild]
  BY <1>0 DEF TypeOK, Run
<1>. DEFINE r == [run EXCEPT !.used[T] = run.m.build]
<1>4. /\ r \in Run /\ r.i = run.i /\ r.order = run.order /\ r.calm = run.calm
      /\ r.failed = run.failed /\ r.cancelled = run.cancelled /\ r.hits = run.hits
      /\ r.used = [run.used EXCEPT ![T] = run.m.build]
  BY <1>0, <1>1, <1>2, ConstantFacts DEF Run
<1>5. cache' = [cache EXCEPT ![S] = run.m] /\ Advance(r)
  BY DEF Succeed
<1>. HIDE DEF r
<1>6. /\ run'.i = run.i + 1 /\ run'.order = run.order /\ run'.pc = "next"
      /\ run'.attempt = 1 /\ run'.calm = run.calm /\ run'.failed = run.failed
      /\ run'.cancelled = run.cancelled /\ run'.hits = run.hits
      /\ run'.used = [run.used EXCEPT ![T] = run.m.build]
  BY <1>4, <1>5, AdvanceFields
<1>7. \A k \in DOMAIN run.order : run.order[k] \in Transfers
                                  /\ (k # run.i => run.order[k] # T)
  BY <1>1, FetchingAssumption DEF T
<1>8. \A k \in DOMAIN run'.order : run'.i <= k => run'.used[run'.order[k]] = NoBuild
  <2>1. \A k \in DOMAIN run.order : run.i + 1 <= k => run.i <= k /\ k # run.i
    BY <1>1
  <2>2. QED
    BY <1>3, <1>6, <1>7, <2>1 DEF HistInv, UsedInv
<1>9. ASSUME NEW t \in NeedVerify, run'.used[t] # NoBuild
      PROVE  cache'[SourceOf[t]] = [build |-> run'.used[t], verified |-> TRUE]
  <2>0. t \in Transfers /\ SourceOf[t] \in Sources
    BY FetchingAssumption
  <2>1. CASE t = T
    BY <1>1, <1>2, <1>3, <1>5, <1>6, <2>1 DEF Manifest, S
  <2>2. CASE t # T
    <3>1. run'.used[t] = run.used[t]
      BY <1>3, <1>6, <2>0, <2>2
    <3>2. cache[SourceOf[t]] = [build |-> run.used[t], verified |-> TRUE]
      BY <1>9, <3>1 DEF HistInv, UsedInv
    <3>3. SourceOf[t] = S => run.m = cache[S]
      BY <3>2 DEF HistInv, UsedInv
    <3>4. QED
      BY <1>1, <1>3, <1>5, <2>0, <3>1, <3>2, <3>3
  <2>3. QED
    BY <2>1, <2>2
<1>10. OneVerifiedManifest'
  <2>1. ASSUME NEW i \in DOMAIN run.order, NEW j \in DOMAIN run.order,
               i < j, run.order[i] \in NeedVerify,
               SourceOf[run.order[i]] = SourceOf[run.order[j]],
               run'.used[run.order[i]] # NoBuild, run'.used[run.order[j]] # NoBuild
        PROVE  run'.used[run.order[j]] = run'.used[run.order[i]]
    <3>0. i \in Nat /\ j \in Nat
      BY <1>1
    <3>1. CASE j = run.i
      <4>1. i # run.i /\ run.order[j] = T
        BY <2>1, <3>0, <3>1 DEF T
      <4>2. run'.used[run.order[i]] = run.used[run.order[i]]
              /\ run'.used[run.order[j]] = run.m.build
        BY <1>3, <1>6, <1>7, <4>1
      <4>3. cache[S] = [build |-> run.used[run.order[i]], verified |-> TRUE]
        BY <2>1, <4>1, <4>2 DEF HistInv, UsedInv, S
      <4>4. run.m = cache[S]
        BY <4>3 DEF HistInv, UsedInv
      <4>5. QED
        BY <4>2, <4>3, <4>4
    <3>2. CASE j # run.i
      <4>1. run'.used[run.order[j]] = run.used[run.order[j]]
        BY <1>3, <1>6, <1>7, <3>2
      <4>2. ~(run.i <= j)
        BY <2>1, <4>1 DEF HistInv, UsedInv
      <4>3. i # run.i
        BY <1>1, <2>1, <3>0, <4>2
      <4>4. run'.used[run.order[i]] = run.used[run.order[i]]
        BY <1>3, <1>6, <1>7, <4>3
      <4>5. QED
        BY <2>1, <4>1, <4>4 DEF HistInv, UsedInv, OneVerifiedManifest
    <3>3. QED
      BY <3>1, <3>2
  <2>2. QED
    BY <1>6, <2>1 DEF OneVerifiedManifest
<1>11. UsedInv'
  BY <1>6, <1>8, <1>9, <1>10 DEF UsedInv, Accepted
<1>12. CalmInv'
  <2>. SUFFICES ASSUME run.calm PROVE CalmInv'
    BY <1>6 DEF CalmInv
  <2>1. run.m.build = pub[S].sums
    BY DEF HistInv, CalmInv, Holding
  <2>2. \A s \in Sources : cache'[s] = NoManifest \/ cache'[s].build = pub[s].sums
    BY <1>1, <1>3, <1>5, <2>1 DEF HistInv, CalmInv
  <2>3. 1 <= run.hits + 1
    BY <1>0, FetchingAssumption DEF Run
  <2>4. \A t \in Transfers : Consistent(SourceOf[t])' <=> Consistent(SourceOf[t])
    BY DEF Consistent, Image
  <2>5. QED
    BY <1>6, <2>2, <2>3, <2>4 DEF HistInv, CalmInv, Holding, Accepted
<1>13. QED
  BY <1>11, <1>12 DEF HistInv

\* A step that goes on with the transfer at hand, no sooner calm than before.
LEMMA GoesOnKeepsHist ==
    ASSUME Inv, HistInv, SameRun, pub' = pub, cache' = cache,
           run'.pc \in {"sums", "sig"} => ~cache[S].verified,
           run'.pc \in Accepted /\ cache[S].verified => run'.m = cache[S],
           run'.calm => /\ run.calm /\ run'.failed = run.failed
                        /\ run'.cancelled = run.cancelled
                        /\ run'.attempt <= run'.hits + 1
                        /\ run'.pc \in Holding => run'.m.build = pub[S].sums
    PROVE  HistInv'
<1>1. UsedInv'
  BY UsedGoesOn DEF HistInv
<1>2. S' = S
  BY DEF SameRun, S, T
<1>3. \A t \in Transfers : Consistent(SourceOf[t])' <=> Consistent(SourceOf[t])
  BY DEF Consistent, Image
<1>4. CalmInv'
  BY <1>2, <1>3 DEF HistInv, CalmInv
<1>5. QED
  BY <1>1, <1>4 DEF HistInv

\* ... to another label at which the manifest is accepted.
LEMMA AcceptedKeepsHist ==
    ASSUME Inv, HistInv, run.pc \in Accepted, NEW l \in Accepted, Goto(l),
           UNCHANGED <<pub, cache>>
    PROVE  HistInv'
<1>1. run \in Run /\ 1 <= run.hits + 1
  BY FetchingAssumption DEF Inv, TypeOK, Run
<1>2. /\ run'.pc = l /\ run'.m = run.m /\ SameRun /\ run'.calm = run.calm
      /\ run'.failed = run.failed /\ run'.cancelled = run.cancelled
      /\ run'.attempt = 1 /\ run'.hits = run.hits
  BY <1>1 DEF Goto, Run, SameRun
<1>3. run'.pc \in {"sums", "sig"} => ~cache[S].verified
  BY <1>2 DEF Accepted
<1>4. cache[S].verified => run'.m = cache[S]
  BY <1>2 DEF HistInv, UsedInv
<1>5. run.calm => run'.m.build = pub[S].sums
  BY <1>2 DEF HistInv, CalmInv, Holding
<1>6. QED
  BY <1>1, <1>2, <1>3, <1>4, <1>5, GoesOnKeepsHist

\* A calm run finds what it looks for.
LEMMA CalmFinds ==
    ASSUME TypeOK, CalmInv, run.calm, run.pc \in Holding
    PROVE  /\ pub[S].sig = run.m.build
           /\ Image(S, V) = run.m.build
           /\ V >= MinVersion[T]
<1>1. T \in Transfers
  BY BusyType DEF Holding, Accepted
<1>2. Consistent(S) /\ VersionOf[pub[S].sums] >= MinVersion[T]
  BY <1>1 DEF CalmInv, S
<1>3. run.m.build = pub[S].sums
  BY DEF CalmInv
<1>4. QED
  BY <1>2, <1>3 DEF Consistent, V

LEMMA LocalStepsHist ==
    ASSUME Inv, HistInv, End \/ Choose \/ Cancel
    PROVE  HistInv'
<1>0. TypeOK /\ run \in Run
  BY DEF Inv, TypeOK
<1>1. CASE End
  <2>1. /\ run'.order = run.order /\ run'.used = run.used /\ run'.i = run.i
        /\ run'.pc = "idle" /\ run'.calm = run.calm /\ run'.failed = run.failed
        /\ run'.cancelled = run.cancelled /\ run'.attempt = run.attempt
        /\ run'.hits = run.hits /\ UNCHANGED <<pub, cache>>
    BY <1>0, <1>1 DEF End, Run
  <2>2. UsedInv'
    BY <1>0, <2>1, UsedRests DEF HistInv
  <2>3. \A t \in Transfers : Consistent(SourceOf[t])' <=> Consistent(SourceOf[t])
    BY <2>1 DEF Consistent, Image
  <2>4. CalmInv'
    BY <2>1, <2>3 DEF HistInv, CalmInv, Holding, Accepted
  <2>5. QED
    BY <2>2, <2>4 DEF HistInv
<1>2. CASE Choose
  <2>. DEFINE usable == cache[S] # NoManifest /\ (T \in NeedVerify => cache[S].verified)
              l == IF usable THEN "select" ELSE "sums"
              m == IF usable THEN cache[S] ELSE NoManifest
  <2>1. run.i \in DOMAIN run.order /\ T \in Transfers /\ S \in Sources
    BY <1>0, <1>2, TType DEF Choose
  <2>2. run' = [run EXCEPT !.pc = l, !.m = m] /\ UNCHANGED <<pub, cache>>
    BY <1>2 DEF Choose
  <2>3. /\ l = "sums" => ~cache[S].verified
        /\ l \in {"select", "sums"}
        /\ l = "select" => m = cache[S] /\ cache[S] # NoManifest
    BY DEF NoManifest
  <2>. HIDE DEF usable, l, m
  <2>4. /\ run'.pc = l /\ run'.m = m /\ SameRun /\ run'.calm = run.calm
        /\ run'.failed = run.failed /\ run'.cancelled = run.cancelled
        /\ run'.attempt = run.attempt /\ run'.hits = run.hits
    BY <1>0, <2>2 DEF Run, SameRun
  <2>5. run.calm /\ l = "select" => m.build = pub[S].sums
    BY <2>1, <2>3 DEF HistInv, CalmInv
  <2>6. run.calm => run.attempt <= run.hits + 1
    BY DEF HistInv, CalmInv
  <2>7. QED
    BY <2>2, <2>3, <2>4, <2>5, <2>6, GoesOnKeepsHist DEF Holding, Accepted
<1>3. CASE Cancel
  <2>1. /\ run'.pc = run.pc /\ run'.m = run.m /\ SameRun /\ ~run'.calm
        /\ UNCHANGED <<pub, cache>>
    BY <1>0, <1>3 DEF Cancel, Run, SameRun
  <2>2. QED
    BY <2>1, GoesOnKeepsHist DEF HistInv, UsedInv
<1>4. QED
  BY <1>1, <1>2, <1>3

LEMMA RequestStepsHist ==
    ASSUME Inv, HistInv, \/ GetSums \/ GetSig \/ KeyringFails \/ Transient \/ RequestFails
    PROVE  HistInv'
<1>0. TypeOK /\ run \in Run
  BY DEF Inv, TypeOK
<1>1. 1 <= run.hits + 1 /\ run.hits \in Nat /\ run.attempt \in Nat
  BY <1>0, FetchingAssumption DEF Run
<1>2. CASE GetSums
  <2>. DEFINE l == IF T \in NeedVerify THEN "sig" ELSE "select"
              m == [build |-> pub[S].sums, verified |-> FALSE]
  <2>1. run' = [run EXCEPT !.pc = l, !.m = m, !.attempt = 1] /\ UNCHANGED <<pub, cache>>
    BY <1>2 DEF GetSums
  <2>2. ~cache[S].verified
    BY <1>2 DEF GetSums, At, HistInv, UsedInv
  <2>3. m.build = pub[S].sums
    OBVIOUS
  <2>. HIDE DEF l, m
  <2>4. /\ run'.m = m /\ SameRun /\ run'.calm = run.calm
        /\ run'.failed = run.failed /\ run'.cancelled = run.cancelled
        /\ run'.attempt = 1 /\ run'.hits = run.hits
    BY <1>0, <2>1 DEF Run, SameRun
  <2>5. QED
    BY <1>1, <2>1, <2>2, <2>3, <2>4, GoesOnKeepsHist
<1>3. CASE GetSig
  <2>1. run.pc = "sig" /\ UNCHANGED <<pub, cache>>
    BY <1>3 DEF GetSig, At
  <2>2. ~cache[S].verified
    BY <2>1 DEF HistInv, UsedInv
  <2>3. CASE pub[S].sig = run.m.build
    <3>1. run' = [run EXCEPT !.pc = "select", !.m.verified = TRUE, !.attempt = 1]
      BY <1>3, <2>3 DEF GetSig
    <3>2. /\ run'.pc = "select" /\ run'.m.build = run.m.build /\ SameRun
          /\ run'.calm = run.calm /\ run'.failed = run.failed
          /\ run'.cancelled = run.cancelled /\ run'.attempt = 1 /\ run'.hits = run.hits
      BY <1>0, <3>1 DEF Run, SameRun, Manifest
    <3>3. run.calm => run.m.build = pub[S].sums
      BY <2>1 DEF HistInv, CalmInv, Holding
    <3>4. QED
      BY <1>1, <2>1, <2>2, <3>2, <3>3, GoesOnKeepsHist
  <2>4. CASE pub[S].sig # run.m.build
    <3>1. ~run.calm
      BY <1>0, <2>1, <2>4, CalmFinds DEF HistInv, Holding
    <3>2. QED
      BY <1>0, <1>3, <2>1, <2>4, <3>1, GivenUpKeeps DEF GetSig
  <2>5. QED
    BY <2>3, <2>4
<1>4. CASE KeyringFails \/ RequestFails
  BY <1>0, <1>4, GivenUpKeeps DEF KeyringFails, RequestFails
<1>5. CASE Transient
  <2>. DEFINE r == Retry(run)
  <2>0. /\ r \in Run /\ r.m = run.m /\ r.i = run.i /\ r.order = run.order
        /\ r.pc = IF run.pc = "body" THEN "temp" ELSE run.pc
    BY <1>0, <1>5, RetryType DEF Transient
  <2>1. /\ r.used = run.used /\ r.attempt = run.attempt /\ r.failed = run.failed
        /\ r.cancelled = run.cancelled
        /\ r.calm => run.calm /\ run.hits + 1 < MaxAttempts /\ r.hits = run.hits + 1
    BY <1>0, <1>5, RetryType DEF Transient
  <2>2. UNCHANGED <<pub, cache>> /\ run.pc \in {"sums", "sig", "body"}
    BY <1>5 DEF Transient, Requesting
  <2>. HIDE DEF r
  <2>3. CASE run.attempt = MaxAttempts \/ run.cancelled
    <3>1. Advance([r EXCEPT !.failed = TRUE])
      BY <1>5, <2>3 DEF Transient, r
    <3>2. /\ [r EXCEPT !.failed = TRUE] \in Run
          /\ [r EXCEPT !.failed = TRUE].i = run.i
          /\ [r EXCEPT !.failed = TRUE].order = run.order
          /\ [r EXCEPT !.failed = TRUE].used = run.used
          /\ [r EXCEPT !.failed = TRUE].calm = r.calm
      BY <2>0, <2>1 DEF Run
    <3>3. /\ run'.i = run.i + 1 /\ run'.order = run.order /\ run'.used = run.used
          /\ run'.pc = "next" /\ run'.calm = r.calm
      BY <3>1, <3>2, AdvanceFields
    <3>4. ~r.calm
      <4>1. r.calm => ~run.cancelled /\ run.attempt <= run.hits + 1
        BY <2>1 DEF HistInv, CalmInv
      <4>2. QED
        BY <1>1, <2>1, <2>3, <4>1, FetchingAssumption
    <3>5. UsedInv'
      BY <1>0, <2>2, <3>3, UsedRests DEF HistInv
    <3>6. QED
      BY <3>3, <3>4, <3>5 DEF HistInv, CalmInv
  <2>4. CASE ~(run.attempt = MaxAttempts \/ run.cancelled)
    <3>1. run' = [r EXCEPT !.attempt = @ + 1]
      BY <1>5, <2>4 DEF Transient, r
    <3>2. /\ run'.pc = r.pc /\ run'.m = run.m /\ SameRun /\ run'.calm = r.calm
          /\ run'.failed = run.failed /\ run'.cancelled = run.cancelled
          /\ run'.attempt = run.attempt + 1 /\ run'.hits = r.hits
      BY <2>0, <2>1, <3>1 DEF Run, SameRun
    <3>3. r.calm => run.attempt <= run.hits + 1
      BY <2>1 DEF HistInv, CalmInv
    <3>4. run'.pc \in {"sums", "sig"} => ~cache[S].verified
      BY <2>0, <2>2, <3>2 DEF HistInv, UsedInv
    <3>5. run'.pc \in Accepted /\ cache[S].verified => run'.m = cache[S]
      BY <2>0, <2>2, <3>2 DEF HistInv, UsedInv, Accepted
    <3>6. run.calm /\ run'.pc \in Holding => run.m.build = pub[S].sums
      BY <2>0, <2>2, <3>2 DEF HistInv, CalmInv, Holding, Accepted
    <3>7. run'.calm => run'.attempt <= run'.hits + 1
      BY <1>1, <2>1, <3>2, <3>3
    <3>8. QED
      BY <2>1, <2>2, <3>2, <3>4, <3>5, <3>6, <3>7, GoesOnKeepsHist
  <2>5. QED
    BY <2>3, <2>4
<1>6. QED
  BY <1>2, <1>3, <1>4, <1>5

LEMMA DownloadStepsHist ==
    ASSUME Inv, HistInv,
           \/ Select \/ OpenTemp \/ TempFails \/ GetBody \/ BodyFails \/ Unpack
           \/ UnpackFails \/ Rename \/ ChmodFails \/ RenameFails \/ Copy \/ CopyFails
    PROVE  HistInv'
<1>0. TypeOK /\ run \in Run
  BY DEF Inv, TypeOK
<1>1. run.pc \in Accepted /\ run.pc \in Holding /\ pub' = pub
  BY DEF Select, OpenTemp, TempFails, GetBody, BodyFails, Unpack, UnpackFails,
         Rename, ChmodFails, RenameFails, Copy, CopyFails, At, Accepted, Holding
<1>2. CASE \/ TempFails \/ BodyFails \/ UnpackFails \/ ChmodFails \/ CopyFails
  BY <1>0, <1>2, GivenUpKeeps
  DEF TempFails, BodyFails, UnpackFails, ChmodFails, CopyFails
<1>3. CASE Select
  <2>1. CASE V < MinVersion[T]
    <3>1. V \in Nat /\ MinVersion[T] \in Nat
      <4>1. T \in Transfers /\ run.m.build \in Builds
        BY <1>0, <1>1, BusyType DEF Accepted, Inv, RunInv
      <4>2. QED
        BY <4>1, FetchingAssumption DEF V
    <3>2. ~run.calm
      BY <1>0, <1>1, <2>1, <3>1, CalmFinds DEF HistInv
    <3>3. QED
      BY <1>0, <1>3, <2>1, <3>2, GivenUpKeeps DEF Select
  <2>2. CASE Succeed
    BY <1>1, <2>2, SucceedKeepsHist
  <2>3. CASE Goto("temp") /\ UNCHANGED cache
    BY <1>1, <2>3, AcceptedKeepsHist DEF Accepted
  <2>4. QED
    BY <1>3, <2>1, <2>2, <2>3 DEF Select
<1>4. CASE OpenTemp \/ RenameFails
  <2>1. /\ run'.m = run.m /\ SameRun /\ run'.pc \in {"body", "copy"}
        /\ run'.calm => run.calm
        /\ run'.failed = run.failed /\ run'.cancelled = run.cancelled
        /\ run'.attempt = run.attempt /\ run'.hits = run.hits /\ UNCHANGED cache
    BY <1>0, <1>4 DEF OpenTemp, RenameFails, Run, SameRun
  <2>2. cache[S].verified => run.m = cache[S]
    BY <1>1 DEF HistInv, UsedInv
  <2>3. run.calm => run.m.build = pub[S].sums /\ run.attempt <= run.hits + 1
    BY <1>1 DEF HistInv, CalmInv
  <2>4. QED
    BY <1>1, <2>1, <2>2, <2>3, GoesOnKeepsHist
<1>5. CASE GetBody
  <2>1. CASE Image(S, V) = run.m.build
    BY <1>1, <1>5, <2>1, AcceptedKeepsHist DEF GetBody, Accepted
  <2>2. CASE Image(S, V) # run.m.build
    <3>1. ~run.calm
      BY <1>0, <1>1, <2>2, CalmFinds DEF HistInv
    <3>2. QED
      BY <1>0, <1>5, <2>2, <3>1, GivenUpKeeps DEF GetBody
  <2>3. QED
    BY <2>1, <2>2
<1>6. CASE Unpack
  BY <1>1, <1>6, AcceptedKeepsHist DEF Unpack, Accepted
<1>7. CASE Rename \/ Copy
  BY <1>1, <1>7, SucceedKeepsHist DEF Rename, Copy
<1>8. QED
  BY <1>2, <1>3, <1>4, <1>5, <1>6, <1>7

LEMMA StartKeepsHist ==
    ASSUME Inv, Start
    PROVE  HistInv'
<1>. DEFINE calm == \A t \in Transfers : /\ Consistent(SourceOf[t])
                                         /\ VersionOf[pub[SourceOf[t]].sums] >= MinVersion[t]
            unused == [t \in Transfers |-> NoBuild]
            none == [s \in Sources |-> NoManifest]
<1>1. run \in Run /\ run.order \in Seq(Transfers)
  BY FetchingAssumption DEF Inv, TypeOK, Run
<1>2. /\ cache' = none /\ pub' = pub
      /\ run' = [run EXCEPT !.pc = "next", !.i = 1, !.m = NoManifest, !.attempt = 1,
                   !.cancelled = FALSE, !.failed = FALSE, !.hits = 0, !.calm = calm,
                   !.used = unused]
  BY DEF Start
<1>. HIDE DEF calm, unused, none
<1>3. /\ run'.pc = "next" /\ run'.calm = calm /\ run'.used = unused /\ run'.failed = FALSE
      /\ run'.cancelled = FALSE /\ run'.attempt = 1 /\ run'.hits = 0
      /\ run'.order = run.order
  BY <1>1, <1>2 DEF Run
<1>4. \A k \in DOMAIN run.order : run.order[k] \in Transfers
  BY <1>1
<1>5. NeedVerify \subseteq Transfers
  BY FetchingAssumption
<1>6. UsedInv'
  BY <1>3, <1>4, <1>5 DEF unused, UsedInv, OneVerifiedManifest, Accepted
<1>7. \A t \in Transfers : Consistent(SourceOf[t])' <=> Consistent(SourceOf[t])
  BY <1>2 DEF Consistent, Image
<1>8. CalmInv'
  BY <1>2, <1>3, <1>7 DEF calm, none, CalmInv, Holding, Accepted
<1>9. QED
  BY <1>6, <1>8 DEF HistInv

LEMMA DisturbancesKeepHist ==
    ASSUME Inv, HistInv,
           \/ Crash \/ PowerLoss
           \/ \E s \in Sources, k \in {"image", "sums", "sig"} : Publish(s, k)
    PROVE  HistInv'
<1>0. TypeOK /\ run \in Run
  BY DEF Inv, TypeOK
<1>1. CASE Crash \/ PowerLoss
  <2>1. /\ run' = [run EXCEPT !.pc = "idle", !.failed = TRUE, !.calm = FALSE]
        /\ cache' = cache
    BY <1>1 DEF Crash, PowerLoss, Stop
  <2>2. /\ run'.order = run.order /\ run'.i = run.i /\ run'.used = run.used
        /\ run'.pc = "idle" /\ ~run'.calm
    BY <1>0, <2>1 DEF Run
  <2>3. QED
    BY <1>0, <2>1, <2>2, UsedRests DEF HistInv, CalmInv
<1>2. CASE \E s \in Sources, k \in {"image", "sums", "sig"} : Publish(s, k)
  <2>1. run' = [run EXCEPT !.calm = FALSE] /\ cache' = cache
    BY <1>2 DEF Publish
  <2>2. SameRun /\ run'.pc = run.pc /\ run'.m = run.m /\ ~run'.calm
    BY <1>0, <2>1 DEF Run, SameRun
  <2>3. UsedInv'
    BY <2>1, <2>2, UsedGoesOn DEF HistInv, UsedInv
  <2>4. QED
    BY <2>2, <2>3 DEF HistInv, CalmInv
<1>3. QED
  BY <1>1, <1>2

LEMMA InitHist == Init => HistInv
<1>. SUFFICES ASSUME Init PROVE HistInv
  OBVIOUS
<1>1. PICK o \in Orders :
        run = [pc |-> "idle", order |-> o, i |-> 1, m |-> NoManifest, attempt |-> 1,
               cancelled |-> FALSE, failed |-> FALSE, calm |-> FALSE, hits |-> 0,
               used |-> [t \in Transfers |-> NoBuild]]
  BY DEF Init
<1>2. /\ NeedVerify \subseteq Transfers
      /\ \A k \in DOMAIN o : o[k] \in Transfers
  BY FetchingAssumption
<1>3. QED
  BY <1>1, <1>2 DEF HistInv, UsedInv, CalmInv, OneVerifiedManifest, Accepted

LEMMA NextHist == Inv /\ HistInv /\ [Next]_vars => HistInv'
<1>. SUFFICES ASSUME Inv, HistInv, [Next]_vars PROVE HistInv'
  OBVIOUS
<1>1. CASE Client
  BY <1>1, LocalStepsHist, RequestStepsHist, DownloadStepsHist DEF Client
<1>2. CASE Start \/ Cancel
  BY <1>2, StartKeepsHist, LocalStepsHist
<1>3. CASE \/ Crash \/ PowerLoss
           \/ \E s \in Sources, k \in {"image", "sums", "sig"} : Publish(s, k)
  BY <1>3, DisturbancesKeepHist
<1>4. CASE UNCHANGED vars
  <2>1. SameRun /\ UNCHANGED <<run, pub, cache>>
    BY <1>4 DEF vars, SameRun
  <2>2. UsedInv'
    BY <2>1, UsedGoesOn DEF HistInv, UsedInv
  <2>3. \A t \in Transfers : Consistent(SourceOf[t])' <=> Consistent(SourceOf[t])
    BY <2>1 DEF Consistent, Image
  <2>4. S' = S
    BY <2>1 DEF S, T
  <2>5. CalmInv'
    BY <2>1, <2>3, <2>4 DEF HistInv, CalmInv
  <2>6. QED
    BY <2>2, <2>5 DEF HistInv
<1>5. QED
  BY <1>1, <1>2, <1>3, <1>4 DEF Next

LEMMA HistAlways == Spec => []HistInv
  BY InitInv, NextInv, InitHist, NextHist, PTL DEF Spec

\* Once a run has used a verified manifest of a source, every later transfer of
\* that source uses the same one: for any number of transfers, each listed once
\* in any order, and whatever is published meanwhile.
THEOREM VerifiedIsShared == Spec => []OneVerifiedManifest
<1>1. HistInv => OneVerifiedManifest
  BY DEF HistInv, UsedInv
<1>2. QED
  BY <1>1, HistAlways, PTL

\* A run over consistent sources that nothing but fewer transient failures than
\* MaxAttempts disturbs does not fail, for every MaxAttempts, whichever of its
\* requests they hit.
THEOREM TransientFailuresMasked == Spec => []TransientIsMasked
<1>1. HistInv => TransientIsMasked
  BY DEF HistInv, CalmInv, TransientIsMasked
<1>2. QED
  BY <1>1, HistAlways, PTL
=============================================================================
