------------------------------ MODULE Fetching ------------------------------
(***************************************************************************)
(* What UpdateFeatures fetches: one run goes through its transfers, takes *)
(* the manifest of each from the run's cache or from the server, checks   *)
(* its signature when the transfer requires it, downloads the image and   *)
(* puts it under its name.  The server publishes a release file by file   *)
(* while runs go on.  One action is one request, or one change of a file. *)
(*                                                                         *)
(* A build stands for an image's bytes and their hash; the manifest of    *)
(* build b lists, for every version, the newest build up to b.            *)
(***************************************************************************)
EXTENDS Naturals, Sequences, FiniteSets

CONSTANTS
    Sources,        \* base URLs
    Transfers,
    Orders,         \* the orders a loaded domain may list the transfers in
    SourceOf,       \* transfer -> Source.Path
    NeedVerify,     \* the transfers whose manifest must be verified
    Compressed,     \* the transfers whose image is unpacked
    MaxBuild,
    VersionOf,      \* build -> version, ascending
    Signed,         \* the builds whose manifest is signed
    MinVersion,     \* transfer -> the transfer's MinVersion, or 0
    MaxAttempts,    \* retry.Config
    Faults,         \* the failures of this instance that are not transient
    MaxFaults,      \* bound: such failures, crashes and power losses
    MaxRuns         \* bound: runs

Builds == 1 .. MaxBuild
Versions == {VersionOf[b] : b \in Builds}
FaultKinds == {"request", "keyring", "temp", "short", "sync", "unpack", "chmod",
               "rename", "copy", "cancel", "crash", "power"}

ASSUME FetchingAssumption ==
    /\ Orders \subseteq Seq(Transfers)
    /\ \A o \in Orders : \A i, j \in DOMAIN o : o[i] = o[j] => i = j
    /\ SourceOf \in [Transfers -> Sources]
    /\ NeedVerify \subseteq Transfers /\ Compressed \subseteq Transfers
    /\ MaxBuild \in Nat \ {0}
    /\ VersionOf \in [Builds -> Nat \ {0}]
    /\ \A b, c \in Builds : b < c => VersionOf[b] <= VersionOf[c]
    /\ Signed \subseteq Builds
    /\ MinVersion \in [Transfers -> Nat]
    /\ MaxAttempts \in Nat \ {0}
    /\ Faults \subseteq FaultKinds
    /\ MaxFaults \in Nat /\ MaxRuns \in Nat

VARIABLES
    pub,        \* source -> the newest build of each published file
    target,     \* transfer -> version -> the image under its target name
    temp,       \* the temporary files of the download that is under way
    debris,     \* temporary files a killed run left behind
    cache,      \* source -> the manifest this run holds for it
    run,        \* the run: where it is, and what it holds
    faults, runs

vars == <<pub, target, temp, debris, cache, run, faults, runs>>

NoBuild == 0
NoManifest == [build |-> NoBuild, verified |-> FALSE]
Manifest == [build : 0 .. MaxBuild, verified : BOOLEAN]

\* On disk, in the page cache only, or cut short by a power loss.
NoFile == [build |-> NoBuild, state |-> "none"]
File == {NoFile} \cup [build : Builds, state : {"disk", "cached", "torn"}]
Temps == {"download", "unpacked", "copy"}

Labels == {"idle", "next", "sums", "sig", "select", "temp", "body", "unpack",
           "rename", "copy"}

\* calm: a history variable, nothing but transient failures, fewer of them
\* than MaxAttempts, has disturbed this run.  used: another, the build of
\* each transfer that has succeeded.  hits counts the transient failures.
Run == [pc : Labels, order : Orders, i : Nat \ {0}, m : Manifest,
        attempt : 1 .. MaxAttempts, cancelled : BOOLEAN, failed : BOOLEAN, calm : BOOLEAN,
        hits : 0 .. MaxAttempts, used : [Transfers -> 0 .. MaxBuild]]

TypeOK ==
    /\ pub \in [Sources -> [image : Builds, sums : Builds, sig : 0 .. MaxBuild]]
    /\ target \in [Transfers -> [Versions -> File]]
    /\ temp \in [Temps -> File]
    /\ debris \in BOOLEAN
    /\ cache \in [Sources -> Manifest]
    /\ run \in Run
    /\ run.pc \notin {"idle", "next"} => run.i \in DOMAIN run.order
    /\ faults \in 0 .. MaxFaults
    /\ runs \in 0 .. MaxRuns

At(l) == run.pc = l
T == run.order[run.i]
S == SourceOf[T]
V == VersionOf[run.m.build]

Newest(bs) == IF bs = {} THEN NoBuild ELSE CHOOSE b \in bs : \A c \in bs : c <= b

\* What the server sends for the image of version v.
Image(s, v) == Newest({b \in Builds : b <= pub[s].image /\ VersionOf[b] = v})

Consistent(s) == LET b == pub[s].sums IN
    /\ pub[s].sig = b
    /\ Image(s, VersionOf[b]) = b

NoTemps == [k \in Temps |-> NoFile]
Fault(k) == k \in Faults /\ faults > 0 /\ faults' = faults - 1

Init ==
    /\ pub = [s \in Sources |-> [image |-> 1, sums |-> 1,
                                 sig |-> IF 1 \in Signed THEN 1 ELSE NoBuild]]
    /\ target = [t \in Transfers |-> [v \in Versions |-> NoFile]]
    /\ temp = NoTemps
    /\ debris = FALSE
    /\ cache = [s \in Sources |-> NoManifest]
    /\ \E o \in Orders :
         run = [pc |-> "idle", order |-> o, i |-> 1, m |-> NoManifest, attempt |-> 1,
                cancelled |-> FALSE, failed |-> FALSE, calm |-> FALSE, hits |-> 0,
                used |-> [t \in Transfers |-> NoBuild]]
    /\ faults = MaxFaults
    /\ runs = MaxRuns

\* A run starts with an empty cache.
Start ==
    /\ At("idle")
    /\ runs > 0
    /\ runs' = runs - 1
    /\ cache' = [s \in Sources |-> NoManifest]
    /\ run' = [run EXCEPT !.pc = "next", !.i = 1, !.m = NoManifest, !.attempt = 1,
               !.cancelled = FALSE, !.failed = FALSE, !.hits = 0,
               !.calm = \A t \in Transfers : /\ Consistent(SourceOf[t])
                                             /\ VersionOf[pub[SourceOf[t]].sums] >= MinVersion[t],
               !.used = [t \in Transfers |-> NoBuild]]
    /\ UNCHANGED <<pub, target, temp, debris, faults>>

-----------------------------------------------------------------------------
\* The run's local steps: go on, give the transfer up, or be done with it.
\* A transfer that fails leaves the cache as it was, also when its manifest
\* was fetched; one that succeeds puts its manifest there.

Goto(l) == run' = [run EXCEPT !.pc = l, !.attempt = 1]

Advance(r) == run' = [r EXCEPT !.pc = "next", !.i = @ + 1, !.m = NoManifest, !.attempt = 1]
GiveUp == Advance([run EXCEPT !.failed = TRUE])
GiveUpDisturbed == Advance([run EXCEPT !.failed = TRUE, !.calm = FALSE])

Succeed ==
    /\ cache' = [cache EXCEPT ![S] = run.m]
    /\ Advance([run EXCEPT !.used[T] = run.m.build])

End ==
    /\ At("next")
    /\ run.i > Len(run.order)
    /\ run' = [run EXCEPT !.pc = "idle"]
    /\ UNCHANGED <<pub, target, temp, debris, cache, faults, runs>>

\* Slip: any cached manifest will do.
ChooseCached ==
    /\ At("next")
    /\ run.i <= Len(run.order)
    /\ run' = [run EXCEPT !.pc = IF cache[S] = NoManifest THEN "sums" ELSE "select",
                          !.m = cache[S]]
    /\ UNCHANGED <<pub, target, temp, debris, cache, faults, runs>>

\* Slip: a manifest serves the transfers that verify as it was verified.
ChooseSame ==
    /\ At("next")
    /\ run.i <= Len(run.order)
    /\ LET usable == cache[S] # NoManifest /\ (T \in NeedVerify <=> cache[S].verified)
       IN run' = [run EXCEPT !.pc = IF usable THEN "select" ELSE "sums",
                             !.m = IF usable THEN cache[S] ELSE NoManifest]
    /\ UNCHANGED <<pub, target, temp, debris, cache, faults, runs>>

\* A verified manifest serves every transfer of its source, an unverified one
\* only those that do not require verification.
Choose ==
    /\ At("next")
    /\ run.i <= Len(run.order)
    /\ LET usable == cache[S] # NoManifest /\ (T \in NeedVerify => cache[S].verified)
       IN run' = [run EXCEPT !.pc = IF usable THEN "select" ELSE "sums",
                             !.m = IF usable THEN cache[S] ELSE NoManifest]
    /\ UNCHANGED <<pub, target, temp, debris, cache, faults, runs>>

-----------------------------------------------------------------------------
\* Requests.  A network error, a 429 or a 5xx is transient: retry.Do tries
\* again until MaxAttempts, the temporary file of the attempt is removed.

GetSums ==
    /\ At("sums")
    /\ ~run.cancelled
    /\ run' = [run EXCEPT !.pc = IF T \in NeedVerify THEN "sig" ELSE "select",
                          !.m = [build |-> pub[S].sums, verified |-> FALSE], !.attempt = 1]
    /\ UNCHANGED <<pub, target, temp, debris, cache, faults, runs>>

\* verifySignature: the signature must be one of the manifest that was fetched.
GetSig ==
    /\ At("sig")
    /\ ~run.cancelled
    /\ IF pub[S].sig = run.m.build
       THEN run' = [run EXCEPT !.pc = "select", !.m.verified = TRUE, !.attempt = 1]
       ELSE GiveUp
    /\ UNCHANGED <<pub, target, temp, debris, cache, faults, runs>>

KeyringFails ==
    /\ At("sig")
    /\ Fault("keyring")
    /\ GiveUpDisturbed
    /\ UNCHANGED <<pub, target, temp, debris, cache, runs>>

Requesting == {"sums", "sig", "body"}
Retry(r) == [r EXCEPT !.pc = IF @ = "body" THEN "temp" ELSE @,
                      !.hits = IF @ < MaxAttempts THEN @ + 1 ELSE @,
                      !.calm = @ /\ r.hits + 1 < MaxAttempts]

\* Slip: an attempt is not counted.
TransientForever ==
    /\ run.pc \in Requesting
    /\ temp' = NoTemps
    /\ run' = Retry(run)
    /\ UNCHANGED <<pub, target, debris, cache, faults, runs>>

\* Slip: one attempt too few.
TransientEarly ==
    /\ run.pc \in Requesting
    /\ temp' = NoTemps
    /\ LET r == Retry(run) IN
       IF run.attempt + 1 >= MaxAttempts \/ run.cancelled
       THEN Advance([r EXCEPT !.failed = TRUE])
       ELSE run' = [r EXCEPT !.attempt = @ + 1]
    /\ UNCHANGED <<pub, target, debris, cache, faults, runs>>

\* Slip: one attempt too many.
TransientLate ==
    /\ run.pc \in Requesting
    /\ temp' = NoTemps
    /\ LET r == Retry(run) IN
       IF run.attempt > MaxAttempts \/ run.cancelled
       THEN Advance([r EXCEPT !.failed = TRUE])
       ELSE run' = [r EXCEPT !.attempt = @ + 1]
    /\ UNCHANGED <<pub, target, debris, cache, faults, runs>>

\* A context that is done ends the wait between two attempts.
Transient ==
    /\ run.pc \in Requesting
    /\ temp' = NoTemps
    /\ LET r == Retry(run) IN
       IF run.attempt = MaxAttempts \/ run.cancelled
       THEN Advance([r EXCEPT !.failed = TRUE])
       ELSE run' = [r EXCEPT !.attempt = @ + 1]
    /\ UNCHANGED <<pub, target, debris, cache, faults, runs>>

\* Another status, a response over the size limit, or a context that is done.
RequestFails ==
    /\ run.pc \in Requesting
    /\ \/ Fault("request")
       \/ run.cancelled /\ UNCHANGED faults
    /\ temp' = NoTemps
    /\ GiveUpDisturbed
    /\ UNCHANGED <<pub, target, debris, cache, runs>>

Cancel ==
    /\ ~At("idle")
    /\ ~run.cancelled
    /\ Fault("cancel")
    /\ run' = [run EXCEPT !.cancelled = TRUE, !.calm = FALSE]
    /\ UNCHANGED <<pub, target, temp, debris, cache, runs>>

-----------------------------------------------------------------------------
\* Select the newest version the manifest lists, unless MinVersion excludes it;
\* it is not fetched again when it is the newest one installed, whatever build
\* of it that is.
Select ==
    /\ At("select")
    /\ LET installed == {v \in Versions : target[T][v] # NoFile}
       IN IF V < MinVersion[T] THEN GiveUp /\ UNCHANGED cache
          ELSE IF V \in installed /\ \A v \in installed : v <= V THEN Succeed
          ELSE Goto("temp") /\ UNCHANGED cache
    /\ UNCHANGED <<pub, target, temp, debris, faults, runs>>

\* Each attempt has a temporary file of its own.
OpenTemp ==
    /\ At("temp")
    /\ temp' = [temp EXCEPT !["download"] = [build |-> run.m.build, state |-> "cached"]]
    /\ run' = [run EXCEPT !.pc = "body"]
    /\ UNCHANGED <<pub, target, debris, cache, faults, runs>>

TempFails ==
    /\ At("temp")
    /\ Fault("temp")
    /\ GiveUpDisturbed
    /\ UNCHANGED <<pub, target, temp, debris, cache, runs>>

\* The bytes are hashed, compared and synced; a wrong hash, or no file of the
\* version, is not retried.
GetBody ==
    /\ At("body")
    /\ ~run.cancelled
    /\ IF Image(S, V) = run.m.build
       THEN /\ temp' = [temp EXCEPT !["download"].state = "disk"]
            /\ Goto(IF T \in Compressed THEN "unpack" ELSE "rename")
       ELSE /\ temp' = NoTemps
            /\ GiveUp
    /\ UNCHANGED <<pub, target, debris, cache, faults, runs>>

\* A body cut short without an error has the wrong hash too.
BodyFails ==
    /\ At("body")
    /\ Fault("short") \/ Fault("sync")
    /\ temp' = NoTemps
    /\ GiveUpDisturbed
    /\ UNCHANGED <<pub, target, debris, cache, runs>>

\* Slip: what was unpacked is not synced.
UnpackUnsynced ==
    /\ At("unpack")
    /\ temp' = [NoTemps EXCEPT !["unpacked"] = [build |-> run.m.build, state |-> "cached"]]
    /\ Goto("rename")
    /\ UNCHANGED <<pub, target, debris, cache, faults, runs>>

Unpack ==
    /\ At("unpack")
    /\ temp' = [NoTemps EXCEPT !["unpacked"] = [build |-> run.m.build, state |-> "disk"]]
    /\ Goto("rename")
    /\ UNCHANGED <<pub, target, debris, cache, faults, runs>>

\* Broken data, too much of it, or a failing sync: both files are removed.
UnpackFails ==
    /\ At("unpack")
    /\ Fault("unpack")
    /\ temp' = NoTemps
    /\ GiveUpDisturbed
    /\ UNCHANGED <<pub, target, debris, cache, runs>>

Ready == IF T \in Compressed THEN temp["unpacked"] ELSE temp["download"]

\* The rename takes the temporary file away.  Linking and vacuuming follow: see
\* Staging.
Rename ==
    /\ At("rename")
    /\ target' = [target EXCEPT ![T][V] = Ready]
    /\ temp' = NoTemps
    /\ Succeed
    /\ UNCHANGED <<pub, debris, faults, runs>>

ChmodFails ==
    /\ At("rename")
    /\ Fault("chmod")
    /\ temp' = NoTemps
    /\ GiveUpDisturbed
    /\ UNCHANGED <<pub, target, debris, cache, runs>>

RenameFails ==
    /\ At("rename")
    /\ Fault("rename")
    /\ temp' = [temp EXCEPT !["copy"] = [Ready EXCEPT !.state = "cached"]]
    /\ run' = [run EXCEPT !.pc = "copy", !.calm = FALSE]
    /\ UNCHANGED <<pub, target, debris, cache, runs>>

\* copyFile syncs its copy before it renames it.
Copy ==
    /\ At("copy")
    /\ target' = [target EXCEPT ![T][V] = [temp["copy"] EXCEPT !.state = "disk"]]
    /\ temp' = NoTemps
    /\ Succeed
    /\ UNCHANGED <<pub, debris, faults, runs>>

\* Slip: only the copy is removed.
CopyLeaves ==
    /\ At("copy")
    /\ Fault("copy")
    /\ temp' = [temp EXCEPT !["copy"] = NoFile]
    /\ GiveUpDisturbed
    /\ UNCHANGED <<pub, target, debris, cache, runs>>

CopyFails ==
    /\ At("copy")
    /\ Fault("copy")
    /\ temp' = NoTemps
    /\ GiveUpDisturbed
    /\ UNCHANGED <<pub, target, debris, cache, runs>>

-----------------------------------------------------------------------------
\* A killed run leaves its temporary files.
Stop(files) ==
    /\ debris' = (debris \/ temp # NoTemps)
    /\ temp' = NoTemps
    /\ target' = files
    /\ run' = [run EXCEPT !.pc = "idle", !.failed = TRUE, !.calm = FALSE]
    /\ UNCHANGED <<pub, cache, runs>>

Crash ==
    /\ ~At("idle")
    /\ Fault("crash")
    /\ Stop(target)

\* What was not synced is lost.  (A rename that is lost with it is a run that
\* stopped before the rename.)
PowerLoss ==
    /\ Fault("power")
    /\ Stop([t \in Transfers |-> [v \in Versions |->
               IF target[t][v].state = "cached" THEN [target[t][v] EXCEPT !.state = "torn"]
               ELSE target[t][v]]])

\* The publisher uploads the files of a build one by one, in any order.
Publish(s, k) ==
    /\ \E b \in Builds :
         /\ b > pub[s][k]
         /\ k = "sig" => b \in Signed
         /\ \A c \in pub[s][k] + 1 .. b - 1 : k = "sig" /\ c \notin Signed
         /\ pub' = [pub EXCEPT ![s][k] = b]
    /\ run' = [run EXCEPT !.calm = FALSE]
    /\ UNCHANGED <<target, temp, debris, cache, faults, runs>>

\* The server answers, or it does not: what a run does by itself.
Client ==
    \/ End \/ Choose \/ GetSums \/ GetSig \/ KeyringFails \/ Transient \/ RequestFails
    \/ Select \/ OpenTemp \/ TempFails \/ GetBody \/ BodyFails \/ Unpack \/ UnpackFails
    \/ Rename \/ ChmodFails \/ RenameFails \/ Copy \/ CopyFails

Next ==
    \/ Start \/ Client \/ Cancel \/ Crash \/ PowerLoss
    \/ \E s \in Sources, k \in {"image", "sums", "sig"} : Publish(s, k)

\* A request ends: the HTTP client has a timeout.
Spec == Init /\ [][Next]_vars /\ WF_vars(Client)
-----------------------------------------------------------------------------
\* A transfer that requires verification only ever has images of a manifest
\* that was signed, in whatever order the transfers that share its source are
\* loaded, and whatever is published meanwhile.
VerifiedMeansSigned ==
    \A t \in NeedVerify : \A v \in Versions :
      target[t][v] # NoFile => target[t][v].build \in Signed

\* What is under a target name is whole and is that version, also after a crash
\* or a power loss at any point.
TargetIsWhole ==
    \A t \in Transfers : \A v \in Versions :
      target[t][v] # NoFile => /\ target[t][v].state = "disk"
                               /\ VersionOf[target[t][v].build] = v

\* Once a run has used a verified manifest of a source, every later transfer of
\* the run uses that one: none refetches, none falls back to an unverified one.
OneVerifiedManifest ==
    \A i, j \in DOMAIN run.order :
      LET t == run.order[i]
          u == run.order[j]
      IN (/\ i < j /\ t \in NeedVerify /\ SourceOf[t] = SourceOf[u]
          /\ run.used[t] # NoBuild /\ run.used[u] # NoBuild)
         => run.used[u] = run.used[t]

\* Only a run that is killed leaves a temporary file: none of the ways in which
\* a download fails does.
NoTempLeft == run.pc \in {"idle", "next"} => temp = NoTemps

\* A run over a source that is consistent, and that nothing but fewer transient
\* failures than MaxAttempts disturbs, succeeds.
TransientIsMasked == (At("idle") /\ run.calm) => ~run.failed

\* A run ends, also when the server never answers.
RunEnds == ~At("idle") ~> At("idle")
=============================================================================
