------------------------------- MODULE Domain -------------------------------
(***************************************************************************)
(* The definitions updex reads and the one drop-in it writes: loadDomain, *)
(* EnableFeature and DisableFeature for one name.  A .feature, .transfer  *)
(* or drop-in file of that name may lie in the legacy directory and in    *)
(* any component, under each search root; administrators and packages     *)
(* change them while commands run.                                         *)
(***************************************************************************)
EXTENDS Naturals, FiniteSets, FiniteSetsExt

CONSTANTS
    NRoots,         \* search roots, the first one of the highest priority
    NComponents,    \* components, in alphabetical order
    NDropIns,       \* drop-in names after updex's own, in alphabetical order
    MaxCommands,    \* bound: commands
    MaxEdits        \* bound: edits

ASSUME DomainAssumption ==
    /\ NRoots \in Nat \ {0} /\ NComponents \in Nat /\ NDropIns \in Nat
    /\ MaxCommands \in Nat /\ MaxEdits \in Nat

Roots == 1 .. NRoots
Legacy == 0
Scopes == Legacy .. NComponents     \* sysupdate.d, then sysupdate.<name>.d
NoScope == NComponents + 1

\* A directory is a root and a scope; Override is a --definitions directory.
Override == <<0, Legacy>>
Dirs == (Roots \X Scopes) \cup {Override}

UpdexDropIn == 0                    \* 00-updex.conf sorts first
DropIns == UpdexDropIn .. NDropIns

\* The read domain of a command, as the scopes it reads: all of them, the one
\* given by --component, or none, but the directory given by --definitions.
Domains == {Scopes, {}} \cup {{s} : s \in Scopes \ {Legacy}}

\* Broken is a file that cannot be parsed, os a transfer that is not a
\* sysext's, keep a drop-in without an Enabled key.
FeatureFiles == {"none", "mask", "broken", "off", "on"}
TransferFiles == {"none", "mask", "broken", "os", "sysext"}
DropInFiles == {"none", "broken", "keep", "off", "on"}

VARIABLES
    feature,    \* directory -> the .feature file there
    transfer,   \* directory -> the .transfer file there
    dropin,     \* directory -> drop-in name -> the file in .feature.d there
    cmd,        \* the command that runs, or ran last: its pc, domain, request
                \* and result, the scope it writes to, and a history flag: the
                \* definitions were edited since it has loaded them
    commands, edits

definitions == <<feature, transfer, dropin>>
vars == <<definitions, cmd, commands, edits>>

-----------------------------------------------------------------------------
\* Loading.

\* The directories of one scope, highest priority first.
ComponentSearchPaths(s) == [r \in Roots |-> <<r, s>>]
OverridePath == [r \in {1} |-> Override]

First(found) == IF found = {} THEN 0 ELSE Min(found)

\* Slip: a mask does not claim its name.
CollectUnmasked(path, file) ==
    First({i \in DOMAIN path : file[path[i]] \notin {"none", "mask"}})

\* collectConfigFiles: the first occurrence of a file name claims it, a mask
\* too.  The index of the directory, or 0.
Collect(path, file) == First({i \in DOMAIN path : file[path[i]] # "none"})

\* The file that counts of those of one name in the directories of path.
Chosen(path, file) ==
    LET i == Collect(path, file)
    IN IF i = 0 THEN "none" ELSE file[path[i]]

\* The drop-in of name n that counts.
DropIn(path, n) == Chosen(path, [d \in Dirs |-> dropin[d][n]])

\* Slip: a drop-in that was applied is not overridden.
AppliedFirst(path, enabled) ==
    LET sets == {n \in DropIns : DropIn(path, n) \in {"on", "off"}}
    IN IF sets = {} THEN enabled ELSE DropIn(path, Min(sets)) = "on"

\* applyFeatureDropIns: for each name the drop-in of the earliest directory,
\* applied in the order of the names.
Applied(path, enabled) ==
    LET upto[n \in DropIns] ==
          LET before == IF n = UpdexDropIn THEN enabled ELSE upto[n - 1]
              at == DropIn(path, n)
          IN IF at \in {"on", "off"} THEN at = "on" ELSE before
    IN upto[NDropIns]

NoFeature == [dir |-> <<0, NoScope>>, masked |-> FALSE, enabled |-> FALSE]

FeatureOf(path) ==
    LET i == Collect(path, feature)
    IN IF i = 0 THEN NoFeature
       ELSE IF feature[path[i]] = "mask"
       THEN [dir |-> path[i], masked |-> TRUE, enabled |-> FALSE]
       ELSE [dir |-> path[i], masked |-> FALSE,
             enabled |-> Applied(path, feature[path[i]] = "on")]

\* A masked transfer and one that is not a sysext's are no transfers, but
\* their file has claimed the name in its own search path.
NoTransfer == <<0, NoScope>>
TransferOf(path) ==
    LET i == Collect(path, transfer)
    IN IF i = 0 \/ transfer[path[i]] # "sysext" THEN NoTransfer ELSE path[i]

\* Slip: the drop-ins of a masked feature are read, too.
FeatureFailsMasked(path) ==
    LET f == Chosen(path, feature)
    IN f # "none" /\ (f = "broken" \/ \E n \in DropIns : DropIn(path, n) = "broken")

\* parseFeatureFile fails: on the file or, unless that is a mask, on a drop-in
\* that counts.
FeatureFails(path) ==
    LET f == Chosen(path, feature)
    IN /\ f \notin {"none", "mask"}
       /\ f = "broken" \/ \E n \in DropIns : DropIn(path, n) = "broken"

\* parseTransferFile fails, on an OS transfer just as on a sysext's.
TransferFails(path) == Chosen(path, transfer) = "broken"

\* The search paths a domain reads.
PathsOf(d) ==
    IF d = {} THEN {OverridePath} ELSE {ComponentSearchPaths(s) : s \in d}

\* loadDomain: one file that cannot be parsed fails the load of the whole domain.
LoadFails(d) == \E path \in PathsOf(d) : FeatureFails(path) \/ TransferFails(path)

\* LoadAllFeaturesIn: what is put later, from a component later in the
\* alphabet, replaces what is there.
LoadFeature(d) ==
    LET put[s \in Scopes] ==
          LET f == IF s \in d THEN FeatureOf(ComponentSearchPaths(s)) ELSE NoFeature
          IN IF s = Legacy \/ f # NoFeature THEN f ELSE put[s - 1]
    IN IF d = {} THEN FeatureOf(OverridePath) ELSE put[NComponents]

\* Slip: what is there stays.
LoadTransferFirst(d) ==
    LET put[s \in Scopes] ==
          LET t == IF s \in d THEN TransferOf(ComponentSearchPaths(s)) ELSE NoTransfer
          IN IF s = Legacy \/ put[s - 1] = NoTransfer THEN t ELSE put[s - 1]
    IN IF d = {} THEN TransferOf(OverridePath) ELSE put[NComponents]

LoadTransfer(d) ==
    LET put[s \in Scopes] ==
          LET t == IF s \in d THEN TransferOf(ComponentSearchPaths(s)) ELSE NoTransfer
          IN IF s = Legacy \/ t # NoTransfer THEN t ELSE put[s - 1]
    IN IF d = {} THEN TransferOf(OverridePath) ELSE put[NComponents]

\* What an update over domain d installs the image of, if anything.
Updated(d) ==
    LET f == LoadFeature(d)
    IN IF ~LoadFails(d) /\ f.enabled /\ ~f.masked THEN LoadTransfer(d) ELSE NoTransfer

-----------------------------------------------------------------------------
NoCommand == [pc |-> "idle", domain |-> Scopes, on |-> FALSE, scope |-> Legacy,
              res |-> "none", edited |-> FALSE]

\* At first there is what one package ships, under the last root.
Init ==
    /\ \E s \in Scopes, f \in {"off", "on"}, t \in {"os", "sysext"} :
         /\ feature = [d \in Dirs |-> IF d = <<NRoots, s>> THEN f ELSE "none"]
         /\ transfer = [d \in Dirs |-> IF d = <<NRoots, s>> THEN t ELSE "none"]
    /\ dropin = [d \in Dirs |-> [n \in DropIns |-> "none"]]
    /\ cmd = NoCommand
    /\ commands = MaxCommands
    /\ edits = MaxEdits

\* Slip: every definition counts as a legacy one.
LegacyOf(dir) == Legacy

\* ComponentOfPath: the scope of a definition's directory; a --definitions
\* directory has none, and counts as the legacy one.
ComponentOf(dir) == dir[2]

\* A command loads the domain and looks its feature up.
Begin(d, on) ==
    LET f == LoadFeature(d)
        res == IF LoadFails(d) THEN "unreadable"
               ELSE IF f = NoFeature THEN "missing"
               ELSE IF f.masked THEN "masked" ELSE "none"
    IN /\ cmd.pc = "idle"
       /\ commands > 0
       /\ commands' = commands - 1
       /\ cmd' = IF res = "none"
                 THEN [pc |-> "write", domain |-> d, on |-> on, scope |-> ComponentOf(f.dir),
                       res |-> res, edited |-> FALSE]
                 ELSE [NoCommand EXCEPT !.res = res]
       /\ UNCHANGED <<definitions, edits>>

\* writeFeatureDropIn, under the first root.
WriteDropIn ==
    /\ cmd.pc = "write"
    /\ dropin' = [dropin EXCEPT ![<<1, cmd.scope>>][UpdexDropIn] = IF cmd.on THEN "on" ELSE "off"]
    /\ cmd' = [cmd EXCEPT !.pc = "idle", !.res = "ok"]
    /\ UNCHANGED <<feature, transfer, commands, edits>>

\* An administrator or a package adds, changes or removes a definition.
Edit(d) ==
    /\ edits > 0
    /\ edits' = edits - 1
    /\ \/ /\ feature' \in {[feature EXCEPT ![d] = x] : x \in FeatureFiles \ {feature[d]}}
          /\ UNCHANGED <<transfer, dropin>>
       \/ /\ transfer' \in {[transfer EXCEPT ![d] = x] : x \in TransferFiles \ {transfer[d]}}
          /\ UNCHANGED <<feature, dropin>>
       \/ /\ \E n \in DropIns :
               dropin' \in {[dropin EXCEPT ![d][n] = x] : x \in DropInFiles \ {dropin[d][n]}}
          /\ UNCHANGED <<feature, transfer>>
    /\ cmd' = [cmd EXCEPT !.edited = cmd.pc = "write" \/ cmd.res = "ok"]
    /\ UNCHANGED commands

Next ==
    \/ \E d \in Domains, on \in BOOLEAN : Begin(d, on)
    \/ WriteDropIn
    \/ \E d \in Dirs : Edit(d)

Spec == Init /\ [][Next]_vars
-----------------------------------------------------------------------------
\* A drop-in that sorts after updex's own decides the state of scope s.
Pinned(s) == \E n \in DropIns \ {UpdexDropIn} :
    DropIn(ComponentSearchPaths(s), n) \in {"on", "off"}

\* A command that succeeds is what the next load of its domain sees, whichever
\* scope and root the feature was found in, unless an administrator's drop-in
\* decides: reads and writes agree.  (Not so for --definitions, whose drop-ins
\* are read from that directory and written to the legacy one.)
EnableTakesEffect ==
    (cmd.pc = "idle" /\ cmd.res = "ok" /\ ~cmd.edited /\ cmd.domain # {}) =>
      /\ ~LoadFails(cmd.domain)
      /\ LoadFeature(cmd.domain).enabled = cmd.on \/ Pinned(cmd.scope)

\* No command changes what an administrator's drop-in has decided, and none
\* changes what any scope but its own, or a --definitions directory, loads.
AdministratorDecides ==
    [][WriteDropIn =>
         /\ \A s \in Scopes : (Pinned(s) \/ s # cmd.scope) =>
              FeatureOf(ComponentSearchPaths(s))' = FeatureOf(ComponentSearchPaths(s))
         /\ LoadFeature({})' = LoadFeature({})]_vars

\* A mask wins over every file of lower priority in its search path: nothing
\* enables the feature, and no update installs from a definition below a mask.
MaskHolds ==
    \A d \in Domains :
      LET f == LoadFeature(d)
          t == Updated(d)
          above(dir) == {<<r, dir[2]>> : r \in 1 .. dir[1] - 1}
      IN /\ f.masked => t = NoTransfer
         /\ f # NoFeature => \A e \in above(f.dir) : feature[e] = "none"
         /\ t # NoTransfer => \A e \in above(t) : transfer[e] = "none"

\* The files that fail the load of a search path's scope: those that nothing of
\* their name, be it good or a mask, is above, and of the drop-ins only those of
\* a feature.
Exposed(s, file, bad) ==
    \E r \in Roots : file[<<r, s>>] \in bad /\ \A q \in 1 .. r - 1 : file[<<q, s>>] = "none"

ExposedBroken(s) ==
    \/ Exposed(s, feature, {"broken"})
    \/ Exposed(s, transfer, {"broken"})
    \/ /\ Exposed(s, feature, {"off", "on"})
       /\ \E n \in DropIns : Exposed(s, [d \in Dirs |-> dropin[d][n]], {"broken"})

\* A broken file stops every command whose domain has its scope, the daemon's
\* update of all other features among them, and no other command; and a file of
\* its name in a root of higher priority is always enough to end that.
BrokenIsContained ==
    \A d \in Domains \ {{}} : LoadFails(d) <=> \E s \in d : ExposedBroken(s)

\* In the union a component's transfer beats the legacy one, the last component
\* in the alphabet the others; a search root decides only within one of them.
UnionIsMostSpecific ==
    LET usable(s) == TransferOf(ComponentSearchPaths(s)) # NoTransfer
    IN IF \E s \in Scopes : usable(s)
       THEN LET t == LoadTransfer(Scopes) IN
            /\ usable(t[2])
            /\ \A s \in Scopes : usable(s) => s <= t[2]
            /\ transfer[t] = "sysext"
       ELSE LoadTransfer(Scopes) = NoTransfer
=============================================================================
