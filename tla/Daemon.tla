------------------------------- MODULE Daemon -------------------------------
(***************************************************************************)
(* EnableDaemon and DisableDaemon: the unit files of the update timer and *)
(* what systemd makes of them.  Several clients may run the commands at   *)
(* once; one action is one file operation or one call of systemctl.  What *)
(* the timer then runs is a job of Staging.                               *)
(***************************************************************************)
EXTENDS Naturals

CONSTANTS
    Procs,      \* the clients
    Faults,     \* the labels at which a step may fail, "crash" and "reboot"
    MaxFaults,  \* bound: failures, crashes and reboots in a behaviour
    MaxOps      \* bound: commands and edits

\* What is at a unit path: nothing, what updex writes, another regular file,
\* or something that is not a regular file.
Entries == {"absent", "ours", "foreign", "irregular"}

EnableLabels == {"checkTimer", "checkService", "writeTimer", "writeService",
                 "cleanUp", "reload", "enable", "start"}
DisableLabels == {"stop", "disable", "rmTimer", "rmService", "unload"}
Labels == {"idle"} \cup EnableLabels \cup DisableLabels

ASSUME DaemonAssumption ==
    /\ Faults \subseteq Labels \cup {"crash", "reboot"}
    /\ MaxFaults \in Nat
    /\ MaxOps \in Nat

VARIABLES
    timer,      \* what is at updex-update.timer
    service,    \* what is at updex-update.service
    wants,      \* the timer is enabled: timers.target wants it
    active,     \* the timer runs
    known,      \* the timer's unit file as systemd last read it
    proc,       \* client -> where it is, what it found, how it ended
    faults, ops

units == <<timer, service>>
systemd == <<wants, active, known>>
vars == <<units, systemd, proc, faults, ops>>

\* What changes the units or systemd's view of them: a step of an enable, a
\* step of a disable or of an install's cleanup, an operator.
Changes == {"install", "removal", "edit"}

\* errs: an earlier step of a removal failed.  by: a history variable, the
\* changes others made since the command began.
Local == [pc : Labels, op : {"none", "enable", "disable"},
          res : {"none", "ok", "failed", "dirty", "refused", "crashed"},
          errs : BOOLEAN, by : SUBSET Changes]

TypeOK ==
    /\ timer \in Entries /\ service \in Entries /\ known \in Entries
    /\ wants \in BOOLEAN /\ active \in BOOLEAN
    /\ proc \in [Procs -> Local]
    /\ \A p \in Procs : /\ proc[p].pc \in EnableLabels => proc[p].op = "enable"
                        /\ proc[p].pc \in DisableLabels => proc[p].op = "disable"
    /\ faults \in 0 .. MaxFaults
    /\ ops \in 0 .. MaxOps

At(p, l) == proc[p].pc = l
Fault(l) == l \in Faults /\ faults > 0 /\ faults' = faults - 1

\* Client p goes on as local state r, having made the changes cs.
Proceed(p, r, cs) ==
    proc' = [q \in Procs |-> IF q = p THEN r ELSE [proc[q] EXCEPT !.by = @ \cup cs]]
Goto(p, l, cs) == Proceed(p, [proc[p] EXCEPT !.pc = l], cs)
Return(p, r, cs) == Proceed(p, [proc[p] EXCEPT !.pc = "idle", !.res = r], cs)

\* Manager.Exists: an entry of any type at either path.
Exists == timer # "absent" \/ service # "absent"

\* A unit systemctl is asked about is read from disk when it is not loaded.
Loaded == IF known = "absent" THEN timer ELSE known

Init ==
    /\ timer \in {"absent", "foreign", "irregular"}
    /\ service \in {"absent", "foreign", "irregular"}
    /\ wants \in BOOLEAN /\ (wants => timer = "foreign")
    /\ active = wants
    /\ known = IF active THEN timer ELSE "absent"
    /\ proc = [p \in Procs |-> [pc |-> "idle", op |-> "none", res |-> "none",
                                errs |-> FALSE, by |-> {}]]
    /\ faults = MaxFaults
    /\ ops = MaxOps

\* Slip: a command does the other's work when it has nothing to do.
BeginToggles(p, op) ==
    /\ At(p, "idle")
    /\ ops > 0
    /\ ops' = ops - 1
    /\ Proceed(p, [pc |-> IF Exists THEN "stop" ELSE "checkTimer", op |-> op, res |-> "none",
                   errs |-> FALSE, by |-> {}], {})
    /\ UNCHANGED <<units, systemd, faults>>

\* A command is refused, or begins.
Begin(p, op) ==
    /\ At(p, "idle")
    /\ ops > 0
    /\ ops' = ops - 1
    /\ LET refused == IF op = "enable" THEN Exists ELSE ~Exists
           first == IF op = "enable" THEN "checkTimer" ELSE "stop"
       IN Proceed(p, [pc |-> IF refused THEN "idle" ELSE first, op |-> op,
                      res |-> IF refused THEN "refused" ELSE "none",
                      errs |-> FALSE, by |-> {}], {})
    /\ UNCHANGED <<units, systemd, faults>>

-----------------------------------------------------------------------------
\* EnableDaemon, through Manager.Install.

\* unitFileState refuses any entry, regular or not.
CheckTimer(p) ==
    /\ At(p, "checkTimer")
    /\ IF timer = "absent" THEN Goto(p, "checkService", {}) ELSE Return(p, "failed", {})
    /\ UNCHANGED <<units, systemd, faults, ops>>

\* Slip: the path is followed, so a dangling symlink is not seen.
CheckServiceByStat(p) ==
    /\ At(p, "checkService")
    /\ IF service \in {"absent", "irregular"}
       THEN Goto(p, "writeTimer", {})
       ELSE Return(p, "failed", {})
    /\ UNCHANGED <<units, systemd, faults, ops>>

CheckService(p) ==
    /\ At(p, "checkService")
    /\ IF service = "absent" THEN Goto(p, "writeTimer", {}) ELSE Return(p, "failed", {})
    /\ UNCHANGED <<units, systemd, faults, ops>>

\* writeUnitFile renames over whatever is there by now.
WriteTimer(p) ==
    /\ At(p, "writeTimer")
    /\ timer' = "ours"
    /\ Goto(p, "writeService", {"install"})
    /\ UNCHANGED <<service, systemd, faults, ops>>

WriteService(p) ==
    /\ At(p, "writeService")
    /\ service' = "ours"
    /\ Goto(p, "reload", {"install"})
    /\ UNCHANGED <<timer, systemd, faults, ops>>

\* Slip: the timer that was written stays.
WriteServiceLeaves(p) ==
    /\ At(p, "writeService")
    /\ Fault("writeService")
    /\ Return(p, "failed", {})
    /\ UNCHANGED <<units, systemd, ops>>

WriteServiceFails(p) ==
    /\ At(p, "writeService")
    /\ Fault("writeService")
    /\ Goto(p, "cleanUp", {})
    /\ UNCHANGED <<units, systemd, ops>>

\* The timer file goes again, whoever wrote it.
CleanUp(p) ==
    /\ At(p, "cleanUp")
    /\ timer # "absent"
    /\ timer' = "absent"
    /\ Return(p, "failed", {"removal"})
    /\ UNCHANGED <<service, systemd, faults, ops>>

CleanUpFails(p) ==
    /\ At(p, "cleanUp")
    /\ \/ Fault("cleanUp")
       \/ timer = "absent" /\ UNCHANGED faults
    /\ Return(p, "dirty", {})
    /\ UNCHANGED <<units, systemd, ops>>

Reload(p) ==
    /\ At(p, "reload")
    /\ known' = timer
    /\ Goto(p, "enable", {})
    /\ UNCHANGED <<units, wants, active, faults, ops>>

\* systemctl enable reads the unit files again.
EnableTimer(p) ==
    /\ At(p, "enable")
    /\ timer # "absent"
    /\ wants' = TRUE
    /\ known' = timer
    /\ Goto(p, "start", {"install"})
    /\ UNCHANGED <<units, active, faults, ops>>

StartTimer(p) ==
    /\ At(p, "start")
    /\ Loaded # "absent"
    /\ known' = Loaded
    /\ active' = TRUE
    /\ Return(p, "ok", {"install"})
    /\ UNCHANGED <<units, wants, faults, ops>>

\* Slip: systemctl's failures are only logged.
EnableFailsSilently(p) ==
    /\ proc[p].pc \in EnableLabels \ {"checkTimer", "checkService", "writeService", "cleanUp"}
    /\ \/ Fault(proc[p].pc)
       \/ At(p, "enable") /\ timer \in {"absent", "irregular"} /\ UNCHANGED faults
       \/ At(p, "start") /\ Loaded \in {"absent", "irregular"} /\ UNCHANGED faults
    /\ Return(p, IF At(p, "writeTimer") THEN "failed" ELSE "ok", {})
    /\ UNCHANGED <<units, systemd, ops>>

\* Any other failure ends the command where it is.
EnableFails(p) ==
    /\ proc[p].pc \in EnableLabels \ {"checkTimer", "checkService", "writeService", "cleanUp"}
    /\ \/ Fault(proc[p].pc)
       \/ At(p, "enable") /\ timer \in {"absent", "irregular"} /\ UNCHANGED faults
       \/ At(p, "start") /\ Loaded \in {"absent", "irregular"} /\ UNCHANGED faults
    /\ Return(p, "failed", {})
    /\ UNCHANGED <<units, systemd, ops>>

EnableStep(p) ==
    \/ CheckTimer(p) \/ CheckService(p) \/ WriteTimer(p) \/ WriteService(p)
    \/ WriteServiceFails(p) \/ CleanUp(p) \/ CleanUpFails(p) \/ Reload(p)
    \/ EnableTimer(p) \/ StartTimer(p) \/ EnableFails(p)

-----------------------------------------------------------------------------
\* DisableDaemon, through Manager.Remove: every step is attempted.

\* The order of a removal's steps.
Following == [stop |-> "disable", disable |-> "rmTimer", rmTimer |-> "rmService",
              rmService |-> "unload"]

Stop(p) ==
    /\ At(p, "stop")
    /\ active \/ Loaded # "absent"
    /\ active' = FALSE
    /\ Goto(p, "disable", {"removal"})
    /\ UNCHANGED <<units, wants, known, faults, ops>>

DisableTimer(p) ==
    /\ At(p, "disable")
    /\ timer # "absent"
    /\ wants' = FALSE
    /\ known' = timer
    /\ Goto(p, "rmTimer", {"removal"})
    /\ UNCHANGED <<units, active, faults, ops>>

\* A file that is not there is no failure.
RemoveTimer(p) ==
    /\ At(p, "rmTimer")
    /\ timer' = "absent"
    /\ Goto(p, "rmService", {"removal"})
    /\ UNCHANGED <<service, systemd, faults, ops>>

RemoveService(p) ==
    /\ At(p, "rmService")
    /\ service' = "absent"
    /\ Goto(p, "unload", {"removal"})
    /\ UNCHANGED <<timer, systemd, faults, ops>>

Unload(p) ==
    /\ At(p, "unload")
    /\ known' = timer
    /\ Return(p, IF proc[p].errs THEN "failed" ELSE "ok", {})
    /\ UNCHANGED <<units, wants, active, faults, ops>>

UnloadFails(p) ==
    /\ At(p, "unload")
    /\ Fault("unload")
    /\ Return(p, "failed", {})
    /\ UNCHANGED <<units, systemd, ops>>

\* Slip: a failing step ends the removal.
StepFailsAndStops(p) ==
    /\ proc[p].pc \in DOMAIN Following
    /\ \/ Fault(proc[p].pc)
       \/ At(p, "stop") /\ ~active /\ Loaded = "absent" /\ UNCHANGED faults
       \/ At(p, "disable") /\ timer = "absent" /\ UNCHANGED faults
    /\ Return(p, "failed", {})
    /\ UNCHANGED <<units, systemd, ops>>

\* Slip: the removal goes on, and forgets.
StepFailsSilently(p) ==
    /\ proc[p].pc \in DOMAIN Following
    /\ \/ Fault(proc[p].pc)
       \/ At(p, "stop") /\ ~active /\ Loaded = "absent" /\ UNCHANGED faults
       \/ At(p, "disable") /\ timer = "absent" /\ UNCHANGED faults
    /\ Goto(p, Following[proc[p].pc], {})
    /\ UNCHANGED <<units, systemd, ops>>

\* A step fails: the removal remembers it and goes on.
StepFails(p) ==
    /\ proc[p].pc \in DOMAIN Following
    /\ \/ Fault(proc[p].pc)
       \/ At(p, "stop") /\ ~active /\ Loaded = "absent" /\ UNCHANGED faults
       \/ At(p, "disable") /\ timer = "absent" /\ UNCHANGED faults
    /\ Proceed(p, [proc[p] EXCEPT !.pc = Following[proc[p].pc], !.errs = TRUE], {})
    /\ UNCHANGED <<units, systemd, ops>>

DisableStep(p) ==
    \/ Stop(p) \/ DisableTimer(p) \/ RemoveTimer(p) \/ RemoveService(p)
    \/ Unload(p) \/ UnloadFails(p) \/ StepFails(p)

-----------------------------------------------------------------------------
Crash(p) ==
    /\ ~At(p, "idle")
    /\ Fault("crash")
    /\ Return(p, "crashed", {})
    /\ UNCHANGED <<units, systemd, ops>>

\* systemd reads the units again and starts what is enabled.
Reboot ==
    /\ Fault("reboot")
    /\ known' = timer
    /\ active' = (wants /\ timer \in {"ours", "foreign"})
    /\ proc' = [p \in Procs |-> IF At(p, "idle") THEN proc[p]
                ELSE [proc[p] EXCEPT !.pc = "idle", !.res = "crashed"]]
    /\ UNCHANGED <<units, wants, ops>>

\* An operator puts something at a unit path, or takes it away.  An install
\* that has not looked there yet is not affected.
Edit ==
    /\ ops > 0
    /\ ops' = ops - 1
    /\ \/ timer' \in Entries \ {"ours", timer} /\ UNCHANGED service
       \/ service' \in Entries \ {"ours", service} /\ UNCHANGED timer
    /\ proc' = [p \in Procs |->
                 IF At(p, "checkTimer") \/ (At(p, "checkService") /\ timer' = timer)
                 THEN proc[p] ELSE [proc[p] EXCEPT !.by = @ \cup {"edit"}]]
    /\ UNCHANGED <<systemd, faults>>

\* systemd forgets a unit that does not run.
Forget ==
    /\ ~active
    /\ known # "absent"
    /\ known' = "absent"
    /\ UNCHANGED <<units, wants, active, proc, faults, ops>>

Next ==
    \/ \E p \in Procs : \/ Begin(p, "enable") \/ Begin(p, "disable")
                        \/ EnableStep(p) \/ DisableStep(p) \/ Crash(p)
    \/ Reboot \/ Edit \/ Forget

Spec == Init /\ [][Next]_vars
-----------------------------------------------------------------------------
\* DaemonStatus.
Status == [installed |-> Exists, enabled |-> Exists /\ wants, active |-> Exists /\ active]

Ended(p, op, r, cs) ==
    At(p, "idle") /\ proc[p].op = op /\ proc[p].res = r /\ proc[p].by \subseteq cs

\* An enable that succeeds leaves updex's own timer installed, enabled and
\* running, as the status reports, also when another enable runs at the same
\* time, and after a reboot.
EnabledIsScheduled ==
    \A p \in Procs : Ended(p, "enable", "ok", {"install"}) =>
      /\ timer = "ours" /\ service = "ours"
      /\ Status = [installed |-> TRUE, enabled |-> TRUE, active |-> TRUE]

\* A disable that succeeds leaves no unit file, nothing enabled and nothing
\* running: never a timer that goes on and is reported as not installed.
DisabledIsGone ==
    \A p \in Procs : Ended(p, "disable", "ok", {"removal"}) =>
      timer = "absent" /\ service = "absent" /\ ~wants /\ ~active

\* An enable that nobody disturbs leaves both unit files or neither, however
\* it fails, unless its cleanup failed too, and it says so.
InstallAllOrNothing ==
    \A p \in Procs : Ended(p, "enable", "failed", {}) => (timer = "ours" <=> service = "ours")

\* A disable removes both unit files whatever systemctl answers, so that an
\* enable is possible again after any failure or crash.
DisableUnblocks ==
    \A p \in Procs :
      (Ended(p, "disable", "failed", {"removal"}) /\ {"rmTimer", "rmService"} \cap Faults = {})
        => ~Exists

\* An install never replaces a unit that is not updex's own, unless it was put
\* there after the install had looked.
InstallNeverReplaces ==
    [][\A p \in Procs : "edit" \notin proc[p].by =>
         /\ At(p, "writeTimer") /\ timer' # timer /\ timer' = "ours" => timer = "absent"
         /\ At(p, "writeService") /\ service' # service /\ service' = "ours"
              => service = "absent"]_vars
=============================================================================
