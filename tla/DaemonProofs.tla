---------------------------- MODULE DaemonProofs ----------------------------
(***************************************************************************)
(* What the commands of the timer may replace, and what they may claim     *)
(* when they end, for any number of clients, edits and failures.           *)
(***************************************************************************)
EXTENDS Daemon, TLAPS

\* The labels of an install that has looked at the timer's path, at the
\* service's path, and is about to write there.
TimerChecked == {"checkService", "writeTimer"}
ServiceChecked == {"writeTimer", "writeService"}

\* What an install that no edit disturbed has checked is absent still, or
\* another install has written updex's own unit there.
CheckedInv ==
    \A p \in Procs : "edit" \notin proc[p].by =>
      /\ proc[p].pc \in TimerChecked => timer \in {"absent", "ours"}
      /\ proc[p].pc \in ServiceChecked => service \in {"absent", "ours"}

\* The clients' part of TypeOK.
ProcOK ==
    /\ proc \in [Procs -> Local]
    /\ \A p \in Procs : /\ proc[p].pc \in EnableLabels => proc[p].op = "enable"
                        /\ proc[p].pc \in DisableLabels => proc[p].op = "disable"

-----------------------------------------------------------------------------
\* Types.

LEMMA ProceedType ==
    ASSUME ProcOK, NEW p \in Procs, NEW r \in Local, NEW cs \in SUBSET Changes,
           r.pc \in EnableLabels => r.op = "enable",
           r.pc \in DisableLabels => r.op = "disable",
           Proceed(p, r, cs)
    PROVE  ProcOK'
<1>. DEFINE new(q) == IF q = p THEN r ELSE [proc[q] EXCEPT !.by = @ \cup cs]
<1>1. ASSUME NEW q \in Procs
      PROVE  /\ new(q) \in Local
             /\ new(q).pc \in EnableLabels => new(q).op = "enable"
             /\ new(q).pc \in DisableLabels => new(q).op = "disable"
  <2>1. CASE q = p
    BY <2>1
  <2>2. CASE q # p
    <3>1. proc[q] \in Local
      BY DEF ProcOK
    <3>. DEFINE by == proc[q].by \cup cs
    <3>2. by \in SUBSET Changes /\ new(q) = [proc[q] EXCEPT !.by = by]
      BY <2>2, <3>1 DEF Local
    <3>. HIDE DEF by, new
    <3>3. new(q) \in Local /\ new(q).pc = proc[q].pc /\ new(q).op = proc[q].op
      BY <3>1, <3>2 DEF Local
    <3>4. QED
      BY <3>3 DEF ProcOK
  <2>3. QED
    BY <2>1, <2>2
<1>2. proc' = [q \in Procs |-> new(q)]
  BY DEF Proceed
<1>. HIDE DEF new
<1>3. QED
  BY <1>1, <1>2 DEF ProcOK

LEMMA GotoType ==
    ASSUME ProcOK, NEW p \in Procs, NEW cs \in SUBSET Changes, NEW l \in Labels,
           l \in EnableLabels => proc[p].op = "enable",
           l \in DisableLabels => proc[p].op = "disable",
           Goto(p, l, cs)
    PROVE  ProcOK'
<1>. DEFINE r == [proc[p] EXCEPT !.pc = l]
<1>1. r \in Local /\ r.pc = l /\ r.op = proc[p].op
  BY DEF ProcOK, Local
<1>2. Proceed(p, r, cs)
  BY DEF Goto
<1>. HIDE DEF r
<1>3. QED
  BY <1>1, <1>2, ProceedType

LEMMA ReturnType ==
    ASSUME ProcOK, NEW p \in Procs, NEW cs \in SUBSET Changes,
           NEW x \in {"ok", "failed", "dirty", "refused", "crashed"},
           Return(p, x, cs)
    PROVE  ProcOK'
<1>. DEFINE r == [proc[p] EXCEPT !.pc = "idle", !.res = x]
<1>1. r \in Local /\ r.pc = "idle"
  BY DEF ProcOK, Local, Labels
<1>2. Proceed(p, r, cs)
  BY DEF Return
<1>. HIDE DEF r
<1>3. QED
  BY <1>1, <1>2, ProceedType DEF EnableLabels, DisableLabels

LEMMA ChangeSets ==
    /\ {} \in SUBSET Changes /\ {"install"} \in SUBSET Changes
    /\ {"removal"} \in SUBSET Changes /\ {"edit"} \in SUBSET Changes
  BY DEF Changes

LEMMA FaultType ==
    ASSUME TypeOK, NEW l, Fault(l)
    PROVE  faults' \in 0 .. MaxFaults
  BY DaemonAssumption DEF TypeOK, Fault

LEMMA LoadedType ==
    ASSUME TypeOK
    PROVE  Loaded \in Entries
  BY DEF TypeOK, Loaded

LEMMA BeginType ==
    ASSUME TypeOK, NEW p \in Procs, NEW op \in {"enable", "disable"}, Begin(p, op)
    PROVE  TypeOK'
<1>. DEFINE refused == IF op = "enable" THEN Exists ELSE ~Exists
            first == IF op = "enable" THEN "checkTimer" ELSE "stop"
            r == [pc |-> IF refused THEN "idle" ELSE first, op |-> op,
                  res |-> IF refused THEN "refused" ELSE "none",
                  errs |-> FALSE, by |-> {}]
<1>1. /\ r \in Local
      /\ r.pc \in EnableLabels => r.op = "enable"
      /\ r.pc \in DisableLabels => r.op = "disable"
  BY ChangeSets DEF Local, Labels, EnableLabels, DisableLabels
<1>2. Proceed(p, r, {})
  BY DEF Begin
<1>. HIDE DEF r
<1>3. ProcOK'
  BY <1>1, <1>2, ProceedType, ChangeSets DEF TypeOK, ProcOK
<1>4. ops' \in 0 .. MaxOps /\ UNCHANGED <<units, systemd, faults>>
  BY DaemonAssumption DEF Begin, TypeOK
<1>5. QED
  BY <1>3, <1>4 DEF TypeOK, ProcOK, units, systemd

LEMMA EnableTypes ==
    ASSUME TypeOK, NEW p \in Procs, EnableStep(p)
    PROVE  TypeOK'
<1>0. ProcOK
  BY DEF TypeOK, ProcOK
<1>1. proc[p].pc \in EnableLabels /\ proc[p].op = "enable"
  <2>1. proc[p].pc \in EnableLabels
    <3>1. CASE EnableFails(p)
      BY <3>1 DEF EnableFails
    <3>2. CASE ~EnableFails(p)
      BY <3>2
      DEF EnableStep, CheckTimer, CheckService, WriteTimer, WriteService,
          WriteServiceFails, CleanUp, CleanUpFails, Reload, EnableTimer, StartTimer,
          At, EnableLabels
    <3>3. QED
      BY <3>1, <3>2
  <2>2. QED
    BY <2>1 DEF TypeOK
<1>2. ASSUME NEW l \in EnableLabels, NEW cs \in SUBSET Changes, Goto(p, l, cs)
      PROVE  ProcOK'
  BY <1>0, <1>1, <1>2, GotoType DEF Labels, EnableLabels, DisableLabels
<1>3. ASSUME NEW x \in {"ok", "failed", "dirty", "refused", "crashed"},
             NEW cs \in SUBSET Changes, Return(p, x, cs)
      PROVE  ProcOK'
  BY <1>0, <1>3, ReturnType
<1>4. ProcOK'
  BY <1>2, <1>3, ChangeSets
  DEF EnableStep, CheckTimer, CheckService, WriteTimer, WriteService,
      WriteServiceFails, CleanUp, CleanUpFails, Reload, EnableTimer, StartTimer,
      EnableFails, EnableLabels
<1>5. /\ timer' \in Entries /\ service' \in Entries /\ known' \in Entries
      /\ wants' \in BOOLEAN /\ active' \in BOOLEAN
  BY LoadedType
  DEF EnableStep, CheckTimer, CheckService, WriteTimer, WriteService,
      WriteServiceFails, CleanUp, CleanUpFails, Reload, EnableTimer, StartTimer,
      EnableFails, TypeOK, units, systemd, Entries
<1>6. faults' \in 0 .. MaxFaults /\ ops' \in 0 .. MaxOps
  BY FaultType
  DEF EnableStep, CheckTimer, CheckService, WriteTimer, WriteService,
      WriteServiceFails, CleanUp, CleanUpFails, Reload, EnableTimer, StartTimer,
      EnableFails, TypeOK
<1>7. QED
  BY <1>4, <1>5, <1>6 DEF TypeOK, ProcOK

LEMMA DisableTypes ==
    ASSUME TypeOK, NEW p \in Procs, DisableStep(p)
    PROVE  TypeOK'
<1>0. ProcOK
  BY DEF TypeOK, ProcOK
<1>1. proc[p].pc \in DisableLabels /\ proc[p].op = "disable"
  <2>1. proc[p].pc \in DisableLabels
    <3>1. CASE StepFails(p)
      BY <3>1 DEF StepFails, DisableLabels, Following
    <3>2. CASE ~StepFails(p)
      BY <3>2
      DEF DisableStep, Stop, DisableTimer, RemoveTimer, RemoveService, Unload,
          UnloadFails, At, DisableLabels
    <3>3. QED
      BY <3>1, <3>2
  <2>2. QED
    BY <2>1 DEF TypeOK
<1>2. ASSUME NEW l \in DisableLabels, NEW cs \in SUBSET Changes, Goto(p, l, cs)
      PROVE  ProcOK'
  BY <1>0, <1>1, <1>2, GotoType DEF Labels, EnableLabels, DisableLabels
<1>3. ASSUME NEW x \in {"ok", "failed", "dirty", "refused", "crashed"},
             NEW cs \in SUBSET Changes, Return(p, x, cs)
      PROVE  ProcOK'
  BY <1>0, <1>3, ReturnType
<1>4. CASE StepFails(p)
  <2>. DEFINE r == [proc[p] EXCEPT !.pc = Following[proc[p].pc], !.errs = TRUE]
  <2>1. Following[proc[p].pc] \in DisableLabels
    BY <1>4 DEF StepFails, Following, DisableLabels
  <2>2. r \in Local /\ r.pc \in DisableLabels /\ r.op = "disable"
    BY <1>0, <1>1, <2>1 DEF ProcOK, Local, Labels
  <2>3. Proceed(p, r, {})
    BY <1>4 DEF StepFails
  <2>. HIDE DEF r
  <2>4. ProcOK'
    BY <1>0, <2>2, <2>3, ProceedType, ChangeSets DEF EnableLabels, DisableLabels
  <2>5. faults' \in 0 .. MaxFaults
    BY <1>4, FaultType DEF StepFails, TypeOK
  <2>6. UNCHANGED <<units, systemd, ops>>
    BY <1>4 DEF StepFails
  <2>7. QED
    BY <2>4, <2>5, <2>6 DEF TypeOK, ProcOK, units, systemd
<1>5. CASE \/ Stop(p) \/ DisableTimer(p) \/ RemoveTimer(p) \/ RemoveService(p)
           \/ Unload(p) \/ UnloadFails(p)
  <2>1. ProcOK'
    BY <1>2, <1>3, <1>5, ChangeSets
    DEF Stop, DisableTimer, RemoveTimer, RemoveService, Unload, UnloadFails,
        DisableLabels
  <2>2. /\ timer' \in Entries /\ service' \in Entries /\ known' \in Entries
        /\ wants' \in BOOLEAN /\ active' \in BOOLEAN
    BY <1>5
    DEF Stop, DisableTimer, RemoveTimer, RemoveService, Unload, UnloadFails,
        TypeOK, units, systemd, Entries
  <2>3. faults' \in 0 .. MaxFaults /\ ops' \in 0 .. MaxOps
    BY <1>5, FaultType
    DEF Stop, DisableTimer, RemoveTimer, RemoveService, Unload, UnloadFails, TypeOK
  <2>4. QED
    BY <2>1, <2>2, <2>3 DEF TypeOK, ProcOK
<1>6. QED
  BY <1>4, <1>5 DEF DisableStep

LEMMA InitTypes == Init => TypeOK
<1>. SUFFICES ASSUME Init PROVE TypeOK
  OBVIOUS
<1>1. ProcOK
  BY ChangeSets DEF Init, ProcOK, Local, Labels, EnableLabels, DisableLabels
<1>2. QED
  BY <1>1, DaemonAssumption DEF Init, TypeOK, ProcOK, Entries

LEMMA NextTypes == TypeOK /\ [Next]_vars => TypeOK'
<1>. SUFFICES ASSUME TypeOK, [Next]_vars PROVE TypeOK'
  OBVIOUS
<1>0. ProcOK
  BY DEF TypeOK, ProcOK
<1>1. ASSUME NEW p \in Procs, Begin(p, "enable") \/ Begin(p, "disable") PROVE TypeOK'
  BY <1>1, BeginType
<1>2. ASSUME NEW p \in Procs, EnableStep(p) \/ DisableStep(p) PROVE TypeOK'
  BY <1>2, EnableTypes, DisableTypes
<1>3. ASSUME NEW p \in Procs, Crash(p) PROVE TypeOK'
  <2>1. ProcOK'
    BY <1>0, <1>3, ReturnType, ChangeSets DEF Crash
  <2>2. faults' \in 0 .. MaxFaults /\ UNCHANGED <<units, systemd, ops>>
    BY <1>3, FaultType DEF Crash
  <2>3. QED
    BY <2>1, <2>2 DEF TypeOK, ProcOK, units, systemd
<1>4. CASE Reboot
  <2>. DEFINE new(q) == IF At(q, "idle") THEN proc[q]
                        ELSE [proc[q] EXCEPT !.pc = "idle", !.res = "crashed"]
  <2>1. ASSUME NEW q \in Procs
        PROVE  /\ new(q) \in Local
               /\ new(q).pc = "idle"
    BY <1>0 DEF ProcOK, Local, Labels, At
  <2>2. proc' = [q \in Procs |-> new(q)]
    BY <1>4 DEF Reboot
  <2>. HIDE DEF new
  <2>3. ProcOK'
    BY <2>1, <2>2 DEF ProcOK, EnableLabels, DisableLabels
  <2>4. faults' \in 0 .. MaxFaults
    BY <1>4, FaultType DEF Reboot
  <2>5. QED
    BY <1>4, <2>3, <2>4 DEF Reboot, TypeOK, ProcOK, units
<1>5. CASE Edit
  <2>. DEFINE by(q) == proc[q].by \cup {"edit"}
              new(q) == IF At(q, "checkTimer") \/ (At(q, "checkService") /\ timer' = timer)
                        THEN proc[q] ELSE [proc[q] EXCEPT !.by = by(q)]
  <2>1. ASSUME NEW q \in Procs
        PROVE  new(q) \in Local /\ new(q).pc = proc[q].pc /\ new(q).op = proc[q].op
    <3>1. proc[q] \in Local
      BY <1>0 DEF ProcOK
    <3>2. by(q) \in SUBSET Changes
      BY <3>1 DEF Local, Changes
    <3>. HIDE DEF by
    <3>3. QED
      BY <3>1, <3>2 DEF Local
  <2>2. proc' = [q \in Procs |-> new(q)]
    BY <1>5 DEF Edit
  <2>. HIDE DEF new
  <2>3. ProcOK'
    BY <1>0, <2>1, <2>2 DEF ProcOK
  <2>4. ops' \in 0 .. MaxOps
    BY <1>5, DaemonAssumption DEF Edit, TypeOK
  <2>5. timer' \in Entries /\ service' \in Entries
    BY <1>5 DEF Edit, TypeOK
  <2>6. QED
    BY <1>5, <2>3, <2>4, <2>5 DEF Edit, TypeOK, ProcOK, systemd
<1>6. CASE Forget
  BY <1>6 DEF Forget, TypeOK, units, Entries
<1>7. CASE UNCHANGED vars
  BY <1>7 DEF vars, units, systemd, TypeOK
<1>8. QED
  BY <1>1, <1>2, <1>3, <1>4, <1>5, <1>6, <1>7 DEF Next

\* The files, systemd's state and the clients keep their types, and a client is
\* only ever at a label of the command it runs.
THEOREM DaemonTypes == Spec => []TypeOK
  BY InitTypes, NextTypes, PTL DEF Spec

-----------------------------------------------------------------------------
\* An install replaces nothing.

\* A step of client p that leaves at each path what was there, nothing, or
\* updex's own unit, and after which p has checked what CheckedInv says.
LEMMA CheckedFrame ==
    ASSUME ProcOK, CheckedInv, NEW p \in Procs, NEW r, NEW cs, Proceed(p, r, cs),
           timer' \in {timer, "absent", "ours"},
           service' \in {service, "absent", "ours"},
           "edit" \notin r.by =>
             /\ r.pc \in TimerChecked => timer' \in {"absent", "ours"}
             /\ r.pc \in ServiceChecked => service' \in {"absent", "ours"}
    PROVE  CheckedInv'
<1>1. ASSUME NEW q \in Procs, "edit" \notin proc'[q].by
      PROVE  /\ proc'[q].pc \in TimerChecked => timer' \in {"absent", "ours"}
             /\ proc'[q].pc \in ServiceChecked => service' \in {"absent", "ours"}
  <2>1. CASE q = p
    <3>1. proc'[q] = r
      BY <2>1 DEF Proceed
    <3>2. QED
      BY <1>1, <3>1
  <2>2. CASE q # p
    <3>1. proc[q] \in Local
      BY DEF ProcOK
    <3>2. proc'[q] = [proc[q] EXCEPT !.by = @ \cup cs]
      BY <2>2 DEF Proceed
    <3>3. proc'[q].pc = proc[q].pc /\ proc[q].by \subseteq proc'[q].by
      BY <3>1, <3>2 DEF Local
    <3>4. "edit" \notin proc[q].by
      BY <1>1, <3>3
    <3>5. QED
      BY <3>3, <3>4 DEF CheckedInv
  <2>3. QED
    BY <2>1, <2>2
<1>2. QED
  BY <1>1 DEF CheckedInv

LEMMA CheckedReturn ==
    ASSUME ProcOK, CheckedInv, NEW p \in Procs, NEW x, NEW cs, Return(p, x, cs),
           timer' \in {timer, "absent", "ours"},
           service' \in {service, "absent", "ours"}
    PROVE  CheckedInv'
<1>. DEFINE r == [proc[p] EXCEPT !.pc = "idle", !.res = x]
<1>1. r.pc = "idle" /\ Proceed(p, r, cs)
  BY DEF ProcOK, Local, Return
<1>. HIDE DEF r
<1>2. QED
  BY <1>1, CheckedFrame DEF TimerChecked, ServiceChecked

LEMMA CheckedGoto ==
    ASSUME ProcOK, CheckedInv, NEW p \in Procs, NEW l, NEW cs, Goto(p, l, cs),
           timer' \in {timer, "absent", "ours"},
           service' \in {service, "absent", "ours"},
           "edit" \notin proc[p].by =>
             /\ l \in TimerChecked => timer' \in {"absent", "ours"}
             /\ l \in ServiceChecked => service' \in {"absent", "ours"}
    PROVE  CheckedInv'
<1>. DEFINE r == [proc[p] EXCEPT !.pc = l]
<1>1. r.pc = l /\ r.by = proc[p].by /\ Proceed(p, r, cs)
  BY DEF ProcOK, Local, Goto
<1>. HIDE DEF r
<1>2. QED
  BY <1>1, CheckedFrame

LEMMA EnableKeepsChecked ==
    ASSUME ProcOK, CheckedInv, NEW p \in Procs, EnableStep(p)
    PROVE  CheckedInv'
<1>1. CASE CheckTimer(p)
  <2>1. UNCHANGED <<timer, service>>
    BY <1>1 DEF CheckTimer, units
  <2>2. CASE timer = "absent"
    BY <1>1, <2>1, <2>2, CheckedGoto DEF CheckTimer, ServiceChecked
  <2>3. CASE timer # "absent"
    BY <1>1, <2>1, <2>3, CheckedReturn DEF CheckTimer
  <2>4. QED
    BY <2>2, <2>3
<1>2. CASE CheckService(p)
  <2>1. UNCHANGED <<timer, service>> /\ proc[p].pc = "checkService"
    BY <1>2 DEF CheckService, units, At
  <2>2. CASE service = "absent"
    <3>1. "edit" \notin proc[p].by => timer \in {"absent", "ours"}
      BY <2>1 DEF CheckedInv, TimerChecked
    <3>2. QED
      BY <1>2, <2>1, <2>2, <3>1, CheckedGoto DEF CheckService
  <2>3. CASE service # "absent"
    BY <1>2, <2>1, <2>3, CheckedReturn DEF CheckService
  <2>4. QED
    BY <2>2, <2>3
<1>3. CASE WriteTimer(p)
  <2>1. "edit" \notin proc[p].by => service \in {"absent", "ours"}
    BY <1>3 DEF WriteTimer, At, CheckedInv, ServiceChecked
  <2>2. timer' = "ours" /\ service' = service /\ Goto(p, "writeService", {"install"})
    BY <1>3 DEF WriteTimer
  <2>3. QED
    BY <2>1, <2>2, CheckedGoto
<1>4. ASSUME NEW l \in {"cleanUp", "reload", "enable", "start"}, NEW cs, Goto(p, l, cs),
             timer' \in {timer, "absent", "ours"},
             service' \in {service, "absent", "ours"}
      PROVE  CheckedInv'
  BY <1>4, CheckedGoto DEF TimerChecked, ServiceChecked
<1>5. CASE \/ WriteService(p) \/ WriteServiceFails(p) \/ Reload(p) \/ EnableTimer(p)
  BY <1>4, <1>5 DEF WriteService, WriteServiceFails, Reload, EnableTimer, units
<1>6. CASE CleanUp(p) \/ CleanUpFails(p) \/ StartTimer(p) \/ EnableFails(p)
  BY <1>6, CheckedReturn DEF CleanUp, CleanUpFails, StartTimer, EnableFails, units
<1>7. QED
  BY <1>1, <1>2, <1>3, <1>5, <1>6 DEF EnableStep

LEMMA DisableKeepsChecked ==
    ASSUME ProcOK, CheckedInv, NEW p \in Procs, DisableStep(p)
    PROVE  CheckedInv'
<1>1. ASSUME NEW l \in {"disable", "rmTimer", "rmService", "unload"}, NEW cs,
             Goto(p, l, cs), timer' \in {timer, "absent", "ours"},
             service' \in {service, "absent", "ours"}
      PROVE  CheckedInv'
  BY <1>1, CheckedGoto DEF TimerChecked, ServiceChecked
<1>2. CASE Stop(p) \/ DisableTimer(p) \/ RemoveTimer(p) \/ RemoveService(p)
  BY <1>1, <1>2 DEF Stop, DisableTimer, RemoveTimer, RemoveService, units
<1>3. CASE Unload(p) \/ UnloadFails(p)
  BY <1>3, CheckedReturn DEF Unload, UnloadFails, units
<1>4. CASE StepFails(p)
  <2>. DEFINE r == [proc[p] EXCEPT !.pc = Following[proc[p].pc], !.errs = TRUE]
  <2>1. Following[proc[p].pc] \in {"disable", "rmTimer", "rmService", "unload"}
    BY <1>4 DEF StepFails, Following
  <2>2. r.pc = Following[proc[p].pc]
    BY DEF ProcOK, Local
  <2>3. Proceed(p, r, {}) /\ UNCHANGED <<timer, service>>
    BY <1>4 DEF StepFails, units
  <2>. HIDE DEF r
  <2>4. QED
    BY <2>1, <2>2, <2>3, CheckedFrame DEF TimerChecked, ServiceChecked
<1>5. QED
  BY <1>2, <1>3, <1>4 DEF DisableStep

LEMMA CheckedNext == TypeOK /\ CheckedInv /\ [Next]_vars => CheckedInv'
<1>. SUFFICES ASSUME TypeOK, CheckedInv, [Next]_vars PROVE CheckedInv'
  OBVIOUS
<1>0. ProcOK
  BY DEF TypeOK, ProcOK
<1>1. ASSUME NEW p \in Procs, NEW op \in {"enable", "disable"}, Begin(p, op)
      PROVE  CheckedInv'
  <2>. DEFINE refused == IF op = "enable" THEN Exists ELSE ~Exists
              first == IF op = "enable" THEN "checkTimer" ELSE "stop"
              r == [pc |-> IF refused THEN "idle" ELSE first, op |-> op,
                    res |-> IF refused THEN "refused" ELSE "none",
                    errs |-> FALSE, by |-> {}]
  <2>1. r.pc \in {"idle", "checkTimer", "stop"}
    OBVIOUS
  <2>2. Proceed(p, r, {}) /\ UNCHANGED <<timer, service>>
    BY <1>1 DEF Begin, units
  <2>. HIDE DEF r
  <2>3. QED
    BY <1>0, <2>1, <2>2, CheckedFrame DEF TimerChecked, ServiceChecked
<1>2. ASSUME NEW p \in Procs, EnableStep(p) \/ DisableStep(p) PROVE CheckedInv'
  BY <1>0, <1>2, EnableKeepsChecked, DisableKeepsChecked
<1>3. ASSUME NEW p \in Procs, Crash(p) PROVE CheckedInv'
  BY <1>0, <1>3, CheckedReturn DEF Crash, units
<1>4. CASE Reboot
  <2>1. \A q \in Procs : proc'[q] = proc[q] \/ proc'[q].pc = "idle"
    BY <1>0, <1>4 DEF Reboot, ProcOK, Local
  <2>2. UNCHANGED <<timer, service>>
    BY <1>4 DEF Reboot, units
  <2>3. QED
    BY <2>1, <2>2 DEF CheckedInv, TimerChecked, ServiceChecked
<1>5. CASE Edit
  <2>1. ASSUME NEW q \in Procs, "edit" \notin proc'[q].by
        PROVE  /\ proc'[q].pc \in TimerChecked => timer' \in {"absent", "ours"}
               /\ proc'[q].pc \in ServiceChecked => service' \in {"absent", "ours"}
    <3>1. proc[q] \in Local
      BY <1>0 DEF ProcOK
    <3>2. CASE At(q, "checkTimer") \/ (At(q, "checkService") /\ timer' = timer)
      <4>1. proc'[q] = proc[q]
        BY <1>5, <3>2 DEF Edit
      <4>2. QED
        BY <2>1, <3>2, <4>1 DEF CheckedInv, At, TimerChecked, ServiceChecked
    <3>3. CASE ~(At(q, "checkTimer") \/ (At(q, "checkService") /\ timer' = timer))
      <4>1. proc'[q] = [proc[q] EXCEPT !.by = @ \cup {"edit"}]
        BY <1>5, <3>3 DEF Edit
      <4>2. "edit" \in proc'[q].by
        BY <3>1, <4>1 DEF Local
      <4>3. QED
        BY <2>1, <4>2
    <3>4. QED
      BY <3>2, <3>3
  <2>2. QED
    BY <2>1 DEF CheckedInv
<1>6. CASE Forget \/ UNCHANGED vars
  BY <1>6 DEF Forget, vars, units, CheckedInv
<1>7. QED
  BY <1>1, <1>2, <1>3, <1>4, <1>5, <1>6 DEF Next

\* An install never replaces a unit that is not updex's own, however many
\* clients install, remove and fail at once, unless an operator puts one there
\* after the install has looked.
THEOREM InstallReplacesNothing == Spec => InstallNeverReplaces
<1>. DEFINE Kept == \A p \in Procs : "edit" \notin proc[p].by =>
              /\ At(p, "writeTimer") /\ timer' # timer /\ timer' = "ours" => timer = "absent"
              /\ At(p, "writeService") /\ service' # service /\ service' = "ours"
                   => service = "absent"
<1>1. Init => CheckedInv
  BY DEF Init, CheckedInv, TimerChecked, ServiceChecked
<1>2. CheckedInv => Kept
  BY DEF CheckedInv, At, TimerChecked, ServiceChecked
<1>3. CheckedInv /\ [Next]_vars => [Kept]_vars
  BY <1>2
<1>. HIDE DEF Kept
<1>4. Spec => [][Kept]_vars
  BY <1>1, <1>3, InitTypes, NextTypes, CheckedNext, PTL DEF Spec
<1>5. QED
  BY <1>4 DEF Kept, InstallNeverReplaces

-----------------------------------------------------------------------------
\* What a command that ends can say of the timer.

\* What a step of one client may do to the units and to systemd's view of them
\* while it tells the other clients that it made the changes cs.
Effect(cs) ==
    /\ timer' # timer => \/ timer' = "ours" /\ "install" \in cs
                         \/ timer' = "absent" /\ "removal" \in cs
    /\ service' # service => \/ service' = "ours" /\ "install" \in cs
                             \/ service' = "absent" /\ "removal" \in cs
    /\ (wants' /\ ~wants) \/ (active' /\ ~active) => "install" \in cs
    /\ (wants /\ ~wants') \/ (active /\ ~active') => "removal" \in cs

Ends(p, rs) == At(p, "idle") /\ proc[p].res \in rs

\* What an enable has done so far stands as long as the others only install.
InstallKept(p) ==
    (proc[p].op = "enable" /\ proc[p].by \subseteq {"install"}) =>
      /\ (proc[p].pc \in {"writeService", "cleanUp", "reload", "enable", "start"}
            \/ Ends(p, {"ok"})) => timer = "ours"
      /\ (proc[p].pc \in {"reload", "enable", "start"} \/ Ends(p, {"ok"})) => service = "ours"
      /\ (At(p, "start") \/ Ends(p, {"ok"})) => wants
      /\ Ends(p, {"ok"}) => active

\* What an undisturbed enable has not written yet is not there.
InstallAlone(p) ==
    (proc[p].op = "enable" /\ proc[p].by = {}) =>
      /\ proc[p].pc \in {"checkTimer", "checkService", "writeTimer"} => timer # "ours"
      /\ proc[p].pc \in {"checkTimer", "checkService", "writeTimer", "writeService",
                         "cleanUp"} => service # "ours"
      /\ Ends(p, {"failed"}) => (timer = "ours" <=> service = "ours")

\* A removal that has not failed, or whose files can be removed.
FilesGo(p) == ~proc[p].errs \/ {"rmTimer", "rmService"} \cap Faults = {}

\* What a disable has undone so far stands as long as the others only remove.
RemovalKept(p) ==
    (proc[p].op = "disable" /\ proc[p].by \subseteq {"removal"}) =>
      /\ Ends(p, {"ok"}) => ~proc[p].errs
      /\ (~proc[p].errs /\ (proc[p].pc \in {"disable", "rmTimer", "rmService", "unload"}
                              \/ Ends(p, {"ok"}))) => ~active
      /\ (~proc[p].errs /\ (proc[p].pc \in {"rmTimer", "rmService", "unload"}
                              \/ Ends(p, {"ok"}))) => ~wants
      /\ (FilesGo(p) /\ (proc[p].pc \in {"rmService", "unload"}
                           \/ Ends(p, {"ok", "failed"}))) => timer = "absent"
      /\ (FilesGo(p) /\ (At(p, "unload") \/ Ends(p, {"ok", "failed"}))) => service = "absent"

Kept(p) == InstallKept(p) /\ InstallAlone(p) /\ RemovalKept(p)
KeptInv == \A p \in Procs : Kept(p)

LEMMA OthersKeep ==
    ASSUME ProcOK, NEW p \in Procs, NEW r, NEW cs, Proceed(p, r, cs), Effect(cs),
           NEW q \in Procs, q # p, Kept(q)
    PROVE  Kept(q)'
<1>1. proc[q] \in Local
  BY DEF ProcOK
<1>2. proc'[q] = [proc[q] EXCEPT !.by = @ \cup cs]
  BY DEF Proceed
<1>3. /\ proc'[q].pc = proc[q].pc /\ proc'[q].op = proc[q].op
      /\ proc'[q].res = proc[q].res /\ proc'[q].errs = proc[q].errs
      /\ proc'[q].by = proc[q].by \cup cs
  BY <1>1, <1>2 DEF Local
<1>4. InstallKept(q)'
  BY <1>3 DEF Kept, InstallKept, Effect, Ends, At
<1>5. InstallAlone(q)'
  BY <1>3 DEF Kept, InstallAlone, Effect, Ends, At
<1>6. RemovalKept(q)'
  BY <1>3 DEF Kept, RemovalKept, Effect, Ends, At, FilesGo
<1>7. QED
  BY <1>4, <1>5, <1>6 DEF Kept

LEMMA KeptFrame ==
    ASSUME ProcOK, KeptInv, NEW p \in Procs, NEW r, NEW cs, Proceed(p, r, cs), Effect(cs),
           Kept(p)'
    PROVE  KeptInv'
  BY OthersKeep DEF KeptInv

\* A client that goes on keeps what the command was, found and heard of; one that
\* returns adds its result.
LEMMA GotoFields ==
    ASSUME ProcOK, NEW p \in Procs, NEW l, NEW cs, Goto(p, l, cs)
    PROVE  /\ proc'[p].pc = l /\ proc'[p].op = proc[p].op /\ proc'[p].res = proc[p].res
           /\ proc'[p].errs = proc[p].errs /\ proc'[p].by = proc[p].by
           /\ \E r : Proceed(p, r, cs)
  BY DEF ProcOK, Local, Goto, Proceed

LEMMA ReturnFields ==
    ASSUME ProcOK, NEW p \in Procs, NEW x, NEW cs, Return(p, x, cs)
    PROVE  /\ proc'[p].pc = "idle" /\ proc'[p].op = proc[p].op /\ proc'[p].res = x
           /\ proc'[p].errs = proc[p].errs /\ proc'[p].by = proc[p].by
           /\ \E r : Proceed(p, r, cs)
  BY DEF ProcOK, Local, Return, Proceed

LEMMA EnableKeeps ==
    ASSUME TypeOK, KeptInv, NEW p \in Procs, EnableStep(p)
    PROVE  KeptInv'
<1>0. ProcOK /\ Kept(p) /\ proc[p].op = "enable"
  <2>1. proc[p].pc \in EnableLabels
    <3>1. CASE EnableFails(p)
      BY <3>1 DEF EnableFails
    <3>2. CASE ~EnableFails(p)
      BY <3>2
      DEF EnableStep, CheckTimer, CheckService, WriteTimer, WriteService,
          WriteServiceFails, CleanUp, CleanUpFails, Reload, EnableTimer, StartTimer,
          At, EnableLabels
    <3>3. QED
      BY <3>1, <3>2
  <2>2. QED
    BY <2>1 DEF TypeOK, ProcOK, KeptInv
<1>. USE DEF Effect, At, Ends, Kept, InstallKept, InstallAlone, RemovalKept, units, systemd
<1>1. ASSUME NEW l \in EnableLabels, NEW cs, Goto(p, l, cs), Effect(cs),
             InstallKept(p)', InstallAlone(p)'
      PROVE  KeptInv'
  <2>1. RemovalKept(p)'
    BY <1>0, <1>1, GotoFields
  <2>2. QED
    BY <1>0, <1>1, <2>1, GotoFields, KeptFrame
<1>2. ASSUME NEW x, NEW cs, Return(p, x, cs), Effect(cs), InstallKept(p)', InstallAlone(p)'
      PROVE  KeptInv'
  <2>1. RemovalKept(p)'
    BY <1>0, <1>2, ReturnFields
  <2>2. QED
    BY <1>0, <1>2, <2>1, ReturnFields, KeptFrame
<1>3. CASE CheckTimer(p)
  <2>1. CASE timer = "absent"
    BY <1>0, <1>1, <1>3, <2>1, GotoFields DEF CheckTimer, EnableLabels
  <2>2. CASE timer # "absent"
    BY <1>0, <1>2, <1>3, <2>2, ReturnFields DEF CheckTimer
  <2>3. QED
    BY <2>1, <2>2
<1>4. CASE CheckService(p)
  <2>1. CASE service = "absent"
    BY <1>0, <1>1, <1>4, <2>1, GotoFields DEF CheckService, EnableLabels
  <2>2. CASE service # "absent"
    BY <1>0, <1>2, <1>4, <2>2, ReturnFields DEF CheckService
  <2>3. QED
    BY <2>1, <2>2
<1>5. CASE WriteTimer(p)
  BY <1>0, <1>1, <1>5, GotoFields DEF WriteTimer, EnableLabels
<1>6. CASE WriteService(p)
  BY <1>0, <1>1, <1>6, GotoFields DEF WriteService, EnableLabels
<1>7. CASE WriteServiceFails(p)
  BY <1>0, <1>1, <1>7, GotoFields DEF WriteServiceFails, EnableLabels
<1>8. CASE CleanUp(p)
  BY <1>0, <1>2, <1>8, ReturnFields DEF CleanUp
<1>9. CASE CleanUpFails(p)
  BY <1>0, <1>2, <1>9, ReturnFields DEF CleanUpFails
<1>10. CASE Reload(p)
  BY <1>0, <1>1, <1>10, GotoFields DEF Reload, EnableLabels
<1>11. CASE EnableTimer(p)
  BY <1>0, <1>1, <1>11, GotoFields DEF EnableTimer, EnableLabels
<1>12. CASE StartTimer(p)
  BY <1>0, <1>2, <1>12, ReturnFields DEF StartTimer
<1>13. CASE EnableFails(p)
  BY <1>0, <1>2, <1>13, ReturnFields DEF EnableFails, EnableLabels
<1>14. QED
  BY <1>3, <1>4, <1>5, <1>6, <1>7, <1>8, <1>9, <1>10, <1>11, <1>12, <1>13 DEF EnableStep

LEMMA DisableKeeps ==
    ASSUME TypeOK, KeptInv, NEW p \in Procs, DisableStep(p)
    PROVE  KeptInv'
<1>0. ProcOK /\ Kept(p) /\ proc[p].op = "disable"
  <2>1. proc[p].pc \in DisableLabels
    <3>1. CASE StepFails(p)
      BY <3>1 DEF StepFails, DisableLabels, Following
    <3>2. CASE ~StepFails(p)
      BY <3>2
      DEF DisableStep, Stop, DisableTimer, RemoveTimer, RemoveService, Unload,
          UnloadFails, At, DisableLabels
    <3>3. QED
      BY <3>1, <3>2
  <2>2. QED
    BY <2>1 DEF TypeOK, ProcOK, KeptInv
<1>. USE DEF Effect, At, Ends, Kept, InstallKept, InstallAlone, RemovalKept, FilesGo,
             units, systemd
<1>1. ASSUME NEW l, NEW cs, Goto(p, l, cs), Effect(cs), RemovalKept(p)'
      PROVE  KeptInv'
  <2>1. InstallKept(p)' /\ InstallAlone(p)'
    BY <1>0, <1>1, GotoFields
  <2>2. QED
    BY <1>0, <1>1, <2>1, GotoFields, KeptFrame
<1>2. ASSUME NEW x, NEW cs, Return(p, x, cs), Effect(cs), RemovalKept(p)'
      PROVE  KeptInv'
  <2>1. InstallKept(p)' /\ InstallAlone(p)'
    BY <1>0, <1>2, ReturnFields
  <2>2. QED
    BY <1>0, <1>2, <2>1, ReturnFields, KeptFrame
<1>3. CASE Stop(p)
  BY <1>0, <1>1, <1>3, GotoFields DEF Stop
<1>4. CASE DisableTimer(p)
  BY <1>0, <1>1, <1>4, GotoFields DEF DisableTimer
<1>5. CASE RemoveTimer(p)
  BY <1>0, <1>1, <1>5, GotoFields DEF RemoveTimer
<1>6. CASE RemoveService(p)
  BY <1>0, <1>1, <1>6, GotoFields DEF RemoveService
<1>7. CASE Unload(p)
  <2>1. proc[p].errs \in BOOLEAN
    BY <1>0 DEF ProcOK, Local
  <2>2. CASE proc[p].errs
    BY <1>0, <1>2, <1>7, <2>2, ReturnFields DEF Unload
  <2>3. CASE ~proc[p].errs
    BY <1>0, <1>2, <1>7, <2>3, ReturnFields DEF Unload
  <2>4. QED
    BY <2>2, <2>3
<1>8. CASE UnloadFails(p)
  BY <1>0, <1>2, <1>8, ReturnFields DEF UnloadFails
<1>9. CASE StepFails(p)
  <2>. DEFINE r == [proc[p] EXCEPT !.pc = Following[proc[p].pc], !.errs = TRUE]
  <2>1. Proceed(p, r, {}) /\ UNCHANGED <<units, systemd>>
    BY <1>9 DEF StepFails
  <2>2. /\ r.pc = Following[proc[p].pc] /\ r.op = "disable" /\ r.errs
        /\ r.by = proc[p].by
    BY <1>0 DEF ProcOK, Local
  <2>. HIDE DEF r
  <2>3. proc'[p] = r
    BY <2>1 DEF Proceed
  <2>4. proc[p].pc \in {"stop", "disable", "rmTimer", "rmService"}
    BY <1>9 DEF StepFails, Following
  <2>5. {"rmTimer", "rmService"} \cap Faults = {} => proc[p].pc \in {"stop", "disable"}
    BY <1>9, <2>4 DEF StepFails, Fault
  <2>6. RemovalKept(p)'
    BY <2>2, <2>3, <2>4, <2>5 DEF Following
  <2>7. InstallKept(p)' /\ InstallAlone(p)'
    BY <2>2, <2>3
  <2>8. QED
    BY <1>0, <2>1, <2>6, <2>7, KeptFrame
<1>10. QED
  BY <1>3, <1>4, <1>5, <1>6, <1>7, <1>8, <1>9 DEF DisableStep

LEMMA BeginKeeps ==
    ASSUME TypeOK, KeptInv, NEW p \in Procs, NEW op \in {"enable", "disable"}, Begin(p, op)
    PROVE  KeptInv'
<1>. DEFINE refused == IF op = "enable" THEN Exists ELSE ~Exists
            first == IF op = "enable" THEN "checkTimer" ELSE "stop"
            r == [pc |-> IF refused THEN "idle" ELSE first, op |-> op,
                  res |-> IF refused THEN "refused" ELSE "none",
                  errs |-> FALSE, by |-> {}]
<1>0. ProcOK
  BY DEF TypeOK, ProcOK
<1>1. Proceed(p, r, {}) /\ UNCHANGED <<units, systemd>>
  BY DEF Begin
<1>2. r.op = op /\ r.pc \in {"idle", first} /\ r.res \in {"none", "refused"}
  OBVIOUS
<1>3. (r.op = "enable" /\ r.pc = "checkTimer") => timer = "absent" /\ service = "absent"
  BY DEF Exists
<1>. HIDE DEF r
<1>4. proc'[p] = r
  BY <1>1 DEF Proceed
<1>5. Kept(p)'
  BY <1>1, <1>2, <1>3, <1>4
  DEF Kept, InstallKept, InstallAlone, RemovalKept, Ends, At, units, systemd
<1>6. QED
  BY <1>0, <1>1, <1>5, KeptFrame DEF Effect, units, systemd

\* A client that a crash or a reboot has ended promises nothing.
LEMMA CrashedKeeps ==
    ASSUME NEW p \in Procs, proc'[p].pc = "idle", proc'[p].res = "crashed"
    PROVE  Kept(p)'
  BY DEF Kept, InstallKept, InstallAlone, RemovalKept, Ends, At

LEMMA RebootKeeps ==
    ASSUME TypeOK, KeptInv, Reboot
    PROVE  KeptInv'
<1>1. ASSUME NEW q \in Procs PROVE Kept(q)'
  <2>1. CASE ~At(q, "idle")
    <3>1. proc[q] \in Local
      BY DEF TypeOK
    <3>2. proc'[q] = [proc[q] EXCEPT !.pc = "idle", !.res = "crashed"]
      BY <2>1 DEF Reboot
    <3>3. proc'[q].pc = "idle" /\ proc'[q].res = "crashed"
      BY <3>1, <3>2 DEF Local
    <3>4. QED
      BY <3>3, CrashedKeeps
  <2>2. CASE At(q, "idle")
    <3>1. proc'[q] = proc[q] /\ UNCHANGED <<timer, service, wants>>
      BY <2>2 DEF Reboot, units
    <3>2. active' = (wants /\ timer \in {"ours", "foreign"})
      BY DEF Reboot
    <3>3. Kept(q)
      BY DEF KeptInv
    <3>4. InstallKept(q)'
      BY <2>2, <3>1, <3>2, <3>3 DEF Kept, InstallKept, Ends, At
    <3>5. InstallAlone(q)'
      BY <2>2, <3>1, <3>3 DEF Kept, InstallAlone, Ends, At
    <3>6. RemovalKept(q)'
      BY <2>2, <3>1, <3>2, <3>3 DEF Kept, RemovalKept, Ends, At, FilesGo
    <3>7. QED
      BY <3>4, <3>5, <3>6 DEF Kept
  <2>3. QED
    BY <2>1, <2>2
<1>2. QED
  BY <1>1 DEF KeptInv

\* An edit is seen by every client but those that have not looked there yet, and
\* an install that has not looked is told nothing new: what it may find is not
\* updex's own.
LEMMA EditKeeps ==
    ASSUME TypeOK, KeptInv, Edit
    PROVE  KeptInv'
<1>1. ASSUME NEW q \in Procs PROVE Kept(q)'
  <2>1. proc[q] \in Local /\ (proc[q].pc \in {"checkTimer", "checkService"}
                                => proc[q].op = "enable")
    BY DEF TypeOK, EnableLabels
  <2>2. CASE At(q, "checkTimer") \/ (At(q, "checkService") /\ timer' = timer)
    <3>1. proc'[q] = proc[q] /\ Kept(q)
      BY <2>2 DEF Edit, KeptInv
    <3>2. /\ timer' = timer \/ timer' # "ours"
          /\ service' = service \/ service' # "ours"
      BY DEF Edit
    <3>3. QED
      BY <2>1, <2>2, <3>1, <3>2
      DEF Kept, InstallKept, InstallAlone, RemovalKept, Ends, At
  <2>3. CASE ~(At(q, "checkTimer") \/ (At(q, "checkService") /\ timer' = timer))
    <3>1. proc'[q] = [proc[q] EXCEPT !.by = @ \cup {"edit"}]
      BY <2>3 DEF Edit
    <3>2. "edit" \in proc'[q].by
      BY <2>1, <3>1 DEF Local
    <3>3. QED
      BY <3>2 DEF Kept, InstallKept, InstallAlone, RemovalKept
  <2>4. QED
    BY <2>2, <2>3
<1>2. QED
  BY <1>1 DEF KeptInv

LEMMA InitKeeps == Init => KeptInv
<1>. SUFFICES ASSUME Init, NEW p \in Procs PROVE Kept(p)
  BY DEF KeptInv
<1>1. proc[p].op = "none"
  BY DEF Init
<1>2. QED
  BY <1>1 DEF Kept, InstallKept, InstallAlone, RemovalKept

LEMMA NextKeeps == TypeOK /\ KeptInv /\ [Next]_vars => KeptInv'
<1>. SUFFICES ASSUME TypeOK, KeptInv, [Next]_vars PROVE KeptInv'
  OBVIOUS
<1>0. ProcOK
  BY DEF TypeOK, ProcOK
<1>1. ASSUME NEW p \in Procs, Begin(p, "enable") \/ Begin(p, "disable") PROVE KeptInv'
  BY <1>1, BeginKeeps
<1>2. ASSUME NEW p \in Procs, EnableStep(p) \/ DisableStep(p) PROVE KeptInv'
  BY <1>2, EnableKeeps, DisableKeeps
<1>3. ASSUME NEW p \in Procs, Crash(p) PROVE KeptInv'
  <2>1. Return(p, "crashed", {}) /\ UNCHANGED <<units, systemd>>
    BY <1>3 DEF Crash
  <2>2. Kept(p)'
    BY <1>0, <2>1, ReturnFields, CrashedKeeps
  <2>3. QED
    BY <1>0, <2>1, <2>2, ReturnFields, KeptFrame DEF Effect, units, systemd
<1>4. CASE Reboot \/ Edit
  BY <1>4, RebootKeeps, EditKeeps
<1>5. CASE Forget \/ UNCHANGED vars
  <2>1. UNCHANGED <<timer, service, wants, active, proc>>
    BY <1>5 DEF Forget, vars, units, systemd
  <2>2. QED
    BY <2>1 DEF KeptInv, Kept, InstallKept, InstallAlone, RemovalKept, Ends, At, FilesGo
<1>6. QED
  BY <1>1, <1>2, <1>3, <1>4, <1>5 DEF Next

LEMMA KeptAlways == Spec => []KeptInv
  BY InitTypes, NextTypes, InitKeeps, NextKeeps, PTL DEF Spec

\* An enable that reports success has left updex's own timer installed, enabled
\* and running, whatever other enables do and fail to do at the same time and
\* however often the system reboots, until somebody removes or edits it.
THEOREM EnableSchedules == Spec => []EnabledIsScheduled
<1>1. KeptInv => EnabledIsScheduled
  BY DEF KeptInv, Kept, InstallKept, Ends, EnabledIsScheduled, Ended, Status, Exists
<1>2. QED
  BY <1>1, KeptAlways, PTL

\* A disable that reports success has left no unit file, nothing enabled and
\* nothing running, until somebody installs or edits it again.
THEOREM DisableRemoves == Spec => []DisabledIsGone
<1>1. KeptInv => DisabledIsGone
  <2>. SUFFICES ASSUME KeptInv, NEW p \in Procs, Ended(p, "disable", "ok", {"removal"})
                PROVE  timer = "absent" /\ service = "absent" /\ ~wants /\ ~active
    BY DEF DisabledIsGone
  <2>1. RemovalKept(p) /\ Ends(p, {"ok"}) /\ proc[p].op = "disable"
          /\ proc[p].by \subseteq {"removal"}
    BY DEF KeptInv, Kept, Ended, Ends
  <2>2. ~proc[p].errs
    BY <2>1 DEF RemovalKept
  <2>3. QED
    BY <2>1, <2>2 DEF RemovalKept, FilesGo, Ends
<1>2. QED
  BY <1>1, KeptAlways, PTL

\* An enable that nobody disturbs leaves both unit files or neither, at whatever
\* step it fails, unless its cleanup fails as well.
THEOREM InstallIsWhole == Spec => []InstallAllOrNothing
<1>1. KeptInv => InstallAllOrNothing
  BY DEF KeptInv, Kept, InstallAlone, Ends, InstallAllOrNothing, Ended
<1>2. QED
  BY <1>1, KeptAlways, PTL

\* Where files can be removed, a disable that fails has removed both unit files,
\* whatever systemctl answered, so that an enable is possible again.
THEOREM FailedDisableUnblocks == Spec => []DisableUnblocks
<1>1. KeptInv => DisableUnblocks
  BY DEF KeptInv, Kept, RemovalKept, FilesGo, Ends, DisableUnblocks, Ended, Exists
<1>2. QED
  BY <1>1, KeptAlways, PTL
=============================================================================
