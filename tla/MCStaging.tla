------------------------------ MODULE MCStaging ------------------------------
(***************************************************************************)
(* Instances of Staging for TLC.                                          *)
(***************************************************************************)
EXTENDS Staging, TLC

CONSTANTS i1, i2, f1, f2, updex, daemon

Command(k, f, now, force, refresh) ==
    [kind |-> k, feature |-> f, now |-> now, force |-> force,
     refresh |-> refresh, vacuum |-> TRUE]

\* The daemon's service runs "features update --no-refresh"; an operator's
\* update refreshes.  The feature is not read by an update.
DaemonUpdate == Command("update", f1, FALSE, FALSE, FALSE)
Update == Command("update", f1, FALSE, FALSE, TRUE)
UpdateNoVacuum == [Update EXCEPT !.vacuum = FALSE]
EnableNow(f) == Command("enable", f, TRUE, FALSE, TRUE)
DisableNow(f) == Command("disable", f, TRUE, FALSE, TRUE)
DisableForce(f) == Command("disable", f, TRUE, TRUE, TRUE)
Disable(f) == Command("disable", f, FALSE, FALSE, TRUE)

-----------------------------------------------------------------------------
\* One image, one process that runs every command.
OneOrder == <<f1>>
OneImagesOf == f1 :> <<i1>>
OneInstancesMax == i1 :> 1
OneProtect == i1 :> 1
OneJobs == updex :> {Update, UpdateNoVacuum, EnableNow(f1), DisableNow(f1),
                     DisableForce(f1), Disable(f1)}
OneReleases == {{}, {1, 2}, {3}, {2}}

-----------------------------------------------------------------------------
\* Two images, one with a CurrentSymlink, and two features that share the
\* other; one process that runs every command.
TwoOrder == <<f1, f2>>
TwoImagesOf == f1 :> <<i1, i2>> @@ f2 :> <<i2>>
TwoInstancesMax == i1 :> 1 @@ i2 :> 0
TwoProtect == i1 :> 1 @@ i2 :> NoVersion
TwoJobs == updex :> {Update, UpdateNoVacuum, DaemonUpdate, EnableNow(f1), EnableNow(f2),
                     DisableNow(f1), DisableNow(f2), DisableForce(f1)}
TwoReleases == {{1, 2}, {3}}

-----------------------------------------------------------------------------
\* One image, the daemon and an operator's updates and enables.
InstallJobs == daemon :> {DaemonUpdate} @@ updex :> {Update, EnableNow(f1)}
InstallReleases == {{1}, {1, 2}, {2, 3}}

\* ... and every command.
LiveJobs == daemon :> {DaemonUpdate}
         @@ updex :> {EnableNow(f1), DisableNow(f1), DisableForce(f1)}
LiveReleases == {{1}, {2}, {}}
LiveProtect == i1 :> NoVersion
=============================================================================
