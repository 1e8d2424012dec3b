------------------------------ MODULE MCDaemon ------------------------------
(***************************************************************************)
(* Instance of Daemon for TLC.                                            *)
(***************************************************************************)
EXTENDS Daemon

CONSTANTS p1, p2

\* Removing a file does not fail: see DisableUnblocks.
DaemonFaults ==
    (Labels \ {"idle", "checkTimer", "checkService", "rmTimer", "rmService"})
      \cup {"crash", "reboot"}
=============================================================================
