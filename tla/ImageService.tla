---------------------------- MODULE ImageService ----------------------------
(***************************************************************************)
(* What systemd-sysext may observe of the images updex stages: per image, *)
(* the version behind its link, or none.  Updates replace a version by a  *)
(* newer one with no moment in between at which there is none; only an    *)
(* operator who disables a feature takes its images away.                 *)
(***************************************************************************)
EXTENDS Integers

CONSTANTS Images, Versions, NoVersion

VARIABLES
    served,     \* image -> the version its link reaches, or NoVersion
    removing    \* the images of the disable commands that are running

Init ==
    /\ served = [i \in Images |-> NoVersion]
    /\ removing = {}

\* A newer version takes the place of the one that is served, in one step.
Upgrade(i) ==
    /\ \E v \in Versions :
         /\ served[i] = NoVersion \/ v > served[i]
         /\ served' = [served EXCEPT ![i] = v]
    /\ UNCHANGED removing

\* An image is taken away, while an operator removes it.
Withdraw(i) ==
    /\ i \in removing
    /\ served' = [served EXCEPT ![i] = NoVersion]
    /\ UNCHANGED removing

\* Operators start and finish removing images.
Operate ==
    /\ removing' \in SUBSET Images
    /\ UNCHANGED served

Next == Operate \/ \E i \in Images : Upgrade(i) \/ Withdraw(i)

Spec == Init /\ [][Next]_<<served, removing>>
=============================================================================
