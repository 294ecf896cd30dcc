---------------------------- MODULE DownloadCache ----------------------------
(***************************************************************************)
(* What the download wrapper promises to those who share BR2_DL_DIR: a     *)
(* file appears under its name in one step and is acceptable; only a user  *)
(* who has seen a refutable file evicts; and a user who is told "ok" has   *)
(* either put an acceptable file there or found one.                       *)
(*                                                                         *)
(* It does not promise that the file that goes is the one that was seen:   *)
(* between Condemn and Evict another user may install an acceptable one.   *)
(***************************************************************************)
CONSTANTS
    Users,
    Acceptable,     \* what passes the check; NoFile too, where none is made
    Refutable,      \* what fails it
    InitialOutput,  \* what the directory may hold at the start
    NoFile

VARIABLES file, status

Init ==
    /\ file \in InitialOutput
    /\ status \in [Users -> {"running", "failed"}]

Become(u, s) == status' = [status EXCEPT ![u] = s]

\* The user's download takes its place in the directory.
Install(u) ==
    /\ status[u] = "running"
    /\ file' \in Acceptable \ {NoFile}
    /\ Become(u, "ok")

\* The user finds an acceptable file and uses it.
Use(u) ==
    /\ status[u] = "running"
    /\ file \in Acceptable
    /\ Become(u, "ok")
    /\ UNCHANGED file

\* The user finds a refutable file, and is about to evict it.
Condemn(u) ==
    /\ status[u] = "running"
    /\ file \in Refutable
    /\ Become(u, "evicting")
    /\ UNCHANGED file

\* The user evicts what is there now.
Evict(u) ==
    /\ status[u] = "evicting"
    /\ file' = NoFile
    /\ Become(u, "running")

\* The eviction fails, and the user goes on to another site.
Spare(u) ==
    /\ status[u] = "evicting"
    /\ Become(u, "running")
    /\ UNCHANGED file

\* The user runs out of sites, or is interrupted.
GiveUp(u) ==
    /\ status[u] \in {"running", "evicting"}
    /\ \E s \in {"failed", "killed"} : Become(u, s)
    /\ UNCHANGED file

Next == \E u \in Users :
    Install(u) \/ Use(u) \/ Condemn(u) \/ Evict(u) \/ Spare(u) \/ GiveUp(u)

Spec == Init /\ [][Next]_<<file, status>>
=============================================================================
