----------------------------- MODULE JobLifecycle -----------------------------
(***************************************************************************)
(* What the detached verification control plane promises its clients,      *)
(* without locks, files or transactions: durable rows that move through    *)
(* the states of VerificationJobState, at most one of them open, and an    *)
(* owner -- first the launcher, then the worker -- who is never declared   *)
(* dead while it lives.  VerificationJobs implements this specification.   *)
(***************************************************************************)
CONSTANT Jobs

VARIABLES row,    \* row[j]: the durable state of job j, "ABSENT" before its insert
          owner   \* owner[j]: who is responsible for job j now

vars == <<row, owner>>

ActiveStates == {"STARTING", "RUNNING", "CANCEL_REQUESTED"}
TerminalStates == {"SUCCEEDED", "FAILED", "INTERRUPTED"}
RowStates == {"ABSENT"} \cup ActiveStates \cup TerminalStates
Owners == {"none", "launcher", "worker"}

Init == /\ row = [j \in Jobs |-> "ABSENT"]
        /\ owner = [j \in Jobs |-> "none"]

\* A launcher opens a job: nothing else is open and nobody is still at work.
Open(j) == /\ row[j] = "ABSENT"
           /\ \A k \in Jobs : row[k] \notin ActiveStates /\ owner[k] = "none"
           /\ row' = [row EXCEPT ![j] = "STARTING"]
           /\ owner' = [owner EXCEPT ![j] = "launcher"]

\* The launcher hands the job over to the worker process it started.
HandOver(j) == /\ owner[j] = "launcher"
               /\ owner' = [owner EXCEPT ![j] = "worker"]
               /\ UNCHANGED row

\* The worker reports that it runs.
Run(j) == /\ owner[j] = "worker"
          /\ row[j] = "STARTING"
          /\ row' = [row EXCEPT ![j] = "RUNNING"]
          /\ UNCHANGED owner

\* Any client asks for cancellation of an open job.
RequestCancel(j) == /\ row[j] \in ActiveStates
                    /\ row' = [row EXCEPT ![j] = "CANCEL_REQUESTED"]
                    /\ UNCHANGED owner

\* The owner records the job's result itself: the worker any, a launcher that
\* could not start one FAILED.
Conclude(j) == /\ row[j] \in ActiveStates
               /\ \/ /\ owner[j] = "worker"
                     /\ \E result \in TerminalStates :
                          row' = [row EXCEPT ![j] = result]
                  \/ /\ owner[j] = "launcher"
                     /\ row' = [row EXCEPT ![j] = "FAILED"]
               /\ UNCHANGED owner

\* The owner stops: it returned, or its process died.
Leave(j) == /\ owner[j] # "none"
            /\ owner' = [owner EXCEPT ![j] = "none"]
            /\ UNCHANGED row

\* Somebody finds an open job without an owner and closes it.
Recover(j) == /\ row[j] \in ActiveStates
              /\ owner[j] = "none"
              /\ row' = [row EXCEPT ![j] = "INTERRUPTED"]
              /\ UNCHANGED owner

Next == \E j \in Jobs : \/ Open(j) \/ HandOver(j) \/ Run(j) \/ RequestCancel(j)
                        \/ Conclude(j) \/ Leave(j) \/ Recover(j)

Spec == Init /\ [][Next]_vars
=============================================================================
