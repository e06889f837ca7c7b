---------------------------- MODULE ExecutionLock ----------------------------
(***************************************************************************)
(* The machine-wide execution lock of the Windows tools: a named mutex     *)
(* created by execution_lock.cpp.  The tools never wait for it; whether a  *)
(* process may run is decided by whether the named object ALREADY EXISTED  *)
(* when the process called CreateMutexW, not by who owns it.  A kernel     *)
(* object exists as long as any process has a handle to it, so the whole   *)
(* state is what each process's ExecutionLock object says.                 *)
(***************************************************************************)
CONSTANT Proc          \* process slots of one machine

VARIABLE lock          \* lock[p]: the ExecutionLock object of process p

Verdicts == {"none", "acquired", "alreadyRunning", "failed"}

\* Every process has a verdict of the lock, or none.
TypeOK == lock \in [Proc -> Verdicts]

Init == lock = [p \in Proc |-> "none"]

\* Processes that keep the named kernel object alive.
Handles == {p \in Proc : lock[p] \in {"acquired", "alreadyRunning"}}

Holders == {p \in Proc : lock[p] = "acquired"}

(***************************************************************************)
(* The constructor.  permitted: the caller may open an existing object     *)
(* with full access (the DACL gives that to SYSTEM and administrators; a   *)
(* plain user gets no handle).  CreateMutexW may also fail for lack of     *)
(* resources, whatever the state of the object.                            *)
(***************************************************************************)
\* Mutant: ERROR_ALREADY_EXISTS is not looked at.
AcquireUnchecked(p) ==
  /\ lock[p] = "none"
  /\ lock' = [lock EXCEPT ![p] = "acquired"]

Acquire(p) ==
  /\ lock[p] = "none"
  /\ Handles = {}
  /\ lock' = [lock EXCEPT ![p] = "acquired"]

Refuse(p, permitted) ==
  /\ lock[p] = "none"
  /\ Handles # {}
  /\ permitted
  /\ lock' = [lock EXCEPT ![p] = "alreadyRunning"]

Fail(p) ==
  /\ lock[p] = "none"
  /\ lock' = [lock EXCEPT ![p] = "failed"]

\* The destructor; the system does the same for a process that is killed.
Release(p) ==
  /\ lock[p] # "none"
  /\ lock' = [lock EXCEPT ![p] = "none"]

Next ==
  \E p \in Proc :
    \/ Acquire(p)
    \/ \E permitted \in BOOLEAN : Refuse(p, permitted)
    \/ Fail(p)
    \/ Release(p)

Fairness == \A p \in Proc : WF_lock(Release(p))

Spec == Init /\ [][Next]_lock

FairSpec == Spec /\ Fairness

(***************************************************************************)
(* Never two processes that both believe they hold the lock.               *)
(***************************************************************************)
MutualExclusion ==
  \A p, q \in Proc : lock[p] = "acquired" /\ lock[q] = "acquired" => p = q

(***************************************************************************)
(* What README.md line 181 says of exit code 8: a process is told that a   *)
(* task is already running only when one is.  False of the code: a process *)
(* that was itself refused keeps its handle until it has finished, and the *)
(* object outlives the task that created it.                               *)
(***************************************************************************)
RefusedOnlyWhileTaskRuns ==
  [][\A p \in Proc :
       lock[p] = "none" /\ lock'[p] = "alreadyRunning" => Holders # {}]_lock
==============================================================================
