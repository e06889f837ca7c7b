----------------------------- MODULE GuardedRepair -----------------------------
(***************************************************************************)
(* What the Windows workflow promises about the machine it works on,       *)
(* without phases, plans or failures: one process works at a time, it      *)
(* writes a setting only under a licence, and it has the licence only      *)
(* because it has seen, or has just written, the backup of the first       *)
(* state.  That backup is written at most once.                            *)
(***************************************************************************)
EXTENDS HostSettings

CONSTANT Proc

VARIABLES
  sys,        \* the settings
  backup,     \* the backup: [status, snap]
  worker,     \* the process at work, as a set of at most one
  licensed,   \* the worker has seen a valid backup
  others      \* changes made by anybody else so far

vars == <<sys, backup, worker, licensed, others>>

Init ==
  /\ backup.status = "absent"
  /\ worker = {}
  /\ licensed = FALSE
  /\ others = 0

Begin(p) ==
  /\ worker = {}
  /\ worker' = {p}
  /\ UNCHANGED <<sys, backup, licensed, others>>

\* Done, or killed.
End ==
  /\ worker # {}
  /\ worker' = {}
  /\ licensed' = FALSE
  /\ UNCHANGED <<sys, backup, others>>

TakeBackup ==
  /\ worker # {} /\ ~licensed
  /\ backup.status = "absent"
  /\ backup'.status = "valid"
  /\ licensed' = TRUE
  /\ UNCHANGED <<sys, worker, others>>

FindBackup ==
  /\ worker # {} /\ ~licensed
  /\ backup.status = "valid"
  /\ licensed' = TRUE
  /\ UNCHANGED <<sys, backup, worker, others>>

\* One setting at a time.
Write(i) ==
  /\ licensed
  /\ sys' = [sys EXCEPT ![i] = sys'[i]]
  /\ UNCHANGED <<backup, worker, licensed, others>>

Renounce ==
  /\ licensed
  /\ licensed' = FALSE
  /\ UNCHANGED <<sys, backup, worker, others>>

\* Others change settings, or hit the backup.
Interfere ==
  /\ others' = others + 1
  /\ UNCHANGED <<worker, licensed>>

ServiceStops(i) ==
  /\ sys[i].run = "stopping"
  /\ sys' = [sys EXCEPT ![i].run = "stopped"]
  /\ UNCHANGED <<backup, worker, licensed, others>>

Next ==
  \/ \E p \in Proc : Begin(p)
  \/ End \/ TakeBackup \/ FindBackup \/ Renounce \/ Interfere
  \/ \E i \in Items : Write(i)
  \/ \E i \in ToSet(Services) : ServiceStops(i)

Spec == Init /\ [][Next]_vars
==============================================================================
