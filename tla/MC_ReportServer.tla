------------------------- MODULE MC_ReportServer -------------------------
(* One client and two browsers, one of them at the server. *)
EXTENDS ReportServer, FiniteSets, TLC

CONSTANTS b1, b2, local, far

MCAddressOf == [b \in Browsers |-> IF b = b1 THEN local ELSE far]
MCSkews == {-2, 0, 1}
Symmetry == Permutations(Names)

\* A server that runs and is not installed again.
Running == Serving /\ clients # {} /\ runs = MaxInstalls /\ process.port = 1
NoTools == \A c \in Clients : job[c].pc = "exited"
NoAdmins == tries = MaxTries /\ issued = MaxSessions
Fresh == process = Install!NoProcess /\ clients = {}

AtMost(a, b, c) == faults >= MaxFaults - a /\ disturbed >= MaxDisturbances - b
                   /\ failed >= MaxFailures - c

\* Installations and their failures.
Installing == NoTools /\ NoAdmins /\ disk = Names /\ clock = MaxTime /\ runs = 0
              /\ faults = 0 /\ AtMost(MaxFaults, 0, 0)
\* Uploads, repeated requests, full disks and time.
Uploading == Running /\ NoAdmins /\ disk = Names /\ clock = 0
             /\ disturbed = 0 /\ AtMost(0, MaxDisturbances, 0)
\* Accounts, sessions, the limit of logins.
Accounts == Running /\ NoTools /\ clock = MaxTime /\ issued = 0
            /\ Cardinality(disk) <= 1 /\ tries = MaxTries
            /\ failed = 0 /\ AtMost(0, 0, MaxFailures)
Sessions == Running /\ NoTools /\ clock = MaxTime - 4 /\ issued = 0
            /\ disk = Names /\ tries = MaxTries /\ AtMost(0, 0, 0)
Logins == Running /\ NoTools /\ clock = MaxTime - 4 /\ issued = MaxSessions - 1
          /\ disk = Names /\ tries = 0 /\ AtMost(0, 0, 0)
\* All of it, on one machine, with little of each.
Together == Fresh /\ NoAdmins /\ disk = {} /\ clock = MaxTime - 1
            /\ runs = MaxInstalls - 1
            /\ (AtMost(1, 0, 0) \/ AtMost(0, 1, 0) \/ AtMost(0, 0, 1))

MCInit == Init /\ (Installing \/ Uploading \/ Accounts \/ Sessions \/ Logins \/ Together)
MCSpec == MCInit /\ [][Next]_vars
=============================================================================
