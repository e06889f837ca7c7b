---------------------------- MODULE ReportServer ----------------------------
(***************************************************************************)
(* The report server as a whole: its installation (ServerInstall), uploads *)
(* (ReportUploads) and administration (ServerAdmin) around the one process *)
(* of the service, whose end loses the memory of both, and its one thread, *)
(* which works on one request at a time.                                   *)
(***************************************************************************)
EXTENDS Integers, Sequences

CONSTANTS Ports, MaxInstalls, MaxFaults,
          Clients, MaxAttempts, Ticks, Window, NonceLife, Skews, MaxTime, MaxLives,
          MaxDisturbances,
          Names, Browsers, Addresses, AddressOf, Loopback, Limit, Period, Life,
          MaxSessions, MaxTries, MaxFailures

VARIABLES key, cert, pinFile, binding, rule, stuck, service, process, installer,
          clients, fresh, runs, faults,
          clock, skew, job, queue, handled, answers, life, busy, nonces, reports,
          disturbed,
          users, disk, sessions, issued, wrong, failures, cookie, form, tries,
          failed, acknowledged, overlooked, overwritten, used, ended

installVars == <<key, cert, pinFile, binding, rule, stuck, service, process,
                 installer, clients, fresh, runs, faults>>
uploadVars == <<skew, job, queue, handled, answers, life, busy, nonces, reports,
                disturbed>>
adminVars == <<users, disk, sessions, issued, wrong, failures, cookie, form, tries,
               failed, acknowledged, overlooked, overwritten, used, ended>>
vars == <<installVars, uploadVars, adminVars, clock>>

\* A process that could not be stopped goes on to serve.
Serving == process.stage \in {"serving", "deaf"}

Install == INSTANCE ServerInstall
Uploads == INSTANCE ReportUploads WITH up <- Serving
Admin == INSTANCE ServerAdmin WITH up <- Serving

ASSUME ServerAssumption == /\ Install!InstallAssumption
                           /\ Uploads!UploadAssumption
                           /\ Admin!AdminAssumption

Init == Install!Init /\ Uploads!Init /\ Admin!Init

-----------------------------------------------------------------------------
\* A step of the installation, of the service manager or of the machine, and
\* what it means for the server.
InstallStep ==
    /\ Install!Next
    /\ \/ Serving' /\ ~Serving /\ Uploads!ServerStarts /\ Admin!ServerStarts
       \/ Serving /\ ~Serving' /\ Uploads!ServerDies /\ Admin!ServerDies
       \/ Serving' = Serving /\ UNCHANGED <<uploadVars, adminVars, clock>>

\* What a machine in the network, or the server itself, can connect to.
Bound == Serving /\ binding[process.port] # Install!None
Reachable == Bound /\ rule[process.port] > 0

\* A tool is bound to the server if it was built with the files of the server.
ClientStep(c) ==
    /\ UNCHANGED <<installVars, adminVars>>
    /\ Uploads!ClientStep(c)
    /\ job[c].pc = "idle" /\ job'[c].bound => clients # {}
    /\ job[c].pc = "sending" /\ job'[c].pc = "waiting" => Reachable

RequestStep == UNCHANGED <<installVars, adminVars>> /\ Uploads!ServerStep

AdminStep(b) ==
    /\ busy = Uploads!Nobody
    /\ Reachable \/ (Bound /\ AddressOf[b] \in Loopback)
    /\ UNCHANGED <<installVars, uploadVars>>
    /\ Admin!Request(b)

Tick ==
    /\ UNCHANGED installVars
    /\ Uploads!Tick /\ Admin!Tick

Next == \/ InstallStep \/ RequestStep \/ Tick
        \/ \E c \in Clients : ClientStep(c)
        \/ \E b \in Browsers : AdminStep(b)

Spec == Init /\ [][Next]_vars
-----------------------------------------------------------------------------
\* The three components work together as they do on their own: what is true of
\* one of them alone is true of it here.
InstallWorks == Install!Spec
UploadsWork == Uploads!Spec
AdminWorks == Admin!Spec

\* Every variable of every component has its type.
TypeOK == Install!TypeOK /\ Uploads!TypeOK /\ Admin!TypeOK
\* Clients that were built stay valid (see ServerInstall).
BoundClientsStayValid == Install!BoundClientsStayValid
\* A complete installation has brought everything into line (ServerInstall).
InstallationAgrees == Install!InstallationAgrees
\* A process stores an attempt once (ReportUploads).
StoredOnce == Uploads!StoredOnce
\* A tool that ends with "uploaded" is right (ReportUploads).
UploadedIsStored == Uploads!UploadedIsStored
\* No attempt is taken for a repetition (ReportUploads).
FreshAttemptNotReplayed == Uploads!FreshAttemptNotReplayed
\* An acknowledged administrator is lost by nothing but a start that does not
\* find him in users.db (ServerAdmin).
AcknowledgedAdminsSurvive == Admin!AcknowledgedAdminsSurvive
\* No more than Limit failed logins within Period (ServerAdmin).
LoginLimit == Admin!LoginLimit
\* A session that has come to an end is never served again (ServerAdmin).
SessionsEnd == Admin!SessionsEnd
=============================================================================
