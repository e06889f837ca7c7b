--------------------------- MODULE ServerInstall ---------------------------
(***************************************************************************)
(* Installation of the report server (src/src/report_server.cpp): Install, *)
(* Uninstall, the Windows service that runs WebServer, and the upload      *)
(* clients that are built with the key and the certificate pin of the data *)
(* directory (src/tools/build-bound-clients.ps1).  Every step of the two   *)
(* programs can fail, and the program can be killed between any two.       *)
(***************************************************************************)
EXTENDS Naturals

CONSTANTS Ports,        \* what /port= may say
          MaxInstalls,  \* bound: runs of Install and Uninstall
          MaxFaults     \* bound: failing calls and killed programs

InstallAssumption ==
    /\ Ports \subseteq Nat \ {0}
    /\ MaxInstalls \in Nat
    /\ MaxFaults \in Nat

None == 0               \* no file, certificate, binding, service
Torn == 1               \* a file that exists but does not hold its value
                        \* (keys and certificates are numbered from 2)

VARIABLES key,        \* upload.key
          cert,       \* the certificate found by its subject in the store
          pinFile,    \* server-cert-sha256.txt
          binding,    \* binding[p]: the certificate http.sys uses for port p
          rule,       \* rule[p]: how many firewall rules of the program's
                      \* name let port p in
          stuck,      \* observer: a rule was added although the Remove
                      \* before it had failed
          service,    \* the registered service: its port, deleted or not
          process,    \* the service process: its port, and whether it serves
          installer,  \* the program at work
          clients,    \* upload clients built so far
          fresh, runs, faults   \* next number, bounds

filesVars == <<key, cert, pinFile>>
ruleVars == <<rule, stuck>>
vars == <<filesVars, binding, ruleVars, service, process, installer, clients,
          fresh, runs, faults>>

Idle(p, done) == [pc |-> "idle", port |-> p, done |-> done, clean |-> TRUE]
NoService == [port |-> None, deleted |-> FALSE]
NoProcess == [port |-> None, stage |-> "none"]

\* A machine on which nothing was installed, or one that serves port p and
\* for which upload clients may have been built.
Init ==
    /\ \/ /\ key = None /\ cert = None /\ pinFile = None /\ fresh = 2
          /\ binding = [p \in Ports |-> None] /\ rule = [p \in Ports |-> 0]
          /\ service = NoService /\ process = NoProcess
          /\ installer = Idle(None, FALSE) /\ clients = {}
       \/ \E p \in Ports :
          /\ key = 2 /\ cert = 3 /\ pinFile = 3 /\ fresh = 4
          /\ binding = [q \in Ports |-> IF q = p THEN 3 ELSE None]
          /\ rule = [q \in Ports |-> IF q = p THEN 1 ELSE 0]
          /\ service = [port |-> p, deleted |-> FALSE]
          /\ process = [port |-> p, stage |-> "serving"]
          /\ installer = Idle(p, TRUE)
          /\ clients \in SUBSET {[key |-> 2, pin |-> 3]}
    /\ stuck = FALSE
    /\ runs \in 0..MaxInstalls /\ faults \in 0..MaxFaults

-----------------------------------------------------------------------------
(* Steps of the programs.  A call that fails throws, which ends the        *)
(* program; what a call leaves behind that fails is also what is left when *)
(* the program is killed in it.  WriteText keeps its short text in the     *)
(* buffer of the stream, so a full disk is noticed by nobody: such a fault *)
(* is not thrown and only recorded in "clean".                             *)

GoOn(pc) == installer' = [installer EXCEPT !.pc = pc]
GoOnAfterFault(pc) ==
    installer' = [installer EXCEPT !.pc = pc, !.clean = FALSE]
Fault == faults < MaxFaults /\ faults' = faults + 1
Throw == installer' = Idle(installer.port, FALSE)

\* Install and Uninstall start (an administrator runs them, one at a time).
Begin ==
    /\ installer.pc = "idle" /\ runs < MaxInstalls
    /\ runs' = runs + 1
    /\ \E p \in Ports, first \in {"key", "stop"} :
         installer' = [pc |-> first, port |-> p, done |-> FALSE, clean |-> TRUE]
    /\ UNCHANGED <<filesVars, binding, ruleVars, service, process, clients, fresh,
                   faults>>

\* (A variant that makes a new key every time.)
WriteKeyAnew ==
    /\ installer.pc = "key"
    /\ GoOn("cert") /\ key' = fresh /\ fresh' = fresh + 1
    /\ UNCHANGED <<cert, pinFile, binding, ruleVars, service, process, clients,
                   runs, faults>>

WriteKey ==
    /\ installer.pc = "key"
    /\ \/ /\ key # None
          /\ GoOn("cert") /\ UNCHANGED <<key, fresh, faults>>
       \/ /\ key = None
          /\ GoOn("cert") /\ key' = fresh /\ fresh' = fresh + 1
          /\ UNCHANGED faults
       \/ /\ key = None /\ Fault /\ UNCHANGED fresh
          /\ \/ Throw /\ key' \in {None, Torn}
             \/ GoOnAfterFault("cert") /\ key' = Torn
    /\ UNCHANGED <<cert, pinFile, binding, ruleVars, service, process, clients,
                   runs>>

EnsureCertificate ==
    /\ installer.pc = "cert"
    /\ \/ /\ cert # None
          /\ GoOn("http") /\ UNCHANGED <<cert, fresh, faults>>
       \/ /\ cert = None
          /\ GoOn("http") /\ cert' = fresh /\ fresh' = fresh + 1
          /\ UNCHANGED faults
       \/ Fault /\ Throw /\ UNCHANGED <<cert, fresh>>
    /\ UNCHANGED <<key, pinFile, binding, ruleVars, service, process, clients, runs>>

\* The binding of the port is deleted before it is set.
ConfigureHttpSys ==
    /\ installer.pc = "http"
    /\ \/ /\ GoOn("pin") /\ UNCHANGED faults
          /\ binding' = [binding EXCEPT ![installer.port] = cert]
       \/ /\ Fault /\ Throw
          /\ binding' \in {binding, [binding EXCEPT ![installer.port] = None]}
    /\ UNCHANGED <<filesVars, ruleVars, service, process, clients, fresh, runs>>

\* server-cert-sha256.txt is written again by every installation.
WritePin ==
    /\ installer.pc = "pin"
    /\ \/ GoOn("secure") /\ pinFile' = cert /\ UNCHANGED faults
       \/ Fault /\ Throw /\ pinFile' \in {pinFile, Torn}
       \/ Fault /\ GoOnAfterFault("secure") /\ pinFile' = Torn
    /\ UNCHANGED <<key, cert, binding, ruleVars, service, process, clients, fresh,
                   runs>>

SecureDataDirectory ==
    /\ installer.pc = "secure"
    /\ \/ GoOn("rule") /\ UNCHANGED faults
       \/ Fault /\ Throw
    /\ UNCHANGED <<filesVars, binding, ruleVars, service, process, clients, fresh,
                   runs>>

\* Remove takes one rule of the name away, where there is one.
RuleRemoved ==
    IF \A p \in Ports : rule[p] = 0 THEN {rule}
    ELSE {[rule EXCEPT ![p] = @ - 1] : p \in {q \in Ports : rule[q] > 0}}
RuleAdded(r) == [r EXCEPT ![installer.port] = @ + 1]

\* (A variant that leaves a rule it finds.)
ConfigureFirewallOnce ==
    /\ installer.pc \in {"rule", "unrule"} /\ UNCHANGED <<stuck, faults>>
    /\ \/ /\ installer.pc = "rule" /\ GoOn("service")
          /\ rule' = IF \A p \in Ports : rule[p] = 0 THEN RuleAdded(rule) ELSE rule
       \/ installer.pc = "unrule" /\ Throw /\ rule' \in RuleRemoved
    /\ UNCHANGED <<filesVars, binding, service, process, clients, fresh, runs>>

\* ConfigureFirewall removes a rule of its name and adds a new one.  It throws
\* where the firewall cannot be opened or the new rule cannot be added, but does
\* not look at what Remove says: if that fails, the old rule stays beside the new
\* one, and the installation goes on.
ConfigureFirewall ==
    /\ installer.pc \in {"rule", "unrule"}
    /\ \/ /\ installer.pc = "rule"
          /\ \/ /\ \E r \in RuleRemoved : rule' = RuleAdded(r)
                /\ GoOn("service") /\ UNCHANGED <<stuck, faults>>
             \/ Fault /\ Throw /\ rule' \in {rule} \cup RuleRemoved /\ UNCHANGED stuck
             \/ /\ Fault /\ GoOnAfterFault("service")
                /\ rule' = RuleAdded(rule) /\ stuck' = TRUE
       \/ /\ installer.pc = "unrule" /\ UNCHANGED stuck
          /\ \/ Throw /\ rule' \in RuleRemoved /\ UNCHANGED faults
             \/ Fault /\ Throw /\ UNCHANGED rule
    /\ UNCHANGED <<filesVars, binding, service, process, clients, fresh, runs>>

KeyIsUsable == key \notin {None, Torn}

\* What StartServiceW comes to, and the start of the machine: ServiceMain
\* makes a WebServer, whose constructor throws without a valid key.
Started(port) == IF KeyIsUsable THEN [port |-> port, stage |-> "starting"]
                 ELSE NoProcess

\* A service that exists gets a new command line, the result of which is not
\* looked at; nor is that of StartServiceW.  A running process stays as it is.
InstallService ==
    /\ installer.pc = "service"
    /\ \/ /\ ~service.deleted /\ UNCHANGED faults
          /\ service' = [port |-> installer.port, deleted |-> FALSE]
          /\ process' = IF process = NoProcess THEN Started(installer.port)
                        ELSE process
          /\ installer' = [installer EXCEPT !.pc = "idle", !.done = TRUE]
       \/ /\ ~service.deleted /\ Fault
          /\ \/ /\ service.port # None /\ UNCHANGED service
                /\ process' \in {process, IF process = NoProcess
                                          THEN Started(service.port) ELSE process}
             \/ /\ service' = [port |-> installer.port, deleted |-> FALSE]
                /\ UNCHANGED process
          /\ installer' = [installer EXCEPT !.pc = "idle", !.done = TRUE,
                                            !.clean = FALSE]
       \/ /\ service.deleted /\ Throw /\ UNCHANGED <<service, process, faults>>
       \/ Fault /\ Throw /\ UNCHANGED <<service, process>>
    /\ UNCHANGED <<filesVars, binding, ruleVars, clients, fresh, runs>>

\* RemoveService asks the process to stop and marks the service for deletion;
\* nothing it cannot do is reported.  A process that has no request queue yet
\* goes on (Stop looks at queue, and Run never looks back), and having said
\* STOP_PENDING it is never asked again: it is deaf.
AfterStop == CASE process.stage = "serving" -> NoProcess
               [] process.stage = "starting" -> [process EXCEPT !.stage = "deaf"]
               [] OTHER -> process

RemoveService ==
    /\ installer.pc = "stop" /\ GoOn("unrule")
    /\ \/ /\ service # NoService /\ process' = AfterStop
          /\ service' = IF process' = NoProcess THEN NoService
                        ELSE [service EXCEPT !.deleted = TRUE]
          /\ UNCHANGED faults
       \/ service = NoService /\ UNCHANGED <<service, process, faults>>
       \/ Fault /\ UNCHANGED <<service, process>>
    /\ UNCHANGED <<filesVars, binding, ruleVars, clients, fresh, runs>>

\* The program is killed, or the machine loses power, between two steps.
Killed ==
    /\ installer.pc # "idle" /\ Fault /\ Throw
    /\ UNCHANGED <<filesVars, binding, ruleVars, service, process, clients, fresh,
                   runs>>

-----------------------------------------------------------------------------
\* Run has made the queue and the URL group.
BeginServing ==
    /\ process.stage = "starting"
    /\ process' = [process EXCEPT !.stage = "serving"]
    /\ UNCHANGED <<filesVars, binding, ruleVars, service, installer, clients, fresh,
                   runs, faults>>

\* The process ends: stopped, crashed, or with the machine.  A service that
\* was marked for deletion is gone then.
ProcessEnds ==
    /\ process # NoProcess /\ process' = NoProcess
    /\ service' = IF service.deleted THEN NoService ELSE service
    /\ UNCHANGED <<filesVars, binding, ruleVars, installer, clients, fresh, runs,
                   faults>>

\* The service manager starts the service with the machine (AUTO_START).
ServiceStarts ==
    /\ process = NoProcess /\ service.port # None /\ ~service.deleted
    /\ KeyIsUsable
    /\ process' = Started(service.port)
    /\ UNCHANGED <<filesVars, binding, ruleVars, service, installer, clients, fresh,
                   runs, faults>>

\* build-bound-clients.ps1 refuses files that are no 64 hexadecimal digits.
BuildClients ==
    /\ {key, pinFile} \cap {None, Torn} = {}
    /\ clients' = clients \cup {[key |-> key, pin |-> pinFile]}
    /\ UNCHANGED <<filesVars, binding, ruleVars, service, process, installer, fresh,
                   runs, faults>>

InstallerStep ==
    \/ Begin \/ WriteKey \/ EnsureCertificate \/ ConfigureHttpSys \/ WritePin
    \/ SecureDataDirectory \/ ConfigureFirewall \/ InstallService
    \/ RemoveService \/ Killed
ServiceStep == BeginServing \/ ProcessEnds \/ ServiceStarts

Next == InstallerStep \/ ServiceStep \/ BuildClients
Spec == Init /\ [][Next]_vars
-----------------------------------------------------------------------------
Installers == [pc : {"idle", "key", "cert", "http", "pin", "secure", "rule",
                     "service", "stop", "unrule"},
               port : Ports \cup {None}, done : BOOLEAN, clean : BOOLEAN]
Services == [port : Ports \cup {None}, deleted : BOOLEAN]
Processes == [port : Ports \cup {None},
              stage : {"none", "starting", "serving", "deaf"}]
\* Files, settings, service, process and installer have their types.
TypeOK ==
    /\ key \in Nat /\ cert \in Nat /\ pinFile \in Nat /\ fresh \in Nat
    /\ binding \in [Ports -> Nat]
    /\ rule \in [Ports -> Nat] /\ stuck \in BOOLEAN
    /\ service \in Services /\ process \in Processes
    /\ installer \in Installers
    /\ clients \subseteq [key : Nat, pin : Nat]
    /\ runs \in Nat /\ faults \in Nat

\* Whatever installations, failures and kills there have been since, a client
\* that was built with the key and the pin of the server is still right: the
\* key is the one on disk, and every port bound to a certificate is bound to
\* the one the client expects.  (Install makes a key and a certificate only
\* when there is none; Uninstall leaves the data.)
BoundClientsStayValid ==
    \A c \in clients :
        /\ c.key = key /\ c.pin = cert
        /\ \A p \in Ports : binding[p] \in {None, c.pin}

\* An installation that said it is complete has brought everything into line,
\* whatever earlier runs that failed or were killed have left: its port is let in
\* by the firewall and, unless some Remove has failed since the machine was new,
\* no other port is; and if it met no failure itself, the pin file, the binding
\* of its port and the registered service all belong together.  Not promised:
\* that a process which was already running uses the new port, and that the key
\* file is whole, for one that was left torn is taken as it is.
InstallationAgrees ==
    installer.done =>
        /\ rule[installer.port] > 0
        /\ ~stuck => \A p \in Ports \ {installer.port} : rule[p] = 0
        /\ installer.clean =>
              /\ pinFile = cert /\ binding[installer.port] = cert
              /\ service = [port |-> installer.port, deleted |-> FALSE]

=============================================================================
