------------------------ MODULE ServerInstall_proofs ------------------------
(***************************************************************************)
(* Proofs about the installation of the report server, for any ports and   *)
(* any number of installations and faults.                                 *)
(***************************************************************************)
EXTENDS ServerInstall, TLAPS

(* The parts of the inductive invariant.                                   *)

\* Numbers are given out once: nothing that exists has the next one.
Numbered == fresh >= 2 /\ (cert = None \/ cert >= 2)

\* There is one certificate, and every binding and the pin file follow it.
OneCertificate ==
    /\ \A p \in Ports : binding[p] # None => binding[p] = cert
    /\ pinFile \notin {None, Torn} => pinFile = cert

\* Clients were built with a key and a pin that are those of the server.
ClientsBound ==
    \A c \in clients : /\ c.key = key /\ c.key \notin {None, Torn}
                       /\ c.pin = cert /\ c.pin \notin {None, Torn}

AfterCert == {"http", "pin", "secure", "rule", "service"}
AfterBinding == {"pin", "secure", "rule", "service"}
AfterPin == {"secure", "rule", "service"}
AtWork == AfterCert \cup {"key", "cert", "stop", "unrule"}

\* As long as every Remove has worked, there is one rule at most.
OneRule == ~stuck => \A p, q \in Ports : rule[p] > 0 /\ rule[q] > 0 => p = q /\ rule[p] = 1

\* What an installation has brought into line so far.
Progress ==
    /\ installer.pc \in AtWork => installer.port \in Ports /\ ~installer.done
    /\ installer.pc \in AfterCert => cert # None
    /\ installer.pc \in AfterBinding => binding[installer.port] = cert
    /\ installer.pc \in AfterPin /\ installer.clean => pinFile = cert
    /\ installer.pc = "service" => rule[installer.port] > 0

\* Install is over and has met no failure.
Finished == InstallationAgrees /\ (installer.done => installer.port \in Ports)

IInv == /\ TypeOK /\ Numbered /\ OneCertificate /\ ClientsBound /\ OneRule
        /\ Progress /\ Finished

-----------------------------------------------------------------------------
(* Records.                                                                *)

LEMMA FieldsOfInstaller ==
  ASSUME NEW i \in Installers
  PROVE  /\ i.pc \in AtWork \cup {"idle"} /\ i.port \in Ports \cup {None}
         /\ i.done \in BOOLEAN /\ i.clean \in BOOLEAN
  BY DEF Installers, AtWork, AfterCert

LEMMA Going ==
  ASSUME NEW pc \in AtWork, installer \in Installers, GoOn(pc)
  PROVE  /\ installer' \in Installers /\ installer'.pc = pc
         /\ installer'.port = installer.port /\ installer'.done = installer.done
         /\ installer'.clean = installer.clean
  BY DEF GoOn, Installers, AtWork, AfterCert

LEMMA GoingAfterFault ==
  ASSUME NEW pc \in AtWork, installer \in Installers, GoOnAfterFault(pc)
  PROVE  /\ installer' \in Installers /\ installer'.pc = pc
         /\ installer'.port = installer.port /\ installer'.done = installer.done
         /\ installer'.clean = FALSE
  BY DEF GoOnAfterFault, Installers, AtWork, AfterCert

LEMMA Throwing ==
  ASSUME installer \in Installers, Throw
  PROVE  /\ installer' \in Installers /\ installer'.pc = "idle"
         /\ installer'.done = FALSE
  BY DEF Throw, Idle, Installers

LEMMA Beginning ==
  ASSUME installer \in Installers, Begin
  PROVE  /\ installer' \in Installers /\ installer'.pc \in {"key", "stop"}
         /\ installer'.port \in Ports /\ installer'.done = FALSE
  BY DEF Begin, Installers

LEMMA Ending ==
  ASSUME installer \in Installers, installer.pc = "service", InstallService
  PROVE  \/ /\ installer' \in Installers /\ installer'.pc = "idle"
            /\ installer'.done = FALSE
         \/ /\ installer' \in Installers /\ installer'.pc = "idle"
            /\ installer'.clean = FALSE /\ installer'.port = installer.port
         \/ /\ installer' \in Installers /\ installer'.pc = "idle"
            /\ installer'.clean = installer.clean /\ installer'.done = TRUE
            /\ installer'.port = installer.port
            /\ service' = [port |-> installer.port, deleted |-> FALSE]
<1>1. CASE Throw
  BY <1>1, Throwing
<1>2. CASE installer' = [installer EXCEPT !.pc = "idle", !.done = TRUE, !.clean = FALSE]
  BY <1>2 DEF Installers
<1>3. CASE /\ installer' = [installer EXCEPT !.pc = "idle", !.done = TRUE]
           /\ service' = [port |-> installer.port, deleted |-> FALSE]
  BY <1>3 DEF Installers
<1>4. QED
  BY <1>1, <1>2, <1>3, Zenon DEF InstallService

LEMMA ServiceAndProcess ==
  ASSUME TypeOK, InstallService \/ RemoveService \/ ServiceStep
  PROVE  service' \in Services /\ process' \in Processes
<1> USE DEF TypeOK, NoService, NoProcess, Services, Processes
<1>1. NoProcess \in Processes /\ NoService \in Services
  BY DEF None
<1>2. \A p \in Ports \cup {None} : Started(p) \in Processes
  BY <1>1 DEF Started
<1>3. AfterStop \in Processes
  BY <1>1 DEF AfterStop
<1>4. CASE InstallService
  <2> DEFINE New == [port |-> installer.port, deleted |-> FALSE]
  <2>1. /\ service' \in {service, New}
        /\ process' \in {process, Started(installer.port), Started(service.port)}
    <3> HIDE DEF New
    <3>1. CASE Throw /\ UNCHANGED <<service, process>>
      BY <3>1
    <3>2. CASE /\ service' = [port |-> installer.port, deleted |-> FALSE]
               /\ process' = IF process = NoProcess THEN Started(installer.port)
                             ELSE process
      BY <3>2 DEF New
    <3>3. CASE /\ UNCHANGED service
               /\ process' \in {process, IF process = NoProcess
                                         THEN Started(service.port) ELSE process}
      BY <3>3
    <3>4. CASE /\ service' = [port |-> installer.port, deleted |-> FALSE]
               /\ UNCHANGED process
      BY <3>4 DEF New
    <3>5. QED
      BY <1>4, <3>1, <3>2, <3>3, <3>4, Zenon DEF InstallService
  <2>2. New \in Services
    BY FieldsOfInstaller
  <2>3. installer.port \in Ports \cup {None} /\ service.port \in Ports \cup {None}
    BY FieldsOfInstaller
  <2>4. service \in Services /\ process \in Processes
    OBVIOUS
  <2>5. Started(installer.port) \in Processes /\ Started(service.port) \in Processes
    BY <1>2, <2>3
  <2>6. QED
    <3> HIDE DEF TypeOK, NoService, NoProcess, Services, Processes, New
    <3>1. QED
      BY <2>1, <2>2, <2>4, <2>5, Zenon
<1>5. CASE RemoveService
  BY <1>1, <1>3, <1>5 DEF RemoveService
<1>6. CASE ServiceStep
  BY <1>1, <1>2, <1>6 DEF ServiceStep, BeginServing, ProcessEnds, ServiceStarts
<1>7. QED
  BY <1>4, <1>5, <1>6

-----------------------------------------------------------------------------
(***************************************************************************)
(* The firewall rules: one goes, one comes.                                *)
(***************************************************************************)
LEMMA Removing ==
  ASSUME rule \in [Ports -> Nat], NEW r \in RuleRemoved
  PROVE  /\ r \in [Ports -> Nat]
         /\ \A p \in Ports : r[p] <= rule[p]
         /\ OneRule /\ ~stuck => \A p \in Ports : r[p] = 0
<1>1. CASE \A p \in Ports : rule[p] = 0
  <2>1. r = rule
    BY <1>1 DEF RuleRemoved
  <2>2. QED
    BY <1>1, <2>1
<1>2. CASE ~\A p \in Ports : rule[p] = 0
  <2>1. PICK q \in Ports : rule[q] > 0 /\ r = [rule EXCEPT ![q] = @ - 1]
    BY <1>2 DEF RuleRemoved
  <2>2. /\ r \in [Ports -> Nat] /\ r[q] = rule[q] - 1
        /\ \A p \in Ports \ {q} : r[p] = rule[p]
    BY <2>1
  <2>3. OneRule /\ ~stuck => \A p \in Ports : r[p] = 0
    <3>1. ASSUME OneRule, ~stuck, NEW p \in Ports PROVE r[p] = 0
      <4>1. rule[p] \in Nat /\ (rule[p] > 0 => p = q) /\ rule[q] = 1
        BY <2>1, <3>1 DEF OneRule
      <4>2. QED
        BY <2>2, <4>1
    <3>2. QED
      BY <3>1
  <2>4. \A p \in Ports : r[p] <= rule[p]
    BY <2>1, <2>2
  <2>5. QED
    BY <2>2, <2>3, <2>4
<1>3. QED
  BY <1>1, <1>2

LEMMA AddingRule ==
  ASSUME NEW r \in [Ports -> Nat], installer.port \in Ports
  PROVE  /\ RuleAdded(r) \in [Ports -> Nat]
         /\ RuleAdded(r)[installer.port] = r[installer.port] + 1
         /\ \A p \in Ports \ {installer.port} : RuleAdded(r)[p] = r[p]
  BY DEF RuleAdded

LEMMA RulesChange ==
  ASSUME TypeOK, OneRule, Progress, ConfigureFirewall
  PROVE  /\ UNCHANGED <<filesVars, binding, service, process, clients, fresh, runs>>
         /\ faults' \in Nat /\ rule' \in [Ports -> Nat] /\ stuck' \in BOOLEAN
         /\ OneRule'
         /\ \/ installer.pc = "rule" /\ GoOn("service") /\ rule'[installer.port] > 0
            \/ /\ installer.pc = "rule" /\ GoOnAfterFault("service")
               /\ rule'[installer.port] > 0
            \/ Throw
<1> DEFINE port == installer.port
<1>1. /\ UNCHANGED <<filesVars, binding, service, process, clients, fresh, runs>>
      /\ port \in Ports /\ faults' \in Nat /\ rule \in [Ports -> Nat] /\ stuck \in BOOLEAN
  BY DEF ConfigureFirewall, TypeOK, Fault, Progress, AtWork, AfterCert
<1>2. ASSUME NEW r \in RuleRemoved, rule' = RuleAdded(r), GoOn("service"), stuck' = stuck,
             installer.pc = "rule"
      PROVE  rule' \in [Ports -> Nat] /\ OneRule' /\ rule'[port] > 0
  <2>1. r \in [Ports -> Nat] /\ (~stuck => \A p \in Ports : r[p] = 0)
    BY <1>1, Removing
  <2>2. /\ rule' \in [Ports -> Nat] /\ rule'[port] = r[port] + 1
        /\ \A p \in Ports \ {port} : rule'[p] = r[p]
    BY <1>1, <1>2, <2>1, AddingRule
  <2>3. QED
    BY <1>1, <1>2, <2>1, <2>2 DEF OneRule
<1>3. ASSUME rule' \in {rule} \cup RuleRemoved, stuck' = stuck
      PROVE  rule' \in [Ports -> Nat] /\ OneRule'
  <2>1. CASE rule' = rule
    BY <1>1, <1>3, <2>1 DEF OneRule
  <2>2. CASE rule' \in RuleRemoved
    <3>1. rule' \in [Ports -> Nat] /\ (~stuck => \A p \in Ports : rule'[p] = 0)
      BY <1>1, <2>2, Removing
    <3>2. QED
      BY <1>3, <3>1 DEF OneRule
  <2>3. QED
    BY <1>3, <2>1, <2>2
<1>4. ASSUME rule' = RuleAdded(rule), stuck' = TRUE
      PROVE  rule' \in [Ports -> Nat] /\ OneRule' /\ rule'[port] > 0
  BY <1>1, <1>4, AddingRule DEF OneRule
<1>5. CASE /\ installer.pc = "rule" /\ \E r \in RuleRemoved : rule' = RuleAdded(r)
           /\ GoOn("service") /\ UNCHANGED <<stuck, faults>>
  BY <1>1, <1>2, <1>5
<1>6. CASE Throw /\ rule' \in {rule} \cup RuleRemoved /\ UNCHANGED stuck
  BY <1>1, <1>3, <1>6
<1>7. CASE /\ installer.pc = "rule" /\ GoOnAfterFault("service")
           /\ rule' = RuleAdded(rule) /\ stuck' = TRUE
  BY <1>1, <1>4, <1>7
<1>8. CASE Throw /\ UNCHANGED <<rule, stuck>>
  BY <1>1, <1>3, <1>8
<1>9. CASE Throw /\ rule' \in RuleRemoved /\ UNCHANGED stuck
  BY <1>1, <1>3, <1>9
<1>10. QED
  BY <1>5, <1>6, <1>7, <1>8, <1>9, Zenon DEF ConfigureFirewall

LEMMA InitIInv == InstallAssumption /\ Init => IInv
<1> SUFFICES ASSUME InstallAssumption, Init PROVE IInv
  OBVIOUS
<1> USE DEF None, Torn, Idle, NoService, NoProcess
<1>1. TypeOK
  <2>1. installer \in Installers /\ service \in Services /\ process \in Processes
    <3>1. CASE installer = Idle(None, FALSE) /\ service = NoService
               /\ process = NoProcess
      BY <3>1 DEF Installers, Services, Processes
    <3>2. CASE \E p \in Ports : /\ service = [port |-> p, deleted |-> FALSE]
                                /\ process = [port |-> p, stage |-> "serving"]
                                /\ installer = Idle(p, TRUE)
      BY <3>2 DEF Installers, Services, Processes
    <3>3. QED
      BY <3>1, <3>2 DEF Init
  <2>2. runs \in Nat /\ faults \in Nat /\ stuck \in BOOLEAN
    <3>1. stuck = FALSE
      BY Zenon DEF Init
    <3>2. runs \in Nat /\ faults \in Nat
      BY DEF Init, InstallAssumption
    <3>3. QED
      BY <3>1, <3>2
  <2>3. rule \in [Ports -> Nat]
    <3>1. CASE rule = [p \in Ports |-> 0]
      BY <3>1
    <3>2. CASE \E p \in Ports : rule = [q \in Ports |-> IF q = p THEN 1 ELSE 0]
      BY <3>2
    <3>3. QED
      BY <3>1, <3>2 DEF Init
  <2>4. QED
    BY <2>1, <2>2, <2>3 DEF Init, TypeOK, InstallAssumption
<1>2. Numbered /\ OneCertificate /\ ClientsBound /\ OneRule
  BY DEF Init, Numbered, OneCertificate, ClientsBound, OneRule
<1>3. Progress /\ Finished
  BY DEF Init, Progress, Finished, InstallationAgrees, AtWork, AfterCert,
         AfterBinding, AfterPin
<1>4. QED
  BY <1>1, <1>2, <1>3 DEF IInv

(***************************************************************************)
(* Every step of the two programs keeps the invariant.                     *)
(***************************************************************************)
LEMMA InstallerKeepsIInv ==
  ASSUME InstallAssumption, IInv, InstallerStep
  PROVE  IInv'
<1> USE DEF IInv, TypeOK, Numbered, OneCertificate, ClientsBound, OneRule, Progress,
            Finished, InstallationAgrees, AtWork, AfterCert, AfterBinding,
            AfterPin, None, Torn, filesVars, ruleVars, Fault
<1>a. \A pc \in AtWork : GoOn(pc) =>
        /\ installer' \in Installers /\ installer'.pc = pc
        /\ installer'.port = installer.port /\ installer'.done = installer.done
        /\ installer'.clean = installer.clean
  BY Going
<1>b. \A pc \in AtWork : GoOnAfterFault(pc) =>
        /\ installer' \in Installers /\ installer'.pc = pc
        /\ installer'.port = installer.port /\ installer'.done = installer.done
        /\ installer'.clean = FALSE
  BY GoingAfterFault
<1>c. Throw => /\ installer' \in Installers /\ installer'.pc = "idle"
               /\ installer'.done = FALSE
  BY Throwing
<1>1. CASE Begin
  <2>1. /\ UNCHANGED <<filesVars, binding, ruleVars, service, process, clients, fresh,
                       faults>>
        /\ runs' \in Nat
    BY <1>1 DEF Begin
  <2>2. QED
    BY <1>1, <2>1, Beginning
<1>2. CASE WriteKey
  BY <1>2, <1>a, <1>b, <1>c DEF WriteKey
<1>3. CASE EnsureCertificate
  BY <1>3, <1>a, <1>c DEF EnsureCertificate
<1>4. CASE ConfigureHttpSys
  BY <1>4, <1>a, <1>c DEF ConfigureHttpSys
<1>5. CASE WritePin
  BY <1>5, <1>a, <1>b, <1>c DEF WritePin
<1>6. CASE SecureDataDirectory
  BY <1>6, <1>a, <1>c DEF SecureDataDirectory
<1>7. CASE ConfigureFirewall
  <2>1. /\ UNCHANGED <<filesVars, binding, service, process, clients, fresh, runs>>
        /\ faults' \in Nat /\ rule' \in [Ports -> Nat] /\ stuck' \in BOOLEAN
        /\ OneRule'
    BY <1>7, RulesChange
  <2>2. CASE installer.pc = "rule" /\ GoOn("service") /\ rule'[installer.port] > 0
    BY <2>1, <2>2, <1>a
  <2>3. CASE installer.pc = "rule" /\ GoOnAfterFault("service") /\ rule'[installer.port] > 0
    BY <2>1, <2>3, <1>b
  <2>4. CASE Throw
    BY <2>1, <2>4, <1>c
  <2>5. QED
    BY <1>7, <2>2, <2>3, <2>4, RulesChange
<1>8. CASE InstallService
  <2>1. /\ UNCHANGED <<filesVars, binding, ruleVars, clients, fresh, runs>>
        /\ installer.pc = "service" /\ faults' \in Nat
    BY <1>8 DEF InstallService
  <2>2. service' \in Services /\ process' \in Processes
    BY <1>8, <2>1, ServiceAndProcess
  <2>3. /\ TypeOK' /\ Numbered' /\ OneCertificate' /\ ClientsBound' /\ OneRule'
        /\ installer'.pc = "idle"
    BY <1>8, <2>1, <2>2, Ending
  <2>4. CASE installer'.done = FALSE
    BY <2>3, <2>4
  <2>5. CASE /\ installer'.port = installer.port
             /\ \/ installer'.clean = FALSE
                \/ /\ installer'.clean = installer.clean
                   /\ service' = [port |-> installer.port, deleted |-> FALSE]
    <3>1. rule'[installer'.port] > 0 /\ installer'.port \in Ports
      BY <2>1, <2>5
    <3>2. ~stuck' => \A p \in Ports \ {installer'.port} : rule'[p] = 0
      BY <2>3, <3>1
    <3>3. QED
      BY <2>1, <2>3, <2>5, <3>1, <3>2
  <2>6. QED
    BY <1>8, <2>1, <2>4, <2>5, Ending
<1>9. CASE RemoveService
  BY <1>9, <1>a, ServiceAndProcess DEF RemoveService
<1>10. CASE Killed
  BY <1>10, <1>c DEF Killed
<1>11. QED
  BY <1>1, <1>2, <1>3, <1>4, <1>5, <1>6, <1>7, <1>8, <1>9, <1>10
     DEF InstallerStep

LEMMA OthersKeepIInv ==
  ASSUME IInv, ServiceStep \/ BuildClients
  PROVE  IInv'
<1> USE DEF IInv, TypeOK, Numbered, OneCertificate, ClientsBound, OneRule, Progress,
            Finished, InstallationAgrees, AtWork, AfterCert, AfterBinding,
            AfterPin, None, Torn, filesVars, ruleVars
<1>1. CASE BuildClients
  <2> DEFINE new == [key |-> key, pin |-> pinFile]
  <2>1. /\ key \notin {None, Torn} /\ pinFile \notin {None, Torn}
        /\ clients' = clients \cup {new}
        /\ UNCHANGED <<filesVars, binding, ruleVars, service, process, installer,
                      fresh, runs, faults>>
    BY <1>1 DEF BuildClients
  <2>2. /\ new \in [key : Nat, pin : Nat]
        /\ new.key = key /\ new.pin = pinFile
    OBVIOUS
  <2> HIDE DEF new
  <2>3. ClientsBound'
    BY <2>1, <2>2
  <2>4. QED
    BY <2>1, <2>2, <2>3
<1>2. CASE ServiceStep
  <2>1. /\ service' \in Services /\ process' \in Processes
        /\ UNCHANGED <<filesVars, binding, ruleVars, installer, clients, fresh, runs,
                      faults>>
    BY <1>2, ServiceAndProcess
       DEF ServiceStep, BeginServing, ProcessEnds, ServiceStarts
  <2>2. service' # service => service' = NoService /\ service.deleted
    BY <1>2 DEF ServiceStep, BeginServing, ProcessEnds, ServiceStarts
  <2>3. service.deleted =>
            service # [port |-> installer.port, deleted |-> FALSE]
    OBVIOUS
  <2>4. QED
    BY <2>1, <2>2, <2>3
<1>3. QED
  BY <1>1, <1>2

LEMMA NextIInv == InstallAssumption /\ IInv /\ [Next]_vars => IInv'
<1> SUFFICES ASSUME InstallAssumption, IInv, [Next]_vars PROVE IInv'
  OBVIOUS
<1>1. CASE UNCHANGED vars
  BY <1>1 DEF vars, filesVars, ruleVars, IInv, TypeOK, Numbered, OneCertificate,
              ClientsBound, OneRule, Progress, Finished, InstallationAgrees
<1>2. CASE Next
  BY <1>2, InstallerKeepsIInv, OthersKeepIInv DEF Next
<1>3. QED
  BY <1>1, <1>2

-----------------------------------------------------------------------------
\* The variables of the installation have their types, for any ports and
\* bounds.
THEOREM TypeCorrect == ASSUME InstallAssumption PROVE Spec => []TypeOK
<1>1. IInv => TypeOK
  BY DEF IInv
<1>2. QED
  BY InitIInv, NextIInv, <1>1, PTL DEF Spec

\* A client that was built once stays valid, however often the server is
\* installed and removed and whatever fails: Install never replaces a key or a
\* certificate that is there.
THEOREM ClientsStayValid ==
  ASSUME InstallAssumption PROVE Spec => []BoundClientsStayValid
<1>1. IInv => BoundClientsStayValid
  BY DEF IInv, ClientsBound, OneCertificate, BoundClientsStayValid
<1>2. QED
  BY InitIInv, NextIInv, <1>1, PTL DEF Spec

\* An installation that says it is complete has opened its port and, unless some
\* Remove of a firewall rule has failed since the machine was new, no other one;
\* and if it met no failure of its own, it has brought pin file, binding and
\* service into line, whatever was there before.
THEOREM InstallationComplete ==
  ASSUME InstallAssumption PROVE Spec => []InstallationAgrees
<1>1. IInv => InstallationAgrees
  BY DEF IInv, Finished
<1>2. QED
  BY InitIInv, NextIInv, <1>1, PTL DEF Spec
=============================================================================
