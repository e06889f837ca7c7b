------------------------ MODULE ReportServer_proofs ------------------------
(***************************************************************************)
(* The composition behaves, for each of its three components, as that      *)
(* component does on its own: what ServerInstall_proofs,                   *)
(* ReportUploads_proofs and ServerAdmin_proofs show holds of the server.   *)
(***************************************************************************)
EXTENDS ReportServer, TLAPS

LEMMA InstallSteps == [Next]_vars => [Install!Next]_(Install!vars)
<1>1. UNCHANGED installVars => UNCHANGED Install!vars
  BY DEF installVars, Install!vars, Install!filesVars, Install!ruleVars
<1>2. InstallStep => Install!Next
  BY DEF InstallStep
<1>3. RequestStep \/ Tick \/ (\E c \in Clients : ClientStep(c))
      \/ (\E b \in Browsers : AdminStep(b)) => UNCHANGED installVars
  BY DEF RequestStep, Tick, ClientStep, AdminStep
<1>4. UNCHANGED vars => UNCHANGED installVars
  BY DEF vars
<1>5. QED
  BY <1>1, <1>2, <1>3, <1>4 DEF Next

(***************************************************************************)
(* Requests do not disturb the installation.                               *)
(***************************************************************************)
THEOREM InstallImplemented == Spec => InstallWorks
<1>1. Init => Install!Init
  BY DEF Init
<1>2. QED
  BY <1>1, InstallSteps, PTL DEF Spec, InstallWorks, Install!Spec

-----------------------------------------------------------------------------
LEMMA ServingStays == UNCHANGED installVars => Serving' = Serving
  BY DEF installVars, Serving

LEMMA RequestsKeepTime ==
  /\ \A b \in Browsers : Admin!Request(b) => UNCHANGED clock
  /\ Uploads!ServerStep => UNCHANGED clock
  /\ \A c \in Clients : Uploads!ClientStep(c) => UNCHANGED clock
<1>1. ASSUME NEW b \in Browsers, Admin!Request(b) PROVE UNCHANGED clock
  BY <1>1 DEF Admin!Request, Admin!Setup, Admin!LoginRefused, Admin!LoginFails,
              Admin!Login, Admin!SendToLogin, Admin!ShowPage, Admin!Logout,
              Admin!AddAdmin
<1>2. ASSUME Uploads!ServerStep PROVE UNCHANGED clock
  BY <1>2 DEF Uploads!ServerStep, Uploads!Take, Uploads!TakeAgain, Uploads!Save,
              Uploads!Close, Uploads!Answer
<1>3. ASSUME NEW c \in Clients, Uploads!ClientStep(c) PROVE UNCHANGED clock
  BY <1>3 DEF Uploads!ClientStep, Uploads!Start, Uploads!EndEarly, Uploads!Send,
              Uploads!SendFails, Uploads!Receive, Uploads!GiveUpWaiting,
              Uploads!NextAttempt
<1>4. QED
  BY <1>1, <1>2, <1>3

LEMMA UploadSteps == [Next]_vars => [Uploads!Next]_(Uploads!vars)
<1>1. UNCHANGED <<uploadVars, clock>> /\ Serving' = Serving => UNCHANGED Uploads!vars
  BY DEF uploadVars, Uploads!vars, Uploads!serverVars
<1>2. InstallStep => Uploads!Next \/ UNCHANGED Uploads!vars
  BY <1>1 DEF InstallStep, Uploads!Next
<1>3. RequestStep \/ Tick \/ (\E c \in Clients : ClientStep(c)) => Uploads!Next
  BY DEF RequestStep, Tick, ClientStep, Uploads!Next
<1>4. ASSUME NEW b \in Browsers, AdminStep(b) PROVE UNCHANGED Uploads!vars
  BY <1>1, <1>4, ServingStays, RequestsKeepTime DEF AdminStep
<1>5. UNCHANGED vars => UNCHANGED Uploads!vars
  BY <1>1, ServingStays DEF vars
<1>6. QED
  BY <1>2, <1>3, <1>4, <1>5 DEF Next

(***************************************************************************)
(* The service lives and dies by the installation, and works on uploads    *)
(* and pages one at a time: for uploads that is the server of              *)
(* ReportUploads, which may die and start at any moment.                   *)
(***************************************************************************)
THEOREM UploadsImplemented == Spec => UploadsWork
<1>1. Init => Uploads!Init
  BY DEF Init
<1>2. QED
  BY <1>1, UploadSteps, PTL DEF Spec, UploadsWork, Uploads!Spec

LEMMA AdminSteps == [Next]_vars => [Admin!Next]_(Admin!vars)
<1>1. UNCHANGED <<adminVars, clock>> /\ Serving' = Serving => UNCHANGED Admin!vars
  BY DEF adminVars, Admin!vars, Admin!accountVars, Admin!lossVars, Admin!sessionVars,
         Admin!limitVars
<1>2. InstallStep => Admin!Next \/ UNCHANGED Admin!vars
  BY <1>1 DEF InstallStep, Admin!Next
<1>3. Tick \/ (\E b \in Browsers : AdminStep(b)) => Admin!Next
  BY DEF Tick, AdminStep, Admin!Next
<1>4. RequestStep => UNCHANGED Admin!vars
  BY <1>1, ServingStays, RequestsKeepTime DEF RequestStep
<1>5. ASSUME NEW c \in Clients, ClientStep(c) PROVE UNCHANGED Admin!vars
  BY <1>1, <1>5, ServingStays, RequestsKeepTime DEF ClientStep
<1>6. UNCHANGED vars => UNCHANGED Admin!vars
  BY <1>1, ServingStays DEF vars
<1>7. QED
  BY <1>2, <1>3, <1>4, <1>5, <1>6 DEF Next

(***************************************************************************)
(* The same for the accounts, sessions and logins of the administrators.   *)
(***************************************************************************)
THEOREM AdminImplemented == Spec => AdminWorks
<1>1. Init => Admin!Init
  BY DEF Init
<1>2. QED
  BY <1>1, AdminSteps, PTL DEF Spec, AdminWorks, Admin!Spec
-----------------------------------------------------------------------------
\* What was shown of the three components, read with the variables of the
\* server, and the fact that these readings are those of ReportServer: Same...
\* name two instances of one definition.
InstallAlone == INSTANCE ServerInstall_proofs
UploadsAlone == INSTANCE ReportUploads_proofs WITH up <- Serving
AdminAlone == INSTANCE ServerAdmin_proofs WITH up <- Serving

LEMMA SameAssumptions ==
  ServerAssumption => /\ InstallAlone!InstallAssumption
                      /\ UploadsAlone!UploadAssumption
                      /\ AdminAlone!AdminAssumption
  BY Zenon DEF ServerAssumption, Install!InstallAssumption,
         InstallAlone!InstallAssumption, Uploads!UploadAssumption,
         UploadsAlone!UploadAssumption,
         Admin!AdminAssumption, AdminAlone!AdminAssumption

LEMMA SameInstall ==
  /\ Install!Init <=> InstallAlone!Init
  /\ Install!Next <=> InstallAlone!Next
  /\ UNCHANGED Install!vars <=> UNCHANGED InstallAlone!vars
  /\ Install!TypeOK <=> InstallAlone!TypeOK
  /\ Install!BoundClientsStayValid <=> InstallAlone!BoundClientsStayValid
  /\ Install!InstallationAgrees <=> InstallAlone!InstallationAgrees
  BY Zenon DEF Install!None, Install!Torn, Install!filesVars, Install!ruleVars, Install!vars,
               Install!Idle, Install!NoService, Install!NoProcess,
               Install!Init, Install!GoOn, Install!GoOnAfterFault,
               Install!Fault, Install!Throw, Install!Begin, Install!WriteKey,
               Install!EnsureCertificate, Install!ConfigureHttpSys,
               Install!WritePin, Install!SecureDataDirectory,
               Install!RuleRemoved,
               Install!RuleAdded, Install!ConfigureFirewall, Install!KeyIsUsable,
               Install!Started, Install!InstallService, Install!AfterStop,
               Install!RemoveService, Install!Killed, Install!BeginServing,
               Install!ProcessEnds, Install!ServiceStarts,
               Install!BuildClients, Install!InstallerStep,
               Install!ServiceStep, Install!Next, Install!Installers,
               Install!Services, Install!Processes, Install!TypeOK,
               Install!BoundClientsStayValid, Install!InstallationAgrees,
               InstallAlone!None, InstallAlone!Torn, InstallAlone!filesVars, InstallAlone!ruleVars,
               InstallAlone!vars, InstallAlone!Idle, InstallAlone!NoService,
               InstallAlone!NoProcess, InstallAlone!Init, InstallAlone!GoOn,
               InstallAlone!GoOnAfterFault, InstallAlone!Fault,
               InstallAlone!Throw, InstallAlone!Begin, InstallAlone!WriteKey,
               InstallAlone!EnsureCertificate, InstallAlone!ConfigureHttpSys,
               InstallAlone!WritePin, InstallAlone!SecureDataDirectory,
               InstallAlone!RuleRemoved,
               InstallAlone!RuleAdded, InstallAlone!ConfigureFirewall, InstallAlone!KeyIsUsable,
               InstallAlone!Started, InstallAlone!InstallService,
               InstallAlone!AfterStop, InstallAlone!RemoveService,
               InstallAlone!Killed, InstallAlone!BeginServing,
               InstallAlone!ProcessEnds, InstallAlone!ServiceStarts,
               InstallAlone!BuildClients, InstallAlone!InstallerStep,
               InstallAlone!ServiceStep, InstallAlone!Next,
               InstallAlone!Installers, InstallAlone!Services,
               InstallAlone!Processes, InstallAlone!TypeOK,
               InstallAlone!BoundClientsStayValid,
               InstallAlone!InstallationAgrees

LEMMA SameUploads ==
  /\ Uploads!Init <=> UploadsAlone!Init
  /\ Uploads!Next <=> UploadsAlone!Next
  /\ UNCHANGED Uploads!vars <=> UNCHANGED UploadsAlone!vars
  /\ Uploads!TypeOK <=> UploadsAlone!TypeOK
  /\ Uploads!StoredOnce <=> UploadsAlone!StoredOnce
  /\ Uploads!UploadedIsStored <=> UploadsAlone!UploadedIsStored
  /\ Uploads!FreshAttemptNotReplayed <=> UploadsAlone!FreshAttemptNotReplayed
  BY Zenon DEF Uploads!serverVars, Uploads!vars, Uploads!Never,
               Uploads!Attempts, Uploads!Nobody, Uploads!Requests,
               Uploads!Init, Uploads!Disturb, Uploads!Start, Uploads!EndEarly,
               Uploads!Exit, Uploads!AttemptFailed, Uploads!NonceOf,
               Uploads!Request, Uploads!Send, Uploads!SendFails,
               Uploads!Receive, Uploads!GiveUpWaiting, Uploads!NextAttempt,
               Uploads!Waiting, Uploads!Respond, Uploads!AbsInt,
               Uploads!InWindow, Uploads!Remembered, Uploads!Check,
               Uploads!Take, Uploads!TakeAgain, Uploads!Stored, Uploads!Save,
               Uploads!Close, Uploads!Answer, Uploads!ServerDies,
               Uploads!ServerStarts, Uploads!Tick, Uploads!ClientStep,
               Uploads!ServerStep, Uploads!Next, Uploads!Statuses,
               Uploads!Jobs, Uploads!Work, Uploads!Reports, Uploads!TypeOK,
               Uploads!StoredOnce, Uploads!UploadedIsStored,
               Uploads!FreshAttemptNotReplayed, UploadsAlone!serverVars,
               UploadsAlone!vars, UploadsAlone!Never, UploadsAlone!Attempts,
               UploadsAlone!Nobody, UploadsAlone!Requests, UploadsAlone!Init,
               UploadsAlone!Disturb, UploadsAlone!Start,
               UploadsAlone!EndEarly, UploadsAlone!Exit,
               UploadsAlone!AttemptFailed, UploadsAlone!NonceOf,
               UploadsAlone!Request, UploadsAlone!Send,
               UploadsAlone!SendFails, UploadsAlone!Receive,
               UploadsAlone!GiveUpWaiting, UploadsAlone!NextAttempt,
               UploadsAlone!Waiting, UploadsAlone!Respond,
               UploadsAlone!AbsInt, UploadsAlone!InWindow,
               UploadsAlone!Remembered, UploadsAlone!Check, UploadsAlone!Take,
               UploadsAlone!TakeAgain, UploadsAlone!Stored, UploadsAlone!Save,
               UploadsAlone!Close, UploadsAlone!Answer,
               UploadsAlone!ServerDies, UploadsAlone!ServerStarts,
               UploadsAlone!Tick, UploadsAlone!ClientStep,
               UploadsAlone!ServerStep, UploadsAlone!Next,
               UploadsAlone!Statuses, UploadsAlone!Jobs, UploadsAlone!Work,
               UploadsAlone!Reports, UploadsAlone!TypeOK,
               UploadsAlone!StoredOnce, UploadsAlone!UploadedIsStored,
               UploadsAlone!FreshAttemptNotReplayed

LEMMA SameLogins ==
  ASSUME NEW b
  PROVE  /\ Admin!LoginRefused(b) <=> AdminAlone!LoginRefused(b)
         /\ Admin!LoginFails(b) <=> AdminAlone!LoginFails(b)
         /\ Admin!Login(b) <=> AdminAlone!Login(b)
<1>1. ASSUME NEW a PROVE Admin!Recent(a) = AdminAlone!Recent(a)
  BY SMT DEF Admin!Recent, AdminAlone!Recent, Admin!Passed, AdminAlone!Passed
<1>2. ASSUME NEW a PROVE Admin!Limited(a) <=> AdminAlone!Limited(a)
  <2>1. Admin!Recent(a) = AdminAlone!Recent(a)
    BY <1>1
  <2>2. QED
    BY <2>1, Zenon DEF Admin!Limited, AdminAlone!Limited, Admin!Cardinality,
       AdminAlone!Cardinality
<1>3. Admin!LoginRefused(b) <=> AdminAlone!LoginRefused(b)
  <2>1. Admin!Recent(AddressOf[b]) = AdminAlone!Recent(AddressOf[b])
    BY <1>1
  <2>2. Admin!Limited(AddressOf[b]) <=> AdminAlone!Limited(AddressOf[b])
    BY <1>2
  <2>3. QED
    BY <2>1, <2>2, Zenon
    DEF Admin!accountVars, Admin!lossVars, Admin!sessionVars, Admin!LoginRefused,
        AdminAlone!accountVars, AdminAlone!lossVars, AdminAlone!sessionVars,
        AdminAlone!LoginRefused
<1>4. Admin!LoginFails(b) <=> AdminAlone!LoginFails(b)
  <2>1. Admin!Recent(AddressOf[b]) = AdminAlone!Recent(AddressOf[b])
    BY <1>1
  <2>2. Admin!Limited(AddressOf[b]) <=> AdminAlone!Limited(AddressOf[b])
    BY <1>2
  <2>3. QED
    BY <2>1, <2>2, Zenon
    DEF Admin!accountVars, Admin!lossVars, Admin!sessionVars, Admin!LoginFails,
        AdminAlone!accountVars, AdminAlone!lossVars, AdminAlone!sessionVars, AdminAlone!LoginFails
<1>5. Admin!Login(b) <=> AdminAlone!Login(b)
  <2>1. Admin!Recent(AddressOf[b]) = AdminAlone!Recent(AddressOf[b])
    BY <1>1
  <2>2. Admin!Limited(AddressOf[b]) <=> AdminAlone!Limited(AddressOf[b])
    BY <1>2
  <2>3. QED
    BY <2>1, <2>2, Zenon
    DEF Admin!accountVars, Admin!lossVars, Admin!Ids, Admin!Login, AdminAlone!accountVars,
        AdminAlone!lossVars,
        AdminAlone!Ids, AdminAlone!Login
<1>6. QED
  BY <1>3, <1>4, <1>5

LEMMA SameAdmin ==
  /\ Admin!Init <=> AdminAlone!Init
  /\ Admin!Next <=> AdminAlone!Next
  /\ UNCHANGED Admin!vars <=> UNCHANGED AdminAlone!vars
  /\ Admin!TypeOK <=> AdminAlone!TypeOK
  /\ Admin!AcknowledgedAdminsSurvive <=> AdminAlone!AcknowledgedAdminsSurvive
  /\ Admin!LoginLimit <=> AdminAlone!LoginLimit
  BY SameLogins, Zenon DEF Admin!accountVars, Admin!lossVars,
                           Admin!Saved, Admin!sessionVars,
                           Admin!limitVars, Admin!vars, Admin!None,
                           Admin!Gone, Admin!Ids, Admin!Init, Admin!Failure,
                           Admin!Add, Admin!Setup, Admin!Valid,
                           Admin!Authenticated, Admin!Serve, Admin!End,
                           Admin!SendToLogin, Admin!ShowPage, Admin!Logout,
                           Admin!AddAdmin, Admin!ForgetAll, Admin!AddUnderWay,
                           Admin!ServerDies, Admin!ServerStarts, Admin!Tick,
                           Admin!Request, Admin!Next, Admin!TypeOK,
                           Admin!AcknowledgedAdminsSurvive, Admin!LoginLimit,
                           AdminAlone!accountVars, AdminAlone!lossVars,
                           AdminAlone!Saved, AdminAlone!sessionVars,
                           AdminAlone!limitVars, AdminAlone!vars,
                           AdminAlone!None, AdminAlone!Gone, AdminAlone!Ids,
                           AdminAlone!Init, AdminAlone!Failure,
                           AdminAlone!Add, AdminAlone!Setup, AdminAlone!Valid,
                           AdminAlone!Authenticated, AdminAlone!Serve,
                           AdminAlone!End, AdminAlone!SendToLogin,
                           AdminAlone!ShowPage, AdminAlone!Logout,
                           AdminAlone!AddAdmin, AdminAlone!ForgetAll,
                           AdminAlone!AddUnderWay, AdminAlone!ServerDies,
                           AdminAlone!ServerStarts, AdminAlone!Tick,
                           AdminAlone!Request, AdminAlone!Next,
                           AdminAlone!TypeOK,
                           AdminAlone!AcknowledgedAdminsSurvive,
                           AdminAlone!LoginLimit

LEMMA InstallBehaves == Spec => InstallAlone!Spec
<1>1. Init => InstallAlone!Init
  BY SameInstall DEF Init
<1>2. [Next]_vars => [InstallAlone!Next]_(InstallAlone!vars)
  BY SameInstall, InstallSteps
<1>3. QED
  BY <1>1, <1>2, PTL DEF Spec, InstallAlone!Spec

LEMMA UploadsBehaves == Spec => UploadsAlone!Spec
<1>1. Init => UploadsAlone!Init
  BY SameUploads DEF Init
<1>2. [Next]_vars => [UploadsAlone!Next]_(UploadsAlone!vars)
  BY SameUploads, UploadSteps
<1>3. QED
  BY <1>1, <1>2, PTL DEF Spec, UploadsAlone!Spec

LEMMA AdminBehaves == Spec => AdminAlone!Spec
<1>1. Init => AdminAlone!Init
  BY SameAdmin DEF Init
<1>2. [Next]_vars => [AdminAlone!Next]_(AdminAlone!vars)
  BY SameAdmin, AdminSteps
<1>3. QED
  BY <1>1, <1>2, PTL DEF Spec, AdminAlone!Spec

-----------------------------------------------------------------------------
(***************************************************************************)
(* Installation, service, requests, uploads and administration are well    *)
(* formed at any time, for any values of the constants that the components *)
(* allow.                                                                  *)
(***************************************************************************)
THEOREM TypeCorrect == Spec => []TypeOK
<1>1. InstallAlone!Spec => []InstallAlone!TypeOK
  BY InstallAlone!TypeCorrect, ServerAssumption, SameAssumptions
<1>2. UploadsAlone!Spec => []UploadsAlone!TypeOK
  BY UploadsAlone!TypeCorrect, ServerAssumption, SameAssumptions
<1>3. AdminAlone!Spec => []AdminAlone!TypeOK
  BY AdminAlone!TypeCorrect, ServerAssumption, SameAssumptions
<1>4. InstallAlone!TypeOK /\ UploadsAlone!TypeOK /\ AdminAlone!TypeOK => TypeOK
  BY SameInstall, SameUploads, SameAdmin DEF TypeOK
<1>5. QED
  BY <1>1, <1>2, <1>3, <1>4, InstallBehaves, UploadsBehaves, AdminBehaves, PTL

(***************************************************************************)
(* Clients that were built stay valid, whatever the installations of the   *)
(* server do while it serves.                                              *)
(***************************************************************************)
THEOREM ClientsStayValid == Spec => []BoundClientsStayValid
<1>1. InstallAlone!Spec => []InstallAlone!BoundClientsStayValid
  BY InstallAlone!ClientsStayValid, ServerAssumption, SameAssumptions
<1>2. InstallAlone!BoundClientsStayValid => BoundClientsStayValid
  BY SameInstall DEF BoundClientsStayValid
<1>3. QED
  BY <1>1, <1>2, InstallBehaves, PTL

(***************************************************************************)
(* A complete installation has opened its port, and no other unless some   *)
(* Remove of a rule has ever failed, and one without a failure has brought *)
(* pin, binding and service into line, with requests served at any time.   *)
(***************************************************************************)
THEOREM InstallationComplete == Spec => []InstallationAgrees
<1>1. InstallAlone!Spec => []InstallAlone!InstallationAgrees
  BY InstallAlone!InstallationComplete, ServerAssumption, SameAssumptions
<1>2. InstallAlone!InstallationAgrees => InstallationAgrees
  BY SameInstall DEF InstallationAgrees
<1>3. QED
  BY <1>1, <1>2, InstallBehaves, PTL

(***************************************************************************)
(* The process that the service manager starts and ends stores an attempt  *)
(* at most once, unless the clock of the client is ahead by the whole      *)
(* window.                                                                 *)
(***************************************************************************)
THEOREM StoredAtMostOnce == Spec => []StoredOnce
<1>1. UploadsAlone!Spec => []UploadsAlone!StoredOnce
  BY UploadsAlone!StoredAtMostOnce, ServerAssumption, SameAssumptions
<1>2. UploadsAlone!StoredOnce => StoredOnce
  BY SameUploads DEF StoredOnce
<1>3. QED
  BY <1>1, <1>2, UploadsBehaves, PTL

(***************************************************************************)
(* A tool that ends with "uploaded" is right, whatever becomes of the      *)
(* installation of the server.                                             *)
(***************************************************************************)
THEOREM UploadsAreStored == Spec => []UploadedIsStored
<1>1. UploadsAlone!Spec => []UploadsAlone!UploadedIsStored
  BY UploadsAlone!UploadsAreStored, ServerAssumption, SameAssumptions
<1>2. UploadsAlone!UploadedIsStored => UploadedIsStored
  BY SameUploads DEF UploadedIsStored
<1>3. QED
  BY <1>1, <1>2, UploadsBehaves, PTL

(***************************************************************************)
(* No attempt is answered as a repetition.                                 *)
(***************************************************************************)
THEOREM NeverMistakenForReplay == Spec => []FreshAttemptNotReplayed
<1>1. UploadsAlone!Spec => []UploadsAlone!FreshAttemptNotReplayed
  BY UploadsAlone!NeverMistakenForReplay, ServerAssumption, SameAssumptions
<1>2. UploadsAlone!FreshAttemptNotReplayed => FreshAttemptNotReplayed
  BY SameUploads DEF FreshAttemptNotReplayed
<1>3. QED
  BY <1>1, <1>2, UploadsBehaves, PTL

(***************************************************************************)
(* An acknowledged administrator outlives every restart and installation   *)
(* of the service at which users.db is read to its end, and after any      *)
(* other stays on disk until the next Save.                                *)
(***************************************************************************)
THEOREM AdminsSurvive == Spec => []AcknowledgedAdminsSurvive
<1>1. AdminAlone!Spec => []AdminAlone!AcknowledgedAdminsSurvive
  BY AdminAlone!AdminsSurvive, ServerAssumption, SameAssumptions
<1>2. AdminAlone!AcknowledgedAdminsSurvive => AcknowledgedAdminsSurvive
  BY SameAdmin DEF AcknowledgedAdminsSurvive
<1>3. QED
  BY <1>1, <1>2, AdminBehaves, PTL

(***************************************************************************)
(* The limit of failed logins holds in every process of the service.       *)
(***************************************************************************)
THEOREM LoginsLimited == Spec => []LoginLimit
<1>1. AdminAlone!Spec => []AdminAlone!LoginLimit
  BY AdminAlone!LoginsLimited, ServerAssumption, SameAssumptions
<1>2. AdminAlone!LoginLimit => LoginLimit
  BY SameAdmin DEF LoginLimit
<1>3. QED
  BY <1>1, <1>2, AdminBehaves, PTL

(***************************************************************************)
(* No step of the server serves a session that has come to an end.         *)
(***************************************************************************)
THEOREM SessionsAreOver == Spec => SessionsEnd
<1>1. AdminAlone!Spec => AdminAlone!SessionsEnd
  BY AdminAlone!SessionsAreOver, ServerAssumption, SameAssumptions
<1>2. AdminAlone!SessionsEnd <=> SessionsEnd
  BY PTL DEF SessionsEnd, Admin!SessionsEnd, AdminAlone!SessionsEnd, Admin!Ids,
             AdminAlone!Ids, Admin!vars, AdminAlone!vars, Admin!accountVars,
             Admin!lossVars, AdminAlone!accountVars, AdminAlone!lossVars, Admin!sessionVars, AdminAlone!sessionVars,
             Admin!limitVars, AdminAlone!limitVars
<1>3. QED
  BY <1>1, <1>2, AdminBehaves
=============================================================================
