---------------------------- MODULE KylinReports ----------------------------
(***************************************************************************)
(* A Kylin tool (KylinTool) that uploads what it has done to the directory *)
(* others work on (ReportDirectory).  What becomes of its upload decides   *)
(* about its exit code.                                                    *)
(***************************************************************************)
EXTENDS ReportDirectory

CONSTANTS Home,     \* the terminal the tool runs on
          Targets, UnitOf, Units, NoUnit, Profiles, Radio, MaxTroubles, MaxOthers

VARIABLES svc, wifi, radio, adapter, run, changed, snap, backups, actions, status,
          troubles, others, before, touched, joined, unreported

Tool == INSTANCE KylinTool
tool == <<svc, wifi, radio, adapter, run, changed, snap, backups, actions, status,
          troubles, others, before, touched, joined, unreported>>

ASSUME ReportsAssumption == Home \in Kylin /\ Tool!ToolAssumption

BothInit == Init /\ Tool!Init

\* Without an upload the report stays where it was made.
WriteReport ==
    /\ Tool!WriteReport
    /\ IF run'.pc = "upload" THEN Report(Home) ELSE UNCHANGED vars

Upload ==
    /\ run.pc = "upload"
    /\ UploadStep(Home)
    /\ CASE sender'[Home].pc # "rest" -> UNCHANGED tool
         [] sender'[Home].pc = "rest" /\ Batch(Home) \in acknowledged' -> Tool!Uploaded
         [] OTHER -> Tool!UploadFailed

DirectoryStep == \/ \E t \in Terminals \ {Home} : ToolStep(t)
                 \/ ReceiverStep \/ PrunerStep \/ ExporterStep

BothNext == \/ Tool!HostStep /\ UNCHANGED vars
            \/ WriteReport \/ Upload
            \/ DirectoryStep /\ UNCHANGED tool
BothSpec == BothInit /\ [][BothNext]_<<vars, tool>>
-----------------------------------------------------------------------------
\* Every variable of the receiver, its directory and the tool has its type.
BothTypeOK == TypeOK /\ Tool!TypeOK

\* The tool's report is true about changes, however its run ended (KylinTool).
ActionsAreTrue == Tool!ActionsAreTrue
\* The tool never cuts a connection it could have seen (KylinTool).
ConnectionKept == Tool!ConnectionKept
\* What DEVELOPMENT_PLAN.md line 227 says of deleted profiles when a later
\* operation fails: they are restored (KylinTool; the code does not).
ProfilesRestored == Tool!ProfilesRestored

\* A repair that ends with 0 has done what it is for: the services are off as
\* systemctl tells it (one that is just starting and not enabled counts as
\* off), unless somebody has touched them meanwhile, and the directory has the
\* report or a newer one, with the exceptions of Kept.
ZeroMeansDone ==
    run.pc = "exited" /\ run.exit = 0 /\ run.mode = "repair" =>
        /\ \A u \in Units \ touched :
               (\E i \in 1..Targets : UnitOf[i] = u) => Tool!Told(svc[u]) = Tool!Off
        /\ run.upload => Kept(Batch(Home))
=============================================================================
