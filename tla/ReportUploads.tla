--------------------------- MODULE ReportUploads ---------------------------
(***************************************************************************)
(* Uploads to the report server: the tool that audits a terminal and sends *)
(* the report (src/src/remote_inspector.cpp) in up to three attempts, and  *)
(* the request loop of the server (src/src/report_server.cpp) that checks  *)
(* time stamp, nonce, signature and envelope and stores three files.       *)
(* Answers are lost, requests are handed over again, the server dies.      *)
(*                                                                         *)
(* Time is the clock of the server in ticks, Ticks of them to a second;    *)
(* its two clocks (system_clock and steady_clock) are taken to agree, and  *)
(* one request to read both at once.                                       *)
(***************************************************************************)
EXTENDS Integers, Sequences

CONSTANTS Clients,
          MaxAttempts,          \* 3: the loop of wWinMain
          Ticks,                \* ticks in a second
          Window,               \* 300: seconds a time stamp may be off
          NonceLife,            \* 600: seconds a nonce is remembered
          Skews,                \* how far client clocks are ahead, in seconds
          MaxTime,              \* bound: ticks
          MaxLives,             \* bound: starts of the server
          MaxDisturbances       \* bound: failures, losses, repetitions

UploadAssumption ==
    /\ MaxAttempts \in Nat \ {0} /\ Ticks \in Nat \ {0}
    /\ Window \in Nat /\ NonceLife \in Nat /\ Skews \subseteq Int
    /\ 2 * Window <= NonceLife
    /\ {MaxTime, MaxLives, MaxDisturbances} \subseteq Nat

VARIABLES clock,
          skew,       \* skew[c]: how far the clock of c is ahead
          job,        \* job[c]: the tool on terminal c
          queue,      \* requests that have reached the server's queue
          handled,    \* requests it has taken before
          answers,    \* answers on their way: attempt and status
          up, life,   \* whether the server process lives, and which one it is
          busy,       \* the request its only thread works on, and how far it is
          nonces,     \* memory: when a nonce was used, or Never
          reports,    \* disk: what was stored, in this order
          disturbed   \* bound

serverVars == <<up, life, busy, nonces, reports>>
vars == <<clock, skew, job, queue, handled, answers, up, life, busy, nonces,
          reports, disturbed>>

Never == -1
Attempts == [from : Clients, no : 1..MaxAttempts]   \* each has a new nonce
Nobody == [step |-> "none"]

(* A request: its attempt, the second it says it was made, whether it is   *)
(* signed with the key of the server, and whether the envelope is within   *)
(* the limits of Decode.                                                   *)
Requests == [nonce : Attempts, stamp : Int, signed : BOOLEAN, fits : BOOLEAN]

Init ==
    /\ clock \in 0..MaxTime
    /\ skew \in [Clients -> Skews]
    /\ \E running \in SUBSET Clients :
         job = [c \in Clients |->
             [pc |-> IF c \in running THEN "idle" ELSE "exited", attempt |-> 1,
              bound |-> FALSE, fits |-> FALSE,
              uploaded |-> FALSE, exit |-> 0]]
    /\ queue = {} /\ handled = {} /\ answers = {}
    /\ up \in BOOLEAN /\ life = 0
    /\ busy = Nobody
    /\ nonces = [n \in Attempts |-> Never]
    /\ reports = <<>>
    /\ disturbed \in 0..MaxDisturbances

Disturb == disturbed < MaxDisturbances /\ disturbed' = disturbed + 1

-----------------------------------------------------------------------------
(* The upload tool.                                                        *)

\* Arguments, audit and local report; what ends without an upload.
Start(c) ==
    /\ job[c].pc = "idle"
    /\ \E bound, fits \in BOOLEAN :
         job' = [job EXCEPT ![c] = [@ EXCEPT !.pc = "sending",
                                    !.bound = bound, !.fits = fits]]
    /\ UNCHANGED <<clock, skew, queue, handled, answers, serverVars, disturbed>>

EndEarly(c) ==
    /\ job[c].pc = "idle"
    /\ \E code \in {0, 1, 2, 5} :
         job' = [job EXCEPT ![c] = [@ EXCEPT !.pc = "exited", !.exit = code]]
    /\ UNCHANGED <<clock, skew, queue, handled, answers, serverVars, disturbed>>

\* The exit code says whether the report was uploaded and, in a way left
\* open here, what the audit has found.
Exit(c, uploaded) ==
    \E code \in IF uploaded THEN {0, 5} ELSE {6, 7} :
        job' = [job EXCEPT ![c] = [@ EXCEPT !.pc = "exited", !.exit = code,
                                            !.uploaded = uploaded]]
\* (A variant that makes one attempt too many.)
AttemptFailedLate(c) ==
    \/ /\ job[c].attempt <= MaxAttempts
       /\ job' = [job EXCEPT ![c].pc = "pausing"]
    \/ job[c].attempt > MaxAttempts /\ Exit(c, FALSE)
\* What a failed attempt leads to.
AttemptFailed(c) ==
    \/ /\ job[c].attempt < MaxAttempts
       /\ job' = [job EXCEPT ![c].pc = "pausing"]
    \/ job[c].attempt = MaxAttempts /\ Exit(c, FALSE)

\* (A variant with one nonce for all attempts.)
NonceOfTool(c) == [from |-> c, no |-> 1]
NonceOf(c) == [from |-> c, no |-> job[c].attempt]
Request(c) == [nonce |-> NonceOf(c), stamp |-> clock \div Ticks + skew[c],
               signed |-> job[c].bound, fits |-> job[c].fits]

\* Upload up to the last byte of the body.  The certificate pin is compared
\* before the body is sent, so a tool that is not bound to this server keeps
\* its report for itself.
Send(c) ==
    /\ job[c].pc = "sending" /\ up
    /\ job[c].bound
    /\ queue' = queue \cup {Request(c)}
    /\ job' = [job EXCEPT ![c].pc = "waiting"]
    /\ UNCHANGED <<clock, skew, handled, answers, serverVars, disturbed>>

\* The server is down, the pin differs, or the network fails.
SendFails(c) ==
    /\ job[c].pc = "sending"
    /\ AttemptFailed(c)
    /\ UNCHANGED <<clock, skew, queue, handled, answers, serverVars, disturbed>>

Receive(c) ==
    /\ job[c].pc = "waiting"
    /\ \E a \in answers :
         /\ a.nonce = NonceOf(c)
         /\ answers' = answers \ {a}
         /\ \/ a.status = 201 /\ Exit(c, TRUE)
            \/ a.status # 201 /\ AttemptFailed(c)
    /\ UNCHANGED <<clock, skew, queue, handled, serverVars, disturbed>>

\* The connection broke, or nothing came in time.  Whatever the server still
\* does about the attempt, its answer finds nobody.
GiveUpWaiting(c) ==
    /\ job[c].pc = "waiting"
    /\ AttemptFailed(c)
    /\ answers' = {a \in answers : a.nonce # NonceOf(c)}
    /\ UNCHANGED <<clock, skew, queue, handled, serverVars, disturbed>>

\* The pause of 2 and 4 seconds is over.
NextAttempt(c) ==
    /\ job[c].pc = "pausing"
    /\ job' = [job EXCEPT ![c].pc = "sending", ![c].attempt = @ + 1]
    /\ UNCHANGED <<clock, skew, queue, handled, answers, serverVars, disturbed>>

-----------------------------------------------------------------------------
(* The server.                                                             *)

Waiting(n) == job[n.from].pc = "waiting" /\ NonceOf(n.from) = n
Respond(n, status, again) ==
    answers' = IF Waiting(n) /\ ~again
               THEN answers \cup {[nonce |-> n, status |-> status]} ELSE answers

AbsInt(i) == IF i < 0 THEN -i ELSE i
InWindow(r) == AbsInt(clock \div Ticks - r.stamp) <= Window

\* (A variant that forgets too early.)
RememberedShortly == [n \in Attempts |->
    IF nonces[n] # Never /\ clock - nonces[n] > Window * Ticks
    THEN Never ELSE nonces[n]]
\* FreshNonce forgets what is older than NonceLife before it looks.
Remembered == [n \in Attempts |->
    IF nonces[n] # Never /\ clock - nonces[n] > NonceLife * Ticks
    THEN Never ELSE nonces[n]]

\* CheckUpload and Decode, of a request that came now or is handed over again
\* (again): what is left of the request is a status, or the report to store.
Check(r, again) ==
    IF ~InWindow(r)
    THEN Respond(r.nonce, 403, again) /\ UNCHANGED <<nonces, busy>>
    ELSE IF Remembered[r.nonce] # Never
    THEN /\ Respond(r.nonce, 409, again)      \* 403, reason "replayed-nonce"
         /\ nonces' = Remembered /\ UNCHANGED busy
    ELSE /\ nonces' = [Remembered EXCEPT ![r.nonce] = clock]
         /\ \/ /\ r.signed /\ r.fits
               /\ busy' = [step |-> "save", nonce |-> r.nonce, again |-> again]
               /\ UNCHANGED answers
            \/ /\ ~(r.signed /\ r.fits)
               /\ Respond(r.nonce, IF r.signed THEN 400 ELSE 403, again)
               /\ UNCHANGED busy

Take ==
    /\ up /\ busy = Nobody
    /\ \E r \in queue : /\ queue' = queue \ {r} /\ handled' = handled \cup {r}
                        /\ Check(r, FALSE)
    /\ UNCHANGED <<clock, skew, job, up, life, reports, disturbed>>

\* A request is handed to the server again, as it was or damaged.
TakeAgain ==
    /\ up /\ busy = Nobody /\ Disturb
    /\ \E r \in handled, intact \in BOOLEAN :
         Check([r EXCEPT !.signed = @ /\ intact], TRUE)
    /\ UNCHANGED <<clock, skew, job, queue, handled, up, life, reports>>

\* A report on disk: whether its three files are whole, and, if they are not,
\* whether the disk lost what it seemed to take.
Stored(whole, lost) ==
    Append(reports, [nonce |-> busy.nonce, life |-> life, whole |-> whole,
                     lost |-> lost])

\* (A variant that does not look at the streams.)
SaveUnchecked ==
    /\ busy.step = "save"
    /\ \/ /\ busy' = [busy EXCEPT !.step = "close"]
          /\ UNCHANGED <<reports, disturbed>>
       \/ /\ Disturb /\ busy' = [busy EXCEPT !.step = "answer"]
          /\ reports' = Stored(FALSE, FALSE)
    /\ UNCHANGED <<clock, skew, job, queue, handled, answers, up, life, nonces>>
\* Reports::Save up to the test of the three streams: one that has failed
\* throws, and Run answers 400; destructors still write what they have.
Save ==
    /\ busy.step = "save"
    /\ \/ /\ busy' = [busy EXCEPT !.step = "close"]
          /\ UNCHANGED <<answers, reports, disturbed>>
       \/ /\ Disturb
          /\ Respond(busy.nonce, 400, busy.again) /\ busy' = Nobody
          /\ reports' = Stored(FALSE, FALSE)
    /\ UNCHANGED <<clock, skew, job, queue, handled, up, life, nonces>>

\* The streams are closed at the end of Save.  A disk that refuses the rest of
\* the data now is noticed by nobody.
Close ==
    /\ busy.step = "close" /\ busy' = [busy EXCEPT !.step = "answer"]
    /\ \/ reports' = Stored(TRUE, FALSE) /\ UNCHANGED disturbed
       \/ Disturb /\ reports' = Stored(FALSE, TRUE)
    /\ UNCHANGED <<clock, skew, job, queue, handled, answers, up, life, nonces>>

Answer ==
    /\ busy.step = "answer" /\ busy' = Nobody
    /\ Respond(busy.nonce, 201, busy.again)
    /\ UNCHANGED <<clock, skew, job, queue, handled, up, life, nonces, reports,
                   disturbed>>

\* The process ends at any moment.  What is in memory is gone, connections are
\* closed, and open files hold what happens to have reached the disk.
ServerDies ==
    /\ up /\ up' = FALSE
    /\ nonces' = [n \in Attempts |-> Never] /\ busy' = Nobody
    /\ queue' = {} /\ answers' = {} /\ handled' = handled \cup queue
    /\ IF busy.step = "close"
       THEN \E whole \in BOOLEAN : reports' = Stored(whole, FALSE)
       ELSE UNCHANGED reports
    /\ UNCHANGED <<clock, skew, job, life, disturbed>>

ServerStarts ==
    /\ ~up /\ up' = TRUE /\ life < MaxLives /\ life' = life + 1
    /\ UNCHANGED <<clock, skew, job, queue, handled, answers, busy, nonces,
                   reports, disturbed>>

Tick ==
    /\ clock < MaxTime /\ clock' = clock + 1
    /\ UNCHANGED <<skew, job, queue, handled, answers, serverVars, disturbed>>

ClientStep(c) ==
    \/ Start(c) \/ EndEarly(c) \/ Send(c) \/ SendFails(c) \/ Receive(c)
    \/ GiveUpWaiting(c) \/ NextAttempt(c)
ServerStep == Take \/ TakeAgain \/ Save \/ Close \/ Answer

Next ==
    \/ \E c \in Clients : ClientStep(c)
    \/ ServerStep \/ ServerDies \/ ServerStarts \/ Tick

Spec == Init /\ [][Next]_vars

-----------------------------------------------------------------------------
Statuses == {201, 400, 403, 409}
Jobs == [pc : {"idle", "sending", "waiting", "pausing", "exited"},
         attempt : 1..MaxAttempts, bound : BOOLEAN, fits : BOOLEAN,
         uploaded : BOOLEAN, exit : {0, 1, 2, 5, 6, 7}]
Work == [step : {"save", "close", "answer"}, nonce : Attempts, again : BOOLEAN]
Reports == [nonce : Attempts, life : Nat, whole : BOOLEAN, lost : BOOLEAN]
\* The tools, the requests under way and what the server stores have their types.
TypeOK ==
    /\ clock \in Nat /\ skew \in [Clients -> Skews]
    /\ job \in [Clients -> Jobs]
    /\ queue \subseteq Requests /\ handled \subseteq Requests
    /\ answers \subseteq [nonce : Attempts, status : Statuses]
    /\ up \in BOOLEAN /\ life \in Nat
    /\ busy = Nobody \/ busy \in Work
    /\ nonces \in [Attempts -> Nat \cup {Never}]
    /\ reports \in Seq(Reports)
    /\ disturbed \in Nat

\* One process of the server stores an attempt at most once, however often the
\* request is handed over, although it forgets nonces after NonceLife.  Two
\* windows fit into that life except for a fraction of a second: a client
\* whose clock is ahead by the whole window can be stored twice.
StoredOnce ==
    \A i, j \in 1..Len(reports) :
        /\ i # j /\ reports[i].life = reports[j].life
        /\ reports[i].nonce = reports[j].nonce
        => skew[reports[i].nonce.from] >= Window

\* A tool that ends with "uploaded" is right: its last attempt was taken by
\* the server, which has all of its files or has lost them after a write that
\* seemed to succeed.  No answer to another attempt, and none given before the
\* report was stored, can make it say so.
UploadedIsStored ==
    \A c \in Clients : job[c].uploaded =>
        \E i \in 1..Len(reports) :
            /\ reports[i].nonce = NonceOf(c)
            /\ reports[i].whole \/ reports[i].lost

\* An attempt is never taken for a repetition: not for one of the tool's own
\* earlier attempts, and not because somebody else repeated a request.
FreshAttemptNotReplayed == \A a \in answers : a.status # 409
=============================================================================
