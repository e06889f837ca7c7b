------------------------ MODULE ReportUploads_proofs ------------------------
(***************************************************************************)
(* Proofs about uploads to the report server, for any clients, clocks,     *)
(* windows with 2 * Window <= NonceLife, losses, repetitions and restarts. *)
(***************************************************************************)
EXTENDS ReportUploads, TLAPS

(* The parts of the inductive invariant.                                   *)

Asked == {"waiting", "pausing", "exited"}
\* The request of an attempt may be on its way, or have been.
Sent(n) == \/ n.no < job[n.from].attempt
           \/ n.no = job[n.from].attempt /\ job[n.from].pc \in Asked

JobInv ==
    \A c \in Clients : /\ job[c].pc = "pausing" => job[c].attempt < MaxAttempts
                       /\ job[c].uploaded => job[c].pc = "exited"

\* No request says that it was made later than now (by the clock of its client),
\* and the server's queue holds an attempt once and never after it was taken.
RequestInv ==
    /\ \A r \in queue \cup handled :
          Sent(r.nonce) /\ r.stamp - skew[r.nonce.from] <= clock \div Ticks
    /\ \A r, q \in queue : r.nonce = q.nonce => r = q
    /\ \A r \in queue, h \in handled : r.nonce # h.nonce

\* The server remembers only what it has taken, not before it was made.
NonceInv ==
    \A n \in Attempts : nonces[n] # Never =>
        /\ nonces[n] <= clock
        /\ \E h \in handled : h.nonce = n
        /\ \A h \in handled : h.nonce = n =>
              h.stamp - skew[n.from] <= nonces[n] \div Ticks

\* An attempt that must not be stored again is remembered, or too old.
Barred(n) ==
    \/ nonces[n] # Never
    \/ \A h \in handled : h.nonce = n => clock \div Ticks > h.stamp + Window

StoredHere(n) ==
    \E i \in 1..Len(reports) : reports[i].nonce = n /\ reports[i].life = life
StoreInv ==
    /\ busy # Nobody => up /\ nonces[busy.nonce] # Never
    /\ busy.step \in {"save", "close"} /\ skew[busy.nonce.from] < Window
          => ~StoredHere(busy.nonce)
    /\ \A i \in 1..Len(reports) :
          /\ reports[i].life <= life
          /\ \E h \in handled : h.nonce = reports[i].nonce
          /\ up /\ reports[i].life = life /\ skew[reports[i].nonce.from] < Window
                => Barred(reports[i].nonce)

Have(n) ==
    \E i \in 1..Len(reports) :
        reports[i].nonce = n /\ (reports[i].whole \/ reports[i].lost)
AnswerInv ==
    /\ \A a \in answers : a.status = 201 => Have(a.nonce)
    /\ busy.step = "answer" => Have(busy.nonce)

IInv == /\ TypeOK /\ JobInv /\ RequestInv /\ NonceInv /\ StoreInv /\ AnswerInv
        /\ StoredOnce /\ UploadedIsStored /\ FreshAttemptNotReplayed

-----------------------------------------------------------------------------
(* What the steps of the upload tool do to its job.                        *)

SameButFor(c) == \A d \in Clients \ {c} : job'[d] = job[d]

LEMMA Starting ==
  ASSUME TypeOK, NEW c \in Clients, Start(c) \/ EndEarly(c)
  PROVE  /\ job' \in [Clients -> Jobs] /\ SameButFor(c)
         /\ job[c].pc = "idle" /\ job'[c].pc \in {"sending", "exited"}
         /\ job'[c].attempt = job[c].attempt
         /\ job'[c].uploaded = job[c].uploaded
<1>1. CASE Start(c)
  <2>1. PICK bound \in BOOLEAN, fits \in BOOLEAN :
           job' = [job EXCEPT ![c] = [@ EXCEPT !.pc = "sending",
                                      !.bound = bound, !.fits = fits]]
    BY <1>1 DEF Start
  <2>2. job[c] \in Jobs
    BY DEF TypeOK
  <2>3. job'[c] = [job[c] EXCEPT !.pc = "sending", !.bound = bound, !.fits = fits]
    BY <2>1 DEF TypeOK
  <2>4. /\ job'[c] \in Jobs /\ job'[c].pc = "sending"
        /\ job'[c].attempt = job[c].attempt /\ job'[c].uploaded = job[c].uploaded
    BY <2>2, <2>3 DEF Jobs
  <2>5. QED
    BY <1>1, <2>1, <2>4 DEF TypeOK, SameButFor, Start
<1>2. CASE EndEarly(c)
  <2>1. PICK code \in {0, 1, 2, 5} :
           job' = [job EXCEPT ![c] = [@ EXCEPT !.pc = "exited", !.exit = code]]
    BY <1>2 DEF EndEarly
  <2>2. job[c] \in Jobs
    BY DEF TypeOK
  <2>3. job'[c] = [job[c] EXCEPT !.pc = "exited", !.exit = code]
    BY <2>1 DEF TypeOK
  <2>4. /\ job'[c] \in Jobs /\ job'[c].pc = "exited"
        /\ job'[c].attempt = job[c].attempt /\ job'[c].uploaded = job[c].uploaded
    BY <2>2, <2>3 DEF Jobs
  <2>5. QED
    BY <1>2, <2>1, <2>4 DEF TypeOK, SameButFor, EndEarly
<1>3. QED
  BY <1>1, <1>2

LEMMA Exiting ==
  ASSUME TypeOK, NEW c \in Clients, NEW uploaded \in BOOLEAN, Exit(c, uploaded)
  PROVE  /\ job' \in [Clients -> Jobs] /\ SameButFor(c)
         /\ job'[c].pc = "exited" /\ job'[c].attempt = job[c].attempt
         /\ job'[c].uploaded = uploaded
<1>1. PICK code \in {0, 5, 6, 7} :
         job' = [job EXCEPT ![c] = [@ EXCEPT !.pc = "exited", !.exit = code,
                                             !.uploaded = uploaded]]
  BY DEF Exit
<1>2. job[c] \in Jobs
  BY DEF TypeOK
<1>3. job'[c] = [job[c] EXCEPT !.pc = "exited", !.exit = code,
                               !.uploaded = uploaded]
  BY <1>1 DEF TypeOK
<1>4. /\ job'[c] \in Jobs /\ job'[c].pc = "exited"
      /\ job'[c].attempt = job[c].attempt /\ job'[c].uploaded = uploaded
  BY <1>2, <1>3 DEF Jobs
<1>5. QED
  BY <1>1, <1>4 DEF TypeOK, SameButFor

LEMMA Moving ==
  ASSUME TypeOK, NEW c \in Clients, NEW pc \in {"waiting", "pausing"},
         job' = [job EXCEPT ![c].pc = pc]
  PROVE  /\ job' \in [Clients -> Jobs] /\ SameButFor(c)
         /\ job'[c].pc = pc /\ job'[c].attempt = job[c].attempt
         /\ job'[c].uploaded = job[c].uploaded
<1>1. job[c] \in Jobs
  BY DEF TypeOK
<1>2. job'[c] = [job[c] EXCEPT !.pc = pc]
  BY DEF TypeOK
<1>3. /\ job'[c] \in Jobs /\ job'[c].pc = pc
      /\ job'[c].attempt = job[c].attempt /\ job'[c].uploaded = job[c].uploaded
  BY <1>1, <1>2 DEF Jobs
<1>4. QED
  BY <1>3 DEF TypeOK, SameButFor

LEMMA Failing ==
  ASSUME TypeOK, NEW c \in Clients, AttemptFailed(c)
  PROVE  /\ job' \in [Clients -> Jobs] /\ SameButFor(c)
         /\ job'[c].attempt = job[c].attempt
         /\ \/ job'[c].pc = "pausing" /\ job'[c].uploaded = job[c].uploaded
            \/ job'[c].pc = "exited" /\ job'[c].uploaded = FALSE
<1>1. CASE job' = [job EXCEPT ![c].pc = "pausing"]
  BY <1>1, Moving
<1>2. CASE Exit(c, FALSE)
  BY <1>2, Exiting
<1>3. QED
  BY <1>1, <1>2 DEF AttemptFailed

LEMMA Trying ==
  ASSUME TypeOK, UploadAssumption, NEW c \in Clients, NextAttempt(c),
         job[c].attempt < MaxAttempts
  PROVE  /\ job' \in [Clients -> Jobs] /\ SameButFor(c)
         /\ job'[c].pc = "sending" /\ job'[c].attempt = job[c].attempt + 1
         /\ job'[c].uploaded = job[c].uploaded
<1>1. job[c] \in Jobs /\ MaxAttempts \in Nat
  BY DEF TypeOK, UploadAssumption
<1>2. job'[c] = [job[c] EXCEPT !.pc = "sending", !.attempt = job[c].attempt + 1]
  <2>1. job' = [job EXCEPT ![c].pc = "sending", ![c].attempt = @ + 1]
    BY DEF NextAttempt
  <2>2. QED
    BY <1>1, <2>1 DEF TypeOK, Jobs
<1>3. job[c].attempt + 1 \in 1..MaxAttempts
  BY <1>1 DEF Jobs
<1>4. /\ job'[c] \in Jobs /\ job'[c].pc = "sending"
      /\ job'[c].attempt = job[c].attempt + 1
      /\ job'[c].uploaded = job[c].uploaded
  BY <1>1, <1>2, <1>3 DEF Jobs
<1>5. QED
  BY <1>4 DEF TypeOK, SameButFor, NextAttempt

\* All of this together: what a step of a tool may do.
LEMMA ClientEffect ==
  ASSUME UploadAssumption, TypeOK, JobInv, NEW c \in Clients, ClientStep(c)
  PROVE  /\ job' \in [Clients -> Jobs] /\ SameButFor(c) /\ JobInv'
         /\ \/ /\ job'[c].attempt = job[c].attempt
               /\ job[c].pc \in Asked => job'[c].pc \in Asked
            \/ job'[c].attempt = job[c].attempt + 1 /\ ~job'[c].uploaded
         /\ job'[c].uploaded =>
               \/ job[c].uploaded
               \/ \E a \in answers : a.nonce = NonceOf(c) /\ a.status = 201
         /\ UNCHANGED <<clock, skew, handled, serverVars, disturbed>>
         /\ answers' \subseteq answers
         /\ \/ queue' = queue
            \/ /\ queue' = queue \cup {Request(c)} /\ job[c].pc = "sending"
               /\ job'[c].pc = "waiting" /\ job'[c].attempt = job[c].attempt
<1> USE DEF JobInv, SameButFor, Asked
<1>1. CASE Start(c) \/ EndEarly(c)
  <2>1. /\ UNCHANGED <<clock, skew, handled, serverVars, disturbed>>
        /\ answers' = answers /\ queue' = queue
    BY <1>1 DEF Start, EndEarly
  <2>2. /\ job' \in [Clients -> Jobs] /\ SameButFor(c)
        /\ job[c].pc = "idle" /\ job'[c].pc \in {"sending", "exited"}
        /\ job'[c].attempt = job[c].attempt
        /\ job'[c].uploaded = job[c].uploaded
    BY <1>1, Starting
  <2>3. ~job'[c].uploaded
    BY <2>2
  <2>4. QED
    BY <2>1, <2>2, <2>3
<1>2. CASE Send(c)
  BY <1>2, Moving DEF Send
<1>3. CASE AttemptFailed(c) /\ (SendFails(c) \/ Receive(c) \/ GiveUpWaiting(c))
  <2>1. job'[c].pc = "pausing" => job[c].attempt < MaxAttempts
    BY <1>3, Exiting DEF AttemptFailed
  <2>2. /\ answers' \subseteq answers /\ queue' = queue
        /\ UNCHANGED <<clock, skew, handled, serverVars, disturbed>>
        /\ job[c].pc \in {"sending", "waiting"}
    BY <1>3 DEF SendFails, Receive, GiveUpWaiting
  <2>3. /\ job' \in [Clients -> Jobs] /\ SameButFor(c)
        /\ job'[c].attempt = job[c].attempt
        /\ \/ job'[c].pc = "pausing" /\ job'[c].uploaded = job[c].uploaded
           \/ job'[c].pc = "exited" /\ job'[c].uploaded = FALSE
    BY <1>3, Failing
  <2>4. QED
    BY <2>1, <2>2, <2>3
<1>4. CASE Receive(c) /\ Exit(c, TRUE)
           /\ \E a \in answers : a.nonce = NonceOf(c) /\ a.status = 201
  <2>1. /\ job' \in [Clients -> Jobs] /\ SameButFor(c)
        /\ job'[c].pc = "exited" /\ job'[c].attempt = job[c].attempt
    BY <1>4, Exiting
  <2>2. /\ answers' \subseteq answers /\ queue' = queue
        /\ UNCHANGED <<clock, skew, handled, serverVars, disturbed>>
    BY <1>4 DEF Receive
  <2>3. QED
    BY <1>4, <2>1, <2>2
<1>5. CASE NextAttempt(c)
  <2>1. job[c].pc = "pausing" /\ job[c].attempt < MaxAttempts
    BY <1>5 DEF NextAttempt
  <2>2. QED
    BY <1>5, <2>1, Trying DEF NextAttempt
<1>6. QED
  BY <1>1, <1>2, <1>3, <1>4, <1>5
     DEF ClientStep, SendFails, Receive, GiveUpWaiting

(***************************************************************************)
(* A step of a tool keeps the invariant.                                   *)
(***************************************************************************)
LEMMA AttemptsAndRequests ==
  ASSUME TypeOK, NEW c \in Clients
  PROVE  /\ job[c].attempt \in 1..MaxAttempts /\ NonceOf(c) \in Attempts
         /\ NonceOf(c).from = c /\ NonceOf(c).no = job[c].attempt
  BY DEF TypeOK, Jobs, NonceOf, Attempts

LEMMA NewRequest ==
  ASSUME UploadAssumption, TypeOK, NEW c \in Clients
  PROVE  /\ Request(c) \in Requests /\ Request(c).nonce = NonceOf(c)
         /\ Request(c).stamp = clock \div Ticks + skew[c]
         /\ clock \div Ticks \in Int /\ skew[c] \in Int
<1>1. clock \div Ticks \in Int /\ skew[c] \in Int
  <2>1. clock \in Nat /\ Ticks \in Nat /\ Ticks > 0
    BY DEF TypeOK, UploadAssumption
  <2>2. clock \div Ticks \in Int
    BY <2>1
  <2>3. skew[c] \in Int
    BY DEF TypeOK, UploadAssumption
  <2>4. QED
    BY <2>2, <2>3
<1>2. job[c].bound \in BOOLEAN /\ job[c].fits \in BOOLEAN /\ NonceOf(c) \in Attempts
  BY AttemptsAndRequests DEF TypeOK, Jobs
<1>3. clock \div Ticks + skew[c] \in Int
  BY <1>1
<1>4. QED
  BY <1>1, <1>2, <1>3 DEF Request, Requests

LEMMA SentStays ==
  ASSUME UploadAssumption, TypeOK, JobInv, NEW c \in Clients, ClientStep(c),
         NEW n \in Attempts, Sent(n)
  PROVE  Sent(n)'
<1>1. n.from \in Clients /\ n.no \in Nat
  BY DEF Attempts
<1>2. CASE n.from # c
  BY <1>1, <1>2, ClientEffect DEF Sent, SameButFor
<1>3. CASE n.from = c
  <2>1. \/ /\ job'[c].attempt = job[c].attempt
           /\ job[c].pc \in Asked => job'[c].pc \in Asked
        \/ job'[c].attempt = job[c].attempt + 1
    BY ClientEffect
  <2>2. job[c].attempt \in Nat
    BY DEF TypeOK, Jobs
  <2>3. QED
    BY <1>1, <1>3, <2>1, <2>2 DEF Sent
<1>4. QED
  BY <1>2, <1>3

LEMMA ClientKeepsRequests ==
  ASSUME UploadAssumption, TypeOK, JobInv, RequestInv, NEW c \in Clients,
         ClientStep(c)
  PROVE  RequestInv'
<1>1. UNCHANGED <<clock, skew, handled>>
  BY ClientEffect DEF serverVars
<1>2. queue \subseteq Requests /\ handled \subseteq Requests
  BY DEF TypeOK
<1>3. \A r \in queue \cup handled : r.nonce \in Attempts /\ Sent(r.nonce)'
  BY <1>2, SentStays DEF RequestInv, Requests
<1>4. CASE queue' = queue
  BY <1>1, <1>3, <1>4 DEF RequestInv
<1>5. CASE /\ queue' = queue \cup {Request(c)} /\ job[c].pc = "sending"
           /\ job'[c].pc = "waiting" /\ job'[c].attempt = job[c].attempt
  <2>0. PICK new : new = Request(c)
    OBVIOUS
  <2>1. /\ new.nonce.from = c /\ new.nonce.no = job[c].attempt
        /\ new.stamp = clock \div Ticks + skew[c]
        /\ clock \div Ticks \in Int /\ skew[c] \in Int
        /\ job[c].attempt \in Nat
    BY <2>0, NewRequest, AttemptsAndRequests
  <2>2. ~Sent(new.nonce) /\ Sent(new.nonce)'
    BY <1>5, <2>1 DEF Sent, Asked
  <2>3. \A r \in queue \cup handled : r.nonce # new.nonce
    BY <2>2 DEF RequestInv
  <2>4. new.stamp - skew[new.nonce.from] <= clock \div Ticks
    BY <2>1
  <2>5. queue' = queue \cup {new}
    BY <1>5, <2>0
  <2>6. QED
    BY <1>1, <1>3, <2>2, <2>3, <2>4, <2>5 DEF RequestInv
<1>6. QED
  BY <1>4, <1>5, ClientEffect

LEMMA ClientKeepsIInv ==
  ASSUME UploadAssumption, IInv, NEW c \in Clients, ClientStep(c)
  PROVE  IInv'
<1> USE DEF IInv
<1>1. /\ UNCHANGED <<clock, skew, handled, serverVars, disturbed>>
      /\ answers' \subseteq answers /\ job' \in [Clients -> Jobs]
  BY ClientEffect
<1>2. TypeOK'
  <2>1. queue' \subseteq Requests
    BY ClientEffect, NewRequest DEF TypeOK
  <2>2. QED
    BY <1>1, <2>1 DEF TypeOK, serverVars
<1>3. JobInv' /\ RequestInv'
  BY ClientEffect, ClientKeepsRequests
<1>4. NonceInv' /\ StoreInv'
  BY <1>1 DEF NonceInv, StoreInv, Barred, StoredHere, serverVars
<1>5. \A n : Have(n)' <=> Have(n)
  BY <1>1 DEF Have, serverVars
<1>6. AnswerInv' /\ FreshAttemptNotReplayed'
  BY <1>1, <1>5 DEF AnswerInv, FreshAttemptNotReplayed, serverVars
<1>7. StoredOnce'
  BY <1>1 DEF StoredOnce, serverVars
<1>8. UploadedIsStored'
  <2>1. ASSUME NEW d \in Clients, job'[d].uploaded PROVE Have(NonceOf(d))'
    <3>1. CASE d # c
      <4>1. job'[d] = job[d]
        BY <3>1, ClientEffect DEF SameButFor
      <4>2. NonceOf(d)' = NonceOf(d)
        BY <4>1 DEF NonceOf
      <4>3. QED
        BY <2>1, <4>1, <4>2, <1>5 DEF UploadedIsStored, Have
    <3>2. CASE d = c
      <4>1. job'[c].attempt = job[c].attempt
        BY <2>1, <3>2, ClientEffect
      <4>2. NonceOf(c)' = NonceOf(c)
        BY <4>1 DEF NonceOf
      <4>3. Have(NonceOf(c))
        BY <2>1, <3>2, ClientEffect DEF UploadedIsStored, Have, AnswerInv
      <4>4. QED
        BY <3>2, <4>2, <4>3, <1>5
    <3>3. QED
      BY <3>1, <3>2
  <2>2. QED
    BY <2>1 DEF UploadedIsStored, Have
<1>9. QED
  BY <1>2, <1>3, <1>4, <1>6, <1>7, <1>8

-----------------------------------------------------------------------------
(* Ticks and seconds.                                                      *)

LEMMA SecondOf ==
  ASSUME NEW t \in Nat, NEW T \in Nat \ {0}
  PROVE  /\ t \div T \in Nat
         /\ (t \div T) * T <= t /\ t < (t \div T) * T + T
  OBVIOUS

LEMMA LaterSecond ==
  ASSUME NEW t \in Nat, NEW u \in Nat, t <= u, NEW T \in Nat \ {0}
  PROVE  t \div T <= u \div T
<1> DEFINE q == t \div T
           p == u \div T
<1>1. q \in Nat /\ p \in Nat /\ q * T <= t /\ u < p * T + T
  BY SecondOf
<1> HIDE DEF q, p
<1>2. SUFFICES ASSUME p + 1 <= q PROVE FALSE
  BY <1>1 DEF q, p
<1>3. (p + 1) * T <= q * T
  BY <1>1, <1>2
<1>4. (p + 1) * T = p * T + T
  BY <1>1
<1>5. p * T \in Nat /\ q * T \in Nat
  BY <1>1
<1>6. QED
  BY <1>1, <1>3, <1>4, <1>5

\* After more than L seconds, L new seconds have begun.
LEMMA MuchLater ==
  ASSUME NEW t \in Nat, NEW u \in Nat, NEW T \in Nat \ {0}, NEW L \in Nat,
         u - t > L * T
  PROVE  u \div T >= t \div T + L
<1> DEFINE q == t \div T
           p == u \div T
<1>1. q \in Nat /\ p \in Nat /\ q * T <= t /\ u < p * T + T
  BY SecondOf
<1> HIDE DEF q, p
<1>2. SUFFICES ASSUME p + 1 <= q + L PROVE FALSE
  BY <1>1 DEF q, p
<1>3. (p + 1) * T <= (q + L) * T
  BY <1>1, <1>2
<1>4. (p + 1) * T = p * T + T /\ (q + L) * T = q * T + L * T
  BY <1>1
<1>5. p * T \in Nat /\ q * T \in Nat /\ L * T \in Nat
  BY <1>1
<1>6. QED
  BY <1>1, <1>3, <1>4, <1>5

\* What the server forgets is out of the window of every request of it.
LEMMA Forgetting ==
  ASSUME UploadAssumption, TypeOK, NonceInv, NEW n \in Attempts,
         skew[n.from] < Window, nonces[n] # Never, Remembered[n] = Never,
         NEW h \in handled, h.nonce = n
  PROVE  clock \div Ticks > h.stamp + Window
<1> DEFINE t == nonces[n]
           now == clock \div Ticks
           then == t \div Ticks
<1>1. /\ t \in Nat /\ clock \in Nat /\ Ticks \in Nat \ {0}
      /\ NonceLife \in Nat /\ Window \in Nat /\ 2 * Window <= NonceLife
  BY DEF TypeOK, UploadAssumption
<1>2. clock - t > NonceLife * Ticks
  BY DEF Remembered
<1>3. now >= then + NonceLife /\ now \in Nat /\ then \in Nat
  <2> HIDE DEF t
  <2>1. QED
    BY <1>1, <1>2, MuchLater, SecondOf
<1>4. h.stamp - skew[n.from] <= then
  BY DEF NonceInv
<1>5. h.stamp \in Int /\ skew[n.from] \in Int
  BY DEF TypeOK, UploadAssumption, Requests, Attempts
<1> HIDE DEF now, then
<1>6. now > h.stamp + Window
  BY <1>1, <1>3, <1>4, <1>5
<1>7. QED
  BY <1>6 DEF now

-----------------------------------------------------------------------------
(* Taking a request.                                                       *)

\* What the check of a request comes to.
LEMMA CheckEffect ==
  ASSUME UploadAssumption, TypeOK, NEW r \in Requests, NEW again \in BOOLEAN,
         Check(r, again)
  PROVE  /\ \A a \in answers' \ answers :
               /\ ~again /\ a.nonce = r.nonce /\ a.status \in {400, 403, 409}
               /\ a.status = 409 => Remembered[r.nonce] # Never
               /\ a \in [nonce : Attempts, status : Statuses]
         /\ \/ nonces' \in {nonces, Remembered} /\ busy' = busy
            \/ /\ InWindow(r) /\ Remembered[r.nonce] = Never
               /\ nonces' = [Remembered EXCEPT ![r.nonce] = clock]
               /\ \/ busy' = busy
                  \/ busy' = [step |-> "save", nonce |-> r.nonce, again |-> again]
<1>1. r.nonce \in Attempts
  BY DEF Requests
<1>2. ASSUME NEW status \in {400, 403, 409}, Respond(r.nonce, status, again)
      PROVE  \A a \in answers' \ answers :
               /\ ~again /\ a = [nonce |-> r.nonce, status |-> status]
               /\ a.nonce = r.nonce /\ a.status = status
               /\ a \in [nonce : Attempts, status : Statuses]
  BY <1>1, <1>2 DEF Respond, Statuses
<1>3. CASE Respond(r.nonce, 403, again) /\ UNCHANGED <<nonces, busy>>
  BY <1>2, <1>3
<1>4. CASE /\ Remembered[r.nonce] # Never /\ Respond(r.nonce, 409, again)
           /\ nonces' = Remembered /\ UNCHANGED busy
  BY <1>2, <1>4
<1>5. CASE /\ InWindow(r) /\ Remembered[r.nonce] = Never
           /\ nonces' = [Remembered EXCEPT ![r.nonce] = clock]
           /\ busy' = [step |-> "save", nonce |-> r.nonce, again |-> again]
           /\ UNCHANGED answers
  BY <1>5
<1>6. CASE /\ InWindow(r) /\ Remembered[r.nonce] = Never
           /\ nonces' = [Remembered EXCEPT ![r.nonce] = clock]
           /\ \E status \in {400, 403} : Respond(r.nonce, status, again)
           /\ UNCHANGED busy
  BY <1>2, <1>6
<1>7. CASE ~InWindow(r)
  BY <1>3, <1>7 DEF Check
<1>8. CASE InWindow(r) /\ Remembered[r.nonce] # Never
  BY <1>4, <1>8 DEF Check
<1>9. CASE InWindow(r) /\ Remembered[r.nonce] = Never
  <2>1. nonces' = [Remembered EXCEPT ![r.nonce] = clock]
    BY <1>9 DEF Check
  <2>2. CASE r.signed /\ r.fits
    <3>1. /\ busy' = [step |-> "save", nonce |-> r.nonce, again |-> again]
          /\ UNCHANGED answers
      BY <1>9, <2>2 DEF Check
    <3>2. QED
      BY <1>5, <1>9, <2>1, <3>1
  <2>3. CASE ~(r.signed /\ r.fits)
    <3>1. /\ \E status \in {400, 403} : Respond(r.nonce, status, again)
          /\ UNCHANGED busy
      BY <1>9, <2>3 DEF Check
    <3>2. QED
      BY <1>6, <1>9, <2>1, <3>1
  <2>4. QED
    BY <2>2, <2>3
<1>10. QED
  BY <1>7, <1>8, <1>9

\* A request the server takes: one of its queue, or one it gets again.
Taken(r, again) ==
    \/ /\ ~again /\ r \in queue
       /\ queue' = queue \ {r} /\ handled' = handled \cup {r}
    \/ /\ again /\ UNCHANGED <<queue, handled>>
       /\ \E h \in handled : h.nonce = r.nonce /\ h.stamp = r.stamp

LEMMA RememberedType ==
  ASSUME TypeOK
  PROVE  /\ Remembered \in [Attempts -> Nat \cup {Never}]
         /\ \A n \in Attempts : Remembered[n] # Never => Remembered[n] = nonces[n]
  BY DEF TypeOK, Remembered

LEMMA CheckKeepsIInv ==
  ASSUME UploadAssumption, IInv, busy = Nobody, up, NEW r \in Requests,
         NEW again \in BOOLEAN, Check(r, again), Taken(r, again),
         UNCHANGED <<clock, skew, job, up, life, reports>>, disturbed' \in Nat
  PROVE  IInv'
<1> USE DEF IInv
<1>n. r.nonce \in Attempts /\ r.stamp \in Int
  BY DEF Requests
<1>h. /\ handled \subseteq handled' /\ handled' \subseteq handled \cup {r}
      /\ \E h \in handled' : h.nonce = r.nonce
      /\ \A h \in handled' : h \in queue \cup handled
      /\ again => handled' = handled
      /\ ~again => r \in queue /\ \A h \in handled : h.nonce # r.nonce
  BY DEF Taken, RequestInv
<1>c. /\ \A a \in answers' \ answers :
            /\ ~again /\ a.nonce = r.nonce /\ a.status \in {400, 403, 409}
            /\ a.status = 409 => Remembered[r.nonce] # Never
            /\ a \in [nonce : Attempts, status : Statuses]
      /\ \/ nonces' \in {nonces, Remembered} /\ busy' = busy
         \/ /\ InWindow(r) /\ Remembered[r.nonce] = Never
            /\ nonces' = [Remembered EXCEPT ![r.nonce] = clock]
            /\ \/ busy' = busy
               \/ busy' = [step |-> "save", nonce |-> r.nonce, again |-> again]
  BY CheckEffect
<1>r. /\ Remembered \in [Attempts -> Nat \cup {Never}]
      /\ \A n \in Attempts : Remembered[n] # Never => Remembered[n] = nonces[n]
  BY RememberedType
<1>v. /\ nonces' \in [Attempts -> Nat \cup {Never}]
      /\ \A n \in Attempts : nonces'[n] # Never =>
            nonces'[n] = nonces[n] \/ (n = r.nonce /\ nonces'[n] = clock)
      /\ \A n \in Attempts : nonces'[n] = Never => Remembered[n] = Never \/
                                                  nonces[n] = Never
  BY <1>c, <1>r, <1>n DEF TypeOK, Never
<1>b. \/ busy' = Nobody
      \/ /\ busy' = [step |-> "save", nonce |-> r.nonce, again |-> again]
         /\ InWindow(r) /\ Remembered[r.nonce] = Never
         /\ nonces'[r.nonce] = clock
  BY <1>c, <1>r, <1>n
<1>1. TypeOK'
  <2>1. queue' \subseteq Requests /\ handled' \subseteq Requests
    BY DEF TypeOK, Taken
  <2>2. answers' \subseteq [nonce : Attempts, status : Statuses]
    BY <1>c DEF TypeOK
  <2>3. busy' = Nobody \/ busy' \in Work
    BY <1>b, <1>n DEF Work
  <2>4. QED
    BY <2>1, <2>2, <2>3, <1>v DEF TypeOK
<1>2. JobInv' /\ UploadedIsStored' /\ StoredOnce'
  BY DEF JobInv, UploadedIsStored, StoredOnce, NonceOf
<1>3. RequestInv'
  <2>1. \A n : Sent(n)' <=> Sent(n)
    BY DEF Sent
  <2>2. /\ queue' \subseteq queue /\ queue' \cup handled' \subseteq queue \cup handled
        /\ ~again => r \notin queue'
    BY <1>h DEF Taken
  <2>3. \A q \in queue', h \in handled' : q.nonce # h.nonce
    BY <1>h, <2>2 DEF RequestInv
  <2>4. QED
    BY <2>1, <2>2, <2>3 DEF RequestInv
<1>4. NonceInv'
  <2>1. ASSUME NEW n \in Attempts, nonces'[n] # Never
        PROVE  /\ nonces'[n] <= clock
               /\ \E h \in handled' : h.nonce = n
               /\ \A h \in handled' : h.nonce = n =>
                     h.stamp - skew[n.from] <= nonces'[n] \div Ticks
    <3>1. CASE nonces'[n] = nonces[n]
      <4>1. \E h \in handled : h.nonce = n
        BY <2>1, <3>1 DEF NonceInv
      <4>2. \A h \in handled' : h.nonce = n => h \in handled
        BY <4>1, <1>h
      <4>3. QED
        BY <2>1, <3>1, <4>1, <4>2, <1>h DEF NonceInv
    <3>2. CASE n = r.nonce /\ nonces'[n] = clock
      <4>1. clock <= clock
        BY DEF TypeOK
      <4>2. QED
        BY <3>2, <4>1, <1>h DEF RequestInv
    <3>3. QED
      BY <2>1, <3>1, <3>2, <1>v
  <2>2. QED
    BY <2>1 DEF NonceInv
<1>f. ASSUME NEW n \in Attempts, skew[n.from] < Window, Barred(n),
             Remembered[n] = Never, NEW h \in handled, h.nonce = n
      PROVE  clock \div Ticks > h.stamp + Window
  BY <1>f, Forgetting DEF Barred
<1>5. StoreInv'
  <2>1. busy' # Nobody => up' /\ nonces'[busy'.nonce] # Never
    BY <1>b DEF TypeOK, Never
  <2>2. ASSUME busy'.step \in {"save", "close"}, skew[busy'.nonce.from] < Window,
               StoredHere(busy'.nonce)
        PROVE  FALSE
    <3>1. /\ busy'.nonce = r.nonce /\ InWindow(r) /\ Remembered[r.nonce] = Never
      BY <2>2, <1>b DEF Nobody
    <3>2. PICK i \in 1..Len(reports) : reports[i].nonce = r.nonce /\
                                       reports[i].life = life
      BY <2>2, <3>1 DEF StoredHere
    <3>3. /\ \E h \in handled : h.nonce = r.nonce
          /\ Barred(r.nonce)
      BY <2>2, <3>1, <3>2 DEF StoreInv
    <3>4. PICK h \in handled : h.nonce = r.nonce /\ h.stamp = r.stamp
      BY <3>3, <1>h DEF Taken
    <3>5. clock \div Ticks > r.stamp + Window
      BY <1>f, <1>n, <2>2, <3>1, <3>3, <3>4
    <3>6. clock \div Ticks - r.stamp <= Window
      <4>1. clock \div Ticks \in Int /\ Window \in Int
        BY SecondOf DEF TypeOK, UploadAssumption
      <4>2. QED
        BY <3>1, <1>n, <4>1 DEF InWindow, AbsInt
    <3>7. clock \div Ticks \in Int /\ Window \in Int
      BY SecondOf DEF TypeOK, UploadAssumption
    <3>8. QED
      BY <3>5, <3>6, <3>7, <1>n
  <2>3. ASSUME NEW i \in 1..Len(reports)
        PROVE  /\ reports[i].life <= life
               /\ \E h \in handled' : h.nonce = reports[i].nonce
               /\ up /\ reports[i].life = life /\ skew[reports[i].nonce.from] < Window
                     => Barred(reports[i].nonce)'
    <3> DEFINE n == reports[i].nonce
    <3>0. reports[i] \in Reports
      BY DEF TypeOK
    <3>1. /\ reports[i].life <= life /\ \E h \in handled : h.nonce = n
          /\ n \in Attempts
      BY <3>0 DEF StoreInv, Reports
    <3>2. ASSUME reports[i].life = life, skew[n.from] < Window
          PROVE  nonces'[n] # Never \/
                 \A h \in handled' : h.nonce = n => clock \div Ticks > h.stamp + Window
      <4>1. Barred(n)
        BY <3>2 DEF StoreInv
      <4>2. \A h \in handled' : h.nonce = n => h \in handled
        BY <3>1, <1>h
      <4>3. CASE nonces[n] = Never
        BY <4>1, <4>2, <4>3 DEF Barred
      <4>4. CASE Remembered[n] = Never
        BY <4>1, <4>2, <4>4, <1>f, <3>1, <3>2
      <4>5. QED
        BY <4>3, <4>4, <1>v, <3>1
    <3>3. QED
      BY <3>1, <3>2, <1>h DEF Barred
  <2>4. QED
    BY <2>1, <2>2, <2>3 DEF StoreInv, StoredHere
<1>6. AnswerInv' /\ FreshAttemptNotReplayed'
  <2>1. \A n : Have(n)' <=> Have(n)
    BY DEF Have
  <2>2. busy'.step # "answer"
    BY <1>b DEF Nobody
  <2>3. ASSUME NEW a \in answers' PROVE a.status # 409
    <3>1. CASE a \in answers
      BY <3>1 DEF FreshAttemptNotReplayed
    <3>2. CASE a \notin answers
      <4>1. ~again /\ (a.status = 409 => nonces[r.nonce] # Never)
        BY <3>2, <1>c, <1>r, <1>n
      <4>2. nonces[r.nonce] = Never
        BY <4>1, <1>h, <1>n DEF NonceInv
      <4>3. QED
        BY <4>1, <4>2
    <3>3. QED
      BY <3>1, <3>2
  <2>4. QED
    BY <2>1, <2>2, <2>3, <1>c DEF AnswerInv, FreshAttemptNotReplayed
<1>7. QED
  BY <1>1, <1>2, <1>3, <1>4, <1>5, <1>6
LEMMA TakingKeepsIInv ==
  ASSUME UploadAssumption, IInv, Take \/ TakeAgain
  PROVE  IInv'
<1>1. CASE Take
  <2>1. PICK r \in queue : /\ queue' = queue \ {r} /\ handled' = handled \cup {r}
                           /\ Check(r, FALSE)
    BY <1>1 DEF Take
  <2>2. r \in Requests /\ Taken(r, FALSE)
    BY <2>1 DEF IInv, TypeOK, Taken
  <2>3. /\ busy = Nobody /\ up
        /\ UNCHANGED <<clock, skew, job, up, life, reports>> /\ disturbed' \in Nat
    BY <1>1 DEF Take, IInv, TypeOK
  <2>4. QED
    BY <2>1, <2>2, <2>3, CheckKeepsIInv
<1>2. CASE TakeAgain
  <2>1. PICK h \in handled, intact \in BOOLEAN :
           Check([h EXCEPT !.signed = @ /\ intact], TRUE)
    BY <1>2 DEF TakeAgain
  <2>2. PICK r : r = [h EXCEPT !.signed = @ /\ intact]
    OBVIOUS
  <2>3. h \in Requests
    BY DEF IInv, TypeOK
  <2>4. r \in Requests /\ r.nonce = h.nonce /\ r.stamp = h.stamp
    BY <2>2, <2>3 DEF Requests
  <2>5. /\ busy = Nobody /\ up /\ UNCHANGED <<queue, handled>>
        /\ UNCHANGED <<clock, skew, job, up, life, reports>>
    BY <1>2 DEF TakeAgain
  <2>6. disturbed' \in Nat
    BY <1>2 DEF TakeAgain, Disturb, IInv, TypeOK
  <2>7. Taken(r, TRUE) /\ Check(r, TRUE)
    BY <2>1, <2>2, <2>4, <2>5 DEF Taken
  <2>8. QED
    BY <2>4, <2>5, <2>6, <2>7, CheckKeepsIInv
<1>3. QED
  BY <1>1, <1>2

-----------------------------------------------------------------------------
(* Storing a report, answering, and the end of a process.                  *)

LEMMA SkewType ==
  ASSUME UploadAssumption, skew \in [Clients -> Skews], NEW c \in Clients
  PROVE  skew[c] \in Int /\ Window \in Int
<1>1. Skews \subseteq Int /\ Window \in Nat
  BY DEF UploadAssumption
<1>2. skew[c] \in Skews
  OBVIOUS
<1>3. skew[c] \in Int
  BY <1>1, <1>2, Zenon
<1>4. QED
  BY <1>1, <1>3

\* What is stored is one more report, of the attempt the server works on.
LEMMA Storing ==
  ASSUME UploadAssumption, IInv, busy.step \in {"save", "close"},
         NEW whole \in BOOLEAN, NEW lost \in BOOLEAN,
         reports' = Stored(whole, lost), UNCHANGED <<clock, skew, job>>
  PROVE  /\ reports' \in Seq(Reports)
         /\ \A i \in 1..Len(reports') :
               \/ i \in 1..Len(reports) /\ reports'[i] = reports[i]
               \/ reports'[i].nonce = busy.nonce /\ reports'[i].life = life
         /\ \A n : Have(n) => Have(n)'
         /\ \A n : n = busy.nonce /\ (whole \/ lost) => Have(n)'
         /\ StoredOnce' /\ UploadedIsStored'
<1> DEFINE new == [nonce |-> busy.nonce, life |-> life, whole |-> whole,
                   lost |-> lost]
           last == Len(reports) + 1
<1>0. skew \in [Clients -> Skews]
  BY DEF IInv, TypeOK
<1>1. busy \in Work /\ busy # Nobody
  BY DEF IInv, TypeOK, Nobody
<1>2. new \in Reports /\ reports \in Seq(Reports)
  BY <1>1 DEF IInv, TypeOK, Work, Reports
<1>3. reports' = Append(reports, new)
  BY DEF Stored
<1>4. /\ reports' \in Seq(Reports) /\ Len(reports') = last /\ Len(reports) \in Nat
      /\ \A i \in 1..Len(reports) : reports'[i] = reports[i]
      /\ reports'[last] = new
  BY <1>2, <1>3
<1>5. new.nonce = busy.nonce /\ new.life = life /\ new.whole = whole /\ new.lost = lost
  OBVIOUS
<1> HIDE DEF new
<1>6. \A i \in 1..Len(reports') :
         \/ i \in 1..Len(reports) /\ reports'[i] = reports[i]
         \/ i = last /\ reports'[i] = new
  BY <1>4
<1>7. \A n : Have(n) => Have(n)'
  BY <1>4 DEF Have
<1>8. \A n : n = busy.nonce /\ (whole \/ lost) => Have(n)'
  <2>1. /\ last \in 1..Len(reports') /\ reports'[last].nonce = busy.nonce
        /\ reports'[last].whole = whole /\ reports'[last].lost = lost
    BY <1>4, <1>5
  <2>2. QED
    BY <2>1 DEF Have
<1>9. StoredOnce'
  <2>1. ASSUME NEW i \in 1..Len(reports), reports[i].life = life,
               reports[i].nonce = busy.nonce
        PROVE  skew[busy.nonce.from] >= Window
    <3>1. StoredHere(busy.nonce)
      BY <2>1 DEF StoredHere
    <3>2. ~(skew[busy.nonce.from] < Window)
      BY <3>1 DEF IInv, StoreInv
    <3>3. skew[busy.nonce.from] \in Int /\ Window \in Int
      <4>1. busy.nonce.from \in Clients
        BY <1>1 DEF Work, Attempts
      <4>2. QED
        BY <4>1, <1>0, SkewType
    <3>4. QED
      BY <3>2, <3>3
  <2>2. ASSUME NEW i \in 1..Len(reports'), NEW j \in 1..Len(reports'), i # j,
               reports'[i].life = reports'[j].life,
               reports'[i].nonce = reports'[j].nonce
        PROVE  skew[reports'[i].nonce.from] >= Window
    <3>1. CASE /\ i \in 1..Len(reports) /\ reports'[i] = reports[i]
               /\ j \in 1..Len(reports) /\ reports'[j] = reports[j]
      BY <2>2, <3>1 DEF IInv, StoredOnce
    <3>2. CASE /\ i \in 1..Len(reports) /\ reports'[i] = reports[i]
               /\ reports'[j] = new
      BY <2>1, <2>2, <3>2, <1>5
    <3>3. CASE /\ j \in 1..Len(reports) /\ reports'[j] = reports[j]
               /\ reports'[i] = new
      BY <2>1, <2>2, <3>3, <1>5
    <3>4. QED
      BY <2>2, <3>1, <3>2, <3>3, <1>6
  <2>3. QED
    BY <2>2 DEF StoredOnce
<1>10. UploadedIsStored'
  BY <1>7 DEF IInv, UploadedIsStored, Have, NonceOf
<1>11. QED
  BY <1>4, <1>5, <1>6, <1>7, <1>8, <1>9, <1>10

\* What the store says about the attempts survives a step that keeps what the
\* server remembers.
LEMMA StoringKeepsStore ==
  ASSUME UploadAssumption, IInv, busy.step \in {"save", "close"},
         UNCHANGED <<clock, skew, life>>, handled \subseteq handled',
         \A i \in 1..Len(reports') :
               \/ i \in 1..Len(reports) /\ reports'[i] = reports[i]
               \/ reports'[i].nonce = busy.nonce /\ reports'[i].life = life,
         NEW i \in 1..Len(reports')
  PROVE  /\ reports'[i].life <= life
         /\ \E h \in handled' : h.nonce = reports'[i].nonce
         /\ (/\ UNCHANGED <<up, handled, nonces>> /\ up /\ reports'[i].life = life
             /\ skew[reports'[i].nonce.from] < Window)
               => Barred(reports[i].nonce)'
<1>1. CASE i \in 1..Len(reports) /\ reports'[i] = reports[i]
  <2>1. /\ reports[i].life <= life /\ \E h \in handled : h.nonce = reports[i].nonce
        /\ up /\ reports[i].life = life /\ skew[reports[i].nonce.from] < Window
              => Barred(reports[i].nonce)
    BY <1>1 DEF IInv, StoreInv
  <2>2. UNCHANGED <<up, handled, nonces>> =>
           (Barred(reports[i].nonce)' <=> Barred(reports[i].nonce))
    BY <1>1 DEF Barred, IInv, TypeOK
  <2>3. \E h \in handled' : h.nonce = reports'[i].nonce
    BY <1>1, <2>1
  <2>4. UNCHANGED <<up, handled, nonces>> /\ up /\ reports'[i].life = life
            /\ skew[reports'[i].nonce.from] < Window
        => Barred(reports[i].nonce)'
    BY <1>1, <2>1, <2>2
  <2>5. QED
    BY <1>1, <2>1, <2>3, <2>4
<1>2. CASE reports'[i].nonce = busy.nonce /\ reports'[i].life = life
  <2>1. busy \in Work /\ nonces[busy.nonce] # Never /\ life \in Nat
    BY DEF IInv, TypeOK, StoreInv, Nobody
  <2>2. \E h \in handled : h.nonce = busy.nonce
    BY <2>1 DEF IInv, NonceInv, Work
  <2>3. nonces' = nonces => Barred(reports[i].nonce)'
    BY <1>2, <2>1 DEF Barred
  <2>4. reports'[i].life <= life
    BY <1>2, <2>1
  <2>5. \E h \in handled' : h.nonce = reports'[i].nonce
    BY <1>2, <2>2
  <2>6. QED
    BY <2>3, <2>4, <2>5
<1>3. QED
  BY <1>1, <1>2

LEMMA Responding ==
  ASSUME TypeOK, NEW n \in Attempts, NEW status \in Statuses,
         NEW again \in BOOLEAN, Respond(n, status, again)
  PROVE  /\ answers' \subseteq [nonce : Attempts, status : Statuses]
         /\ \A a \in answers' : a \in answers \/ (a.nonce = n /\ a.status = status)
<1>1. answers' \subseteq answers \cup {[nonce |-> n, status |-> status]}
  BY DEF Respond
<1>2. QED
  BY <1>1 DEF TypeOK

\* The invariant after a step that leaves tools, requests, nonces and time alone.
LEMMA SavingKeepsIInv ==
  ASSUME UploadAssumption, IInv, Save \/ Close \/ Answer
  PROVE  IInv'
<1> USE DEF IInv
<1>0. busy \in Work /\ busy.nonce \in Attempts /\ busy.again \in BOOLEAN
  <2>1. busy.step # "none"
    BY DEF Save, Close, Answer
  <2>2. busy # Nobody
    BY <2>1 DEF Nobody
  <2>3. QED
    BY <2>2 DEF TypeOK, Work
<1>1. UNCHANGED <<clock, skew, job, queue, handled, up, life, nonces>>
  BY DEF Save, Close, Answer
<1>2. JobInv' /\ RequestInv' /\ NonceInv'
  BY <1>1 DEF JobInv, RequestInv, NonceInv, Sent
<1>3. disturbed' \in Nat
  <2>1. UNCHANGED disturbed \/ Disturb
    BY DEF Save, Close, Answer
  <2>2. QED
    BY <2>1 DEF Disturb, TypeOK
<1>d. \A n : Barred(n)' <=> Barred(n)
  BY <1>1 DEF Barred
<1>4. CASE /\ busy.step \in {"save", "answer"} /\ UNCHANGED reports
           /\ \/ busy.step = "save" /\ UNCHANGED answers
                 /\ busy' = [busy EXCEPT !.step = "close"]
              \/ busy.step = "answer" /\ Respond(busy.nonce, 201, busy.again)
                 /\ busy' = Nobody
  <2>1. \/ busy' = Nobody
        \/ /\ busy.step = "save" /\ busy'.step = "close" /\ busy'.nonce = busy.nonce
           /\ busy' \in Work
    BY <1>4, <1>0 DEF Work
  <2>2. /\ answers' \subseteq [nonce : Attempts, status : Statuses]
        /\ \A a \in answers' : a \in answers \/
              (busy.step = "answer" /\ a.nonce = busy.nonce /\ a.status = 201)
    BY <1>0, <1>4, Responding DEF Statuses, TypeOK
  <2>3. TypeOK'
    BY <1>1, <1>3, <1>4, <2>1, <2>2 DEF TypeOK
  <2>4. StoreInv'
    BY <1>1, <1>4, <2>1, <1>d DEF StoreInv, StoredHere, Nobody
  <2>5. /\ \A n : Have(n)' <=> Have(n)
        /\ StoredOnce' /\ UploadedIsStored'
    BY <1>1, <1>4 DEF Have, StoredOnce, UploadedIsStored, NonceOf
  <2>6. busy'.step # "answer"
    BY <2>1 DEF Nobody
  <2>7. AnswerInv' /\ FreshAttemptNotReplayed'
    BY <2>2, <2>5, <2>6 DEF AnswerInv, FreshAttemptNotReplayed
  <2>8. QED
    BY <1>2, <2>3, <2>4, <2>5, <2>7
<1>5. ASSUME NEW whole \in BOOLEAN, NEW lost \in BOOLEAN,
             busy.step \in {"save", "close"}, reports' = Stored(whole, lost),
             \/ /\ busy' = Nobody /\ Respond(busy.nonce, 400, busy.again)
             \/ /\ busy' = [busy EXCEPT !.step = "answer"] /\ UNCHANGED answers
                /\ whole \/ lost
      PROVE  IInv'
  <2>1. /\ reports' \in Seq(Reports)
        /\ \A i \in 1..Len(reports') :
               \/ i \in 1..Len(reports) /\ reports'[i] = reports[i]
               \/ reports'[i].nonce = busy.nonce /\ reports'[i].life = life
        /\ \A n : Have(n) => Have(n)'
        /\ \A n : n = busy.nonce /\ (whole \/ lost) => Have(n)'
        /\ StoredOnce' /\ UploadedIsStored'
    BY <1>1, <1>5, Storing
  <2>2. /\ busy' = Nobody \/ (busy'.step = "answer" /\ busy' \in Work)
        /\ busy'.step # "answer" \/ (busy'.nonce = busy.nonce /\ (whole \/ lost))
    BY <1>0, <1>5 DEF Work, Nobody
  <2>3. /\ answers' \subseteq [nonce : Attempts, status : Statuses]
        /\ \A a \in answers' : a \in answers \/ a.status = 400
    BY <1>0, <1>5, Responding DEF Statuses, TypeOK
  <2>4. TypeOK'
    BY <1>1, <1>3, <2>1, <2>2, <2>3 DEF TypeOK
  <2>5. StoreInv'
    <3>1. busy' # Nobody => up' /\ nonces'[busy'.nonce] # Never
      BY <1>1, <1>5, <2>2 DEF StoreInv, Nobody
    <3>2. busy'.step \notin {"save", "close"}
      BY <2>2 DEF Nobody
    <3>3. ASSUME NEW i \in 1..Len(reports')
          PROVE  /\ reports'[i].life <= life
                 /\ \E h \in handled' : h.nonce = reports'[i].nonce
                 /\ up /\ reports'[i].life = life
                    /\ skew[reports'[i].nonce.from] < Window
                       => Barred(reports[i].nonce)'
      BY <1>1, <1>5, <2>1, StoringKeepsStore
    <3>4. up' = up /\ life' = life /\ skew' = skew
      BY <1>1
    <3>5. \A i \in 1..Len(reports') :
             /\ reports'[i].life <= life'
             /\ \E h \in handled' : h.nonce = reports'[i].nonce
             /\ up' /\ reports'[i].life = life' /\ skew'[reports'[i].nonce.from] < Window
                   => Barred(reports[i].nonce)'
      BY <3>3, <3>4
    <3>6. QED
      BY <3>1, <3>2, <3>5 DEF StoreInv
  <2>6. AnswerInv' /\ FreshAttemptNotReplayed'
    BY <2>1, <2>2, <2>3 DEF AnswerInv, FreshAttemptNotReplayed
  <2>7. QED
    BY <1>2, <2>1, <2>4, <2>5, <2>6
<1>6. CASE Save
  BY <1>4, <1>5, <1>6 DEF Save
<1>7. CASE Close
  BY <1>5, <1>7 DEF Close
<1>8. CASE Answer
  BY <1>4, <1>8 DEF Answer
<1>9. QED
  BY <1>6, <1>7, <1>8

LEMMA DyingKeepsIInv ==
  ASSUME UploadAssumption, IInv, ServerDies
  PROVE  IInv'
<1> USE DEF IInv
<1>1. /\ UNCHANGED <<clock, skew, job, life, disturbed>> /\ up' = FALSE
      /\ queue' = {} /\ answers' = {} /\ handled' = handled \cup queue
      /\ busy' = Nobody /\ nonces' = [n \in Attempts |-> Never]
  BY DEF ServerDies
<1>2. /\ reports' \in Seq(Reports) /\ StoredOnce' /\ UploadedIsStored'
      /\ \A i \in 1..Len(reports') : /\ reports'[i].life <= life
                                     /\ \E h \in handled' : h.nonce = reports'[i].nonce
  <2>1. CASE UNCHANGED reports
    BY <1>1, <2>1 DEF TypeOK, StoredOnce, UploadedIsStored, StoreInv, NonceOf
  <2>2. CASE busy.step = "close" /\ \E whole \in BOOLEAN : reports' = Stored(whole, FALSE)
    <3>1. PICK whole \in BOOLEAN : reports' = Stored(whole, FALSE)
      BY <2>2
    <3>2. /\ reports' \in Seq(Reports) /\ StoredOnce' /\ UploadedIsStored'
          /\ \A i \in 1..Len(reports') :
               \/ i \in 1..Len(reports) /\ reports'[i] = reports[i]
               \/ reports'[i].nonce = busy.nonce /\ reports'[i].life = life
      BY <1>1, <2>2, <3>1, Storing
    <3>3. handled \subseteq handled' /\ UNCHANGED <<clock, skew, life>>
      BY <1>1
    <3>4. QED
      BY <2>2, <3>2, <3>3, StoringKeepsStore
  <2>3. QED
    BY <2>1, <2>2 DEF ServerDies
<1>3. TypeOK'
  BY <1>1, <1>2 DEF TypeOK
<1>4. JobInv' /\ RequestInv'
  BY <1>1 DEF JobInv, RequestInv, Sent
<1>5. NonceInv'
  BY <1>1 DEF NonceInv
<1>6. StoreInv'
  BY <1>1, <1>2 DEF StoreInv, Nobody
<1>7. AnswerInv' /\ FreshAttemptNotReplayed'
  BY <1>1 DEF AnswerInv, FreshAttemptNotReplayed, Nobody
<1>8. QED
  BY <1>2, <1>3, <1>4, <1>5, <1>6, <1>7

\* A new process has stored nothing yet.
LEMMA RestartKeepsIInv ==
  ASSUME UploadAssumption, IInv, ServerStarts
  PROVE  IInv'
<1> USE DEF IInv
<1>1. /\ UNCHANGED <<clock, skew, job, queue, handled, answers, busy, nonces,
                     reports, disturbed>>
      /\ ~up /\ up' = TRUE /\ life' = life + 1 /\ life \in Nat
  BY DEF ServerStarts, TypeOK
<1>2. TypeOK'
  BY <1>1 DEF TypeOK
<1>3. JobInv' /\ RequestInv' /\ NonceInv' /\ AnswerInv'
  BY <1>1 DEF JobInv, RequestInv, Sent, NonceInv, AnswerInv, Have
<1>4. StoredOnce' /\ UploadedIsStored' /\ FreshAttemptNotReplayed'
  BY <1>1 DEF StoredOnce, UploadedIsStored, NonceOf, FreshAttemptNotReplayed
<1>5. StoreInv'
  <2>1. busy = Nobody
    BY <1>1 DEF StoreInv
  <2>2. ASSUME NEW i \in 1..Len(reports)
        PROVE  reports[i].life <= life + 1 /\ reports[i].life # life + 1
    <3>1. reports[i] \in Reports
      BY DEF TypeOK
    <3>2. reports[i].life \in Nat /\ reports[i].life <= life
      BY <3>1 DEF Reports, StoreInv
    <3>3. QED
      BY <3>2, <1>1
  <2>3. QED
    BY <1>1, <2>1, <2>2 DEF StoreInv, Nobody
<1>6. QED
  BY <1>2, <1>3, <1>4, <1>5

LEMMA TickKeepsIInv ==
  ASSUME UploadAssumption, IInv, Tick
  PROVE  IInv'
<1> USE DEF IInv
<1>1. /\ UNCHANGED <<skew, job, queue, handled, answers, serverVars, disturbed>>
      /\ clock' = clock + 1 /\ clock \in Nat /\ Ticks \in Nat \ {0}
      /\ clock' \in Nat /\ clock <= clock'
  BY DEF Tick, TypeOK, UploadAssumption
<1> DEFINE now == clock \div Ticks
           later == clock' \div Ticks
<1>2. now \in Nat /\ later \in Nat /\ now <= later
  BY <1>1, SecondOf, LaterSecond
<1> HIDE DEF now, later
<1>3. TypeOK'
  BY <1>1 DEF TypeOK, serverVars
<1>4. JobInv' /\ AnswerInv' /\ StoredOnce' /\ UploadedIsStored'
      /\ FreshAttemptNotReplayed'
  BY <1>1 DEF JobInv, AnswerInv, Have, StoredOnce, UploadedIsStored, NonceOf,
              FreshAttemptNotReplayed, serverVars
<1>5. \A r \in queue \cup handled : /\ r.stamp \in Int /\ skew[r.nonce.from] \in Int
                                    /\ r.nonce \in Attempts
  BY DEF TypeOK, Requests, Attempts, UploadAssumption
<1>6. RequestInv'
  <2>1. \A r \in queue \cup handled : r.stamp - skew[r.nonce.from] <= now
    BY DEF RequestInv, now
  <2>2. \A r \in queue \cup handled : r.stamp - skew[r.nonce.from] <= later
    BY <1>2, <1>5, <2>1
  <2>3. QED
    BY <1>1, <2>2 DEF RequestInv, Sent, later
<1>7. NonceInv'
  <2>1. \A n \in Attempts : nonces[n] # Never => nonces[n] \in Nat
    BY DEF TypeOK, Never
  <2>2. QED
    BY <1>1, <2>1 DEF NonceInv, serverVars
<1>8. StoreInv'
  <2>1. ASSUME NEW n, Barred(n) PROVE Barred(n)'
    <3>1. CASE nonces[n] # Never
      BY <1>1, <3>1 DEF Barred, serverVars
    <3>2. CASE \A h \in handled : h.nonce = n => now > h.stamp + Window
      <4>1. \A h \in handled : h.nonce = n => later > h.stamp + Window
        BY <1>2, <1>5, <3>2 DEF UploadAssumption
      <4>2. QED
        BY <1>1, <4>1 DEF Barred, later, serverVars
    <3>3. QED
      BY <2>1, <3>1, <3>2 DEF Barred, now
  <2>2. QED
    BY <1>1, <2>1 DEF StoreInv, StoredHere, serverVars
<1>9. QED
  BY <1>3, <1>4, <1>6, <1>7, <1>8

-----------------------------------------------------------------------------
LEMMA InitIInv == ASSUME UploadAssumption, Init PROVE IInv
<1>1. TypeOK
  <2>1. job \in [Clients -> Jobs]
    BY DEF Init, Jobs, UploadAssumption
  <2>2. QED
    BY <2>1 DEF Init, TypeOK, Never, UploadAssumption
<1>2. JobInv /\ UploadedIsStored
  <2>1. PICK running \in SUBSET Clients :
         job = [c \in Clients |->
             [pc |-> IF c \in running THEN "idle" ELSE "exited", attempt |-> 1,
              bound |-> FALSE, fits |-> FALSE,
              uploaded |-> FALSE, exit |-> 0]]
    BY DEF Init
  <2>2. \A c \in Clients : job[c].pc # "pausing" /\ ~job[c].uploaded
    BY <2>1
  <2>3. QED
    BY <2>2 DEF JobInv, UploadedIsStored
<1>3. RequestInv /\ NonceInv /\ StoreInv /\ AnswerInv
  BY DEF Init, RequestInv, NonceInv, StoreInv, AnswerInv, Nobody, Never
<1>4. StoredOnce /\ FreshAttemptNotReplayed
  BY DEF Init, StoredOnce, FreshAttemptNotReplayed
<1>5. QED
  BY <1>1, <1>2, <1>3, <1>4 DEF IInv

LEMMA NextIInv == ASSUME UploadAssumption, IInv, [Next]_vars PROVE IInv'
<1>1. CASE Next
  BY <1>1, ClientKeepsIInv, TakingKeepsIInv, SavingKeepsIInv, DyingKeepsIInv,
     RestartKeepsIInv, TickKeepsIInv DEF Next, ServerStep
<1>2. CASE UNCHANGED vars
  BY <1>2 DEF vars, serverVars, IInv, TypeOK, JobInv, RequestInv, NonceInv, StoreInv,
              AnswerInv, StoredOnce, UploadedIsStored, FreshAttemptNotReplayed,
              Sent, Barred, StoredHere, Have, NonceOf
<1>3. QED
  BY <1>1, <1>2

LEMMA Inductive == ASSUME UploadAssumption PROVE Spec => []IInv
<1>1. Init => IInv
  BY InitIInv
<1>2. IInv /\ [Next]_vars => IInv'
  BY NextIInv
<1>3. QED
  BY <1>1, <1>2, PTL DEF Spec

(***************************************************************************)
(* The state of tools and server is always well formed: in particular no   *)
(* tool makes more than MaxAttempts attempts, each with a nonce of its own.*)
(***************************************************************************)
THEOREM TypeCorrect == ASSUME UploadAssumption PROVE Spec => []TypeOK
BY Inductive, PTL DEF IInv

(***************************************************************************)
(* CheckUpload lets one process of the server store an attempt once,       *)
(* however often it is handed the request and although it forgets nonces:  *)
(* what it has forgotten is outside of the window, unless the clock of the *)
(* client is ahead by the whole window.                                    *)
(***************************************************************************)
THEOREM StoredAtMostOnce == ASSUME UploadAssumption PROVE Spec => []StoredOnce
BY Inductive, PTL DEF IInv

(***************************************************************************)
(* A tool that reports an upload is right, whatever was lost or repeated   *)
(* and however often the server died: status 201 is given to an attempt    *)
(* that is stored, and the tool accepts no answer to another attempt.      *)
(***************************************************************************)
THEOREM UploadsAreStored == ASSUME UploadAssumption PROVE Spec => []UploadedIsStored
BY Inductive, PTL DEF IInv

(***************************************************************************)
(* No tool is ever told that its attempt is a repetition, neither after    *)
(* its own retries nor because a request was handed over again.            *)
(***************************************************************************)
THEOREM NeverMistakenForReplay ==
  ASSUME UploadAssumption PROVE Spec => []FreshAttemptNotReplayed
BY Inductive, PTL DEF IInv
=============================================================================
