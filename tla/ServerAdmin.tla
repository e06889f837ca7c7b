---------------------------- MODULE ServerAdmin ----------------------------
(***************************************************************************)
(* Administration of the report server (src/src/report_server.cpp): first  *)
(* setup, login with its limit, sessions, adding administrators, and the   *)
(* user data base on disk.  The one thread of the server handles a request *)
(* completely before the next; it may die at any moment, and an answer may *)
(* be lost on its way.                                                     *)
(***************************************************************************)
EXTENDS Integers, Sequences, FiniteSets

CONSTANTS Names,         \* acceptable user names
          Browsers, Addresses,
          AddressOf,     \* AddressOf[b]: where browser b runs
          Loopback,      \* the addresses of the server itself
          Limit,         \* 8 failed logins of one address ...
          Period,        \* ... within 15 minutes
          Life,          \* 8 hours: a session that is not used
          MaxTime,       \* bound: the clock
          MaxSessions,   \* bound: logins that succeed
          MaxTries,      \* bound: logins that fail
          MaxFailures    \* bound: failing reads and writes

AdminAssumption ==
    /\ AddressOf \in [Browsers -> Addresses]
    /\ {Limit, Period, Life, MaxTime, MaxSessions, MaxTries,
        MaxFailures} \subseteq Nat
    /\ Limit > 0

VARIABLES clock,      \* steady_clock
          up,         \* whether the server process lives
          users,      \* memory: the accounts of Users
          disk,       \* users.db
          sessions,   \* memory: when a session expires, or Gone
          issued,     \* bound: sessions so far, which are numbered
          wrong,      \* wrong[a]: when logins failed, in this process
          failures,   \* memory: failures[a], those of them it remembers
          cookie,     \* cookie[b]: the session of browser b, or None
          form,       \* form[b]: whose csrf token the page in b carries
          tries, failed,  \* bounds
          \* what was observed:
          acknowledged,   \* accounts whose creation was answered with success
          overlooked,     \* acknowledged accounts the server has not found in
                          \* users.db when it started
          overwritten,    \* those of them that users.db has been written
                          \* without
          used,           \* used[s]: when a session was opened or last served
          ended           \* sessions that have come to an end

lossVars == <<overlooked, overwritten>>
accountVars == <<users, disk, acknowledged, failed, lossVars>>
sessionVars == <<sessions, issued, used, ended>>
limitVars == <<failures, wrong, tries>>
vars == <<clock, up, accountVars, sessionVars, limitVars, cookie, form>>

None == 0
Gone == -1
Ids == 1..MaxSessions

\* A server without administrators, or with some.
Init ==
    /\ clock \in 0..MaxTime
    /\ up \in BOOLEAN
    /\ disk \in SUBSET Names /\ users = IF up THEN disk ELSE {}
    /\ acknowledged = disk /\ overlooked = {} /\ overwritten = {}
    /\ sessions = [s \in Ids |-> Gone] /\ used = [s \in Ids |-> clock]
    /\ issued \in 0..MaxSessions /\ ended = {}
    /\ failures = [a \in Addresses |-> {}]
    /\ wrong = [a \in Addresses |-> <<>>]
    /\ cookie = [b \in Browsers |-> None] /\ form = [b \in Browsers |-> None]
    /\ tries \in 0..MaxTries /\ failed \in 0..MaxFailures

Failure == failed < MaxFailures /\ failed' = failed + 1

-----------------------------------------------------------------------------
\* users.db is written with the accounts in memory, and others are lost.
Saved(accounts) ==
    /\ disk' = accounts
    /\ overwritten' = (overwritten \cup overlooked) \ accounts

\* (A variant that forgets to save.)
AddInMemory(n) ==
    /\ users' = users \cup {n} /\ acknowledged' = acknowledged \cup {n}
    /\ overlooked' = overlooked \ {n}
    /\ UNCHANGED <<disk, overwritten, failed>>
\* Users.Add: the account is in memory before Save writes all accounts to a
\* temporary file and puts it in the place of users.db.  If Save fails, the
\* request is answered with 400 and the account stays in memory.
Add(n) ==
    /\ users' = users \cup {n} /\ overlooked' = overlooked \ {n}
    /\ \/ /\ Saved(users') /\ acknowledged' = acknowledged \cup {n}
          /\ UNCHANGED failed
       \/ Failure /\ UNCHANGED <<disk, overwritten, acknowledged>>

\* While it knows no administrator, the server lets the first one be set up from
\* its own machine.
Setup(b) ==
    /\ up /\ users = {} /\ AddressOf[b] \in Loopback
    /\ \E n \in Names : Add(n)
    /\ UNCHANGED <<clock, up, sessionVars, limitVars, cookie, form>>

Passed(a, i) == clock - wrong[a][i]
\* (A variant that leaves out the end of the period.)
RecentOpen(a) == {i \in failures[a] : Passed(a, i) < Period}
\* Limited forgets what is older than Period before it counts.
Recent(a) == {i \in failures[a] : Passed(a, i) <= Period}
Limited(a) == Cardinality(Recent(a)) >= Limit

\* The limit is looked at before the password: a login is refused (429), its
\* password is wrong (401), or a session begins.
LoginRefused(b) ==
    LET a == AddressOf[b] IN
    /\ up /\ users # {} /\ Limited(a)
    /\ failures' = [failures EXCEPT ![a] = Recent(a)]
    /\ UNCHANGED <<clock, up, accountVars, sessionVars, wrong, tries, cookie,
                   form>>

LoginFails(b) ==
    LET a == AddressOf[b] IN
    /\ up /\ users # {} /\ ~Limited(a)
    /\ tries < MaxTries /\ tries' = tries + 1
    /\ failures' = [failures EXCEPT ![a] = Recent(a) \cup {Len(wrong[a]) + 1}]
    /\ wrong' = [wrong EXCEPT ![a] = Append(@, clock)]
    /\ UNCHANGED <<clock, up, accountVars, sessionVars, cookie, form>>

Login(b) ==
    LET a == AddressOf[b]
        s == issued + 1
    IN
    /\ up /\ users # {} /\ ~Limited(a) /\ s \in Ids
    /\ failures' = [failures EXCEPT ![a] = Recent(a)]
    /\ issued' = s
    /\ sessions' = [sessions EXCEPT ![s] = clock + Life]
    /\ used' = [used EXCEPT ![s] = clock]
    /\ cookie' \in {cookie, [cookie EXCEPT ![b] = s]}
    /\ UNCHANGED <<clock, up, accountVars, ended, wrong, tries, form>>

\* (A variant that does not look at the time.)
ValidForEver(s) == s # None /\ sessions[s] # Gone
\* Auth: the session of the cookie, which lasts another Life from now on.
Valid(s) == s # None /\ sessions[s] # Gone /\ sessions[s] >= clock
Authenticated(b) == up /\ users # {} /\ Valid(cookie[b])
Serve(s) == /\ sessions' = [sessions EXCEPT ![s] = clock + Life]
            /\ used' = [used EXCEPT ![s] = clock]
            /\ UNCHANGED <<issued, ended>>
End(s) == /\ sessions' = [sessions EXCEPT ![s] = Gone]
          /\ ended' = ended \cup {s}
          /\ UNCHANGED <<issued, used>>

\* Whatever is asked for without a valid session leads to the login page.
SendToLogin(b) ==
    /\ up /\ users # {} /\ cookie[b] # None /\ ~Valid(cookie[b])
    /\ End(cookie[b])
    /\ UNCHANGED <<clock, up, accountVars, limitVars, cookie, form>>

\* Dashboard, report and download; the first brings the form with it.
ShowPage(b) ==
    /\ Authenticated(b) /\ Serve(cookie[b])
    /\ form' \in {form, [form EXCEPT ![b] = cookie[b]]}
    /\ UNCHANGED <<clock, up, accountVars, limitVars, cookie>>

\* (A variant that only clears the cookie.)
LogoutCookie(b) ==
    /\ Authenticated(b)
    /\ cookie' \in {cookie, [cookie EXCEPT ![b] = None]}
    /\ ended' = ended \cup {cookie[b]}
    /\ UNCHANGED <<clock, up, accountVars, sessions, issued, used, limitVars,
                   form>>
\* The session is gone whether the browser hears of it or not.
Logout(b) ==
    /\ Authenticated(b) /\ End(cookie[b])
    /\ cookie' \in {cookie, [cookie EXCEPT ![b] = None]}
    /\ UNCHANGED <<clock, up, accountVars, limitVars, form>>

\* An administrator adds another one with the form of a page of the session.
AddAdmin(b) ==
    /\ Authenticated(b) /\ Serve(cookie[b])
    /\ \/ form[b] = cookie[b] /\ \E n \in Names \ users : Add(n)
       \/ UNCHANGED accountVars                   \* 400, 403
    /\ UNCHANGED <<clock, up, limitVars, cookie, form>>

-----------------------------------------------------------------------------
\* The process ends and its memory with it.
ForgetAll ==
    /\ up /\ up' = FALSE
    /\ users' = {}
    /\ sessions' = [s \in Ids |-> Gone] /\ ended' = ended \cup 1..issued
    /\ failures' = [a \in Addresses |-> {}]
    /\ wrong' = [a \in Addresses |-> <<>>]
    /\ UNCHANGED <<clock, acknowledged, failed, overlooked, issued, used, tries,
                   cookie, form>>

\* It may end between the new users.db and the answer to the request.
AddUnderWay == \E b \in Browsers :
    \/ up /\ users = {} /\ AddressOf[b] \in Loopback
    \/ Authenticated(b) /\ form[b] = cookie[b]
ServerDies ==
    /\ ForgetAll
    /\ \/ UNCHANGED <<disk, overwritten>>
       \/ AddUnderWay /\ \E n \in Names \ users : Saved(users \cup {n})

\* The constructor of Users reads users.db.  A file that cannot be opened is
\* taken for one without accounts, what comes after an error of reading is not
\* missed, and a line that makes no sense is passed over: nothing of this is
\* reported, and the next Save overwrites the file.
ServerStarts ==
    /\ ~up /\ up' = TRUE
    /\ \/ users' = disk /\ UNCHANGED failed
       \/ Failure /\ users' \in SUBSET disk
    /\ overlooked' = (disk \cup overwritten) \ users'
    /\ UNCHANGED <<clock, disk, acknowledged, overwritten, sessionVars, limitVars,
                   cookie, form>>

Tick ==
    /\ clock < MaxTime /\ clock' = clock + 1
    /\ UNCHANGED <<up, accountVars, sessionVars, limitVars, cookie, form>>

Request(b) ==
    \/ Setup(b) \/ LoginRefused(b) \/ LoginFails(b) \/ Login(b)
    \/ SendToLogin(b) \/ ShowPage(b) \/ Logout(b) \/ AddAdmin(b)

Next == (\E b \in Browsers : Request(b)) \/ ServerDies \/ ServerStarts \/ Tick
Spec == Init /\ [][Next]_vars
-----------------------------------------------------------------------------
\* Accounts, sessions, cookies and failed logins have their types.
TypeOK ==
    /\ clock \in Nat /\ up \in BOOLEAN
    /\ users \subseteq Names /\ disk \subseteq Names
    /\ acknowledged \subseteq Names
    /\ overlooked \subseteq Names /\ overwritten \subseteq Names
    /\ sessions \in [Ids -> Nat \cup {Gone}] /\ issued \in 0..MaxSessions
    /\ failures \in [Addresses -> SUBSET Nat]
    /\ wrong \in [Addresses -> Seq(Nat)]
    /\ cookie \in [Browsers -> Ids \cup {None}]
    /\ form \in [Browsers -> Ids \cup {None}]
    /\ tries \in Nat /\ failed \in Nat
    /\ used \in [Ids -> Nat] /\ ended \subseteq Ids

\* An administrator whose creation was answered with success is never lost by a
\* failing Save, a crash in the middle of one, or a restart: he is on disk, and
\* at the server whenever it runs.  The one way to lose him is that a start of
\* the server does not find him in a users.db that holds him; and he stays on
\* disk until another account is saved without him.
AcknowledgedAdminsSurvive ==
    /\ acknowledged \subseteq disk \cup overwritten
    /\ up => acknowledged \subseteq users \cup overlooked

\* Never do more than Limit logins of one address fail within Period, while the
\* process lives: one more is not even looked at.
LoginLimit ==
    \A a \in Addresses : \A i \in 1..Len(wrong[a]) - Limit :
        wrong[a][i + Limit] - wrong[a][i] > Period

\* A session that was logged out, sent to the login page, or belonged to an
\* earlier process is never served again, and none is that nobody has used for
\* Life; a page is served by no other way.
SessionsEnd ==
    [][\A s \in Ids : (used'[s] # used[s] /\ s <= issued) =>
          s \notin ended /\ clock - used[s] <= Life]_vars
=============================================================================
