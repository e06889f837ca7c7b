------------------------- MODULE ServerAdmin_proofs -------------------------
(***************************************************************************)
(* Proofs about the administration of the report server, for any names,    *)
(* browsers, addresses, limits and times.                                  *)
(***************************************************************************)
EXTENDS ServerAdmin, FiniteSetTheorems, TLAPS

(* The parts of the inductive invariant.                                   *)

\* A session in memory expires Life after its last use, and has not ended.
SessionsInv ==
    /\ \A s \in Ids : sessions[s] # Gone =>
          sessions[s] = used[s] + Life /\ s \notin ended /\ s <= issued
    /\ ended \subseteq 1..issued
    /\ \A b \in Browsers : cookie[b] <= issued

\* The server remembers every failed login that is not older than Period.
LimitInv ==
    \A a \in Addresses :
        /\ failures[a] \subseteq 1..Len(wrong[a])
        /\ \A i \in 1..Len(wrong[a]) :
              /\ wrong[a][i] <= clock
              /\ \A j \in 1..Len(wrong[a]) : i <= j => wrong[a][i] <= wrong[a][j]
              /\ Passed(a, i) <= Period => i \in failures[a]

IInv == TypeOK /\ AcknowledgedAdminsSurvive /\ SessionsInv /\ LimitInv /\ LoginLimit

-----------------------------------------------------------------------------
LEMMA InitIInv == AdminAssumption /\ Init => IInv
<1> SUFFICES ASSUME AdminAssumption, Init PROVE IInv
  OBVIOUS
<1> USE DEF AdminAssumption, Init, None, Gone, Ids
<1>1. TypeOK
  BY DEF TypeOK
<1>2. AcknowledgedAdminsSurvive
  BY DEF AcknowledgedAdminsSurvive
<1>3. SessionsInv
  BY DEF SessionsInv
<1>4. LimitInv /\ LoginLimit
  BY DEF LimitInv, LoginLimit, Passed
<1>5. QED
  BY <1>1, <1>2, <1>3, <1>4 DEF IInv

(***************************************************************************)
(* Types.                                                                  *)
(***************************************************************************)
\* What adding an account does to memory and disk, whether it succeeds or not.
LEMMA Adding ==
  ASSUME TypeOK, NEW n \in Names, Add(n)
  PROVE  /\ users' \subseteq Names /\ disk' \subseteq Names
         /\ acknowledged' \subseteq Names /\ failed' \in Nat
         /\ overlooked' \subseteq Names /\ overwritten' \subseteq Names
         /\ users' = users \cup {n} /\ overlooked' = overlooked \ {n}
         /\ \/ Saved(users') /\ acknowledged' = acknowledged \cup {n}
            \/ /\ disk' = disk /\ overwritten' = overwritten
               /\ acknowledged' = acknowledged
<1>1. /\ users' = users \cup {n} /\ users' \subseteq Names
      /\ overlooked' = overlooked \ {n} /\ overlooked' \subseteq Names
  BY DEF Add, TypeOK
<1>2. CASE Saved(users') /\ acknowledged' = acknowledged \cup {n} /\ failed' = failed
  BY <1>1, <1>2 DEF TypeOK, Saved
<1>3. CASE Failure /\ disk' = disk /\ overwritten' = overwritten
           /\ acknowledged' = acknowledged
  BY <1>1, <1>3 DEF Failure, TypeOK
<1>4. QED
  BY <1>2, <1>3 DEF Add

LEMMA Setting ==
  ASSUME NEW f \in [Browsers -> Ids \cup {None}], NEW b \in Browsers,
         NEW s \in Ids \cup {None}, NEW g \in {f, [f EXCEPT ![b] = s]}
  PROVE  /\ g \in [Browsers -> Ids \cup {None}]
         /\ \A c \in Browsers : g[c] = f[c] \/ g[c] = s
  OBVIOUS

LEMMA Serving ==
  ASSUME AdminAssumption, TypeOK, NEW s \in Ids, Serve(s)
  PROVE  /\ sessions' \in [Ids -> Nat \cup {Gone}] /\ used' \in [Ids -> Nat]
         /\ \A t \in Ids \ {s} : sessions'[t] = sessions[t] /\ used'[t] = used[t]
         /\ sessions'[s] = clock + Life /\ used'[s] = clock
         /\ issued' = issued /\ ended' = ended
  BY DEF Serve, TypeOK, AdminAssumption

LEMMA Ending ==
  ASSUME TypeOK, NEW s \in Ids, End(s)
  PROVE  /\ sessions' \in [Ids -> Nat \cup {Gone}]
         /\ \A t \in Ids \ {s} : sessions'[t] = sessions[t]
         /\ sessions'[s] = Gone
         /\ issued' = issued /\ used' = used /\ ended' = ended \cup {s}
  BY DEF End, TypeOK

LEMMA AuthenticatedHasSession ==
  ASSUME TypeOK, NEW b \in Browsers, Authenticated(b)
  PROVE  /\ cookie[b] \in Ids /\ sessions[cookie[b]] # Gone
         /\ sessions[cookie[b]] >= clock
  BY DEF TypeOK, Authenticated, Valid

LEMMA RequestKeepsTypes ==
  ASSUME AdminAssumption, TypeOK, NEW b \in Browsers, Request(b)
  PROVE  TypeOK'
<1> USE DEF TypeOK, accountVars, lossVars, sessionVars, limitVars
<1>a. AddressOf[b] \in Addresses
  BY DEF AdminAssumption
<1>1. CASE Setup(b)
  BY <1>1, Adding DEF Setup
<1>2. CASE LoginRefused(b)
  BY <1>2 DEF LoginRefused, Recent
<1>3. CASE LoginFails(b)
  BY <1>a, <1>3 DEF LoginFails, Recent
<1>4. CASE Login(b)
  <2>1. issued + 1 \in Ids /\ cookie' \in {cookie, [cookie EXCEPT ![b] = issued + 1]}
    BY <1>4 DEF Login
  <2>2. cookie' \in [Browsers -> Ids \cup {None}]
    <3>1. cookie \in [Browsers -> Ids \cup {None}]
      OBVIOUS
    <3>2. [cookie EXCEPT ![b] = issued + 1] \in [Browsers -> Ids \cup {None}]
      BY <2>1, <3>1, Setting
    <3>3. QED
      BY <2>1, <3>1, <3>2, Zenon
  <2>3. clock + Life \in Nat
    BY DEF AdminAssumption
  <2>4. QED
    BY <1>a, <1>4, <2>1, <2>2, <2>3 DEF Login, Recent, Ids
<1>5. CASE SendToLogin(b)
  BY <1>5, Ending DEF SendToLogin
<1>6. CASE ShowPage(b)
  <2>1. cookie[b] \in Ids /\ Serve(cookie[b])
    BY <1>6, AuthenticatedHasSession DEF ShowPage
  <2>2. form' \in [Browsers -> Ids \cup {None}]
    <3>1. form' \in {form, [form EXCEPT ![b] = cookie[b]]}
      BY <1>6 DEF ShowPage
    <3>2. QED
      BY <2>1, <3>1, Setting
  <2>3. QED
    BY <1>6, <2>1, <2>2, Serving DEF ShowPage
<1>7. CASE Logout(b)
  <2>1. cookie[b] \in Ids /\ End(cookie[b])
    BY <1>7, AuthenticatedHasSession DEF Logout
  <2>2. cookie' \in [Browsers -> Ids \cup {None}]
    <3>1. cookie' \in {cookie, [cookie EXCEPT ![b] = None]}
      BY <1>7 DEF Logout
    <3>2. QED
      BY <3>1, Setting
  <2>3. QED
    BY <1>7, <2>1, <2>2, Ending DEF Logout
<1>8. CASE AddAdmin(b)
  <2>1. cookie[b] \in Ids /\ Serve(cookie[b])
    BY <1>8, AuthenticatedHasSession DEF AddAdmin
  <2>2. /\ users' \subseteq Names /\ disk' \subseteq Names
        /\ acknowledged' \subseteq Names /\ failed' \in Nat
        /\ overlooked' \subseteq Names /\ overwritten' \subseteq Names
    <3>1. CASE UNCHANGED accountVars
      BY <3>1
    <3>2. CASE \E n \in Names \ users : Add(n)
      BY <3>2, Adding
    <3>3. QED
      BY <1>8, <3>1, <3>2 DEF AddAdmin
  <2>3. QED
    BY <1>8, <2>1, <2>2, Serving DEF AddAdmin
<1>9. QED
  BY <1>1, <1>2, <1>3, <1>4, <1>5, <1>6, <1>7, <1>8 DEF Request

LEMMA TypesKept == AdminAssumption /\ TypeOK /\ [Next]_vars => TypeOK'
<1> SUFFICES ASSUME AdminAssumption, TypeOK, [Next]_vars PROVE TypeOK'
  OBVIOUS
<1> USE DEF AdminAssumption, TypeOK, accountVars, lossVars, sessionVars, limitVars, Ids, Gone
<1>1. CASE UNCHANGED vars
  BY <1>1 DEF vars
<1>2. CASE \E b \in Browsers : Request(b)
  BY <1>2, RequestKeepsTypes
<1>3. CASE ServerDies
  <2>1. disk' \subseteq Names /\ overwritten' \subseteq Names
    BY <1>3 DEF ServerDies, Saved
  <2>2. ForgetAll
    BY <1>3 DEF ServerDies
  <2>3. 1..issued \subseteq Ids
    OBVIOUS
  <2>4. /\ sessions' \in [Ids -> Nat \cup {Gone}] /\ ended' \subseteq Ids
        /\ failures' \in [Addresses -> SUBSET Nat] /\ wrong' \in [Addresses -> Seq(Nat)]
    BY <2>2, <2>3 DEF ForgetAll
  <2>5. QED
    BY <2>1, <2>2, <2>4 DEF ForgetAll
<1>4. CASE ServerStarts
  BY <1>4 DEF ServerStarts, Failure
<1>5. CASE Tick
  <2>1. clock' \in Nat
    BY <1>5 DEF Tick
  <2>2. UNCHANGED <<up, accountVars, sessionVars, limitVars, cookie, form>>
    BY <1>5 DEF Tick
  <2>3. QED
    BY <2>1, <2>2
<1>6. QED
  BY <1>1, <1>2, <1>3, <1>4, <1>5 DEF Next

(***************************************************************************)
(* Accounts: memory is ahead of the disk, but for what was overlooked, and *)
(* a Save loses nothing else.                                              *)
(***************************************************************************)
LEMMA SavingLoses ==
  ASSUME AcknowledgedAdminsSurvive, up, NEW accounts, users \subseteq accounts,
         Saved(accounts)
  PROVE  acknowledged \cup accounts \subseteq disk' \cup overwritten'
BY DEF AcknowledgedAdminsSurvive, Saved

LEMMA AccountsKept ==
  ASSUME TypeOK, AcknowledgedAdminsSurvive, [Next]_vars
  PROVE  AcknowledgedAdminsSurvive'
<1> USE DEF AcknowledgedAdminsSurvive, accountVars, lossVars
<1>1. ASSUME NEW n \in Names, up, Add(n), UNCHANGED up
      PROVE  AcknowledgedAdminsSurvive'
  <2>1. users' = users \cup {n} /\ overlooked' = overlooked \ {n}
    BY <1>1, Adding
  <2>2. CASE Saved(users') /\ acknowledged' = acknowledged \cup {n}
    <3>1. acknowledged \cup users' \subseteq disk' \cup overwritten'
      BY <1>1, <2>1, <2>2, SavingLoses
    <3>2. QED
      BY <1>1, <2>1, <2>2, <3>1
  <2>3. CASE disk' = disk /\ overwritten' = overwritten /\ acknowledged' = acknowledged
    BY <1>1, <2>1, <2>3
  <2>4. QED
    BY <1>1, <2>2, <2>3, Adding
<1>2. CASE ServerDies
  <2>1. up /\ up' = FALSE /\ acknowledged' = acknowledged
    BY <1>2 DEF ServerDies, ForgetAll
  <2>2. \/ disk' = disk /\ overwritten' = overwritten
        \/ \E n \in Names : Saved(users \cup {n})
    BY <1>2 DEF ServerDies
  <2>3. ASSUME NEW n \in Names, Saved(users \cup {n})
        PROVE  acknowledged \subseteq disk' \cup overwritten'
    BY <2>1, <2>3, SavingLoses
  <2>4. QED
    BY <2>1, <2>2, <2>3
<1>3. CASE ServerStarts
  BY <1>3 DEF ServerStarts
<1>4. CASE UNCHANGED <<up, accountVars>>
  BY <1>4
<1>5. ASSUME NEW b \in Browsers, Request(b)
      PROVE  AcknowledgedAdminsSurvive'
  <2>1. /\ UNCHANGED up
        /\ UNCHANGED accountVars \/ (up /\ \E n \in Names : Add(n))
    BY <1>5, Zenon DEF Request, Setup, LoginRefused, LoginFails, Login, SendToLogin,
                ShowPage, Logout, AddAdmin, Authenticated
  <2>2. QED
    BY <2>1, <1>1, <1>4
<1>6. QED
  BY <1>2, <1>3, <1>4, <1>5 DEF Next, Tick, vars

(***************************************************************************)
(* Sessions.                                                               *)
(***************************************************************************)
LEMMA EndKeepsSessions ==
  ASSUME TypeOK, SessionsInv, NEW s \in Ids, s \in 1..issued, End(s),
         \A c \in Browsers : cookie'[c] <= issued
  PROVE  SessionsInv'
<1>1. /\ \A t \in Ids \ {s} : sessions'[t] = sessions[t]
      /\ sessions'[s] = Gone
      /\ issued' = issued /\ used' = used /\ ended' = ended \cup {s}
  BY Ending
<1>2. \A t \in Ids : sessions'[t] # Gone =>
          sessions'[t] = used'[t] + Life /\ t \notin ended' /\ t <= issued'
  BY <1>1 DEF SessionsInv
<1>3. QED
  BY <1>1, <1>2 DEF SessionsInv

LEMMA SessionsKept ==
  ASSUME AdminAssumption, TypeOK, SessionsInv, [Next]_vars
  PROVE  SessionsInv'
<1> USE DEF SessionsInv, sessionVars
<1>1. CASE UNCHANGED sessionVars /\ UNCHANGED cookie
  BY <1>1
<1>2. CASE ServerDies
  <2>1. /\ sessions' = [s \in Ids |-> Gone] /\ ended' = ended \cup 1..issued
        /\ UNCHANGED <<issued, used, cookie>>
    BY <1>2 DEF ServerDies, ForgetAll
  <2>2. QED
    BY <2>1
<1>3. ASSUME NEW b \in Browsers, Request(b) PROVE SessionsInv'
  <2>1. CASE Setup(b) \/ LoginRefused(b) \/ LoginFails(b)
    BY <1>1, <2>1 DEF Setup, LoginRefused, LoginFails
  <2>2. CASE Login(b)
    <3> DEFINE n == issued + 1
    <3>1. /\ n \in Ids /\ issued' = n /\ ended' = ended
          /\ sessions' = [sessions EXCEPT ![n] = clock + Life]
          /\ used' = [used EXCEPT ![n] = clock]
          /\ cookie' \in {cookie, [cookie EXCEPT ![b] = n]}
      BY <2>2 DEF Login
    <3>2. \A c \in Browsers : cookie'[c] = cookie[c] \/ cookie'[c] = n
      BY <3>1, Setting DEF TypeOK
    <3>3. \A t \in Ids \ {n} : sessions'[t] = sessions[t] /\ used'[t] = used[t]
      BY <3>1 DEF TypeOK
    <3>4. sessions'[n] = clock + Life /\ used'[n] = clock
      BY <3>1 DEF TypeOK
    <3>5. issued \in Nat /\ cookie \in [Browsers -> Ids \cup {None}]
      BY DEF TypeOK
    <3>6. n \notin ended
      BY <3>5
    <3>7. \A c \in Browsers : cookie'[c] <= n
      BY <3>2, <3>5 DEF Ids, None
    <3>8. QED
      BY <3>1, <3>3, <3>4, <3>5, <3>6, <3>7 DEF Ids
  <2>3. CASE SendToLogin(b)
    <3>1. /\ cookie[b] \in Ids /\ End(cookie[b]) /\ UNCHANGED cookie
      BY <2>3 DEF SendToLogin, TypeOK
    <3>2. cookie[b] \in 1..issued
      BY <3>1 DEF Ids, TypeOK
    <3>3. QED
      BY <3>1, <3>2, EndKeepsSessions
  <2>4. CASE ShowPage(b) \/ AddAdmin(b)
    <3>1. Authenticated(b) /\ Serve(cookie[b]) /\ UNCHANGED cookie
      BY <2>4 DEF ShowPage, AddAdmin
    <3> DEFINE s == cookie[b]
    <3>2. s \in Ids /\ sessions[s] # Gone
      BY <3>1, AuthenticatedHasSession
    <3>3. /\ \A t \in Ids \ {s} : sessions'[t] = sessions[t] /\ used'[t] = used[t]
          /\ sessions'[s] = clock + Life /\ used'[s] = clock
          /\ issued' = issued /\ ended' = ended
      BY <3>1, <3>2, Serving
    <3> HIDE DEF s
    <3>4. QED
      BY <3>1, <3>2, <3>3
  <2>5. CASE Logout(b)
    <3>1. /\ cookie[b] \in Ids /\ End(cookie[b])
          /\ cookie' \in {cookie, [cookie EXCEPT ![b] = None]}
      BY <2>5, AuthenticatedHasSession DEF Logout
    <3>2. \A c \in Browsers : cookie'[c] = cookie[c] \/ cookie'[c] = None
      BY <3>1, Setting DEF TypeOK
    <3>3. cookie[b] \in 1..issued /\ issued \in Nat
      BY <3>1 DEF Ids, TypeOK
    <3>4. issued' = issued
      BY <3>1, Ending
    <3>5. \A c \in Browsers : cookie'[c] <= issued'
      BY <3>2, <3>3, <3>4 DEF None, TypeOK
    <3>6. QED
      BY <3>1, <3>3, <3>4, <3>5, EndKeepsSessions
  <2>6. QED
    BY <1>3, <2>1, <2>2, <2>3, <2>4, <2>5 DEF Request
<1>4. QED
  BY <1>1, <1>2, <1>3 DEF Next, ServerStarts, Tick, vars

\* What SessionsEnd says of a step.
SessionStep ==
    \A s \in Ids : (used'[s] # used[s] /\ s <= issued) =>
        s \notin ended /\ clock - used[s] <= Life

LEMMA SessionSteps ==
  ASSUME AdminAssumption, TypeOK, SessionsInv, [Next]_vars
  PROVE  SessionStep
<1>1. CASE UNCHANGED used
  BY <1>1 DEF SessionStep
<1>2. ASSUME NEW b \in Browsers, Login(b) PROVE SessionStep
  BY <1>2 DEF Login, SessionStep, TypeOK, Ids
<1>3. ASSUME NEW b \in Browsers, Authenticated(b), Serve(cookie[b])
      PROVE  SessionStep
  <2>1. /\ cookie[b] \in Ids /\ sessions[cookie[b]] # Gone
        /\ sessions[cookie[b]] >= clock
    BY <1>3, AuthenticatedHasSession
  <2>2. \A t \in Ids \ {cookie[b]} : used'[t] = used[t]
    BY <1>3, <2>1, Serving
  <2>3. /\ cookie[b] \notin ended
        /\ used[cookie[b]] + Life >= clock
    BY <2>1 DEF SessionsInv
  <2>4. QED
    BY <2>2, <2>3 DEF SessionStep, TypeOK, AdminAssumption
<1>4. QED
  BY <1>1, <1>2, <1>3
     DEF Next, Request, Setup, LoginRefused, LoginFails, SendToLogin, ShowPage,
         Logout, AddAdmin, ServerDies, ForgetAll, ServerStarts, Tick, vars,
         sessionVars, End

(***************************************************************************)
(* The limit of failed logins.                                             *)
(***************************************************************************)

\* What LimitInv and LoginLimit say of one address.
LimitOf(a) ==
    /\ failures[a] \subseteq 1..Len(wrong[a])
    /\ \A i \in 1..Len(wrong[a]) :
          /\ wrong[a][i] <= clock
          /\ \A j \in 1..Len(wrong[a]) : i <= j => wrong[a][i] <= wrong[a][j]
          /\ Passed(a, i) <= Period => i \in failures[a]
    /\ \A i \in 1..Len(wrong[a]) - Limit : wrong[a][i + Limit] - wrong[a][i] > Period

LEMMA LimitOfAll == (LimitInv /\ LoginLimit) <=> \A a \in Addresses : LimitOf(a)
  BY DEF LimitInv, LoginLimit, LimitOf

\* Where the last Limit failures are all recent, the server counts them all.
LEMMA CountsRecent ==
  ASSUME AdminAssumption, TypeOK, NEW a \in Addresses, LimitOf(a),
         NEW i \in 1..Len(wrong[a]), i + Limit = Len(wrong[a]) + 1,
         Passed(a, i) <= Period
  PROVE  Limited(a)
<1> DEFINE n == Len(wrong[a])
           last == i..n
<1>1. n \in Nat /\ wrong[a] \in Seq(Nat) /\ clock \in Nat /\ Limit \in Nat
      /\ Period \in Nat
  BY DEF TypeOK, AdminAssumption
<1>2. last \subseteq Recent(a)
  <2>1. ASSUME NEW j \in last PROVE j \in Recent(a)
    <3>1. j \in 1..n /\ wrong[a][i] <= wrong[a][j]
      BY <1>1 DEF LimitOf
    <3>2. wrong[a][i] \in Nat /\ wrong[a][j] \in Nat
      <4>1. \A m \in 1..n : wrong[a][m] \in Nat
        BY <1>1
      <4>2. QED
        BY <3>1, <4>1
    <3>3. Passed(a, j) <= Period
      <4> DEFINE x == wrong[a][i]
                 y == wrong[a][j]
      <4>1. x \in Nat /\ y \in Nat /\ x <= y /\ clock - x <= Period
        BY <3>1, <3>2 DEF Passed
      <4> HIDE DEF x, y
      <4>2. clock - y <= Period
        BY <1>1, <4>1
      <4>3. QED
        BY <4>2 DEF Passed, y
    <3>4. QED
      BY <3>1, <3>3 DEF LimitOf, Recent
  <2>2. QED
    BY <2>1
<1>3. IsFiniteSet(Recent(a))
  <2>1. IsFiniteSet(1..n)
    BY <1>1, FS_Interval
  <2>2. Recent(a) \subseteq 1..n
    BY DEF Recent, LimitOf
  <2>3. QED
    BY <2>1, <2>2, FS_Subset
<1>4. Cardinality(last) <= Cardinality(Recent(a))
  BY <1>2, <1>3, FS_Subset
<1>5. Cardinality(last) = Limit
  <2>1. Cardinality(last) = IF i > n THEN 0 ELSE n - i + 1
    BY <1>1, FS_Interval
  <2>2. i \in Nat /\ i <= n /\ n - i + 1 = Limit
    <3> HIDE DEF n
    <3>1. i \in 1..n /\ i + Limit = n + 1
      BY DEF n
    <3>2. QED
      BY <1>1, <3>1
  <2>3. QED
    <3> HIDE DEF n, last
    <3>1. n \in Nat
      BY <1>1
    <3>2. QED
      BY <2>1, <2>2, <3>1
<1>6. Cardinality(Recent(a)) \in Nat
  BY <1>3, FS_CardinalityType
<1>7. QED
  BY <1>1, <1>4, <1>5, <1>6 DEF Limited

\* A failed login is noted at the end, and is only tried below the limit.
LEMMA FailureNoted ==
  ASSUME AdminAssumption, TypeOK, NEW a \in Addresses, LimitOf(a), ~Limited(a),
         clock' = clock,
         wrong'[a] = Append(wrong[a], clock),
         failures'[a] = Recent(a) \cup {Len(wrong[a]) + 1}
  PROVE  LimitOf(a)'
<1> DEFINE n == Len(wrong[a])
<1>1. n \in Nat /\ wrong[a] \in Seq(Nat) /\ clock \in Nat /\ Limit \in Nat
      /\ Limit > 0 /\ Period \in Nat
  BY DEF TypeOK, AdminAssumption
<1>2. /\ Len(wrong'[a]) = n + 1 /\ wrong'[a][n + 1] = clock
      /\ \A i \in 1..n : wrong'[a][i] = wrong[a][i] /\ wrong[a][i] \in Nat
  BY <1>1
<1>3. failures'[a] \subseteq 1..(n + 1)
  BY <1>1 DEF LimitOf, Recent
<1>4. ASSUME NEW i \in 1..(n + 1)
      PROVE  /\ wrong'[a][i] <= clock
             /\ \A j \in 1..(n + 1) : i <= j => wrong'[a][i] <= wrong'[a][j]
             /\ clock - wrong'[a][i] <= Period => i \in failures'[a]
  <2>1. CASE i = n + 1
    BY <1>1, <1>2, <2>1
  <2>2. CASE i \in 1..n
    <3>1. wrong'[a][i] = wrong[a][i] /\ wrong[a][i] <= clock
      BY <1>2, <2>2 DEF LimitOf
    <3>2. ASSUME NEW j \in 1..(n + 1), i <= j PROVE wrong'[a][i] <= wrong'[a][j]
      <4>1. CASE j = n + 1
        BY <1>2, <3>1, <4>1
      <4>2. CASE j \in 1..n
        BY <1>2, <2>2, <3>1, <3>2, <4>2 DEF LimitOf
      <4>3. QED
        BY <1>1, <4>1, <4>2
    <3>3. Passed(a, i) <= Period => i \in Recent(a)
      BY <2>2 DEF LimitOf, Recent
    <3>4. QED
      BY <3>1, <3>2, <3>3 DEF Passed
  <2>3. QED
    BY <1>1, <2>1, <2>2
<1>5. ASSUME NEW i \in 1..(n + 1) - Limit
      PROVE  wrong'[a][i + Limit] - wrong'[a][i] > Period
  <2>1. CASE i + Limit <= n
    <3>0. i \in Nat /\ i > 0
      BY <1>1
    <3>1. i \in 1..n - Limit /\ i \in 1..n /\ i + Limit \in 1..n
      <4> HIDE DEF n
      <4>1. n \in Nat /\ Limit \in Nat
        BY <1>1
      <4>2. QED
        BY <2>1, <3>0, <4>1
    <3>2. QED
      BY <1>2, <3>1 DEF LimitOf
  <2>2. CASE i + Limit = n + 1
    <3>1. i \in 1..n
      BY <1>1, <2>2
    <3>2. ~(Passed(a, i) <= Period)
      BY <2>2, <3>1, CountsRecent
    <3> DEFINE x == wrong[a][i]
    <3>3. x \in Nat /\ ~(clock - x <= Period)
      BY <1>2, <3>1, <3>2 DEF Passed
    <3>4. wrong'[a][i] = x /\ wrong'[a][i + Limit] = clock
      BY <1>2, <2>2, <3>1
    <3> HIDE DEF x
    <3>5. clock - x > Period
      BY <1>1, <3>3
    <3>6. QED
      BY <3>4, <3>5
  <2>3. i + Limit <= n \/ i + Limit = n + 1
    <3> HIDE DEF n
    <3>1. QED
      BY <1>1
  <2>4. QED
    BY <2>1, <2>2, <2>3
<1>6. QED
  BY <1>1, <1>2, <1>3, <1>4, <1>5 DEF LimitOf, Passed

\* What is forgotten is older than Period, and time only makes it older.
LEMMA LimitKeptWithout ==
  ASSUME AdminAssumption, TypeOK, NEW a \in Addresses, LimitOf(a),
         wrong'[a] = wrong[a], clock' \in {clock, clock + 1},
         failures'[a] = failures[a] \/
         (failures'[a] = Recent(a) /\ clock' = clock)
  PROVE  LimitOf(a)'
<1>1. wrong[a] \in Seq(Nat) /\ clock \in Nat /\ Period \in Nat
  BY DEF TypeOK, AdminAssumption
<1>2. \A i \in 1..Len(wrong[a]) : wrong[a][i] \in Nat
  BY <1>1
<1>3. failures'[a] \subseteq 1..Len(wrong'[a])
  BY DEF LimitOf, Recent
<1>4. ASSUME NEW i \in 1..Len(wrong[a])
      PROVE  /\ wrong[a][i] <= clock'
             /\ clock' - wrong[a][i] <= Period => i \in failures'[a]
  <2> DEFINE x == wrong[a][i]
  <2>1. x \in Nat /\ x <= clock /\ (clock - x <= Period => i \in failures[a])
    BY <1>2 DEF LimitOf, Passed
  <2>2. i \in failures[a] /\ clock - x <= Period => i \in Recent(a)
    BY DEF Recent, Passed
  <2> HIDE DEF x
  <2>3. clock' - x <= Period => clock - x <= Period
    BY <1>1, <2>1
  <2>4. x <= clock'
    BY <1>1, <2>1
  <2>5. clock' - x <= Period => i \in failures'[a]
    BY <2>1, <2>2, <2>3
  <2>6. QED
    BY <2>4, <2>5 DEF x
<1>5. QED
  BY <1>3, <1>4 DEF LimitOf, Passed

LEMMA LimitKept ==
  ASSUME AdminAssumption, TypeOK, LimitInv, LoginLimit, [Next]_vars
  PROVE  LimitInv' /\ LoginLimit'
<1>1. \A a \in Addresses : LimitOf(a)
  BY LimitOfAll
<1>2. SUFFICES \A a \in Addresses : LimitOf(a)'
  BY DEF LimitInv, LoginLimit, LimitOf
<1>3. CASE UNCHANGED <<wrong, failures, clock>>
  BY <1>1, <1>3, LimitKeptWithout
<1>4. CASE Tick
  BY <1>1, <1>4, LimitKeptWithout DEF Tick, limitVars
<1>5. CASE ServerDies
  <2>1. \A a \in Addresses : wrong'[a] = <<>> /\ failures'[a] = {}
    BY <1>5 DEF ServerDies, ForgetAll
  <2>2. Limit \in Nat /\ Limit > 0
    BY DEF AdminAssumption
  <2>3. QED
    BY <2>1, <2>2 DEF LimitOf
<1>6. ASSUME NEW b \in Browsers, LoginRefused(b) \/ Login(b), NEW a \in Addresses
      PROVE  LimitOf(a)'
  <2>1. /\ wrong' = wrong /\ clock' = clock
        /\ failures' = [failures EXCEPT ![AddressOf[b]] = Recent(AddressOf[b])]
    BY <1>6 DEF LoginRefused, Login
  <2>2. failures'[a] = failures[a] \/ failures'[a] = Recent(a)
    BY <2>1 DEF TypeOK
  <2>3. QED
    BY <1>1, <2>1, <2>2, LimitKeptWithout
<1>7. ASSUME NEW b \in Browsers, LoginFails(b), NEW a \in Addresses
      PROVE  LimitOf(a)'
  <2> DEFINE own == AddressOf[b]
  <2>1. /\ clock' = clock /\ ~Limited(own) /\ own \in Addresses
        /\ wrong' = [wrong EXCEPT ![own] = Append(@, clock)]
        /\ failures' = [failures EXCEPT ![own] = Recent(own) \cup {Len(wrong[own]) + 1}]
    BY <1>7 DEF LoginFails, AdminAssumption
  <2> HIDE DEF own
  <2>2. CASE a = own
    <3>1. /\ wrong'[a] = Append(wrong[a], clock)
          /\ failures'[a] = Recent(a) \cup {Len(wrong[a]) + 1}
      BY <2>1, <2>2 DEF TypeOK
    <3>2. QED
      BY <1>1, <2>1, <2>2, <3>1, FailureNoted
  <2>3. CASE a # own
    <3>1. wrong'[a] = wrong[a] /\ failures'[a] = failures[a]
      BY <2>1, <2>3 DEF TypeOK
    <3>2. QED
      BY <1>1, <2>1, <3>1, LimitKeptWithout
  <2>4. QED
    BY <2>2, <2>3
<1>8. QED
  BY <1>3, <1>4, <1>5, <1>6, <1>7
     DEF Next, Request, Setup, SendToLogin, ShowPage, Logout, AddAdmin,
         ServerStarts, vars, limitVars

-----------------------------------------------------------------------------
LEMMA NextIInv == AdminAssumption /\ IInv /\ [Next]_vars => IInv'
  BY TypesKept, AccountsKept, SessionsKept, LimitKept DEF IInv

\* The variables of the administration have their types, for any constants.
THEOREM TypeCorrect == ASSUME AdminAssumption PROVE Spec => []TypeOK
<1>1. IInv => TypeOK
  BY DEF IInv
<1>2. QED
  BY InitIInv, NextIInv, <1>1, PTL DEF Spec

\* An administrator whose creation was acknowledged is never lost, whatever
\* saving fails and whenever the process dies, but by a start of the server that
\* does not find him in users.db; and then he stays there until the next Save.
THEOREM AdminsSurvive ==
  ASSUME AdminAssumption PROVE Spec => []AcknowledgedAdminsSurvive
<1>1. IInv => AcknowledgedAdminsSurvive
  BY DEF IInv
<1>2. QED
  BY InitIInv, NextIInv, <1>1, PTL DEF Spec

\* For any limit and period, never do more than Limit logins of an address fail
\* within Period.
THEOREM LoginsLimited == ASSUME AdminAssumption PROVE Spec => []LoginLimit
<1>1. IInv => LoginLimit
  BY DEF IInv
<1>2. QED
  BY InitIInv, NextIInv, <1>1, PTL DEF Spec

\* A session that has come to an end, or was not used for Life, is never served.
THEOREM SessionsAreOver == ASSUME AdminAssumption PROVE Spec => SessionsEnd
<1>1. IInv /\ [Next]_vars => [SessionStep]_vars
  <2>1. AdminAssumption /\ IInv /\ [Next]_vars => SessionStep
    BY SessionSteps DEF IInv
  <2>2. QED
    BY <2>1
<1>2. QED
  BY InitIInv, NextIInv, <1>1, PTL DEF Spec, SessionsEnd, SessionStep
=============================================================================
