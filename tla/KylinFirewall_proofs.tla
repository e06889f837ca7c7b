------------------------- MODULE KylinFirewall_proofs -------------------------
(***************************************************************************)
(* Theorems about KylinFirewall: types; that a process nobody disturbs     *)
(* undoes exactly what it did, opens no port on the way, needs one plan    *)
(* and touches no rule of others; and that "pass" means blocked.           *)
(***************************************************************************)
EXTENDS KylinFirewall, SequenceTheorems, FunctionTheorems, FiniteSetTheorems,
        WellFoundedInduction, TLAPS

-----------------------------------------------------------------------------
(* Inserting into and removing from a sequence.                            *)

\* InsertAt moves what is at and after the position by one.
LEMMA InsertAtProperties ==
  ASSUME NEW S, NEW s \in Seq(S), NEW n \in 1..Len(s) + 1, NEW e \in S
  PROVE  /\ InsertAt(s, n, e) \in Seq(S)
         /\ Len(InsertAt(s, n, e)) = Len(s) + 1
         /\ \A k \in 1..Len(s) + 1 : InsertAt(s, n, e)[k] =
              IF k < n THEN s[k] ELSE IF k = n THEN e ELSE s[k - 1]
<1> DEFINE a == SubSeq(s, 1, n - 1)
           b == SubSeq(s, n, Len(s))
<1>1. a \in Seq(S) /\ Len(a) = n - 1 /\ \A k \in 1..n - 1 : a[k] = s[k]
  BY SubSeqProperties, Len(s) \in Nat
<1>2. b \in Seq(S) /\ Len(b) = Len(s) + 1 - n /\ \A k \in 1..Len(s) + 1 - n : b[k] = s[n + k - 1]
  BY SubSeqProperties, Len(s) \in Nat
<1>3. <<e>> \in Seq(S) /\ Len(<<e>>) = 1 /\ <<e>>[1] = e
  OBVIOUS
<1> HIDE DEF a, b
<1>4. /\ a \o <<e>> \in Seq(S) /\ Len(a \o <<e>>) = n
      /\ \A k \in 1..n : (a \o <<e>>)[k] = IF k < n THEN s[k] ELSE e
  BY <1>1, <1>3, ConcatProperties
<1>5. /\ (a \o <<e>>) \o b \in Seq(S) /\ Len((a \o <<e>>) \o b) = Len(s) + 1
      /\ \A k \in 1..Len(s) + 1 : ((a \o <<e>>) \o b)[k] =
           IF k <= n THEN (a \o <<e>>)[k] ELSE b[k - n]
  <2> DEFINE c == a \o <<e>>
  <2>1. c \in Seq(S) /\ Len(c) = n
    BY <1>4
  <2> HIDE DEF c
  <2>2. Len(c) + Len(b) = Len(s) + 1
    BY <1>2, <2>1, Len(s) \in Nat
  <2>3. /\ c \o b \in Seq(S) /\ Len(c \o b) = Len(c) + Len(b)
        /\ \A k \in 1..Len(c) + Len(b) : (c \o b)[k] = IF k <= Len(c) THEN c[k] ELSE b[k - Len(c)]
    BY <2>1, <1>2, ConcatProperties
  <2>4. /\ c \o b \in Seq(S) /\ Len(c \o b) = Len(s) + 1
        /\ \A k \in 1..Len(s) + 1 : (c \o b)[k] = IF k <= n THEN c[k] ELSE b[k - n]
    BY <2>1, <2>2, <2>3
  <2> QED BY <2>4 DEF c
<1>6. \A k \in 1..Len(s) + 1 : ((a \o <<e>>) \o b)[k] =
        IF k < n THEN s[k] ELSE IF k = n THEN e ELSE s[k - 1]
  <2> TAKE k \in 1..Len(s) + 1
  <2>1. CASE k <= n
    BY <2>1, <1>5, <1>4
  <2>2. CASE k > n
    <3>1. k - n \in 1..Len(s) + 1 - n /\ n + (k - n) - 1 = k - 1
      BY <2>2, Len(s) \in Nat
    <3>2. b[k - n] = s[k - 1]
      BY <3>1, <1>2
    <3>3. ((a \o <<e>>) \o b)[k] = b[k - n] /\ ~(k < n) /\ k # n
      BY <2>2, <1>5
    <3> QED BY <3>2, <3>3
  <2>3. k <= n \/ k > n
    BY Len(s) \in Nat
  <2> QED BY <2>1, <2>2, <2>3
<1> QED BY <1>5, <1>6 DEF InsertAt, a, b

\* RemoveAt moves what is after the position back by one.
LEMMA RemoveAtProperties ==
  ASSUME NEW S, NEW s \in Seq(S), NEW n \in 1..Len(s)
  PROVE  /\ RemoveAt(s, n) \in Seq(S)
         /\ Len(RemoveAt(s, n)) = Len(s) - 1
         /\ \A k \in 1..Len(s) - 1 : RemoveAt(s, n)[k] = IF k < n THEN s[k] ELSE s[k + 1]
<1> DEFINE a == SubSeq(s, 1, n - 1)
           b == SubSeq(s, n + 1, Len(s))
<1>1. a \in Seq(S) /\ Len(a) = n - 1 /\ \A k \in 1..n - 1 : a[k] = s[k]
  BY SubSeqProperties, Len(s) \in Nat
<1>2. b \in Seq(S) /\ Len(b) = Len(s) - n /\ \A k \in 1..Len(s) - n : b[k] = s[n + k]
  BY SubSeqProperties, Len(s) \in Nat
<1> HIDE DEF a, b
<1>3. /\ a \o b \in Seq(S) /\ Len(a \o b) = Len(s) - 1
      /\ \A k \in 1..Len(s) - 1 : (a \o b)[k] = IF k <= n - 1 THEN a[k] ELSE b[k - (n - 1)]
  <2>1. Len(a) + Len(b) = Len(s) - 1
    BY <1>1, <1>2, Len(s) \in Nat
  <2>2. /\ a \o b \in Seq(S) /\ Len(a \o b) = Len(a) + Len(b)
        /\ \A k \in 1..Len(a) + Len(b) : (a \o b)[k] = IF k <= Len(a) THEN a[k] ELSE b[k - Len(a)]
    BY <1>1, <1>2, ConcatProperties
  <2> QED BY <1>1, <2>1, <2>2
<1>4. \A k \in 1..Len(s) - 1 : (a \o b)[k] = IF k < n THEN s[k] ELSE s[k + 1]
  <2> TAKE k \in 1..Len(s) - 1
  <2>1. CASE k < n
    BY <2>1, <1>3, <1>1
  <2>2. CASE k >= n
    <3>1. k - (n - 1) \in 1..Len(s) - n /\ n + (k - (n - 1)) = k + 1
      BY <2>2, Len(s) \in Nat
    <3>2. b[k - (n - 1)] = s[k + 1]
      BY <3>1, <1>2
    <3>3. (a \o b)[k] = b[k - (n - 1)] /\ ~(k < n)
      BY <2>2, <1>3
    <3> QED BY <3>2, <3>3
  <2>3. k < n \/ k >= n
    BY Len(s) \in Nat
  <2> QED BY <2>1, <2>2, <2>3
<1> QED BY <1>3, <1>4 DEF RemoveAt, a, b

\* Removing what was just inserted, and the reverse.
LEMMA RemoveInserted ==
  ASSUME NEW S, NEW s \in Seq(S), NEW n \in 1..Len(s) + 1, NEW e \in S
  PROVE  RemoveAt(InsertAt(s, n, e), n) = s
<1> DEFINE t == InsertAt(s, n, e)
<1>1. /\ t \in Seq(S) /\ Len(t) = Len(s) + 1
      /\ \A k \in 1..Len(s) + 1 : t[k] = IF k < n THEN s[k] ELSE IF k = n THEN e ELSE s[k - 1]
  BY InsertAtProperties
<1> HIDE DEF t
<1>2. /\ RemoveAt(t, n) \in Seq(S) /\ Len(RemoveAt(t, n)) = Len(s)
      /\ \A k \in 1..Len(s) : RemoveAt(t, n)[k] = IF k < n THEN t[k] ELSE t[k + 1]
  <2>1. n \in 1..Len(t) /\ Len(t) - 1 = Len(s)
    BY <1>1, Len(s) \in Nat
  <2>2. /\ RemoveAt(t, n) \in Seq(S) /\ Len(RemoveAt(t, n)) = Len(t) - 1
        /\ \A k \in 1..Len(t) - 1 : RemoveAt(t, n)[k] = IF k < n THEN t[k] ELSE t[k + 1]
    BY <1>1, <2>1, RemoveAtProperties
  <2> QED BY <2>1, <2>2
<1>3. \A k \in 1..Len(s) : RemoveAt(t, n)[k] = s[k]
  <2> TAKE k \in 1..Len(s)
  <2>1. k \in 1..Len(s) + 1 /\ k + 1 \in 1..Len(s) + 1 /\ (k + 1) - 1 = k
    BY Len(s) \in Nat
  <2>2. CASE k < n
    BY <1>1, <1>2, <2>1, <2>2
  <2>3. CASE k >= n
    <3>1. t[k + 1] = s[k] /\ ~(k < n)
      BY <1>1, <2>1, <2>3
    <3> QED BY <1>2, <3>1
  <2> QED BY <2>2, <2>3
<1>4. RemoveAt(t, n) = s
  BY <1>2, <1>3, SeqEqual
<1> QED BY <1>4 DEF t

LEMMA InsertRemoved ==
  ASSUME NEW S, NEW s \in Seq(S), NEW n \in 1..Len(s)
  PROVE  InsertAt(RemoveAt(s, n), n, s[n]) = s
<1> DEFINE t == RemoveAt(s, n)
           e == s[n]
<1>1. /\ t \in Seq(S) /\ Len(t) = Len(s) - 1
      /\ \A k \in 1..Len(s) - 1 : t[k] = IF k < n THEN s[k] ELSE s[k + 1]
  BY RemoveAtProperties
<1>2. e \in S /\ n \in 1..Len(t) + 1
  BY <1>1, Len(s) \in Nat
<1>0. e = s[n]
  OBVIOUS
<1> HIDE DEF t, e
<1>3. /\ InsertAt(t, n, e) \in Seq(S) /\ Len(InsertAt(t, n, e)) = Len(s)
      /\ \A k \in 1..Len(s) : InsertAt(t, n, e)[k] =
           IF k < n THEN t[k] ELSE IF k = n THEN e ELSE t[k - 1]
  <2>1. Len(t) + 1 = Len(s)
    BY <1>1, Len(s) \in Nat
  <2>2. /\ InsertAt(t, n, e) \in Seq(S) /\ Len(InsertAt(t, n, e)) = Len(t) + 1
        /\ \A k \in 1..Len(t) + 1 : InsertAt(t, n, e)[k] =
             IF k < n THEN t[k] ELSE IF k = n THEN e ELSE t[k - 1]
    BY <1>1, <1>2, InsertAtProperties
  <2> QED BY <2>1, <2>2
<1>4. \A k \in 1..Len(s) : InsertAt(t, n, e)[k] = s[k]
  <2> TAKE k \in 1..Len(s)
  <2>1. CASE k < n
    <3>1. k \in 1..Len(s) - 1
      BY <2>1, Len(s) \in Nat
    <3> QED BY <1>1, <1>3, <2>1, <3>1
  <2>2. CASE k = n
    BY <1>0, <1>3, <2>2
  <2>3. CASE k > n
    <3>1. k - 1 \in 1..Len(s) - 1 /\ (k - 1) + 1 = k /\ ~(k - 1 < n) /\ ~(k < n) /\ k # n
      BY <2>3, Len(s) \in Nat
    <3>2. t[k - 1] = s[k]
      BY <1>1, <3>1
    <3> QED BY <1>3, <3>1, <3>2
  <2> QED BY <2>1, <2>2, <2>3
<1>5. InsertAt(t, n, e) = s
  BY <1>3, <1>4, SeqEqual
<1> QED BY <1>5 DEF t, e

\* The jump that was put at the top is the first one.
LEMMA InsertOnTop ==
  ASSUME NEW S, NEW s \in Seq(S), Jump \in S
  PROVE  LET i == InsertAt(s, 1, Jump) IN
         /\ i \in Seq(S) /\ DOMAIN i = 1..Len(i) /\ 1 \in DOMAIN i
         /\ IsFirstJump(i, 1) /\ FirstJump(i) = 1
         /\ RemoveAt(i, 1) = s
<1> DEFINE i == InsertAt(s, 1, Jump)
<1>1. 1 \in 1..Len(s) + 1 /\ Len(s) \in Nat
  OBVIOUS
<1>2. i \in Seq(S) /\ Len(i) = Len(s) + 1 /\ i[1] = Jump
  BY <1>1, InsertAtProperties
<1>3. RemoveAt(i, 1) = s
  BY <1>1, RemoveInserted
<1> HIDE DEF i
<1>4. DOMAIN i = 1..Len(i) /\ 1 \in DOMAIN i
  BY <1>1, <1>2
<1>5. IsFirstJump(i, 1)
  BY <1>2 DEF IsFirstJump
<1>6. \A k \in DOMAIN i : IsFirstJump(i, k) => k = 1
  BY <1>1, <1>2, <1>4 DEF IsFirstJump
<1>7. FirstJump(i) = 1
  BY <1>4, <1>5, <1>6 DEF FirstJump
<1> QED BY <1>2, <1>3, <1>4, <1>5, <1>7 DEF i

\* Counting up is undone by counting down, ...
LEMMA CountUp ==
  ASSUME NEW f \in [Rules -> Nat], NEW r \in Rules, NEW g, g = [f EXCEPT ![r] = @ + 1]
  PROVE  g[r] = f[r] + 1 /\ [g EXCEPT ![r] = @ - 1] = f
<1>1. f[r] \in Nat /\ (f[r] + 1) - 1 = f[r]
  OBVIOUS
<1>2. g[r] = f[r] + 1 /\ [g EXCEPT ![r] = f[r]] = f
  OBVIOUS
<1>3. g[r] - 1 = f[r]
  BY <1>1, <1>2
<1> QED BY <1>2, <1>3, Zenon

\* ... and the reverse.
LEMMA CountDown ==
  ASSUME NEW f \in [Rules -> Nat], NEW r \in Rules, NEW g, g = [f EXCEPT ![r] = @ - 1]
  PROVE  g[r] = f[r] - 1 /\ [g EXCEPT ![r] = @ + 1] = f
<1>1. f[r] \in Nat /\ (f[r] - 1) + 1 = f[r]
  OBVIOUS
<1>2. g[r] = f[r] - 1 /\ [g EXCEPT ![r] = f[r]] = f
  OBVIOUS
<1>3. g[r] + 1 = f[r]
  BY <1>1, <1>2
<1> QED BY <1>2, <1>3, Zenon

-----------------------------------------------------------------------------
(* Commands and their undoing.                                             *)

\* The commands of a plan and of its undoing.
AllCommands ==
  {c \in [op : {"-N", "-X", "-I", "-D n", "-D jump", "-A", "-D"}, at : Nat, rule : Rules \cup {"none"}] :
     c.op \in {"-A", "-D"} => c.rule \in Rules}

\* The parts of a table, and what a change of one part leaves.
LEMMA TableParts ==
  ASSUME NEW t \in Tables
  PROVE  /\ t.chain \in BOOLEAN /\ t.input \in Seq(InputRules) /\ t.rules \in [Rules -> Nat]
         /\ DOMAIN t.input = 1..Len(t.input) /\ Len(t.input) \in Nat /\ Jump \in InputRules
         /\ \A i \in Seq(InputRules) : LET u == [t EXCEPT !.input = i] IN
              u \in Tables /\ u.input = i /\ u.chain = t.chain /\ u.rules = t.rules
         /\ \A f \in [Rules -> Nat] : LET u == [t EXCEPT !.rules = f] IN
              u \in Tables /\ u.rules = f /\ u.chain = t.chain /\ u.input = t.input
         /\ \A b \in BOOLEAN : LET u == [t EXCEPT !.chain = b] IN
              u \in Tables /\ u.chain = b /\ u.rules = t.rules /\ u.input = t.input
<1>1. t.chain \in BOOLEAN /\ t.input \in Seq(InputRules) /\ t.rules \in [Rules -> Nat]
  BY DEF Tables
<1>2. DOMAIN t.input = 1..Len(t.input) /\ Len(t.input) \in Nat /\ Jump \in InputRules
  BY <1>1 DEF InputRules
<1> QED BY <1>1, <1>2 DEF Tables

\* iptables takes a table to a table.
LEMMA EffectIsTable ==
  ASSUME NEW t, IsTable(t), NEW c \in AllCommands, Accepts(t, c)
  PROVE  IsTable(Effect(t, c))
<1>0. t \in Tables /\ (~t.chain => Jump \notin ToSet(t.input) /\ \A r \in Rules : t.rules[r] = 0)
  BY DEF IsTable
<1>1. /\ t.input \in Seq(InputRules) /\ t.rules \in [Rules -> Nat] /\ Jump \in InputRules
      /\ DOMAIN t.input = 1..Len(t.input) /\ Len(t.input) \in Nat
  BY <1>0, TableParts
<1>2. CASE c.op = "-N"
  BY <1>2, <1>0, TableParts DEF Effect, Accepts, IsTable
<1>3. CASE c.op = "-X"
  BY <1>3, <1>0, TableParts DEF Effect, Accepts, IsTable
<1>4. CASE c.op = "-I"
  <2>1. t.chain /\ c.at \in 1..Len(t.input) + 1
    BY <1>4 DEF Accepts
  <2>2. InsertAt(t.input, c.at, Jump) \in Seq(InputRules)
    BY <1>1, <2>1, InsertAtProperties
  <2>3. Effect(t, c) = [t EXCEPT !.input = InsertAt(t.input, c.at, Jump)]
    BY <1>4 DEF Effect
  <2> QED BY <1>0, <2>1, <2>2, <2>3, TableParts DEF IsTable
<1>5. CASE c.op = "-D n"
  <2> DEFINE i == RemoveAt(t.input, c.at)
  <2>1. c.at \in 1..Len(t.input)
    BY <1>5, <1>1 DEF Accepts
  <2>2. /\ i \in Seq(InputRules) /\ Len(i) = Len(t.input) - 1
        /\ \A k \in 1..Len(t.input) - 1 : i[k] = IF k < c.at THEN t.input[k] ELSE t.input[k + 1]
    BY <1>1, <2>1, RemoveAtProperties
  <2> HIDE DEF i
  <2>3. ASSUME Jump \in ToSet(i) PROVE Jump \in ToSet(t.input)
    <3>1. PICK k \in 1..Len(i) : i[k] = Jump
      BY <2>2, <2>3 DEF ToSet
    <3>2. t.input[k] = Jump \/ t.input[k + 1] = Jump
      BY <2>2, <3>1
    <3>3. k \in 1..Len(t.input) /\ k + 1 \in 1..Len(t.input)
      BY <2>2, <3>1, <1>1
    <3> QED BY <3>2, <3>3, <1>1 DEF ToSet
  <2>4. Effect(t, c) = [t EXCEPT !.input = i]
    BY <1>5 DEF Effect, i
  <2> QED BY <1>0, <2>2, <2>3, <2>4, TableParts DEF IsTable
<1>6. CASE c.op = "-D jump"
  <2> DEFINE i == RemoveAt(t.input, FirstJump(t.input))
  <2>1. FirstJump(t.input) \in 1..Len(t.input) /\ t.chain
    <3>1. PICK k \in 1..Len(t.input) : IsFirstJump(t.input, k)
      BY <1>6, <1>1 DEF Accepts
    <3>2. FirstJump(t.input) \in 1..Len(t.input)
      BY <3>1, <1>1 DEF FirstJump
    <3>3. Jump \in ToSet(t.input)
      BY <3>1, <1>1 DEF IsFirstJump, ToSet
    <3> QED BY <3>2, <3>3, <1>0, TableParts
  <2>2. i \in Seq(InputRules)
    BY <1>1, <2>1, RemoveAtProperties
  <2> HIDE DEF i
  <2>4. Effect(t, c) = [t EXCEPT !.input = i]
    BY <1>6 DEF Effect, i
  <2> QED BY <1>0, <2>1, <2>2, <2>4, TableParts DEF IsTable
<1>7. CASE c.op = "-A"
  <2> DEFINE f == [t.rules EXCEPT ![c.rule] = @ + 1]
  <2>1. c.rule \in Rules /\ t.chain
    BY <1>7 DEF AllCommands, Accepts
  <2>2. f \in [Rules -> Nat]
    BY <1>1, <2>1
  <2>3. Effect(t, c) = [t EXCEPT !.rules = f]
    BY <1>7 DEF Effect
  <2> HIDE DEF f
  <2> QED BY <1>0, <2>1, <2>2, <2>3, TableParts DEF IsTable
<1>8. CASE c.op = "-D"
  <2> DEFINE f == [t.rules EXCEPT ![c.rule] = @ - 1]
  <2>1. c.rule \in Rules /\ t.rules[c.rule] > 0
    <3>1. c.rule \in Rules
      BY <1>8 DEF AllCommands
    <3> QED BY <1>8, <3>1 DEF Accepts
  <2>2. t.rules[c.rule] \in Nat /\ t.rules[c.rule] - 1 \in Nat
    BY <1>1, <2>1
  <2>3. f \in [Rules -> Nat]
    BY <1>1, <2>2
  <2>4. t.chain
    BY <1>0, <2>1, TableParts
  <2>5. Effect(t, c) = [t EXCEPT !.rules = f]
    BY <1>8 DEF Effect
  <2> HIDE DEF f
  <2> QED BY <1>0, <2>3, <2>4, <2>5, TableParts DEF IsTable
<1> QED BY <1>2, <1>3, <1>4, <1>5, <1>6, <1>7, <1>8 DEF AllCommands

\* A rule that was appended can be deleted, ...
LEMMA AppendedRuleGoes ==
  ASSUME NEW t \in Tables, NEW r \in Rules, NEW u, u = [t EXCEPT !.rules[r] = @ + 1]
  PROVE  u.rules[r] > 0 /\ u.chain = t.chain /\ [u EXCEPT !.rules[r] = @ - 1] = t
<1>1. PICK f \in [Rules -> Nat] : f = t.rules
  BY TableParts
<1>2. ASSUME NEW g, NEW h, NEW v, v = [t EXCEPT !.rules = g] PROVE
        v.rules = g /\ v.chain = t.chain /\ [v EXCEPT !.rules = h] = [t EXCEPT !.rules = h]
  BY <1>2 DEF Tables
<1>3. [t EXCEPT !.rules = f] = t
  BY <1>1 DEF Tables
<1> DEFINE g == [f EXCEPT ![r] = @ + 1]
<1>4. u = [t EXCEPT !.rules = g]
  BY <1>1, Zenon
<1>5. g = [f EXCEPT ![r] = @ + 1]
  OBVIOUS
<1> HIDE DEF g
<1>6. g[r] = f[r] + 1 /\ [g EXCEPT ![r] = @ - 1] = f
  BY <1>5, CountUp
<1>7. u.rules = g /\ u.chain = t.chain
  BY <1>2, <1>4
<1>8. [u EXCEPT !.rules = f] = t
  BY <1>2, <1>3, <1>4
<1>9. [u EXCEPT !.rules[r] = @ - 1] = [u EXCEPT !.rules = [g EXCEPT ![r] = @ - 1]]
  BY <1>7, Zenon
<1>10. f[r] \in Nat /\ f[r] + 1 > 0
  OBVIOUS
<1> QED BY <1>6, <1>7, <1>8, <1>9, <1>10, Zenon

\* ... and one that was deleted appended.
LEMMA DeletedRuleComes ==
  ASSUME NEW t \in Tables, NEW r \in Rules, NEW u, u = [t EXCEPT !.rules[r] = @ - 1]
  PROVE  u.chain = t.chain /\ [u EXCEPT !.rules[r] = @ + 1] = t
<1>1. PICK f \in [Rules -> Nat] : f = t.rules
  BY TableParts
<1>2. ASSUME NEW g, NEW h, NEW v, v = [t EXCEPT !.rules = g] PROVE
        v.rules = g /\ v.chain = t.chain /\ [v EXCEPT !.rules = h] = [t EXCEPT !.rules = h]
  BY <1>2 DEF Tables
<1>3. [t EXCEPT !.rules = f] = t
  BY <1>1 DEF Tables
<1> DEFINE g == [f EXCEPT ![r] = @ - 1]
<1>4. u = [t EXCEPT !.rules = g]
  BY <1>1, Zenon
<1>5. g = [f EXCEPT ![r] = @ - 1]
  OBVIOUS
<1> HIDE DEF g
<1>6. g[r] = f[r] - 1 /\ [g EXCEPT ![r] = @ + 1] = f
  BY <1>5, CountDown
<1>7. u.rules = g /\ u.chain = t.chain
  BY <1>2, <1>4
<1>8. [u EXCEPT !.rules = f] = t
  BY <1>2, <1>3, <1>4
<1>9. [u EXCEPT !.rules[r] = @ + 1] = [u EXCEPT !.rules = [g EXCEPT ![r] = @ + 1]]
  BY <1>7, Zenon
<1> QED BY <1>6, <1>7, <1>8, <1>9, Zenon

\* Only a chain that exists has rules.
LEMMA RulesAreInTheChain ==
  ASSUME NEW t, IsTable(t), NEW r \in Rules, t.rules[r] > 0
  PROVE  t.chain
<1>1. t.rules[r] # 0
  OBVIOUS
<1> QED BY <1>1, Zenon DEF IsTable

\* Every command of a plan that puts a jump at the top, or deletes a jump, can
\* be undone exactly.
LEMMA UndoReverts ==
  ASSUME NEW t, IsTable(t), NEW c \in Commands, Accepts(t, c),
         c.op = "-I" => c.at = 1,
         c.op = "-D n" => t.input[c.at] = Jump
  PROVE  /\ Accepts(Effect(t, c), Undo(c))
         /\ Effect(Effect(t, c), Undo(c)) = t
<1>0. t \in Tables /\ (~t.chain => Jump \notin ToSet(t.input) /\ \A r \in Rules : t.rules[r] = 0)
  BY DEF IsTable
<1>1. /\ t.input \in Seq(InputRules) /\ t.rules \in [Rules -> Nat] /\ Jump \in InputRules
      /\ DOMAIN t.input = 1..Len(t.input) /\ Len(t.input) \in Nat
  BY <1>0, TableParts
<1> USE DEF Tables
<1> DEFINE u == Effect(t, c)
<1>2. CASE c.op = "-N"
  <2>1. u = [t EXCEPT !.chain = TRUE] /\ ~t.chain
    BY <1>2 DEF Effect, Accepts
  <2>2. Undo(c) = DeleteChain
    BY <1>2 DEF Undo
  <2>3. Accepts(u, DeleteChain)
    <3> HIDE DEF u
    <3>1. u.chain /\ u.input = t.input /\ u.rules = t.rules
      <4>1. \A v : v = [t EXCEPT !.chain = TRUE] => v.chain /\ v.input = t.input /\ v.rules = t.rules
        BY <1>0
      <4> QED BY <2>1, <4>1
    <3>2. u.chain /\ Jump \notin ToSet(u.input) /\ \A r \in Rules : u.rules[r] = 0
      BY <1>0, <2>1, <3>1
    <3> QED BY <3>2 DEF Accepts, DeleteChain, Command
  <2>4. Effect(u, DeleteChain) = [u EXCEPT !.chain = FALSE]
    BY DEF Effect, DeleteChain, Command
  <2> HIDE DEF u
  <2>5. [u EXCEPT !.chain = FALSE] = t
    BY <1>0, <2>1
  <2> QED BY <2>2, <2>3, <2>4, <2>5 DEF u
<1>3. CASE c.op = "-I"
  <2> DEFINE i == InsertAt(t.input, 1, Jump)
  <2>1. u = [t EXCEPT !.input = i] /\ t.chain
    BY <1>3 DEF Effect, Accepts
  <2>2. Undo(c) = DeleteJump
    BY <1>3 DEF Undo
  <2>3. /\ i \in Seq(InputRules) /\ 1 \in DOMAIN i /\ IsFirstJump(i, 1)
        /\ FirstJump(i) = 1 /\ RemoveAt(i, 1) = t.input
    BY <1>1, InsertOnTop
  <2> HIDE DEF i
  <2>4. u.input = i
    BY <1>0, <2>1
  <2> HIDE DEF u
  <2>5. Accepts(u, DeleteJump)
    BY <2>3, <2>4 DEF Accepts, DeleteJump, Command
  <2>6. Effect(u, DeleteJump) = [u EXCEPT !.input = t.input]
    BY <2>3, <2>4 DEF Effect, DeleteJump, Command
  <2>7. [u EXCEPT !.input = t.input] = t
    BY <1>0, <2>1
  <2> QED BY <2>2, <2>5, <2>6, <2>7 DEF u
<1>4. CASE c.op = "-D n"
  <2> DEFINE i == RemoveAt(t.input, c.at)
  <2>0. c.at \in 1..Len(t.input) /\ t.input[c.at] = Jump
    BY <1>4, <1>1 DEF Accepts
  <2>1. u = [t EXCEPT !.input = i] /\ t.chain
    <3>1. t.chain
      BY <2>0, <1>0, <1>1 DEF ToSet
    <3> QED BY <1>4, <3>1 DEF Effect
  <2>2. Undo(c) = InsertJump(c.at)
    BY <1>4 DEF Undo
  <2>3. i \in Seq(InputRules) /\ c.at \in 1..Len(i) + 1
    <3>1. i \in Seq(InputRules) /\ Len(i) = Len(t.input) - 1
      BY <1>1, <2>0, RemoveAtProperties
    <3> QED BY <3>1, <2>0, <1>1
  <2>4. InsertAt(i, c.at, Jump) = t.input
    BY <1>1, <2>0, InsertRemoved
  <2> HIDE DEF i
  <2>5. u.input = i /\ u.chain
    BY <1>0, <2>1
  <2> HIDE DEF u
  <2>6. Accepts(u, InsertJump(c.at))
    BY <2>3, <2>5 DEF Accepts, InsertJump, Command
  <2>7. Effect(u, InsertJump(c.at)) = [u EXCEPT !.input = InsertAt(u.input, c.at, Jump)]
    BY DEF Effect, InsertJump, Command
  <2>8. [u EXCEPT !.input = InsertAt(u.input, c.at, Jump)] = t
    BY <1>0, <2>1, <2>4, <2>5
  <2> QED BY <2>2, <2>6, <2>7, <2>8 DEF u
<1>5. CASE c.op = "-A"
  <2>1. c.rule \in Rules
    BY <1>5 DEF Commands
  <2>2. u = [t EXCEPT !.rules[c.rule] = @ + 1]
    BY <1>5 DEF Effect
  <2> HIDE DEF u
  <2>3. u.rules[c.rule] > 0 /\ [u EXCEPT !.rules[c.rule] = @ - 1] = t
    <3>1. t \in Tables
      BY <1>0
    <3> QED BY <3>1, <2>1, <2>2, AppendedRuleGoes
  <2>4. Undo(c) = DeleteRule(c.rule)
    BY <1>5 DEF Undo
  <2>5. Accepts(u, DeleteRule(c.rule))
    BY <2>3 DEF Accepts, DeleteRule, Command
  <2>6. Effect(u, DeleteRule(c.rule)) = t
    BY <2>3 DEF Effect, DeleteRule, Command
  <2> QED BY <2>4, <2>5, <2>6 DEF u
<1>6. CASE c.op = "-D"
  <2>1. c.rule \in Rules
    BY <1>6 DEF Commands
  <2>2. u = [t EXCEPT !.rules[c.rule] = @ - 1]
    BY <1>6 DEF Effect
  <2>3. t.chain
    <3>1. t.rules[c.rule] > 0
      BY <1>6 DEF Accepts
    <3> QED BY <2>1, <3>1, RulesAreInTheChain, Zenon
  <2> HIDE DEF u
  <2>4. u.chain /\ [u EXCEPT !.rules[c.rule] = @ + 1] = t
    <3>1. t \in Tables
      BY <1>0
    <3>2. u.chain = t.chain
      BY <3>1, <2>1, <2>2, DeletedRuleComes
    <3>3. [u EXCEPT !.rules[c.rule] = @ + 1] = t
      BY <3>1, <2>1, <2>2, DeletedRuleComes
    <3> QED BY <2>3, <3>2, <3>3
  <2>5. Undo(c) = AppendRule(c.rule)
    BY <1>6 DEF Undo
  <2>6. Accepts(u, AppendRule(c.rule))
    BY <2>4 DEF Accepts, AppendRule, Command
  <2>7. Effect(u, AppendRule(c.rule)) = t
    BY <2>4 DEF Effect, AppendRule, Command
  <2> QED BY <2>5, <2>6, <2>7 DEF u
<1> QED BY <1>2, <1>3, <1>4, <1>5, <1>6 DEF Commands

\* What undoes a command is a command.
LEMMA UndoType ==
  ASSUME NEW c \in Commands
  PROVE  Undo(c) \in AllCommands
<1> USE DEF Commands, AllCommands, Undo, Command
<1>1. CASE c.op = "-N"
  BY <1>1 DEF DeleteChain
<1>2. CASE c.op = "-I"
  BY <1>2 DEF DeleteJump
<1>3. CASE c.op = "-D n"
  BY <1>3 DEF InsertJump
<1>4. CASE c.op = "-A"
  BY <1>4 DEF DeleteRule
<1>5. CASE c.op = "-D"
  BY <1>5 DEF AppendRule
<1> QED BY <1>1, <1>2, <1>3, <1>4, <1>5

LEMMA CommandsAreCommands == Commands \subseteq AllCommands
BY DEF Commands, AllCommands

-----------------------------------------------------------------------------
(* Types.                                                                  *)

\* The lines that iptables-save prints.
LEMMA InputLinesType ==
  ASSUME NEW t \in Tables, ahead \in Nat
  PROVE  /\ Jumps(t) \subseteq Nat \ {0}
         /\ ahead = 0 => InputLines(t) = t.input
<1> DEFINE S == InputRules \cup {"elsewhere"}
           e == [k \in 1..ahead |-> "elsewhere"]
<1>1. t.input \in Seq(S)
  BY TableParts
<1>2. e \in Seq(S)
  OBVIOUS
<1>3. InputLines(t) = e \o t.input
  BY DEF InputLines
<1> HIDE DEF e, S
<1>4. InputLines(t) \in Seq(S)
  BY <1>1, <1>2, <1>3, ConcatProperties
<1>5. Jumps(t) \subseteq Nat \ {0}
  BY <1>4 DEF Jumps
<1>6. ASSUME ahead = 0 PROVE InputLines(t) = t.input
  <2>1. e = <<>>
    BY <1>6 DEF e
  <2> QED BY <2>1, <1>1, <1>3, ConcatEmptySeq
<1> QED BY <1>5, <1>6

LEMMA PlanType ==
  ASSUME NEW t \in Tables, ahead \in Nat
  PROVE  /\ NothingToDo \in Plans /\ LegacyPlan(t) \in Plans /\ BuildPlan(t) \in Plans
         /\ LegacyPlan(t).surplus = {} /\ ~LegacyPlan(t).jump
<1>1. t.rules \in [Rules -> Nat] /\ t.chain \in BOOLEAN
  BY TableParts
<1>2. [r \in Rules |-> IF r \in ToSet(Legacy) THEN -t.rules[r] ELSE 0] \in [Rules -> Int]
  BY <1>1
<1>3. RulePlan(t) \in [Rules -> Int]
  BY <1>1 DEF RulePlan
<1>4. NothingToDo \in Plans
  BY DEF NothingToDo, NoRules, Plans
<1>5. LegacyPlan(t) \in Plans /\ LegacyPlan(t).surplus = {} /\ ~LegacyPlan(t).jump
  BY <1>2 DEF LegacyPlan, NothingToDo, Plans
<1>6. BuildPlan(t) \in Plans
  <2>1. Jumps(t) \subseteq Nat \ {0}
    BY InputLinesType
  <2>2. /\ {k + 1 : k \in Jumps(t)} \in SUBSET (Nat \ {0})
        /\ Jumps(t) \ {1} \in SUBSET (Nat \ {0})
        /\ InsertsJump(t) \in BOOLEAN
    BY <2>1 DEF InsertsJump
  <2> QED BY <1>1, <1>3, <2>2 DEF BuildPlan, Plan, Plans
<1> QED BY <1>4, <1>5, <1>6

LEMMA IdleType == Idle \in Runs
BY DEF Idle, Runs, Results, NothingToDo, NoRules, Plans

LEMMA OrderType ==
  \A k \in DOMAIN (Required \o Legacy) : (Required \o Legacy)[k] \in Rules
<1>1. Required \in Seq(Rules) /\ Legacy \in Seq(Rules)
  BY FirewallAssumption, SeqMonotonic DEF Rules
<1>2. Required \o Legacy \in Seq(Rules)
  BY <1>1, ConcatProperties
<1> QED BY <1>2

\* A command of a plan, whether it works or not, keeps the types.
LEMMA ApplyType ==
  ASSUME TypeOK, NEW p \in Proc, NEW c \in Commands, NEW rest \in Plans, Apply(p, c, rest)
  PROVE  TypeOK'
<1>1. /\ IsTable(table) /\ run \in [Proc -> Runs] /\ seen \in [Proc -> Seq(Tables)]
      /\ faults \in Nat /\ table \in Tables /\ run[p] \in Runs
  BY DEF TypeOK, IsTable
<1>2. UNCHANGED <<ahead, cems, starts, others>>
  BY DEF Apply
<1>3. PICK works \in BOOLEAN :
        /\ MayFail(works)
        /\ IF works /\ Accepts(table, c)
           THEN LET t == Effect(table, c) IN
                  /\ TableChanges(p, t, <<t>> \o seen[p])
                  /\ Update(p, [run[p] EXCEPT !.plan = rest, !.applied = <<c>> \o @])
           ELSE Update(p, [run[p] EXCEPT !.pc = "undo"]) /\ UNCHANGED <<table, seen>>
  BY DEF Apply
<1>4. faults' \in Nat
  BY <1>1, <1>3 DEF MayFail
<1>5. CASE works /\ Accepts(table, c)
  <2> DEFINE t == Effect(table, c)
  <2>1. IsTable(t) /\ t \in Tables
    <3>1. c \in AllCommands
      BY CommandsAreCommands
    <3>2. IsTable(t)
      BY <1>1, <1>5, <3>1, EffectIsTable
    <3> QED BY <3>2 DEF IsTable
  <2>2. TableChanges(p, t, <<t>> \o seen[p])
    BY <1>3, <1>5
  <2>3. Update(p, [run[p] EXCEPT !.plan = rest, !.applied = <<c>> \o @])
    BY <1>3, <1>5
  <2> HIDE DEF t
  <2>4. <<t>> \o seen[p] \in Seq(Tables)
    BY <1>1, <2>1, ConcatProperties
  <2>5. table' = t /\ seen' \in [Proc -> Seq(Tables)]
    BY <2>2, <2>4 DEF TableChanges
  <2>6. run[p].applied \in Seq(Commands)
    BY <1>1 DEF Runs
  <2>7. <<c>> \o run[p].applied \in Seq(Commands)
    BY <2>6, ConcatProperties
  <2>8. [run[p] EXCEPT !.plan = rest, !.applied = <<c>> \o @] \in Runs
    BY <1>1, <2>7 DEF Runs
  <2>9. run' \in [Proc -> Runs]
    BY <1>1, <2>3, <2>8 DEF Update
  <2>10. IsTable(table')
    BY <2>1, <2>5
  <2> QED BY <1>2, <1>4, <2>5, <2>9, <2>10 DEF TypeOK, IsTable
<1>6. CASE ~(works /\ Accepts(table, c))
  <2>1. Update(p, [run[p] EXCEPT !.pc = "undo"]) /\ UNCHANGED <<table, seen>>
    BY <1>3, <1>6
  <2>2. [run[p] EXCEPT !.pc = "undo"] \in Runs
    BY <1>1 DEF Runs
  <2>3. run' \in [Proc -> Runs]
    BY <1>1, <2>1, <2>2 DEF Update
  <2> QED BY <1>1, <1>2, <1>4, <2>1, <2>3 DEF TypeOK, IsTable
<1> QED BY <1>5, <1>6

\* The four kinds of commands are commands, and what is left is a plan.
LEMMA CommandTypes ==
  ASSUME TypeOK, NEW p \in Proc
  PROVE  LET plan == run[p].plan IN
         /\ plan \in Plans
         /\ NewChain \in Commands /\ [plan EXCEPT !.create = FALSE] \in Plans
         /\ InsertJump(1) \in Commands /\ [plan EXCEPT !.jump = FALSE] \in Plans
         /\ \A n \in plan.surplus :
              DeleteAt(n) \in Commands /\ [plan EXCEPT !.surplus = @ \ {n}] \in Plans
         /\ \A r \in Rules :
              /\ AppendRule(r) \in Commands /\ DeleteRule(r) \in Commands
              /\ [plan EXCEPT !.rules[r] = 0] \in Plans
              /\ [plan EXCEPT !.rules[r] = @ + 1] \in Plans
<1> DEFINE plan == run[p].plan
<1>1. plan \in Plans
  BY DEF TypeOK, Runs
<1> HIDE DEF plan
<1>2. NewChain \in Commands /\ InsertJump(1) \in Commands
  BY DEF NewChain, InsertJump, Command, Commands
<1>3. \A n \in Nat : DeleteAt(n) \in Commands
  BY DEF DeleteAt, Command, Commands
<1>4. \A r \in Rules : AppendRule(r) \in Commands /\ DeleteRule(r) \in Commands
  BY DEF AppendRule, DeleteRule, Command, Commands
<1>5. [plan EXCEPT !.create = FALSE] \in Plans /\ [plan EXCEPT !.jump = FALSE] \in Plans
  BY <1>1 DEF Plans
<1>6. ASSUME NEW n \in plan.surplus
      PROVE  DeleteAt(n) \in Commands /\ [plan EXCEPT !.surplus = @ \ {n}] \in Plans
  BY <1>1, <1>3 DEF Plans
<1>7. ASSUME NEW r \in Rules
      PROVE  /\ [plan EXCEPT !.rules[r] = 0] \in Plans
             /\ [plan EXCEPT !.rules[r] = @ + 1] \in Plans
  <2>1. PICK f \in [Rules -> Int] : f = plan.rules
    BY <1>1 DEF Plans
  <2>2. [f EXCEPT ![r] = 0] \in [Rules -> Int] /\ [f EXCEPT ![r] = @ + 1] \in [Rules -> Int]
    OBVIOUS
  <2>3. \A g \in [Rules -> Int] : [plan EXCEPT !.rules = g] \in Plans
    BY <1>1 DEF Plans
  <2>4. /\ [plan EXCEPT !.rules[r] = 0] = [plan EXCEPT !.rules = [f EXCEPT ![r] = 0]]
        /\ [plan EXCEPT !.rules[r] = @ + 1] = [plan EXCEPT !.rules = [f EXCEPT ![r] = @ + 1]]
    BY <2>1, Zenon
  <2> QED BY <2>2, <2>3, <2>4, Zenon
<1> QED BY <1>1, <1>2, <1>3, <1>4, <1>5, <1>6, <1>7 DEF plan

\* Every variable keeps its type, and the table stays one that can exist.
LEMMA NextType == ASSUME TypeOK, [Next]_vars PROVE TypeOK'
<1> USE DEF TypeOK
<1>0. /\ run \in [Proc -> Runs] /\ seen \in [Proc -> Seq(Tables)] /\ table \in Tables
      /\ IsTable(table) /\ ahead \in Nat
  BY DEF IsTable
<1>1. \A r \in Runs, p \in Proc : Update(p, r) => run' \in [Proc -> Runs]
  BY <1>0 DEF Update
<1>2. \A result \in Results : [Idle EXCEPT !.result = result] \in Runs
  BY IdleType DEF Runs
<1>3. \A works \in BOOLEAN : MayFail(works) => faults' \in Nat
  BY DEF MayFail
<1>4. \A p \in Proc : Forget(p) => seen' \in [Proc -> Seq(Tables)]
  <2> SUFFICES ASSUME NEW p \in Proc, seen[p] # <<>> PROVE <<Last(seen[p])>> \in Seq(Tables)
    BY <1>0 DEF Forget
  <2>1. Last(seen[p]) \in Tables
    BY <1>0 DEF Last
  <2> QED BY <2>1
<1>5. Disturb => seen' \in [Proc -> Seq(Tables)]
  BY DEF Disturb
<1>6. ASSUME NEW p \in Proc, Evaluate(p) PROVE TypeOK'
  <2>1. PICK mode \in {"audit", "repair"} : Update(p, [Idle EXCEPT !.pc = "before", !.mode = mode])
    BY <1>6 DEF Evaluate
  <2>2. [Idle EXCEPT !.pc = "before", !.mode = mode] \in Runs
    BY IdleType DEF Runs
  <2>3. run' \in [Proc -> Runs]
    BY <1>1, <2>1, <2>2
  <2>4. seen' = [seen EXCEPT ![p] = <<>>] /\ starts' = starts + 1 /\ UNCHANGED <<table, ahead, faults, others>>
    BY <1>6 DEF Evaluate
  <2>5. seen' \in [Proc -> Seq(Tables)]
    BY <1>0, <2>4
  <2> QED BY <1>0, <2>3, <2>4, <2>5 DEF IsTable
<1>7. ASSUME NEW p \in Proc, ReadBefore(p) PROVE TypeOK'
  <2> DEFINE managed == Managed(table)
             plan == IF managed THEN LegacyPlan(table) ELSE BuildPlan(table)
             verdict == IF managed THEN CemsVerdict(table) ELSE Verdict(table)
             on == [Idle EXCEPT !.pc = "apply", !.mode = "repair", !.managed = managed, !.plan = plan]
  <2>1. PICK works \in BOOLEAN :
          /\ MayFail(works) /\ seen' = [seen EXCEPT ![p] = <<table>>]
          /\ Finish(p, "unread") \/ Finish(p, verdict) \/ Update(p, on)
    BY <1>7, Zenon DEF ReadBefore
  <2>2. plan \in Plans /\ managed \in BOOLEAN
    BY <1>0, PlanType DEF Managed
  <2>3. verdict \in Results
    BY DEF CemsVerdict, Verdict, Results
  <2> HIDE DEF managed, plan, verdict
  <2>4. on \in Runs
    BY <2>2, IdleType DEF Runs
  <2> HIDE DEF on
  <2>5. run' \in [Proc -> Runs]
    <3>1. "unread" \in Results
      BY DEF Results
    <3> QED BY <1>1, <1>2, <2>1, <2>3, <2>4, <3>1 DEF Finish
  <2>6. seen' \in [Proc -> Seq(Tables)]
    BY <1>0, <2>1
  <2> QED BY <1>0, <1>3, <1>7, <2>1, <2>5, <2>6 DEF ReadBefore, IsTable
<1>8. ASSUME NEW p \in Proc, CreateChain(p) PROVE TypeOK'
  BY <1>8, ApplyType, CommandTypes DEF CreateChain
<1>9. ASSUME NEW p \in Proc, PutJumpFirst(p) PROVE TypeOK'
  BY <1>9, ApplyType, CommandTypes DEF PutJumpFirst
<1>10. ASSUME NEW p \in Proc, RemoveSurplusJump(p) PROVE TypeOK'
  BY <1>10, ApplyType, CommandTypes DEF RemoveSurplusJump
<1>11. ASSUME NEW p \in Proc, CorrectRule(p) PROVE TypeOK'
  BY <1>11, ApplyType, CommandTypes, OrderType DEF CorrectRule
<1>12. ASSUME NEW p \in Proc, RollBack(p) PROVE TypeOK'
  <2>1. run[p].applied \in Seq(Commands) /\ run[p] \in Runs
    BY <1>0 DEF Runs
  <2>2. "rolledBack" \in Results /\ "rollbackFailed" \in Results
    BY DEF Results
  <2>3. CASE run[p].applied = <<>>
    <3>1. Finish(p, "rolledBack") /\ Forget(p) /\ UNCHANGED <<table, faults>>
      BY <1>12, <2>3 DEF RollBack
    <3>2. run' \in [Proc -> Runs]
      BY <1>1, <1>2, <2>2, <3>1 DEF Finish
    <3> QED BY <1>0, <1>4, <1>12, <3>1, <3>2 DEF RollBack, IsTable
  <2>4. CASE run[p].applied # <<>>
    <3> DEFINE undo == Undo(Head(run[p].applied))
    <3>1. PICK works \in BOOLEAN :
            /\ MayFail(works)
            /\ \/ /\ Accepts(table, undo)
                  /\ TableChanges(p, Effect(table, undo), Tail(seen[p]))
                  /\ Update(p, [run[p] EXCEPT !.applied = Tail(@)])
               \/ Finish(p, "rollbackFailed") /\ Forget(p) /\ UNCHANGED table
      BY <1>12, <2>4, Zenon DEF RollBack
    <3>2. undo \in AllCommands
      BY <2>1, <2>4, HeadTailProperties, UndoType
    <3> HIDE DEF undo
    <3>3. CASE /\ Accepts(table, undo)
               /\ TableChanges(p, Effect(table, undo), Tail(seen[p]))
               /\ Update(p, [run[p] EXCEPT !.applied = Tail(@)])
      <4>1. IsTable(Effect(table, undo))
        BY <1>0, <3>2, <3>3, EffectIsTable
      <4>2. IsTable(table')
        BY <3>3, <4>1 DEF TableChanges
      <4>3. seen[p] # <<>> => Tail(seen[p]) \in Seq(Tables)
        BY <1>0, HeadTailProperties
      <4>4. seen' \in [Proc -> Seq(Tables)]
        BY <3>3, <4>3 DEF TableChanges
      <4>5. Tail(run[p].applied) \in Seq(Commands)
        BY <2>1, <2>4, HeadTailProperties
      <4>6. [run[p] EXCEPT !.applied = Tail(@)] \in Runs
        BY <2>1, <4>5 DEF Runs
      <4>7. run' \in [Proc -> Runs]
        BY <1>1, <3>3, <4>6
      <4> QED BY <1>3, <1>12, <3>1, <4>2, <4>4, <4>7 DEF RollBack, IsTable
    <3>4. CASE Finish(p, "rollbackFailed") /\ Forget(p) /\ UNCHANGED table
      <4>1. run' \in [Proc -> Runs]
        BY <1>1, <1>2, <2>2, <3>4 DEF Finish
      <4> QED BY <1>0, <1>3, <1>4, <1>12, <3>1, <3>4, <4>1 DEF RollBack, IsTable
    <3> QED BY <3>1, <3>3, <3>4
  <2> QED BY <2>3, <2>4
<1>13. ASSUME NEW p \in Proc, ReadAfter(p) PROVE TypeOK'
  <2>1. PICK works \in BOOLEAN, result \in Results : MayFail(works) /\ Finish(p, result) /\ Forget(p)
    BY <1>13 DEF ReadAfter, CemsVerdict, Verdict, Results
  <2>2. run' \in [Proc -> Runs]
    BY <1>1, <1>2, <2>1 DEF Finish
  <2> QED BY <1>0, <1>3, <1>4, <1>13, <2>1, <2>2 DEF ReadAfter, IsTable
<1>14. ASSUME OthersChangeInput PROVE TypeOK'
  <2>1. IsTable(table')
    <3>1. CASE \E r \in OthersInsert, k \in 1..Len(table.input) + 1 :
                 table' = [table EXCEPT !.input = InsertAt(@, k, r)]
      <4>1. PICK r \in OthersInsert, k \in 1..Len(table.input) + 1 :
              table' = [table EXCEPT !.input = InsertAt(@, k, r)]
        BY <3>1
      <4>2. r \in InputRules /\ r # Jump
        BY FirewallAssumption
      <4> DEFINE i == InsertAt(table.input, k, r)
      <4>3. /\ i \in Seq(InputRules) /\ Len(i) = Len(table.input) + 1
            /\ \A j \in 1..Len(table.input) + 1 :
                 i[j] = IF j < k THEN table.input[j] ELSE IF j = k THEN r ELSE table.input[j - 1]
        <5>1. PICK s \in Seq(InputRules) : s = table.input
          BY <1>0, TableParts
        <5>2. k \in 1..Len(s) + 1 /\ r \in InputRules
          BY <4>2, <5>1
        <5>3. /\ InsertAt(s, k, r) \in Seq(InputRules) /\ Len(InsertAt(s, k, r)) = Len(s) + 1
              /\ \A j \in 1..Len(s) + 1 :
                   InsertAt(s, k, r)[j] = IF j < k THEN s[j] ELSE IF j = k THEN r ELSE s[j - 1]
          BY <5>2, InsertAtProperties
        <5> QED BY <5>1, <5>3
      <4>4. table' = [table EXCEPT !.input = i]
        BY <4>1
      <4> HIDE DEF i
      <4>5. ASSUME Jump \in ToSet(i) PROVE Jump \in ToSet(table.input)
        <5>1. PICK j \in 1..Len(i) : i[j] = Jump
          BY <4>3, <4>5 DEF ToSet
        <5>2. Len(table.input) \in Nat /\ DOMAIN table.input = 1..Len(table.input)
          BY <1>0, TableParts
        <5>3. CASE j < k
          BY <4>3, <5>1, <5>2, <5>3 DEF ToSet
        <5>4. CASE j > k
          <6>1. j - 1 \in 1..Len(table.input) /\ table.input[j - 1] = Jump
            BY <4>3, <5>1, <5>2, <5>4
          <6> QED BY <5>2, <6>1 DEF ToSet
        <5>5. j # k
          BY <4>2, <4>3, <5>1
        <5>6. j < k \/ j > k
          BY <5>2, <5>5, <4>3
        <5> QED BY <5>3, <5>4, <5>6
      <4> QED BY <1>0, <4>3, <4>4, <4>5, TableParts DEF IsTable
    <3>2. CASE \E k \in DOMAIN table.input : table' = [table EXCEPT !.input = RemoveAt(@, k)]
      <4>1. PICK k \in DOMAIN table.input : table' = [table EXCEPT !.input = RemoveAt(@, k)]
        BY <3>2
      <4>2. DeleteAt(k) \in AllCommands /\ Accepts(table, DeleteAt(k))
        <5>1. k \in Nat
          BY <1>0, TableParts
        <5>2. DeleteAt(k) \in AllCommands
          BY <5>1 DEF DeleteAt, Command, AllCommands
        <5> QED BY <5>2 DEF DeleteAt, Command, Accepts
      <4>3. table' = Effect(table, DeleteAt(k))
        BY <4>1 DEF DeleteAt, Command, Effect
      <4> QED BY <1>0, <4>2, <4>3, EffectIsTable
    <3> QED BY <1>14, <3>1, <3>2 DEF OthersChangeInput
  <2> QED BY <1>0, <1>5, <1>14, <2>1 DEF OthersChangeInput
<1>15. ASSUME FirewallRestarts PROVE TypeOK'
  BY <1>0, <1>5, <1>15, FirewallAssumption DEF FirewallRestarts
<1>16. ASSUME CemsChangesPolicy PROVE TypeOK'
  BY <1>0, <1>16 DEF CemsChangesPolicy, IsTable
<1>17. ASSUME UNCHANGED vars PROVE TypeOK'
  BY <1>0, <1>17 DEF vars, IsTable
<1> QED BY <1>6, <1>7, <1>8, <1>9, <1>10, <1>11, <1>12, <1>13, <1>14, <1>15, <1>16, <1>17
        DEF Next, Step

\* TypeOK: every variable has its type, and no step refers to a chain that
\* does not exist or counts a rule below zero.
THEOREM TypeCorrect == Spec => []TypeOK
<1>1. Init => TypeOK
  <2> SUFFICES ASSUME Init PROVE TypeOK
    OBVIOUS
  <2>1. IsTable(table) /\ ahead \in Nat /\ table \in Tables
    BY FirewallAssumption DEF Init, IsTable
  <2>2. Idle \in Runs
    BY IdleType
  <2> QED BY <2>1, <2>2 DEF Init, TypeOK
<1>2. TypeOK /\ [Next]_vars => TypeOK'
  BY NextType
<1> QED BY <1>1, <1>2, PTL DEF Spec

-----------------------------------------------------------------------------
(* Undoing.                                                                *)

\* Undoing c leads from u back to t.
Reverts(t, u, c) == Accepts(u, Undo(c)) /\ Effect(u, Undo(c)) = t

\* A trace: the tables a process has seen, the newest first, and the commands
\* that led from one to the other.
IsTrace(s, a) ==
  /\ Len(s) = Len(a) + 1
  /\ \A i \in 1..Len(a) : Reverts(s[i + 1], s[i], a[i])

LEMMA PutInFront ==
  ASSUME NEW S, NEW s \in Seq(S), NEW e \in S
  PROVE  /\ <<e>> \o s \in Seq(S) /\ Len(<<e>> \o s) = Len(s) + 1 /\ (<<e>> \o s)[1] = e
         /\ \A i \in 1..Len(s) : (<<e>> \o s)[i + 1] = s[i]
<1>1. <<e>> \in Seq(S) /\ Len(<<e>>) = 1 /\ <<e>>[1] = e /\ Len(s) \in Nat
  OBVIOUS
<1>2. /\ <<e>> \o s \in Seq(S) /\ Len(<<e>> \o s) = 1 + Len(s)
      /\ \A i \in 1..1 + Len(s) : (<<e>> \o s)[i] = IF i <= 1 THEN <<e>>[i] ELSE s[i - 1]
  BY <1>1, ConcatProperties
<1>3. ASSUME NEW i \in 1..Len(s) PROVE (<<e>> \o s)[i + 1] = s[i]
  <2>1. i + 1 \in 1..1 + Len(s) /\ ~(i + 1 <= 1) /\ (i + 1) - 1 = i
    BY <1>1
  <2> QED BY <1>2, <2>1
<1> QED BY <1>1, <1>2, <1>3

LEMMA LongerTrace ==
  ASSUME NEW s \in Seq(Tables), NEW a \in Seq(Commands), IsTrace(s, a),
         NEW t \in Tables, NEW c \in Commands, Reverts(s[1], t, c)
  PROVE  /\ IsTrace(<<t>> \o s, <<c>> \o a)
         /\ (<<t>> \o s)[1] = t
<1> DEFINE s2 == <<t>> \o s
           a2 == <<c>> \o a
<1>1. s2 \in Seq(Tables) /\ Len(s2) = Len(s) + 1 /\ s2[1] = t /\ \A i \in 1..Len(s) : s2[i + 1] = s[i]
  BY PutInFront
<1>2. a2 \in Seq(Commands) /\ Len(a2) = Len(a) + 1 /\ a2[1] = c /\ \A i \in 1..Len(a) : a2[i + 1] = a[i]
  BY PutInFront
<1> HIDE DEF s2, a2
<1>3. Len(a) \in Nat /\ Len(s) = Len(a) + 1 /\ \A i \in 1..Len(a) : Reverts(s[i + 1], s[i], a[i])
  BY DEF IsTrace
<1>4. ASSUME NEW i \in 1..Len(a2) PROVE Reverts(s2[i + 1], s2[i], a2[i])
  <2>1. CASE i = 1
    <3>1. s2[1 + 1] = s[1] /\ s2[1] = t /\ a2[1] = c
      BY <1>1, <1>2, <1>3
    <3> QED BY <2>1, <3>1
  <2>2. CASE i # 1
    <3> DEFINE j == i - 1
    <3>1. j \in 1..Len(a) /\ j \in 1..Len(s) /\ j + 1 \in 1..Len(s) /\ i = j + 1
      BY <1>2, <1>3, <2>2
    <3> HIDE DEF j
    <3>2. s2[i + 1] = s[j + 1] /\ s2[i] = s[j] /\ a2[i] = a[j]
      BY <1>1, <1>2, <3>1
    <3> QED BY <1>3, <3>1, <3>2
  <2> QED BY <2>1, <2>2
<1>5. Len(s2) = Len(a2) + 1
  BY <1>1, <1>2, <1>3
<1> QED BY <1>1, <1>4, <1>5 DEF IsTrace, s2, a2

LEMMA ShorterTrace ==
  ASSUME NEW s \in Seq(Tables), NEW a \in Seq(Commands), IsTrace(s, a), a # <<>>
  PROVE  /\ IsTrace(Tail(s), Tail(a)) /\ Tail(s) # <<>>
         /\ Reverts(Tail(s)[1], s[1], Head(a))
<1>1. Len(a) \in Nat /\ Len(s) = Len(a) + 1 /\ \A i \in 1..Len(a) : Reverts(s[i + 1], s[i], a[i])
  BY DEF IsTrace
<1>2. Len(a) >= 1 /\ Head(a) = a[1] /\ s # <<>>
  BY <1>1
<1>3. Len(Tail(a)) = Len(a) - 1 /\ \A i \in 1..Len(Tail(a)) : Tail(a)[i] = a[i + 1]
  BY HeadTailProperties
<1>4. /\ Tail(s) \in Seq(Tables) /\ Len(Tail(s)) = Len(s) - 1
      /\ \A i \in 1..Len(Tail(s)) : Tail(s)[i] = s[i + 1]
  BY <1>2, HeadTailProperties
<1>5. ASSUME NEW i \in 1..Len(Tail(a)) PROVE Reverts(Tail(s)[i + 1], Tail(s)[i], Tail(a)[i])
  <2>1. i + 1 \in 1..Len(a) /\ i \in 1..Len(Tail(s)) /\ i + 1 \in 1..Len(Tail(s))
    BY <1>1, <1>3, <1>4
  <2>2. Tail(s)[i + 1] = s[(i + 1) + 1] /\ Tail(s)[i] = s[i + 1] /\ Tail(a)[i] = a[i + 1]
    BY <1>3, <1>4, <2>1
  <2> QED BY <1>1, <2>1, <2>2
<1>6. Len(Tail(s)) = Len(Tail(a)) + 1 /\ 1 \in 1..Len(Tail(s)) /\ Tail(s) # <<>>
  BY <1>1, <1>2, <1>3, <1>4
<1>7. Reverts(Tail(s)[1], s[1], Head(a))
  <2>1. Tail(s)[1] = s[1 + 1] /\ 1 \in 1..Len(a)
    BY <1>1, <1>2, <1>4, <1>6
  <2> QED BY <1>1, <1>2, <2>1
<1> QED BY <1>5, <1>6, <1>7 DEF IsTrace

\* Each command that a process has run can be undone, in reverse order, and
\* leads back to the table that was there before it.
Traces(p) == run[p].pc \in {"apply", "undo"} =>
  IsTrace(seen[p], run[p].applied) /\ seen[p][1] = table

\* The positions of jumps to be deleted are positions of jumps, once the jump
\* at the top is there.
IsJump(k) == k \in DOMAIN table.input /\ table.input[k] = Jump

PlanFits(p) == run[p].pc = "apply" =>
  \A k \in run[p].plan.surplus : IsJump(IF run[p].plan.jump THEN k - 1 ELSE k)

IsBack(p) == run[p].pc = "idle" /\ run[p].result = "rolledBack" => seen[p] = <<table>>

UndoInvOf(p) == Alone(p) => Traces(p) /\ PlanFits(p) /\ IsBack(p)

UndoInv == \A p \in Proc : UndoInvOf(p)

\* What other processes do either leaves a process alone or ends its being so.
LEMMA OthersUndoInv ==
  ASSUME NEW p, UndoInvOf(p), UNCHANGED ahead,
         seen'[p] = <<>> \/ UNCHANGED <<table, seen[p], run[p]>>
  PROVE  UndoInvOf(p)'
<1>1. CASE seen'[p] = <<>>
  BY <1>1 DEF UndoInvOf, Alone
<1>2. CASE UNCHANGED <<table, seen[p], run[p]>>
  BY <1>2 DEF UndoInvOf, Alone, Traces, IsTrace, Reverts, PlanFits, IsBack, IsJump
<1> QED BY <1>1, <1>2

\* A process that is alone after a command was alone before it.
LEMMA AppliedAlone ==
  ASSUME TypeOK, NEW p \in Proc, NEW c \in Commands, NEW rest \in Plans,
         Apply(p, c, rest), UndoInv, Alone(p)',
         Alone(p) => (c.op = "-I" => c.at = 1) /\ (c.op = "-D n" => table.input[c.at] = Jump)
  PROVE  /\ Alone(p) /\ Traces(p)' /\ IsBack(p)'
         /\ \/ run'[p].pc = "undo"
            \/ /\ run'[p].plan = rest /\ table' = Effect(table, c) /\ Accepts(table, c)
<1>1. /\ run \in [Proc -> Runs] /\ seen \in [Proc -> Seq(Tables)] /\ run[p] \in Runs
      /\ IsTable(table) /\ table \in Tables /\ run[p].applied \in Seq(Commands)
      /\ seen[p] \in Seq(Tables)
  BY DEF TypeOK, IsTable, Runs
<1>2. run[p].pc = "apply" /\ ahead' = ahead
  BY DEF Apply
<1>3. PICK works \in BOOLEAN :
        IF works /\ Accepts(table, c)
        THEN LET t == Effect(table, c) IN
               /\ TableChanges(p, t, <<t>> \o seen[p])
               /\ Update(p, [run[p] EXCEPT !.plan = rest, !.applied = <<c>> \o @])
        ELSE Update(p, [run[p] EXCEPT !.pc = "undo"]) /\ UNCHANGED <<table, seen>>
  BY DEF Apply
<1>4. CASE works /\ Accepts(table, c)
  <2> DEFINE t == Effect(table, c)
             applied == <<c>> \o run[p].applied
  <2>1. TableChanges(p, t, <<t>> \o seen[p])
    BY <1>3, <1>4
  <2>2. Update(p, [run[p] EXCEPT !.plan = rest, !.applied = applied])
    BY <1>3, <1>4
  <2>3. Alone(p)
    BY <1>2, <2>1 DEF TableChanges, Alone
  <2>4. Reverts(table, t, c)
    BY <1>1, <1>4, <2>3, UndoReverts DEF Reverts
  <2>5. t \in Tables
    BY <1>1, <1>4, CommandsAreCommands, EffectIsTable DEF IsTable
  <2>6. table' = t /\ seen'[p] = <<t>> \o seen[p]
    BY <2>1, <2>3 DEF TableChanges, Alone
  <2> HIDE DEF t, applied
  <2>7. run'[p].applied = applied /\ run'[p].plan = rest /\ run'[p].pc = "apply"
    BY <1>1, <1>2, <2>2 DEF Update, Runs
  <2>8. Traces(p)
    BY <1>2, <2>3 DEF UndoInv, UndoInvOf
  <2>9. IsTrace(seen[p], run[p].applied) /\ seen[p][1] = table
    BY <1>2, <2>8 DEF Traces
  <2>10. IsTrace(<<t>> \o seen[p], <<c>> \o run[p].applied) /\ (<<t>> \o seen[p])[1] = t
    BY <1>1, <2>4, <2>5, <2>9, LongerTrace
  <2>14. Traces(p)'
    BY <2>6, <2>7, <2>10 DEF Traces, applied, IsTrace, Reverts
  <2>15. IsBack(p)'
    BY <2>7 DEF IsBack
  <2> QED BY <1>4, <2>3, <2>6, <2>7, <2>14, <2>15 DEF t
<1>5. CASE ~(works /\ Accepts(table, c))
  <2>1. Update(p, [run[p] EXCEPT !.pc = "undo"]) /\ UNCHANGED <<table, seen>>
    BY <1>3, <1>5
  <2>2. Alone(p)
    BY <1>2, <2>1 DEF Alone
  <2>3. run'[p].applied = run[p].applied /\ run'[p].pc = "undo"
    BY <1>1, <2>1 DEF Update, Runs
  <2>4. Traces(p)
    BY <2>2 DEF UndoInv, UndoInvOf
  <2>5. Traces(p)'
    BY <1>2, <2>1, <2>3, <2>4 DEF Traces, IsTrace, Reverts
  <2> QED BY <2>2, <2>3, <2>5 DEF IsBack
<1> QED BY <1>4, <1>5

\* Positions in an INPUT chain after a jump was put at the top, or one deleted.
LEMMA JumpsMove ==
  ASSUME NEW t \in Tables, NEW u, NEW k \in Nat \ {0}, NEW n \in Nat \ {0}
  PROVE  /\ /\ u.input = InsertAt(t.input, 1, Jump)
            /\ k - 1 \in DOMAIN t.input /\ t.input[k - 1] = Jump
            => k \in DOMAIN u.input /\ u.input[k] = Jump
         /\ /\ u.input = RemoveAt(t.input, n) /\ n \in DOMAIN t.input /\ k < n
            /\ k \in DOMAIN t.input /\ t.input[k] = Jump
            => k \in DOMAIN u.input /\ u.input[k] = Jump
<1>1. PICK s \in Seq(InputRules) : s = t.input /\ DOMAIN s = 1..Len(s) /\ Len(s) \in Nat
  BY TableParts
<1> DEFINE i == u.input
<1>2. CASE i = InsertAt(s, 1, Jump) /\ k - 1 \in DOMAIN s /\ s[k - 1] = Jump
  <2>1. 1 \in 1..Len(s) + 1 /\ Jump \in InputRules
    BY <1>1 DEF InputRules
  <2>2. /\ i \in Seq(InputRules) /\ Len(i) = Len(s) + 1
        /\ \A j \in 1..Len(s) + 1 : i[j] = IF j < 1 THEN s[j] ELSE IF j = 1 THEN Jump ELSE s[j - 1]
    BY <1>2, <2>1, InsertAtProperties
  <2>3. k \in 1..Len(s) + 1 /\ k > 1
    BY <1>1, <1>2
  <2> HIDE DEF i
  <2>4. k \in DOMAIN i /\ i[k] = Jump
    BY <1>2, <2>2, <2>3
  <2> QED BY <2>4 DEF i
<1>3. CASE i = RemoveAt(s, n) /\ n \in DOMAIN s /\ k < n /\ k \in DOMAIN s /\ s[k] = Jump
  <2>1. n \in 1..Len(s)
    BY <1>1, <1>3
  <2>2. /\ i \in Seq(InputRules) /\ Len(i) = Len(s) - 1
        /\ \A j \in 1..Len(s) - 1 : i[j] = IF j < n THEN s[j] ELSE s[j + 1]
    BY <1>3, <2>1, RemoveAtProperties
  <2>3. k \in 1..Len(s) - 1
    BY <1>1, <1>3, <2>1
  <2> HIDE DEF i
  <2>4. k \in DOMAIN i /\ i[k] = Jump
    BY <1>3, <2>2, <2>3
  <2> QED BY <2>4 DEF i
<1> QED BY <1>1, <1>2, <1>3

\* What a process itself does.
LEMMA OwnUndoInv ==
  ASSUME TypeOK, UndoInv, NEW p \in Proc, Step(p), Alone(p)'
  PROVE  Traces(p)' /\ PlanFits(p)' /\ IsBack(p)'
<1>1. /\ run \in [Proc -> Runs] /\ seen \in [Proc -> Seq(Tables)] /\ run[p] \in Runs
      /\ table \in Tables /\ run[p].applied \in Seq(Commands) /\ run[p].plan \in Plans
      /\ seen[p] \in Seq(Tables) /\ ahead \in Nat
  BY DEF TypeOK, IsTable, Runs
<1>2. Alone(p) => Traces(p) /\ PlanFits(p) /\ IsBack(p)
  BY DEF UndoInv, UndoInvOf
<1>3. run[p].plan.surplus \subseteq Nat \ {0}
  BY <1>1 DEF Plans
<1>4. \A result : Finish(p, result) => run'[p].pc = "idle" /\ run'[p].result = result
  BY <1>1 DEF Finish, Update, Idle
<1>5. CASE ReadBefore(p)
  <2> DEFINE managed == Managed(table)
             plan == IF managed THEN LegacyPlan(table) ELSE BuildPlan(table)
             verdict == IF managed THEN CemsVerdict(table) ELSE Verdict(table)
             on == [Idle EXCEPT !.pc = "apply", !.mode = "repair", !.managed = managed, !.plan = plan]
  <2>1. /\ seen' = [seen EXCEPT ![p] = <<table>>]
        /\ Finish(p, "unread") \/ Finish(p, verdict) \/ Update(p, on)
        /\ table' = table /\ ahead' = ahead
    BY <1>5, Zenon DEF ReadBefore
  <2>2. verdict \in {"pass", "fail"}
    BY DEF CemsVerdict, Verdict
  <2>3. seen'[p] = <<table>>
    BY <1>1, <2>1
  <2>4. plan \in Plans
    BY <1>1, PlanType
  <2>5. \A k \in plan.surplus : IsJump(IF plan.jump THEN k - 1 ELSE k)
    <3>1. CASE managed
      BY <1>1, <3>1, PlanType
    <3>2. CASE ~managed
      <4>1. ahead = 0
        BY <2>1 DEF Alone
      <4>2. InputLines(table) = table.input /\ Jumps(table) \subseteq Nat \ {0}
        BY <1>1, <4>1, InputLinesType
      <4>3. \A k \in Jumps(table) : IsJump(k)
        BY <4>2 DEF Jumps, IsJump
      <4>4. /\ plan.jump = InsertsJump(table)
            /\ plan.surplus = IF InsertsJump(table) THEN {k + 1 : k \in Jumps(table)} ELSE Jumps(table) \ {1}
        BY <3>2 DEF BuildPlan, Plan
      <4> HIDE DEF plan
      <4>5. CASE InsertsJump(table)
        <5>1. ASSUME NEW k \in plan.surplus PROVE IsJump(k - 1)
          <6>1. PICK j \in Jumps(table) : k = j + 1
            BY <4>4, <4>5
          <6>2. k - 1 = j
            BY <4>2, <6>1
          <6> QED BY <4>3, <6>2
        <5> QED BY <4>4, <4>5, <5>1
      <4>6. CASE ~InsertsJump(table)
        BY <4>3, <4>4, <4>6
      <4> QED BY <4>5, <4>6
    <3> QED BY <3>1, <3>2
  <2> HIDE DEF plan, verdict
  <2>6. CASE Finish(p, "unread") \/ Finish(p, verdict)
    <3>1. run'[p].pc = "idle" /\ run'[p].result # "rolledBack"
      BY <1>4, <2>2, <2>6
    <3> QED BY <3>1 DEF Traces, PlanFits, IsBack
  <2>7. CASE Update(p, on)
    <3>1. run'[p].pc = "apply" /\ run'[p].plan = plan /\ run'[p].applied = <<>>
      BY <1>1, <2>7 DEF Update, Idle
    <3>2. IsTrace(<<table>>, <<>>) /\ <<table>>[1] = table
      BY DEF IsTrace
    <3>3. Traces(p)'
      BY <2>1, <2>3, <3>1, <3>2 DEF Traces, IsTrace, Reverts
    <3>4. PlanFits(p)'
      BY <2>1, <2>5, <3>1 DEF PlanFits, IsJump
    <3> QED BY <3>1, <3>3, <3>4 DEF IsBack
  <2> QED BY <2>1, <2>6, <2>7
<1>6. CASE CreateChain(p)
  <2> DEFINE rest == [run[p].plan EXCEPT !.create = FALSE]
  <2>1. Apply(p, NewChain, rest) /\ NewChain \in Commands /\ rest \in Plans /\ run[p].pc = "apply"
    BY <1>6, CommandTypes DEF CreateChain, Apply
  <2>2. NewChain.op = "-N"
    BY DEF NewChain, Command
  <2>3. rest.surplus = run[p].plan.surplus /\ rest.jump = run[p].plan.jump
    BY <1>1 DEF Plans
  <2> HIDE DEF rest
  <2>4. /\ Alone(p) /\ Traces(p)' /\ IsBack(p)'
        /\ \/ run'[p].pc = "undo"
           \/ run'[p].plan = rest /\ table' = Effect(table, NewChain)
    BY <2>1, <2>2, AppliedAlone
  <2>5. Effect(table, NewChain).input = table.input
    BY <1>1 DEF Effect, NewChain, Command, Tables
  <2>6. PlanFits(p)'
    BY <1>2, <2>1, <2>3, <2>4, <2>5 DEF PlanFits, IsJump
  <2> QED BY <2>4, <2>6
<1>7. CASE PutJumpFirst(p)
  <2> DEFINE rest == [run[p].plan EXCEPT !.jump = FALSE]
  <2>1. /\ Apply(p, InsertJump(1), rest) /\ InsertJump(1) \in Commands /\ rest \in Plans
        /\ run[p].pc = "apply" /\ run[p].plan.jump
    BY <1>7, CommandTypes DEF PutJumpFirst, Apply
  <2>2. InsertJump(1).op = "-I" /\ InsertJump(1).at = 1
    BY DEF InsertJump, Command
  <2>3. rest.surplus = run[p].plan.surplus /\ ~rest.jump
    BY <1>1 DEF Plans
  <2> HIDE DEF rest
  <2>4. /\ Alone(p) /\ Traces(p)' /\ IsBack(p)'
        /\ \/ run'[p].pc = "undo"
           \/ run'[p].plan = rest /\ table' = Effect(table, InsertJump(1))
    BY <2>1, <2>2, AppliedAlone
  <2>5. Effect(table, InsertJump(1)).input = InsertAt(table.input, 1, Jump)
    BY <1>1 DEF Effect, InsertJump, Command, Tables
  <2>6. ASSUME table' = Effect(table, InsertJump(1)), NEW k \in rest.surplus PROVE IsJump(k)'
    <3>1. k \in Nat \ {0} /\ IsJump(k - 1)
      BY <1>2, <1>3, <2>1, <2>3, <2>4 DEF PlanFits
    <3> QED BY <1>1, <2>5, <2>6, <3>1, JumpsMove DEF IsJump
  <2>7. PlanFits(p)'
    BY <2>3, <2>4, <2>6 DEF PlanFits
  <2> QED BY <2>4, <2>7
<1>8. CASE RemoveSurplusJump(p)
  <2>1. PICK n \in run[p].plan.surplus :
          /\ \A k \in run[p].plan.surplus : k <= n
          /\ Apply(p, DeleteAt(n), [run[p].plan EXCEPT !.surplus = @ \ {n}])
    BY <1>8 DEF RemoveSurplusJump
  <2> DEFINE rest == [run[p].plan EXCEPT !.surplus = @ \ {n}]
  <2>2. /\ Apply(p, DeleteAt(n), rest) /\ DeleteAt(n) \in Commands /\ rest \in Plans
        /\ run[p].pc = "apply" /\ ~run[p].plan.jump
    BY <1>8, <2>1, CommandTypes DEF RemoveSurplusJump, Apply
  <2>3. DeleteAt(n).op = "-D n" /\ DeleteAt(n).at = n
    BY DEF DeleteAt, Command
  <2>4. rest.surplus = run[p].plan.surplus \ {n} /\ ~rest.jump
    BY <1>1, <2>2 DEF Plans
  <2> HIDE DEF rest
  <2>5. Alone(p) => \A k \in run[p].plan.surplus : IsJump(k)
    BY <1>2, <2>2 DEF PlanFits
  <2>6. /\ Alone(p) /\ Traces(p)' /\ IsBack(p)'
        /\ \/ run'[p].pc = "undo"
           \/ run'[p].plan = rest /\ table' = Effect(table, DeleteAt(n))
    BY <2>2, <2>3, <2>5, AppliedAlone DEF IsJump
  <2>7. Effect(table, DeleteAt(n)).input = RemoveAt(table.input, n)
    BY <1>1 DEF Effect, DeleteAt, Command, Tables
  <2>8. ASSUME table' = Effect(table, DeleteAt(n)), NEW k \in rest.surplus PROVE IsJump(k)'
    <3>1. k \in Nat \ {0} /\ n \in Nat \ {0} /\ k <= n /\ k # n
      BY <1>3, <2>1, <2>4
    <3>2. IsJump(k) /\ IsJump(n) /\ k < n
      BY <2>1, <2>4, <2>5, <2>6, <3>1
    <3> QED BY <1>1, <2>7, <2>8, <3>1, <3>2, JumpsMove DEF IsJump
  <2>9. PlanFits(p)'
    BY <2>4, <2>6, <2>8 DEF PlanFits
  <2> QED BY <2>6, <2>9
<1>9. CASE CorrectRule(p)
  <2>1. run[p].pc = "apply" /\ run[p].plan.surplus = {}
    BY <1>9 DEF CorrectRule, Apply
  <2>2. PICK c \in Commands, rest \in Plans :
          /\ Apply(p, c, rest) /\ c.op \in {"-A", "-D"} /\ rest.surplus = {}
    <3>1. PICK k \in DOMAIN (Required \o Legacy) :
            LET r == (Required \o Legacy)[k] IN
            \/ Apply(p, AppendRule(r), [run[p].plan EXCEPT !.rules[r] = 0])
            \/ Apply(p, DeleteRule(r), [run[p].plan EXCEPT !.rules[r] = @ + 1])
      BY <1>9 DEF CorrectRule
    <3>2. PICK r \in Rules :
            \/ Apply(p, AppendRule(r), [run[p].plan EXCEPT !.rules[r] = 0])
            \/ Apply(p, DeleteRule(r), [run[p].plan EXCEPT !.rules[r] = @ + 1])
      BY <3>1, OrderType
    <3>3. AppendRule(r).op = "-A" /\ DeleteRule(r).op = "-D"
      BY DEF AppendRule, DeleteRule, Command
    <3>4. /\ [run[p].plan EXCEPT !.rules[r] = 0].surplus = {}
          /\ [run[p].plan EXCEPT !.rules[r] = @ + 1].surplus = {}
      BY <1>1, <2>1 DEF Plans
    <3> QED BY <3>2, <3>3, <3>4, CommandTypes
  <2>3. /\ Traces(p)' /\ IsBack(p)'
        /\ run'[p].pc = "undo" \/ run'[p].plan = rest
    BY <2>2, AppliedAlone
  <2>4. PlanFits(p)'
    BY <2>2, <2>3 DEF PlanFits
  <2> QED BY <2>3, <2>4
<1>10. CASE RollBack(p)
  <2>1. run[p].pc = "undo" /\ ahead' = ahead
    BY <1>10 DEF RollBack
  <2>2. CASE run[p].applied = <<>>
    <3>1. Finish(p, "rolledBack") /\ Forget(p) /\ table' = table
      BY <1>10, <2>2 DEF RollBack
    <3>2. seen[p] # <<>> /\ seen'[p] = <<Last(seen[p])>>
      BY <1>1, <3>1 DEF Forget, Alone
    <3>3. Traces(p)
      BY <1>2, <2>1, <3>2 DEF Alone
    <3>4. Len(seen[p]) = 1 /\ seen[p][1] = table
      BY <2>1, <2>2, <3>3 DEF Traces, IsTrace
    <3>5. seen'[p] = <<table'>>
      BY <3>1, <3>2, <3>4 DEF Last
    <3> QED BY <1>4, <3>1, <3>5 DEF Traces, PlanFits, IsBack
  <2>3. CASE run[p].applied # <<>>
    <3> DEFINE undo == Undo(Head(run[p].applied))
    <3>1. \/ /\ TableChanges(p, Effect(table, undo), Tail(seen[p]))
             /\ Update(p, [run[p] EXCEPT !.applied = Tail(@)])
          \/ Finish(p, "rollbackFailed")
      BY <1>10, <2>3, Zenon DEF RollBack
    <3>2. CASE Finish(p, "rollbackFailed")
      BY <1>4, <3>2 DEF Traces, PlanFits, IsBack
    <3>3. CASE /\ TableChanges(p, Effect(table, undo), Tail(seen[p]))
               /\ Update(p, [run[p] EXCEPT !.applied = Tail(@)])
      <4>1. seen[p] # <<>> /\ seen'[p] = Tail(seen[p]) /\ table' = Effect(table, undo)
        BY <3>3 DEF TableChanges, Alone
      <4>2. run'[p].pc = "undo" /\ run'[p].applied = Tail(run[p].applied)
        BY <1>1, <2>1, <3>3 DEF Update, Runs
      <4>3. Traces(p)
        BY <1>2, <2>1, <4>1 DEF Alone
      <4>4. IsTrace(seen[p], run[p].applied) /\ seen[p][1] = table
        BY <2>1, <4>3 DEF Traces
      <4>5. /\ IsTrace(Tail(seen[p]), Tail(run[p].applied))
            /\ Reverts(Tail(seen[p])[1], seen[p][1], Head(run[p].applied))
        BY <1>1, <2>3, <4>4, ShorterTrace
      <4>6. Tail(seen[p])[1] = table'
        BY <4>1, <4>4, <4>5 DEF Reverts
      <4>7. Traces(p)'
        BY <4>1, <4>2, <4>5, <4>6 DEF Traces, IsTrace, Reverts
      <4> QED BY <4>2, <4>7 DEF PlanFits, IsBack
    <3> QED BY <3>1, <3>2, <3>3
  <2> QED BY <2>2, <2>3
<1>11. CASE ReadAfter(p)
  <2>1. PICK result : Finish(p, result) /\ result # "rolledBack"
    BY <1>11 DEF ReadAfter, CemsVerdict, Verdict
  <2> QED BY <1>4, <2>1 DEF Traces, PlanFits, IsBack
<1> QED BY <1>5, <1>6, <1>7, <1>8, <1>9, <1>10, <1>11 DEF Step

\* A step of a process leaves the others alone, or changes the table they saw.
LEMMA StepIsOwn ==
  ASSUME TypeOK, NEW p \in Proc, NEW q \in Proc, q # p, Step(p) \/ Evaluate(p)
  PROVE  ahead' = ahead /\ (seen'[q] = <<>> \/ UNCHANGED <<table, seen[q], run[q]>>)
<1>1. run \in [Proc -> Runs] /\ seen \in [Proc -> Seq(Tables)]
  BY DEF TypeOK
<1>2. \A r : Update(p, r) => run'[q] = run[q]
  BY <1>1 DEF Update
<1>3. \A result : Finish(p, result) => run'[q] = run[q]
  BY <1>2 DEF Finish
<1>4. Forget(p) => seen'[q] = seen[q]
  BY <1>1 DEF Forget
<1>5. \A t, trail : TableChanges(p, t, trail) => seen'[q] = <<>>
  BY DEF TableChanges
<1>6. \A c, rest : Apply(p, c, rest) =>
        ahead' = ahead /\ (seen'[q] = <<>> \/ UNCHANGED <<table, seen[q], run[q]>>)
  BY <1>2, <1>5 DEF Apply
<1>7. CASE Evaluate(p)
  <2>1. run'[q] = run[q] /\ seen'[q] = seen[q]
    BY <1>1, <1>2, <1>7 DEF Evaluate
  <2> QED BY <1>7, <2>1 DEF Evaluate
<1>8. CASE ReadBefore(p)
  <2>1. seen'[q] = seen[q]
    BY <1>1, <1>8 DEF ReadBefore
  <2>2. run'[q] = run[q]
    BY <1>2, <1>3, <1>8 DEF ReadBefore
  <2> QED BY <1>8, <2>1, <2>2 DEF ReadBefore
<1>9. CASE CreateChain(p) \/ PutJumpFirst(p) \/ RemoveSurplusJump(p) \/ CorrectRule(p)
  BY <1>6, <1>9 DEF CreateChain, PutJumpFirst, RemoveSurplusJump, CorrectRule
<1>10. CASE RollBack(p)
  BY <1>2, <1>3, <1>4, <1>5, <1>10 DEF RollBack
<1>11. CASE ReadAfter(p)
  BY <1>3, <1>4, <1>11 DEF ReadAfter
<1> QED BY <1>7, <1>8, <1>9, <1>10, <1>11 DEF Step

LEMMA NextUndoInv == ASSUME TypeOK, UndoInv, [Next]_vars PROVE UndoInv'
<1> SUFFICES ASSUME NEW q \in Proc PROVE UndoInvOf(q)'
  BY DEF UndoInv
<1>1. UndoInvOf(q)
  BY DEF UndoInv
<1>2. CASE Step(q)
  BY <1>2, OwnUndoInv DEF UndoInvOf
<1>3. CASE Evaluate(q)
  <2>1. seen'[q] = <<>> /\ ahead' = ahead
    BY <1>3 DEF Evaluate, TypeOK
  <2> QED BY <1>1, <2>1, OthersUndoInv
<1>4. ASSUME NEW p \in Proc, p # q, Step(p) \/ Evaluate(p) PROVE UndoInvOf(q)'
  <2>1. ahead' = ahead /\ (seen'[q] = <<>> \/ UNCHANGED <<table, seen[q], run[q]>>)
    BY <1>4, StepIsOwn
  <2> QED BY <1>1, <2>1, OthersUndoInv
<1>5. CASE OthersChangeInput \/ FirewallRestarts
  <2>1. seen'[q] = <<>> /\ ahead' = ahead
    BY <1>5 DEF OthersChangeInput, FirewallRestarts, Disturb
  <2> QED BY <1>1, <2>1, OthersUndoInv
<1>6. CASE CemsChangesPolicy \/ UNCHANGED vars
  <2>1. UNCHANGED <<table, seen, run, ahead>>
    BY <1>6 DEF CemsChangesPolicy, vars
  <2> QED BY <1>1, <2>1, OthersUndoInv
<1> QED BY <1>2, <1>3, <1>4, <1>5, <1>6 DEF Next

\* UndoIsExact: whatever rules, chains and positions there are, a process that
\* works alone can undo every command, and ends at the table it found.
THEOREM UndoExact == Spec => []UndoIsExact
<1>1. Init => UndoInv
  BY DEF Init, UndoInv, UndoInvOf, Alone
<1>2. TypeOK /\ UndoInv /\ [Next]_vars => UndoInv'
  BY NextUndoInv
<1>3. TypeOK /\ UndoInv => UndoIsExact
  <2> SUFFICES ASSUME TypeOK, UndoInv, NEW p \in Proc, Alone(p)
               PROVE  /\ run[p].pc = "undo" /\ run[p].applied # <<>> =>
                           Accepts(table, Undo(Head(run[p].applied)))
                      /\ run[p].pc = "idle" /\ run[p].result = "rolledBack" => table = Found(p)
    BY DEF UndoIsExact
  <2>1. Traces(p) /\ IsBack(p)
    BY DEF UndoInv, UndoInvOf
  <2>2. ASSUME run[p].pc = "undo", run[p].applied # <<>>
        PROVE  Accepts(table, Undo(Head(run[p].applied)))
    <3>1. seen[p] \in Seq(Tables) /\ run[p].applied \in Seq(Commands)
      BY DEF TypeOK, Runs
    <3>2. IsTrace(seen[p], run[p].applied) /\ seen[p][1] = table
      BY <2>1, <2>2 DEF Traces
    <3>3. Reverts(Tail(seen[p])[1], seen[p][1], Head(run[p].applied))
      BY <2>2, <3>1, <3>2, ShorterTrace
    <3> QED BY <3>2, <3>3 DEF Reverts
  <2>3. ASSUME run[p].pc = "idle", run[p].result = "rolledBack" PROVE table = Found(p)
    <3>1. seen[p] = <<table>>
      BY <2>1, <2>3 DEF IsBack
    <3>2. Len(<<table>>) = 1 /\ <<table>>[1] = table
      OBVIOUS
    <3> QED BY <3>1, <3>2 DEF Found, Last
  <2> QED BY <2>2, <2>3
<1> QED BY <1>1, <1>2, <1>3, TypeCorrect, PTL DEF Spec

-----------------------------------------------------------------------------
(* Plans, made afresh.                                                     *)

JumpsOf(t) == {k \in DOMAIN t.input : t.input[k] = Jump}

\* What BuildPlan makes of a table where iptables-save prints nothing first.
FreshPlan(t) ==
  Plan(t, 1 \notin JumpsOf(t),
       IF 1 \notin JumpsOf(t) THEN {k + 1 : k \in JumpsOf(t)} ELSE JumpsOf(t) \ {1},
       RulePlan(t))

LEMMA FreshPlanIsPlan ==
  ASSUME NEW t \in Tables, ahead \in Nat, ahead = 0
  PROVE  BuildPlan(t) = FreshPlan(t)
<1>1. InputLines(t) = t.input
  BY InputLinesType
<1>2. Jumps(t) = JumpsOf(t)
  BY <1>1 DEF Jumps, JumpsOf
<1> QED BY <1>2 DEF BuildPlan, FreshPlan, InsertsJump

\* Where iptables-save prints rules of other tables first, there is always
\* something to do.
LEMMA ListingsHideTheJump ==
  ASSUME NEW t \in Tables, ahead \in Nat, BuildPlan(t) = NothingToDo
  PROVE  ahead = 0
<1>1. ~BuildPlan(t).jump
  BY DEF NothingToDo
<1>2. 1 \in Jumps(t)
  BY <1>1 DEF BuildPlan, Plan, InsertsJump
<1>3. SUFFICES ASSUME ahead # 0 PROVE FALSE
  OBVIOUS
<1> DEFINE e == [k \in 1..ahead |-> "elsewhere"]
           S == InputRules \cup {"elsewhere"}
<1>4. e \in Seq(S) /\ Len(e) = ahead /\ 1 \in 1..ahead /\ e[1] = "elsewhere"
  BY <1>3
<1>5. t.input \in Seq(S) /\ Len(t.input) \in Nat
  BY TableParts
<1> HIDE DEF e, S
<1>6. 1 \in 1..Len(e) + Len(t.input) /\ 1 <= Len(e)
  BY <1>4, <1>5
<1>7. (e \o t.input)[1] = e[1]
  BY <1>4, <1>5, <1>6, ConcatProperties
<1>8. InputLines(t)[1] = "elsewhere"
  BY <1>4, <1>7 DEF InputLines, e
<1> QED BY <1>2, <1>8 DEF Jumps, Jump

\* The fields of a plan made afresh.
LEMMA FreshParts ==
  ASSUME NEW t
  PROVE  LET p == FreshPlan(t) IN
         /\ p.create = ~t.chain
         /\ p.jump = (1 \notin JumpsOf(t))
         /\ p.surplus = IF 1 \notin JumpsOf(t) THEN {k + 1 : k \in JumpsOf(t)} ELSE JumpsOf(t) \ {1}
         /\ p.rules = RulePlan(t)
BY DEF FreshPlan, Plan

\* Two plans with the same parts are the same plan.
LEMMA SamePlan ==
  ASSUME NEW p \in Plans, NEW q \in Plans,
         p.create = q.create, p.jump = q.jump, p.surplus = q.surplus, p.rules = q.rules
  PROVE  p = q
BY DEF Plans

\* What a change of one part of a plan leaves.
LEMMA PlanParts ==
  ASSUME NEW p \in Plans
  PROVE  /\ LET q == [p EXCEPT !.create = FALSE] IN
              q \in Plans /\ q.create = FALSE /\ q.jump = p.jump /\ q.surplus = p.surplus /\ q.rules = p.rules
         /\ LET q == [p EXCEPT !.jump = FALSE] IN
              q \in Plans /\ q.jump = FALSE /\ q.create = p.create /\ q.surplus = p.surplus /\ q.rules = p.rules
         /\ \A n : LET q == [p EXCEPT !.surplus = @ \ {n}] IN
              /\ q \in Plans /\ q.surplus = p.surplus \ {n}
              /\ q.create = p.create /\ q.jump = p.jump /\ q.rules = p.rules
         /\ \A f \in [Rules -> Int] : LET q == [p EXCEPT !.rules = f] IN
              /\ q \in Plans /\ q.rules = f
              /\ q.create = p.create /\ q.jump = p.jump /\ q.surplus = p.surplus
BY DEF Plans

LEMMA FreshPlanType ==
  ASSUME NEW t \in Tables
  PROVE  FreshPlan(t) \in Plans /\ JumpsOf(t) \subseteq Nat \ {0}
<1>1. t.rules \in [Rules -> Nat] /\ t.chain \in BOOLEAN /\ DOMAIN t.input = 1..Len(t.input)
  BY TableParts
<1>2. RulePlan(t) \in [Rules -> Int]
  BY <1>1 DEF RulePlan
<1>3. JumpsOf(t) \subseteq Nat \ {0}
  BY <1>1 DEF JumpsOf
<1>4. {k + 1 : k \in JumpsOf(t)} \in SUBSET (Nat \ {0}) /\ JumpsOf(t) \ {1} \in SUBSET (Nat \ {0})
  BY <1>3
<1> QED BY <1>1, <1>2, <1>3, <1>4 DEF FreshPlan, Plan, Plans

\* Once the jump is at the top, the jumps there were have moved by one.
LEMMA JumpsAfterInsert ==
  ASSUME NEW t \in Tables, NEW u \in Tables, u.input = InsertAt(t.input, 1, Jump)
  PROVE  1 \in JumpsOf(u) /\ JumpsOf(u) \ {1} = {k + 1 : k \in JumpsOf(t)}
<1>1. PICK s \in Seq(InputRules) : s = t.input /\ DOMAIN s = 1..Len(s) /\ Len(s) \in Nat
  BY TableParts
<1>2. 1 \in 1..Len(s) + 1 /\ Jump \in InputRules
  BY <1>1 DEF InputRules
<1>3. PICK i \in Seq(InputRules) : i = u.input /\ DOMAIN i = 1..Len(i)
  BY TableParts
<1>4. /\ Len(i) = Len(s) + 1
      /\ \A j \in 1..Len(s) + 1 : i[j] = IF j < 1 THEN s[j] ELSE IF j = 1 THEN Jump ELSE s[j - 1]
  <2>1. i = InsertAt(s, 1, Jump)
    BY <1>1, <1>3
  <2>2. /\ Len(InsertAt(s, 1, Jump)) = Len(s) + 1
        /\ \A j \in 1..Len(s) + 1 : InsertAt(s, 1, Jump)[j] =
             IF j < 1 THEN s[j] ELSE IF j = 1 THEN Jump ELSE s[j - 1]
    BY <1>2, InsertAtProperties
  <2> QED BY <2>1, <2>2
<1>5. JumpsOf(u) = {k \in 1..Len(s) + 1 : i[k] = Jump}
  BY <1>3, <1>4 DEF JumpsOf
<1>6. JumpsOf(t) = {k \in 1..Len(s) : s[k] = Jump}
  BY <1>1 DEF JumpsOf
<1>7. i[1] = Jump /\ \A k \in 1..Len(s) : k + 1 \in 1..Len(s) + 1 /\ i[k + 1] = s[k]
  <2>1. i[1] = Jump
    BY <1>2, <1>4
  <2>2. ASSUME NEW k \in 1..Len(s) PROVE k + 1 \in 1..Len(s) + 1 /\ i[k + 1] = s[k]
    <3>1. k + 1 \in 1..Len(s) + 1 /\ ~(k + 1 < 1) /\ k + 1 # 1 /\ (k + 1) - 1 = k
      BY <1>1
    <3> QED BY <1>4, <3>1
  <2> QED BY <2>1, <2>2
<1>8. 1 \in JumpsOf(u)
  BY <1>2, <1>5, <1>7
<1>9. ASSUME NEW k \in JumpsOf(u) \ {1} PROVE \E j \in JumpsOf(t) : k = j + 1
  <2>1. k \in 1..Len(s) + 1 /\ k # 1 /\ i[k] = Jump
    BY <1>5, <1>9
  <2>2. k - 1 \in 1..Len(s) /\ k = (k - 1) + 1
    BY <1>1, <2>1
  <2>3. s[k - 1] = Jump
    BY <1>7, <2>1, <2>2
  <2> QED BY <1>6, <2>2, <2>3
<1>10. ASSUME NEW j \in JumpsOf(t) PROVE j + 1 \in JumpsOf(u) \ {1}
  <2>1. j \in 1..Len(s) /\ s[j] = Jump /\ j + 1 # 1
    BY <1>1, <1>6
  <2> QED BY <1>5, <1>7, <2>1
<1> QED BY <1>8, <1>9, <1>10

\* Without the last jump there are the others, at their places.
LEMMA JumpsAfterRemove ==
  ASSUME NEW t \in Tables, NEW u \in Tables, NEW n \in JumpsOf(t),
         \A k \in JumpsOf(t) : k <= n,
         u.input = RemoveAt(t.input, n)
  PROVE  JumpsOf(u) = JumpsOf(t) \ {n}
<1>1. PICK s \in Seq(InputRules) : s = t.input /\ DOMAIN s = 1..Len(s) /\ Len(s) \in Nat
  BY TableParts
<1>2. JumpsOf(t) = {k \in 1..Len(s) : s[k] = Jump} /\ n \in 1..Len(s)
  BY <1>1 DEF JumpsOf
<1>3. PICK i \in Seq(InputRules) : i = u.input /\ DOMAIN i = 1..Len(i)
  BY TableParts
<1>4. /\ Len(i) = Len(s) - 1
      /\ \A j \in 1..Len(s) - 1 : i[j] = IF j < n THEN s[j] ELSE s[j + 1]
  <2>1. i = RemoveAt(s, n)
    BY <1>1, <1>3
  <2>2. /\ Len(RemoveAt(s, n)) = Len(s) - 1
        /\ \A j \in 1..Len(s) - 1 : RemoveAt(s, n)[j] = IF j < n THEN s[j] ELSE s[j + 1]
    BY <1>2, RemoveAtProperties
  <2> QED BY <2>1, <2>2
<1>5. JumpsOf(u) = {k \in 1..Len(s) - 1 : i[k] = Jump}
  BY <1>3, <1>4 DEF JumpsOf
<1>6. ASSUME NEW k \in JumpsOf(u) PROVE k \in JumpsOf(t) \ {n}
  <2>1. k \in 1..Len(s) - 1 /\ i[k] = Jump
    BY <1>5
  <2>2. CASE k < n
    BY <1>1, <1>2, <1>4, <2>1, <2>2
  <2>3. CASE ~(k < n)
    <3>1. k + 1 \in 1..Len(s) /\ s[k + 1] = Jump /\ k + 1 > n
      BY <1>1, <1>2, <1>4, <2>1, <2>3
    <3>2. k + 1 \in JumpsOf(t)
      BY <1>2, <3>1
    <3>3. k + 1 <= n
      BY <3>2
    <3> QED BY <1>2, <2>1, <3>1, <3>3
  <2> QED BY <2>2, <2>3
<1>7. ASSUME NEW k \in JumpsOf(t) \ {n} PROVE k \in JumpsOf(u)
  <2>1. k \in 1..Len(s) /\ s[k] = Jump /\ k <= n /\ k # n
    BY <1>2, <1>7
  <2>2. k \in 1..Len(s) - 1 /\ k < n
    BY <1>1, <1>2, <2>1
  <2>3. i[k] = Jump
    BY <1>4, <2>1, <2>2
  <2> QED BY <1>5, <2>2, <2>3
<1> QED BY <1>6, <1>7

\* What is left of a plan after one of its commands is the plan that would be
\* made from the table afterwards.
LEMMA RestAfterCreate ==
  ASSUME NEW t \in Tables, NEW u \in Tables, u = Effect(t, NewChain)
  PROVE  FreshPlan(u) = [FreshPlan(t) EXCEPT !.create = FALSE]
<1> DEFINE rest == [FreshPlan(t) EXCEPT !.create = FALSE]
<1>1. u = [t EXCEPT !.chain = TRUE]
  BY DEF Effect, NewChain, Command
<1>2. u.chain /\ u.input = t.input /\ u.rules = t.rules
  BY <1>1, TableParts
<1>3. JumpsOf(u) = JumpsOf(t) /\ RulePlan(u) = RulePlan(t)
  BY <1>2 DEF JumpsOf, RulePlan
<1>4. FreshPlan(t) \in Plans /\ FreshPlan(u) \in Plans
  BY FreshPlanType
<1>5. /\ rest \in Plans /\ rest.create = FALSE /\ rest.jump = FreshPlan(t).jump
      /\ rest.surplus = FreshPlan(t).surplus /\ rest.rules = FreshPlan(t).rules
  BY <1>4, PlanParts
<1>6. /\ FreshPlan(u).create = FALSE /\ FreshPlan(u).jump = FreshPlan(t).jump
      /\ FreshPlan(u).surplus = FreshPlan(t).surplus /\ FreshPlan(u).rules = FreshPlan(t).rules
  BY <1>2, <1>3, FreshParts, Zenon
<1> HIDE DEF rest
<1>7. FreshPlan(u) = rest
  BY <1>4, <1>5, <1>6, SamePlan
<1> QED BY <1>7 DEF rest

LEMMA RestAfterInsert ==
  ASSUME NEW t \in Tables, NEW u \in Tables, FreshPlan(t).jump, u = Effect(t, InsertJump(1))
  PROVE  /\ FreshPlan(u) = [FreshPlan(t) EXCEPT !.jump = FALSE]
         /\ 1 \in JumpsOf(u) /\ u.rules = t.rules
<1> DEFINE rest == [FreshPlan(t) EXCEPT !.jump = FALSE]
<1>1. u = [t EXCEPT !.input = InsertAt(t.input, 1, Jump)]
  BY DEF Effect, InsertJump, Command
<1>2. u.chain = t.chain /\ u.input = InsertAt(t.input, 1, Jump) /\ u.rules = t.rules
  BY <1>1 DEF Tables
<1>3. 1 \in JumpsOf(u) /\ JumpsOf(u) \ {1} = {k + 1 : k \in JumpsOf(t)}
  BY <1>2, JumpsAfterInsert
<1>4. RulePlan(u) = RulePlan(t) /\ 1 \notin JumpsOf(t)
  BY <1>2, FreshParts DEF RulePlan
<1>5. FreshPlan(t) \in Plans /\ FreshPlan(u) \in Plans
  BY FreshPlanType
<1>6. /\ rest \in Plans /\ rest.jump = FALSE /\ rest.create = FreshPlan(t).create
      /\ rest.surplus = FreshPlan(t).surplus /\ rest.rules = FreshPlan(t).rules
  BY <1>5, PlanParts
<1>7. FreshPlan(u).jump = FALSE /\ FreshPlan(u).create = FreshPlan(t).create
  BY <1>2, <1>3, FreshParts
<1>8. FreshPlan(u).surplus = FreshPlan(t).surplus /\ FreshPlan(u).rules = FreshPlan(t).rules
  BY <1>3, <1>4, FreshParts
<1> HIDE DEF rest
<1>9. FreshPlan(u) = rest
  BY <1>5, <1>6, <1>7, <1>8, SamePlan
<1> QED BY <1>2, <1>3, <1>9 DEF rest

LEMMA RestAfterDelete ==
  ASSUME NEW t \in Tables, ~FreshPlan(t).jump, NEW n \in FreshPlan(t).surplus,
         \A k \in FreshPlan(t).surplus : k <= n
  PROVE  /\ n \in JumpsOf(t) /\ n > 1 /\ 1 \in JumpsOf(t)
         /\ \A u \in Tables : u = Effect(t, DeleteAt(n)) =>
              /\ FreshPlan(u) = [FreshPlan(t) EXCEPT !.surplus = @ \ {n}]
              /\ 1 \in JumpsOf(u) /\ u.rules = t.rules
<1>1. 1 \in JumpsOf(t) /\ FreshPlan(t).surplus = JumpsOf(t) \ {1}
  BY FreshParts
<1>2. n \in JumpsOf(t) /\ n # 1 /\ n \in Nat \ {0}
  BY <1>1, FreshPlanType
<1>3. \A k \in JumpsOf(t) : k <= n
  BY <1>1, <1>2
<1>4. ASSUME NEW u \in Tables, u = Effect(t, DeleteAt(n))
      PROVE  /\ FreshPlan(u) = [FreshPlan(t) EXCEPT !.surplus = @ \ {n}]
             /\ 1 \in JumpsOf(u) /\ u.rules = t.rules
  <2> DEFINE rest == [FreshPlan(t) EXCEPT !.surplus = @ \ {n}]
  <2>1. u = [t EXCEPT !.input = RemoveAt(t.input, n)]
    BY <1>4 DEF Effect, DeleteAt, Command
  <2>2. u.chain = t.chain /\ u.input = RemoveAt(t.input, n) /\ u.rules = t.rules
    BY <2>1 DEF Tables
  <2>3. JumpsOf(u) = JumpsOf(t) \ {n}
    BY <1>2, <1>3, <2>2, JumpsAfterRemove
  <2>4. 1 \in JumpsOf(u) /\ JumpsOf(u) \ {1} = (JumpsOf(t) \ {1}) \ {n}
    BY <1>1, <1>2, <2>3
  <2>5. RulePlan(u) = RulePlan(t)
    BY <2>2 DEF RulePlan
  <2>6. FreshPlan(t) \in Plans /\ FreshPlan(u) \in Plans
    BY FreshPlanType
  <2>7. /\ rest \in Plans /\ rest.jump = FreshPlan(t).jump /\ rest.create = FreshPlan(t).create
        /\ rest.surplus = FreshPlan(t).surplus \ {n} /\ rest.rules = FreshPlan(t).rules
    BY <2>6, PlanParts
  <2>8. FreshPlan(u).jump = FreshPlan(t).jump /\ FreshPlan(u).create = FreshPlan(t).create
    BY <1>1, <2>2, <2>4, FreshParts
  <2>9. FreshPlan(u).surplus = FreshPlan(t).surplus \ {n} /\ FreshPlan(u).rules = FreshPlan(t).rules
    BY <1>1, <2>4, <2>5, FreshParts
  <2> HIDE DEF rest
  <2>10. FreshPlan(u) = rest
    BY <2>6, <2>7, <2>8, <2>9, SamePlan
  <2> QED BY <2>2, <2>4, <2>10 DEF rest
<1>5. n > 1
  BY <1>2
<1> QED BY <1>1, <1>2, <1>4, <1>5

\* Appending a missing rule, and deleting one too many, leave what is still
\* missing and too many.
LEMMA RuleAppended ==
  ASSUME NEW t \in Tables, NEW u \in Tables, NEW r \in Rules, u = Effect(t, AppendRule(r))
  PROVE  /\ u.chain = t.chain /\ u.input = t.input
         /\ u.rules = [t.rules EXCEPT ![r] = t.rules[r] + 1]
<1>1. u = [t EXCEPT !.rules[r] = @ + 1]
  BY DEF Effect, AppendRule, Command
<1>2. u = [t EXCEPT !.rules = [t.rules EXCEPT ![r] = t.rules[r] + 1]]
  BY <1>1, Zenon
<1>3. [t.rules EXCEPT ![r] = t.rules[r] + 1] \in [Rules -> Nat]
  <2>1. t.rules \in [Rules -> Nat]
    BY TableParts
  <2>2. t.rules[r] + 1 \in Nat
    BY <2>1
  <2> QED BY <2>1, <2>2
<1> QED BY <1>2, <1>3, TableParts

LEMMA RuleDeleted ==
  ASSUME NEW t \in Tables, NEW u \in Tables, NEW r \in Rules, u = Effect(t, DeleteRule(r)),
         t.rules[r] > 0
  PROVE  /\ u.chain = t.chain /\ u.input = t.input
         /\ u.rules = [t.rules EXCEPT ![r] = t.rules[r] - 1]
<1>1. u = [t EXCEPT !.rules[r] = @ - 1]
  BY DEF Effect, DeleteRule, Command
<1>2. u = [t EXCEPT !.rules = [t.rules EXCEPT ![r] = t.rules[r] - 1]]
  BY <1>1, Zenon
<1>3. [t.rules EXCEPT ![r] = t.rules[r] - 1] \in [Rules -> Nat]
  <2>1. t.rules \in [Rules -> Nat]
    BY TableParts
  <2>2. t.rules[r] - 1 \in Nat
    BY <2>1
  <2> QED BY <2>1, <2>2
<1> QED BY <1>2, <1>3, TableParts

LegacyRules(t) == [r \in Rules |-> IF r \in ToSet(Legacy) THEN -t.rules[r] ELSE 0]

LEMMA LegacyParts ==
  ASSUME NEW t \in Tables
  PROVE  LET p == LegacyPlan(t) IN
         /\ p \in Plans /\ p.create = FALSE /\ p.jump = FALSE /\ p.surplus = {}
         /\ p.rules = LegacyRules(t)
<1>1. t.rules \in [Rules -> Nat]
  BY TableParts
<1>2. LegacyRules(t) \in [Rules -> Int]
  BY <1>1 DEF LegacyRules
<1> QED BY <1>2 DEF LegacyPlan, NothingToDo, NoRules, LegacyRules, Plans

\* The two ways of counting what is to be done about a rule.
LEMMA CountRules ==
  ASSUME NEW t \in Tables
  PROVE  /\ t.rules \in [Rules -> Nat]
         /\ RulePlan(t) \in [Rules -> Int] /\ LegacyRules(t) \in [Rules -> Int]
         /\ \A r \in ToSet(Required) :
              r \in Rules /\ RulePlan(t)[r] = 1 - t.rules[r] /\ LegacyRules(t)[r] = 0
         /\ \A r \in ToSet(Legacy) :
              r \in Rules /\ RulePlan(t)[r] = -t.rules[r] /\ LegacyRules(t)[r] = -t.rules[r]
         /\ \A r \in Rules : r \in ToSet(Required) \/ r \in ToSet(Legacy)
<1>1. t.rules \in [Rules -> Nat]
  BY TableParts
<1>2. RulePlan(t) \in [Rules -> Int] /\ LegacyRules(t) \in [Rules -> Int]
  BY <1>1 DEF RulePlan, LegacyRules
<1>3. ASSUME NEW r \in ToSet(Required)
      PROVE  r \in Rules /\ RulePlan(t)[r] = 1 - t.rules[r] /\ LegacyRules(t)[r] = 0
  <2>1. r \in Rules /\ r \notin ToSet(Legacy)
    BY FirewallAssumption DEF Rules
  <2> QED BY <2>1 DEF RulePlan, LegacyRules
<1>4. ASSUME NEW r \in ToSet(Legacy)
      PROVE  r \in Rules /\ RulePlan(t)[r] = -t.rules[r] /\ LegacyRules(t)[r] = -t.rules[r]
  BY DEF RulePlan, LegacyRules, Rules
<1> QED BY <1>1, <1>2, <1>3, <1>4 DEF Rules

\* Two functions that differ at one argument.
LEMMA DiffersAt ==
  ASSUME NEW S, NEW T, NEW f \in [S -> T], NEW g \in [S -> T], NEW r \in S, NEW v \in T,
         g[r] = v, \A q \in S : q # r => g[q] = f[q]
  PROVE  g = [f EXCEPT ![r] = v]
OBVIOUS

\* Only the count of one rule changes, and by as much what is to be done.
LEMMA CountsChange ==
  ASSUME NEW t \in Tables, NEW u \in Tables, NEW r \in Rules, NEW n \in Nat,
         u.rules = [t.rules EXCEPT ![r] = n]
  PROVE  /\ RulePlan(u) = [RulePlan(t) EXCEPT ![r] = RulePlan(u)[r]]
         /\ LegacyRules(u) = [LegacyRules(t) EXCEPT ![r] = LegacyRules(u)[r]]
<1>1. t.rules \in [Rules -> Nat] /\ u.rules \in [Rules -> Nat]
  BY TableParts
<1>2. \A q \in Rules : q # r => u.rules[q] = t.rules[q]
  BY <1>1
<1>3. \A q \in Rules : q # r =>
        RulePlan(u)[q] = RulePlan(t)[q] /\ LegacyRules(u)[q] = LegacyRules(t)[q]
  BY <1>2 DEF RulePlan, LegacyRules
<1>4. /\ RulePlan(u) \in [Rules -> Int] /\ LegacyRules(u) \in [Rules -> Int]
      /\ RulePlan(t) \in [Rules -> Int] /\ LegacyRules(t) \in [Rules -> Int]
  BY CountRules
<1>5. RulePlan(u)[r] \in Int /\ LegacyRules(u)[r] \in Int
  BY <1>4
<1> QED BY <1>3, <1>4, <1>5, DiffersAt

\* What a process that manages nothing, or leaves the rest to CEMS, would do.
PlanFor(managed, t) == IF managed THEN LegacyPlan(t) ELSE FreshPlan(t)

LEMMA PlanForParts ==
  ASSUME NEW t \in Tables, NEW managed \in BOOLEAN
  PROVE  /\ PlanFor(managed, t) \in Plans
         /\ PlanFor(managed, t).rules = IF managed THEN LegacyRules(t) ELSE RulePlan(t)
         /\ managed => ~PlanFor(managed, t).create /\ ~PlanFor(managed, t).jump
                       /\ PlanFor(managed, t).surplus = {}
BY LegacyParts, FreshPlanType, FreshParts DEF PlanFor

\* The plan for a table that differs only in its rules.
LEMMA PlanForRules ==
  ASSUME NEW t \in Tables, NEW u \in Tables, NEW managed \in BOOLEAN,
         u.chain = t.chain, u.input = t.input
  PROVE  LET rules == PlanFor(managed, u).rules IN
         PlanFor(managed, u) = [PlanFor(managed, t) EXCEPT !.rules = rules]
<1> DEFINE rules == PlanFor(managed, u).rules
           rest == [PlanFor(managed, t) EXCEPT !.rules = rules]
<1>1. PlanFor(managed, u) \in Plans /\ PlanFor(managed, t) \in Plans
  BY PlanForParts
<1>2. rules \in [Rules -> Int]
  BY <1>1 DEF Plans
<1>3. /\ PlanFor(managed, u).create = PlanFor(managed, t).create
      /\ PlanFor(managed, u).jump = PlanFor(managed, t).jump
      /\ PlanFor(managed, u).surplus = PlanFor(managed, t).surplus
  <2>1. CASE managed
    BY <2>1, LegacyParts, Zenon DEF PlanFor
  <2>2. CASE ~managed
    <3>1. JumpsOf(u) = JumpsOf(t)
      BY DEF JumpsOf
    <3>2. /\ FreshPlan(u).create = FreshPlan(t).create
          /\ FreshPlan(u).jump = FreshPlan(t).jump
          /\ FreshPlan(u).surplus = FreshPlan(t).surplus
      BY <3>1, FreshParts, Zenon
    <3> QED BY <2>2, <3>2, Zenon DEF PlanFor
  <2> QED BY <2>1, <2>2
<1>4. rules = PlanFor(managed, u).rules
  OBVIOUS
<1> HIDE DEF rules
<1>5. /\ rest \in Plans /\ rest.rules = rules
      /\ rest.create = PlanFor(managed, t).create /\ rest.jump = PlanFor(managed, t).jump
      /\ rest.surplus = PlanFor(managed, t).surplus
  BY <1>1, <1>2, PlanParts
<1> HIDE DEF rest
<1>6. PlanFor(managed, u) = rest
  BY <1>1, <1>3, <1>4, <1>5, SamePlan
<1> QED BY <1>6 DEF rest, rules

LEMMA RestAfterAppend ==
  ASSUME NEW t \in Tables, NEW managed \in BOOLEAN, NEW r \in Rules,
         PlanFor(managed, t).rules[r] = 1
  PROVE  /\ ~managed /\ r \in ToSet(Required) /\ t.rules[r] = 0
         /\ \A u \in Tables : u = Effect(t, AppendRule(r)) =>
              PlanFor(managed, u) = [PlanFor(managed, t) EXCEPT !.rules[r] = 0]
<1>1. t.rules \in [Rules -> Nat] /\ t.rules[r] \in Nat
  BY TableParts
<1>2. ~managed
  <2>1. SUFFICES ASSUME managed PROVE FALSE
    OBVIOUS
  <2>2. LegacyRules(t)[r] = 1
    BY <2>1, PlanForParts
  <2> QED BY <1>1, <2>2, CountRules
<1>3. RulePlan(t)[r] = 1 /\ PlanFor(managed, t).rules = RulePlan(t)
  BY <1>2, PlanForParts
<1>4. r \in ToSet(Required)
  <2>1. SUFFICES ASSUME r \in ToSet(Legacy) PROVE FALSE
    BY CountRules
  <2>2. RulePlan(t)[r] = -t.rules[r]
    BY <2>1, CountRules
  <2> QED BY <1>1, <1>3, <2>2
<1>5. RulePlan(t)[r] = 1 - t.rules[r]
  BY <1>4, CountRules
<1>6. t.rules[r] = 0
  BY <1>1, <1>3, <1>5
<1>7. ASSUME NEW u \in Tables, u = Effect(t, AppendRule(r))
      PROVE  PlanFor(managed, u) = [PlanFor(managed, t) EXCEPT !.rules[r] = 0]
  <2>1. u.chain = t.chain /\ u.input = t.input /\ u.rules = [t.rules EXCEPT ![r] = 1]
    BY <1>6, <1>7, RuleAppended
  <2>2. u.rules[r] = 1
    BY <1>1, <2>1
  <2>3. RulePlan(u)[r] = 1 - u.rules[r]
    BY <1>4, CountRules
  <2>4. RulePlan(u)[r] = 0
    BY <2>2, <2>3
  <2>5. RulePlan(u) = [RulePlan(t) EXCEPT ![r] = 0]
    BY <2>1, <2>4, CountsChange
  <2>6. PlanFor(managed, u).rules = [PlanFor(managed, t).rules EXCEPT ![r] = 0]
    BY <1>2, <1>3, <2>5, PlanForParts
  <2>7. PlanFor(managed, u) =
          [PlanFor(managed, t) EXCEPT !.rules = [PlanFor(managed, t).rules EXCEPT ![r] = 0]]
    BY <2>1, <2>6, PlanForRules
  <2> QED BY <2>7, Zenon
<1> QED BY <1>2, <1>4, <1>6, <1>7

LEMMA RestAfterDrop ==
  ASSUME NEW t \in Tables, NEW managed \in BOOLEAN, NEW r \in Rules,
         PlanFor(managed, t).rules[r] \notin {0, 1}
  PROVE  /\ t.rules[r] > 0
         /\ r \in ToSet(Required) => ~managed /\ t.rules[r] > 1
         /\ \A u \in Tables : u = Effect(t, DeleteRule(r)) =>
              PlanFor(managed, u) = [PlanFor(managed, t) EXCEPT !.rules[r] = @ + 1]
<1>1. t.rules \in [Rules -> Nat] /\ t.rules[r] \in Nat
  BY TableParts
<1>2. PlanFor(managed, t).rules = IF managed THEN LegacyRules(t) ELSE RulePlan(t)
  BY PlanForParts
<1>3. r \in ToSet(Required) => ~managed /\ t.rules[r] > 1
  <2>1. SUFFICES ASSUME r \in ToSet(Required) PROVE ~managed /\ t.rules[r] > 1
    OBVIOUS
  <2>2. RulePlan(t)[r] = 1 - t.rules[r] /\ LegacyRules(t)[r] = 0
    BY <2>1, CountRules
  <2>3. ~managed
    BY <1>2, <2>2
  <2>4. 1 - t.rules[r] # 0 /\ 1 - t.rules[r] # 1
    BY <1>2, <2>2, <2>3
  <2> QED BY <1>1, <2>3, <2>4
<1>4. t.rules[r] > 0
  <2>1. CASE r \in ToSet(Required)
    BY <1>1, <1>3, <2>1
  <2>2. CASE r \in ToSet(Legacy)
    <3>1. RulePlan(t)[r] = -t.rules[r] /\ LegacyRules(t)[r] = -t.rules[r]
      BY <2>2, CountRules
    <3>2. -t.rules[r] # 0
      BY <1>2, <3>1
    <3> QED BY <1>1, <3>2
  <2> QED BY <2>1, <2>2, CountRules
<1>5. ASSUME NEW u \in Tables, u = Effect(t, DeleteRule(r))
      PROVE  PlanFor(managed, u) = [PlanFor(managed, t) EXCEPT !.rules[r] = @ + 1]
  <2> DEFINE n == PlanFor(managed, t).rules[r] + 1
  <2>1. u.chain = t.chain /\ u.input = t.input /\ u.rules = [t.rules EXCEPT ![r] = t.rules[r] - 1]
    BY <1>4, <1>5, RuleDeleted
  <2>2. u.rules[r] = t.rules[r] - 1 /\ t.rules[r] - 1 \in Nat
    BY <1>1, <1>4, <2>1
  <2>3. PlanFor(managed, u).rules[r] = n
    <3>1. PlanFor(managed, u).rules = IF managed THEN LegacyRules(u) ELSE RulePlan(u)
      BY PlanForParts
    <3>2. CASE r \in ToSet(Required)
      <4>1. RulePlan(u)[r] = 1 - u.rules[r] /\ RulePlan(t)[r] = 1 - t.rules[r]
        BY <3>2, CountRules
      <4>2. RulePlan(u)[r] = RulePlan(t)[r] + 1
        BY <1>1, <2>2, <4>1
      <4> QED BY <1>2, <1>3, <3>1, <3>2, <4>2
    <3>3. CASE r \in ToSet(Legacy)
      <4>1. /\ RulePlan(u)[r] = -u.rules[r] /\ LegacyRules(u)[r] = -u.rules[r]
            /\ RulePlan(t)[r] = -t.rules[r] /\ LegacyRules(t)[r] = -t.rules[r]
        BY <3>3, CountRules
      <4>2. RulePlan(u)[r] = RulePlan(t)[r] + 1 /\ LegacyRules(u)[r] = LegacyRules(t)[r] + 1
        BY <1>1, <2>2, <4>1
      <4> QED BY <1>2, <3>1, <4>2
    <3> QED BY <3>2, <3>3, CountRules
  <2> HIDE DEF n
  <2>4. PlanFor(managed, u).rules = [PlanFor(managed, t).rules EXCEPT ![r] = n]
    <3>1. PlanFor(managed, u).rules = IF managed THEN LegacyRules(u) ELSE RulePlan(u)
      BY PlanForParts
    <3>2. /\ RulePlan(u) = [RulePlan(t) EXCEPT ![r] = RulePlan(u)[r]]
          /\ LegacyRules(u) = [LegacyRules(t) EXCEPT ![r] = LegacyRules(u)[r]]
      BY <2>1, <2>2, CountsChange
    <3> QED BY <1>2, <2>3, <3>1, <3>2, Zenon
  <2>5. PlanFor(managed, u) =
          [PlanFor(managed, t) EXCEPT !.rules = [PlanFor(managed, t).rules EXCEPT ![r] = n]]
    BY <2>1, <2>4, PlanForRules
  <2> QED BY <2>5, Zenon DEF n
<1> QED BY <1>3, <1>4, <1>5

-----------------------------------------------------------------------------
(* Blocking.                                                               *)

\* What u has to keep of t so that no port is opened: the rules that decide,
\* or the jump at the top and every rule that is in the chain.
AsBlocked(t, u) ==
  \/ u.input = t.input /\ \A r \in ToSet(Required) : u.rules[r] = t.rules[r]
  \/ /\ Cems \notin ToSet(t.input)
     /\ 1 \in JumpsOf(u)
     /\ \A r \in ToSet(Required) : t.rules[r] > 0 => u.rules[r] > 0

\* A rule in a chain that INPUT jumps to first blocks.
LEMMA TopJumpBlocks ==
  ASSUME NEW t, NEW r, 1 \in JumpsOf(t), t.rules[r] > 0
  PROVE  Blocks(t, r)
<1>1. 1 \in DOMAIN t.input /\ t.input[1] = Jump
  BY DEF JumpsOf
<1>2. Decision(t, 1, r) = "DROP"
  BY <1>1 DEF Decision, Jump, Cems
<1>3. \A j \in 1..1 - 1 : FALSE
  OBVIOUS
<1> QED BY <1>1, <1>2, <1>3 DEF Blocks

\* Without CEMS, only a rule of the program's own chain blocks.
LEMMA OwnRuleBlocks ==
  ASSUME NEW t, NEW r, Cems \notin ToSet(t.input), Blocks(t, r)
  PROVE  t.rules[r] > 0
<1>1. PICK k \in DOMAIN t.input : Decision(t, k, r) = "DROP"
  BY DEF Blocks
<1>2. t.input[k] # Cems
  BY DEF ToSet
<1>3. t.input[k] = Jump
  BY <1>1, <1>2, Zenon DEF Decision
<1> QED BY <1>1, <1>3 DEF Decision, Jump, Cems

LEMMA AsBlockedBlocks ==
  ASSUME NEW t, NEW u, AsBlocked(t, u), NEW r \in ToSet(Required), Blocks(t, r)
  PROVE  Blocks(u, r)
<1>1. CASE u.input = t.input /\ \A q \in ToSet(Required) : u.rules[q] = t.rules[q]
  <2>1. u.input = t.input /\ u.rules[r] = t.rules[r]
    BY <1>1
  <2>2. \A k : Decision(u, k, r) = Decision(t, k, r)
    BY <2>1, Zenon DEF Decision
  <2> QED BY <2>1, <2>2, Zenon DEF Blocks
<1>2. CASE /\ Cems \notin ToSet(t.input) /\ 1 \in JumpsOf(u)
           /\ \A q \in ToSet(Required) : t.rules[q] > 0 => u.rules[q] > 0
  <2>1. t.rules[r] > 0
    BY <1>2, OwnRuleBlocks
  <2> QED BY <1>2, <2>1, TopJumpBlocks
<1> QED BY <1>1, <1>2 DEF AsBlocked

LEMMA AsBlockedItself == ASSUME NEW t PROVE AsBlocked(t, t)
BY DEF AsBlocked

\* Nothing that counts has changed.
LEMMA AsBlockedSame ==
  ASSUME NEW t, NEW u, NEW v, AsBlocked(t, u), v.input = u.input,
         \A r \in ToSet(Required) : v.rules[r] = u.rules[r]
  PROVE  AsBlocked(t, v)
<1>1. JumpsOf(v) = JumpsOf(u)
  BY DEF JumpsOf
<1> QED BY <1>1, Zenon DEF AsBlocked

\* CEMS does not manage the table, the jump is at the top, and no rule has
\* vanished.
LEMMA AsBlockedTop ==
  ASSUME NEW t \in Tables, NEW u \in Tables, NEW v \in Tables, AsBlocked(t, u),
         Cems \notin ToSet(u.input), 1 \in JumpsOf(v),
         \A r \in ToSet(Required) : u.rules[r] > 0 => v.rules[r] > 0
  PROVE  AsBlocked(t, v)
<1>1. Cems \notin ToSet(t.input)
  BY DEF AsBlocked
<1>2. \A r \in ToSet(Required) : t.rules[r] > 0 => u.rules[r] > 0
  BY DEF AsBlocked
<1> QED BY <1>1, <1>2 DEF AsBlocked

-----------------------------------------------------------------------------
(* A process that works alone.                                             *)

\* What it has still to do is what it would plan now.
PlanIsFresh(p) == run[p].pc = "apply" =>
  /\ run[p].managed = Managed(table)
  /\ run[p].plan = PlanFor(run[p].managed, table)

\* No table since it began has opened a port.
Guarded(p) == run[p].pc \in {"apply", "undo"} =>
  \A i \in 1..Len(seen[p]) : AsBlocked(Found(p), seen[p][i])

WorkInvOf(p) == Alone(p) =>
  PlanIsFresh(p) /\ Guarded(p) /\ run[p].result # "overridden"

WorkInv == \A p \in Proc : WorkInvOf(p)

\* What a process first found stays the last of what it has seen.
LEMMA FoundStays ==
  ASSUME NEW s \in Seq(Tables), s # <<>>, NEW t \in Tables
  PROVE  /\ Last(s) \in Tables
         /\ Last(<<t>> \o s) = Last(s)
         /\ Tail(s) # <<>> => Last(Tail(s)) = Last(s)
<1>1. Len(s) \in Nat /\ Len(s) >= 1 /\ Len(s) \in 1..Len(s)
  OBVIOUS
<1>2. Last(s) \in Tables
  BY <1>1 DEF Last
<1>3. Last(<<t>> \o s) = Last(s)
  <2>1. /\ Len(<<t>> \o s) = Len(s) + 1
        /\ \A i \in 1..Len(s) : (<<t>> \o s)[i + 1] = s[i]
    BY PutInFront
  <2>2. (<<t>> \o s)[Len(s) + 1] = s[Len(s)]
    BY <1>1, <2>1
  <2> QED BY <2>1, <2>2 DEF Last
<1>4. ASSUME Tail(s) # <<>> PROVE Last(Tail(s)) = Last(s)
  <2>1. /\ Tail(s) \in Seq(Tables) /\ Len(Tail(s)) = Len(s) - 1
        /\ \A i \in 1..Len(Tail(s)) : Tail(s)[i] = s[i + 1]
    BY HeadTailProperties
  <2>2. Len(s) - 1 \in 1..Len(Tail(s)) /\ (Len(s) - 1) + 1 = Len(s)
    <3>1. Len(Tail(s)) # 0
      BY <1>4, <2>1
    <3> QED BY <1>1, <2>1, <3>1
  <2>3. Tail(s)[Len(s) - 1] = s[Len(s)]
    BY <2>1, <2>2
  <2> QED BY <2>1, <2>3 DEF Last
<1> QED BY <1>2, <1>3, <1>4

\* One more table that opens no port, ...
LEMMA GuardLonger ==
  ASSUME NEW s \in Seq(Tables), s # <<>>, NEW t \in Tables,
         \A i \in 1..Len(s) : AsBlocked(Last(s), s[i]), AsBlocked(Last(s), t)
  PROVE  \A i \in 1..Len(<<t>> \o s) : AsBlocked(Last(<<t>> \o s), (<<t>> \o s)[i])
<1> DEFINE s2 == <<t>> \o s
<1>1. Len(s2) = Len(s) + 1 /\ s2[1] = t /\ \A i \in 1..Len(s) : s2[i + 1] = s[i]
  BY PutInFront
<1>2. Last(s2) = Last(s)
  BY FoundStays
<1> HIDE DEF s2
<1>3. ASSUME NEW i \in 1..Len(s2) PROVE AsBlocked(Last(s), s2[i])
  <2>1. CASE i = 1
    BY <1>1, <2>1
  <2>2. CASE i # 1
    <3>1. i - 1 \in 1..Len(s) /\ (i - 1) + 1 = i
      BY <1>1, <2>2
    <3>2. s2[i] = s[i - 1]
      BY <1>1, <3>1
    <3> QED BY <3>1, <3>2
  <2> QED BY <2>1, <2>2
<1> QED BY <1>2, <1>3 DEF s2

\* ... and one less.
LEMMA GuardShorter ==
  ASSUME NEW s \in Seq(Tables), s # <<>>, Tail(s) # <<>>,
         \A i \in 1..Len(s) : AsBlocked(Last(s), s[i])
  PROVE  \A i \in 1..Len(Tail(s)) : AsBlocked(Last(Tail(s)), Tail(s)[i])
<1>1. Last(s) \in Tables
  BY DEF Last
<1>2. Last(Tail(s)) = Last(s)
  BY <1>1, FoundStays
<1>3. /\ Len(Tail(s)) = Len(s) - 1
      /\ \A i \in 1..Len(Tail(s)) : Tail(s)[i] = s[i + 1]
  BY HeadTailProperties
<1>4. ASSUME NEW i \in 1..Len(Tail(s)) PROVE AsBlocked(Last(s), Tail(s)[i])
  <2>1. i + 1 \in 1..Len(s)
    BY <1>3
  <2> QED BY <1>3, <2>1
<1> QED BY <1>2, <1>4

\* A command that opens no port and leaves what would be planned then.
LEMMA AppliedWork ==
  ASSUME TypeOK, WorkInv, NEW p \in Proc, NEW c \in Commands, NEW rest,
         Apply(p, c, rest), Alone(p)',
         ASSUME Alone(p), NEW u \in Tables, u = Effect(table, c), Accepts(table, c)
         PROVE  /\ AsBlocked(Found(p), u)
                /\ Managed(u) = Managed(table)
                /\ rest = PlanFor(run[p].managed, u)
  PROVE  PlanIsFresh(p)' /\ Guarded(p)' /\ run'[p].result # "overridden"
<1>1. /\ run \in [Proc -> Runs] /\ seen \in [Proc -> Seq(Tables)] /\ run[p] \in Runs
      /\ IsTable(table) /\ table \in Tables /\ seen[p] \in Seq(Tables)
  BY DEF TypeOK, IsTable
<1>2. run[p].pc = "apply" /\ ahead' = ahead
  BY DEF Apply
<1>3. PICK works \in BOOLEAN :
        IF works /\ Accepts(table, c)
        THEN LET t == Effect(table, c) IN
               /\ TableChanges(p, t, <<t>> \o seen[p])
               /\ Update(p, [run[p] EXCEPT !.plan = rest, !.applied = <<c>> \o @])
        ELSE Update(p, [run[p] EXCEPT !.pc = "undo"]) /\ UNCHANGED <<table, seen>>
  BY DEF Apply
<1>4. CASE works /\ Accepts(table, c)
  <2> DEFINE t == Effect(table, c)
  <2>0. t = Effect(table, c)
    OBVIOUS
  <2>1. t \in Tables
    BY <1>1, <1>4, CommandsAreCommands, EffectIsTable DEF IsTable
  <2>2. TableChanges(p, t, <<t>> \o seen[p])
    BY <1>3, <1>4
  <2>3. Update(p, [run[p] EXCEPT !.plan = rest, !.applied = <<c>> \o run[p].applied])
    BY <1>3, <1>4
  <2> HIDE DEF t
  <2>4. Alone(p)
    BY <1>2, <2>2 DEF TableChanges, Alone
  <2>5. table' = t /\ seen'[p] = <<t>> \o seen[p] /\ seen[p] # <<>>
    BY <2>2, <2>4 DEF TableChanges, Alone
  <2>6. /\ run'[p].plan = rest /\ run'[p].managed = run[p].managed
        /\ run'[p].pc = "apply" /\ run'[p].result = run[p].result
    BY <1>1, <1>2, <2>3 DEF Update, Runs
  <2>7. /\ AsBlocked(Found(p), t) /\ Managed(t) = Managed(table)
        /\ rest = PlanFor(run[p].managed, t)
    BY <1>4, <2>0, <2>1, <2>4
  <2>8. PlanIsFresh(p) /\ Guarded(p) /\ run[p].result # "overridden"
    BY <2>4 DEF WorkInv, WorkInvOf
  <2>9. PlanIsFresh(p)'
    <3>1. run'[p].managed = Managed(t) /\ run'[p].plan = PlanFor(run'[p].managed, t)
      BY <1>2, <2>6, <2>7, <2>8 DEF PlanIsFresh
    <3>2. (PlanIsFresh(p))' = (run'[p].pc = "apply" =>
             run'[p].managed = Managed(t) /\ run'[p].plan = PlanFor(run'[p].managed, t))
      BY <2>5, Zenon DEF PlanIsFresh, PlanFor, Managed, LegacyPlan, FreshPlan, Plan, RulePlan, JumpsOf
    <3> QED BY <3>1, <3>2
  <2>10. Guarded(p)'
    <3>1. \A i \in 1..Len(seen[p]) : AsBlocked(Last(seen[p]), seen[p][i])
      BY <1>2, <2>8 DEF Guarded, Found
    <3>2. \A i \in 1..Len(seen'[p]) : AsBlocked(Last(seen'[p]), seen'[p][i])
      BY <1>1, <2>1, <2>5, <2>7, <3>1, GuardLonger DEF Found
    <3> QED BY <3>2 DEF Guarded, Found, AsBlocked, JumpsOf
  <2> QED BY <2>6, <2>8, <2>9, <2>10
<1>5. CASE ~(works /\ Accepts(table, c))
  <2>1. Update(p, [run[p] EXCEPT !.pc = "undo"]) /\ UNCHANGED <<table, seen>>
    BY <1>3, <1>5
  <2>2. Alone(p)
    BY <1>2, <2>1 DEF Alone
  <2>3. run'[p].pc = "undo" /\ run'[p].result = run[p].result
    BY <1>1, <2>1 DEF Update, Runs
  <2>4. Guarded(p) /\ run[p].result # "overridden"
    BY <2>2 DEF WorkInv, WorkInvOf
  <2>5. Guarded(p)'
    BY <1>2, <2>1, <2>4 DEF Guarded, Found, AsBlocked, JumpsOf
  <2> QED BY <2>3, <2>4, <2>5 DEF PlanIsFresh
<1> QED BY <1>4, <1>5

\* Others' rules are not touched by what is done to a jump.
LEMMA OthersAfterInsert ==
  ASSUME NEW t \in Tables, NEW u \in Tables, NEW n \in 1..Len(t.input) + 1,
         u.input = InsertAt(t.input, n, Jump)
  PROVE  \A r \in InputRules \ {Jump} : r \in ToSet(u.input) => r \in ToSet(t.input)
<1>1. PICK s \in Seq(InputRules) : s = t.input /\ DOMAIN s = 1..Len(s) /\ Len(s) \in Nat
  BY TableParts
<1>2. PICK i \in Seq(InputRules) : i = u.input /\ DOMAIN i = 1..Len(i) /\ i = InsertAt(s, n, Jump)
  BY <1>1, TableParts
<1>3. n \in 1..Len(s) + 1 /\ Jump \in InputRules
  BY <1>1 DEF InputRules
<1>4. /\ Len(i) = Len(s) + 1
      /\ \A j \in 1..Len(s) + 1 : i[j] = IF j < n THEN s[j] ELSE IF j = n THEN Jump ELSE s[j - 1]
  <2>1. /\ Len(InsertAt(s, n, Jump)) = Len(s) + 1
        /\ \A j \in 1..Len(s) + 1 : InsertAt(s, n, Jump)[j] =
             IF j < n THEN s[j] ELSE IF j = n THEN Jump ELSE s[j - 1]
    BY <1>3, InsertAtProperties
  <2> QED BY <1>2, <2>1
<1>5. ASSUME NEW j \in 1..Len(s) + 1, i[j] # Jump PROVE \E k \in 1..Len(s) : s[k] = i[j]
  <2>1. CASE j < n
    BY <1>3, <1>4, <2>1
  <2>2. CASE j > n
    <3>1. j - 1 \in 1..Len(s) /\ i[j] = s[j - 1]
      BY <1>3, <1>4, <2>2
    <3> QED BY <3>1
  <2> QED BY <1>3, <1>4, <1>5, <2>1, <2>2
<1>6. ASSUME NEW r \in InputRules \ {Jump}, r \in ToSet(u.input) PROVE r \in ToSet(t.input)
  <2>1. PICK j \in DOMAIN i : i[j] = r
    BY <1>2, <1>6 DEF ToSet
  <2>2. j \in 1..Len(s) + 1 /\ i[j] # Jump
    BY <1>2, <1>4, <1>6, <2>1
  <2>3. PICK k \in 1..Len(s) : s[k] = r
    BY <1>5, <2>1, <2>2
  <2> QED BY <1>1, <2>3 DEF ToSet
<1> QED BY <1>6

LEMMA OthersAfterRemove ==
  ASSUME NEW t \in Tables, NEW u \in Tables, NEW n \in 1..Len(t.input),
         u.input = RemoveAt(t.input, n)
  PROVE  ToSet(u.input) \subseteq ToSet(t.input)
<1>1. PICK s \in Seq(InputRules) : s = t.input /\ DOMAIN s = 1..Len(s) /\ Len(s) \in Nat
  BY TableParts
<1>2. PICK i \in Seq(InputRules) : i = u.input /\ DOMAIN i = 1..Len(i) /\ i = RemoveAt(s, n)
  BY <1>1, TableParts
<1>3. n \in 1..Len(s)
  BY <1>1
<1>4. /\ Len(i) = Len(s) - 1
      /\ \A j \in 1..Len(s) - 1 : i[j] = IF j < n THEN s[j] ELSE s[j + 1]
  BY <1>2, <1>3, RemoveAtProperties
<1>5. ASSUME NEW j \in 1..Len(s) - 1 PROVE \E k \in 1..Len(s) : s[k] = i[j]
  BY <1>1, <1>3, <1>4
<1>6. ToSet(i) = {i[j] : j \in 1..Len(s) - 1} /\ ToSet(s) = {s[j] : j \in 1..Len(s)}
  BY <1>1, <1>2, <1>4 DEF ToSet
<1>7. ASSUME NEW x \in ToSet(i) PROVE x \in ToSet(s)
  <2>1. PICK j \in 1..Len(s) - 1 : x = i[j]
    BY <1>6
  <2>2. PICK k \in 1..Len(s) : s[k] = i[j]
    BY <1>5
  <2> QED BY <1>6, <2>1, <2>2
<1> QED BY <1>1, <1>2, <1>7

\* What a process itself does.
LEMMA OwnWorkInv ==
  ASSUME TypeOK, WorkInv, UndoInv, NEW p \in Proc, Step(p), Alone(p)'
  PROVE  PlanIsFresh(p)' /\ Guarded(p)' /\ run'[p].result # "overridden"
<1>1. /\ run \in [Proc -> Runs] /\ seen \in [Proc -> Seq(Tables)] /\ run[p] \in Runs
      /\ table \in Tables /\ run[p].plan \in Plans /\ run[p].managed \in BOOLEAN
      /\ seen[p] \in Seq(Tables) /\ ahead \in Nat
  BY DEF TypeOK, IsTable, Runs
<1>2. Alone(p) => PlanIsFresh(p) /\ Guarded(p) /\ run[p].result # "overridden"
  BY DEF WorkInv, WorkInvOf
<1>3. \A result : Finish(p, result) => run'[p].pc = "idle" /\ run'[p].result = result
  BY <1>1 DEF Finish, Update, Idle
\* In the middle of the plan, a process that is alone knows the table.
<1>4. ASSUME Alone(p), run[p].pc = "apply"
      PROVE  /\ ahead = 0 /\ run[p].managed = Managed(table)
             /\ run[p].plan = PlanFor(run[p].managed, table)
             /\ AsBlocked(Found(p), table) /\ Found(p) \in Tables
             /\ ~run[p].managed => Cems \notin ToSet(table.input)
  <2>1. ahead = 0 /\ seen[p] # <<>>
    BY <1>4 DEF Alone
  <2>2. Traces(p) /\ PlanIsFresh(p) /\ Guarded(p)
    BY <1>2, <1>4 DEF UndoInv, UndoInvOf
  <2>3. seen[p][1] = table /\ 1 \in 1..Len(seen[p])
    BY <1>1, <1>4, <2>1, <2>2 DEF Traces
  <2>4. AsBlocked(Found(p), table)
    BY <1>4, <2>2, <2>3 DEF Guarded
  <2>5. Found(p) \in Tables
    BY <1>1, <2>1, FoundStays DEF Found
  <2> QED BY <1>4, <2>1, <2>2, <2>4, <2>5 DEF PlanIsFresh, Managed
<1>5. CASE ReadBefore(p)
  <2> DEFINE managed == Managed(table)
             plan == IF managed THEN LegacyPlan(table) ELSE BuildPlan(table)
             verdict == IF managed THEN CemsVerdict(table) ELSE Verdict(table)
             on == [Idle EXCEPT !.pc = "apply", !.mode = "repair", !.managed = managed, !.plan = plan]
  <2>1. /\ seen' = [seen EXCEPT ![p] = <<table>>]
        /\ Finish(p, "unread") \/ Finish(p, verdict) \/ Update(p, on)
        /\ table' = table /\ ahead' = ahead
    BY <1>5, Zenon DEF ReadBefore
  <2>2. verdict \in {"pass", "fail"}
    BY DEF CemsVerdict, Verdict
  <2>3. seen'[p] = <<table>> /\ ahead = 0
    BY <1>1, <2>1 DEF Alone
  <2>4. plan = PlanFor(managed, table)
    BY <1>1, <2>3, FreshPlanIsPlan DEF PlanFor
  <2>5. managed = Managed(table)
    OBVIOUS
  <2> HIDE DEF plan, verdict, managed
  <2>6. CASE Finish(p, "unread") \/ Finish(p, verdict)
    <3>1. run'[p].pc = "idle" /\ run'[p].result # "overridden"
      BY <1>3, <2>2, <2>6
    <3> QED BY <3>1 DEF PlanIsFresh, Guarded
  <2>7. CASE Update(p, on)
    <3>1. /\ run'[p].pc = "apply" /\ run'[p].plan = plan /\ run'[p].managed = managed
          /\ run'[p].result = "none"
      BY <1>1, <2>7 DEF Update, Idle
    <3>2. PlanIsFresh(p)'
      BY <2>1, <2>4, <2>5, <3>1, Zenon
      DEF PlanIsFresh, PlanFor, Managed, LegacyPlan, FreshPlan, Plan, RulePlan, JumpsOf
    <3>3. \A i \in 1..Len(<<table>>) : AsBlocked(Last(<<table>>), <<table>>[i])
      <4>1. Len(<<table>>) = 1 /\ <<table>>[1] = table
        OBVIOUS
      <4>2. Last(<<table>>) = table
        BY <4>1 DEF Last
      <4> QED BY <4>1, <4>2, AsBlockedItself
    <3>4. Guarded(p)'
      BY <2>1, <2>3, <3>3 DEF Guarded, Found, AsBlocked, JumpsOf
    <3> QED BY <3>1, <3>2, <3>4
  <2> QED BY <2>1, <2>6, <2>7
<1>6. CASE CreateChain(p)
  <2> DEFINE rest == [run[p].plan EXCEPT !.create = FALSE]
  <2>1. /\ Apply(p, NewChain, rest) /\ NewChain \in Commands
        /\ run[p].pc = "apply" /\ run[p].plan.create
    BY <1>6, CommandTypes DEF CreateChain, Apply
  <2>2. rest = [run[p].plan EXCEPT !.create = FALSE]
    OBVIOUS
  <2> HIDE DEF rest
  <2>3. ASSUME Alone(p), NEW u \in Tables, u = Effect(table, NewChain)
        PROVE  /\ AsBlocked(Found(p), u) /\ Managed(u) = Managed(table)
               /\ rest = PlanFor(run[p].managed, u)
    <3>1. u.input = table.input /\ u.rules = table.rules
      BY <1>1, <2>3, TableParts DEF Effect, NewChain, Command
    <3>2. ~run[p].managed /\ run[p].plan = FreshPlan(table)
      BY <1>1, <1>4, <2>1, <2>3, PlanForParts DEF PlanFor
    <3>3. FreshPlan(u) = rest
      BY <1>1, <2>2, <2>3, <3>2, RestAfterCreate
    <3>4. AsBlocked(Found(p), u)
      BY <1>4, <2>1, <2>3, <3>1, AsBlockedSame
    <3> QED BY <3>1, <3>2, <3>3, <3>4 DEF PlanFor, Managed
  <2> QED BY <2>1, <2>3, AppliedWork
<1>7. CASE PutJumpFirst(p)
  <2> DEFINE rest == [run[p].plan EXCEPT !.jump = FALSE]
  <2>1. /\ Apply(p, InsertJump(1), rest) /\ InsertJump(1) \in Commands
        /\ run[p].pc = "apply" /\ run[p].plan.jump
    BY <1>7, CommandTypes DEF PutJumpFirst, Apply
  <2>2. rest = [run[p].plan EXCEPT !.jump = FALSE]
    OBVIOUS
  <2> HIDE DEF rest
  <2>3. ASSUME Alone(p), NEW u \in Tables, u = Effect(table, InsertJump(1))
        PROVE  /\ AsBlocked(Found(p), u) /\ Managed(u) = Managed(table)
               /\ rest = PlanFor(run[p].managed, u)
    <3>1. ~run[p].managed /\ run[p].plan = FreshPlan(table)
      BY <1>1, <1>4, <2>1, <2>3, PlanForParts DEF PlanFor
    <3>2. /\ FreshPlan(u) = rest /\ 1 \in JumpsOf(u) /\ u.rules = table.rules
      BY <1>1, <2>1, <2>2, <2>3, <3>1, RestAfterInsert
    <3>3. Cems \notin ToSet(table.input) /\ Found(p) \in Tables
      BY <1>4, <2>1, <2>3, <3>1
    <3>4. AsBlocked(Found(p), u)
      BY <1>1, <1>4, <2>1, <2>3, <3>2, <3>3, AsBlockedTop
    <3>5. Managed(u) = Managed(table)
      <4>1. u.input = InsertAt(table.input, 1, Jump)
        BY <1>1, <2>3 DEF Effect, InsertJump, Command, Tables
      <4>2. 1 \in 1..Len(table.input) + 1
        BY <1>1, TableParts
      <4>3. \A r \in InputRules \ {Jump} : r \in ToSet(u.input) => r \in ToSet(table.input)
        BY <1>1, <4>1, <4>2, OthersAfterInsert
      <4> QED BY <3>3, <4>3 DEF Managed, Cems, Jump, InputRules
    <3> QED BY <3>1, <3>2, <3>4, <3>5 DEF PlanFor
  <2> QED BY <2>1, <2>3, AppliedWork
<1>8. CASE RemoveSurplusJump(p)
  <2>1. PICK n \in run[p].plan.surplus :
          /\ \A k \in run[p].plan.surplus : k <= n
          /\ Apply(p, DeleteAt(n), [run[p].plan EXCEPT !.surplus = @ \ {n}])
    BY <1>8 DEF RemoveSurplusJump
  <2> DEFINE rest == [run[p].plan EXCEPT !.surplus = @ \ {n}]
  <2>2. /\ Apply(p, DeleteAt(n), rest) /\ DeleteAt(n) \in Commands
        /\ run[p].pc = "apply" /\ ~run[p].plan.jump
    BY <1>8, <2>1, CommandTypes DEF RemoveSurplusJump, Apply
  <2>3. rest = [run[p].plan EXCEPT !.surplus = @ \ {n}]
    OBVIOUS
  <2> HIDE DEF rest
  <2>4. ASSUME Alone(p), NEW u \in Tables, u = Effect(table, DeleteAt(n))
        PROVE  /\ AsBlocked(Found(p), u) /\ Managed(u) = Managed(table)
               /\ rest = PlanFor(run[p].managed, u)
    <3>1. ~run[p].managed /\ run[p].plan = FreshPlan(table)
      BY <1>1, <1>4, <2>1, <2>2, <2>4, PlanForParts DEF PlanFor
    <3>2. n \in FreshPlan(table).surplus /\ \A k \in FreshPlan(table).surplus : k <= n
      BY <2>1, <3>1
    <3>3. /\ n \in JumpsOf(table)
          /\ FreshPlan(u) = rest /\ 1 \in JumpsOf(u) /\ u.rules = table.rules
      BY <1>1, <2>2, <2>3, <2>4, <3>1, <3>2, RestAfterDelete
    <3>4. Cems \notin ToSet(table.input) /\ Found(p) \in Tables
      BY <1>4, <2>2, <2>4, <3>1
    <3>5. AsBlocked(Found(p), u)
      BY <1>1, <1>4, <2>2, <2>4, <3>3, <3>4, AsBlockedTop
    <3>6. Managed(u) = Managed(table)
      <4>1. u.input = RemoveAt(table.input, n)
        BY <1>1, <2>4 DEF Effect, DeleteAt, Command, Tables
      <4>2. n \in 1..Len(table.input)
        BY <1>1, <3>3, TableParts DEF JumpsOf
      <4>3. ToSet(u.input) \subseteq ToSet(table.input)
        BY <1>1, <4>1, <4>2, OthersAfterRemove
      <4> QED BY <3>4, <4>3 DEF Managed
    <3> QED BY <3>1, <3>3, <3>5, <3>6 DEF PlanFor
  <2> QED BY <2>2, <2>4, AppliedWork
<1>9. CASE CorrectRule(p)
  <2>0. table \in Tables /\ run[p].managed \in BOOLEAN
    BY <1>1
  <2>1. run[p].pc = "apply" /\ ~run[p].plan.jump
    BY <1>9 DEF CorrectRule, Apply
  <2>2. PICK r \in Rules :
          /\ run[p].plan.rules[r] # 0
          /\ IF run[p].plan.rules[r] = 1
             THEN Apply(p, AppendRule(r), [run[p].plan EXCEPT !.rules[r] = 0])
             ELSE Apply(p, DeleteRule(r), [run[p].plan EXCEPT !.rules[r] = @ + 1])
    BY <1>9, OrderType DEF CorrectRule
  <2>3. AppendRule(r) \in Commands /\ DeleteRule(r) \in Commands
    BY CommandTypes
  <2>4. Alone(p) => (~run[p].managed => 1 \in JumpsOf(table))
    <3>1. SUFFICES ASSUME Alone(p), ~run[p].managed PROVE 1 \in JumpsOf(table)
      OBVIOUS
    <3>2. run[p].plan = FreshPlan(table)
      BY <1>4, <2>1, <3>1 DEF PlanFor
    <3> QED BY <2>1, <3>2, FreshParts
  <2>5. CASE run[p].plan.rules[r] = 1
    <3> DEFINE rest == [run[p].plan EXCEPT !.rules[r] = 0]
    <3>1. Apply(p, AppendRule(r), rest)
      BY <2>2, <2>5
    <3>2. rest = [run[p].plan EXCEPT !.rules[r] = 0]
      OBVIOUS
    <3> HIDE DEF rest
    <3>3. ASSUME Alone(p), NEW u \in Tables, u = Effect(table, AppendRule(r))
          PROVE  /\ AsBlocked(Found(p), u) /\ Managed(u) = Managed(table)
                 /\ rest = PlanFor(run[p].managed, u)
      <4>1. run[p].plan = PlanFor(run[p].managed, table)
        BY <1>4, <2>1, <3>3
      <4>2. ~run[p].managed /\ PlanFor(run[p].managed, u) = rest
        <5>1. PlanFor(run[p].managed, table).rules[r] = 1
          BY <2>5, <4>1
        <5>2. [PlanFor(run[p].managed, table) EXCEPT !.rules[r] = 0] = rest
          BY <3>2, <4>1, Zenon
        <5>3. /\ ~run[p].managed
              /\ PlanFor(run[p].managed, u) = [PlanFor(run[p].managed, table) EXCEPT !.rules[r] = 0]
          BY <2>0, <2>2, <3>3, <5>1, RestAfterAppend
        <5> QED BY <5>2, <5>3
      <4>3. u.input = table.input /\ u.rules = [table.rules EXCEPT ![r] = table.rules[r] + 1]
        BY <2>0, <2>2, <3>3, RuleAppended
      <4>4. \A q \in ToSet(Required) : table.rules[q] > 0 => u.rules[q] > 0
        BY <1>1, <4>3, TableParts DEF Rules
      <4>5. 1 \in JumpsOf(u)
        BY <2>4, <3>3, <4>2, <4>3 DEF JumpsOf
      <4>6. Cems \notin ToSet(table.input) /\ Found(p) \in Tables /\ AsBlocked(Found(p), table)
        BY <1>4, <2>1, <3>3, <4>2
      <4>7. AsBlocked(Found(p), u)
        BY <1>1, <3>3, <4>4, <4>5, <4>6, AsBlockedTop
      <4> QED BY <4>2, <4>3, <4>7 DEF Managed
    <3> QED BY <2>3, <3>1, <3>3, AppliedWork
  <2>6. CASE run[p].plan.rules[r] # 1
    <3> DEFINE rest == [run[p].plan EXCEPT !.rules[r] = @ + 1]
    <3>1. Apply(p, DeleteRule(r), rest)
      BY <2>2, <2>6
    <3>2. rest = [run[p].plan EXCEPT !.rules[r] = @ + 1]
      OBVIOUS
    <3> HIDE DEF rest
    <3>3. ASSUME Alone(p), NEW u \in Tables, u = Effect(table, DeleteRule(r))
          PROVE  /\ AsBlocked(Found(p), u) /\ Managed(u) = Managed(table)
                 /\ rest = PlanFor(run[p].managed, u)
      <4>1. run[p].plan = PlanFor(run[p].managed, table)
        BY <1>4, <2>1, <3>3
      <4>2. PlanFor(run[p].managed, table).rules[r] \notin {0, 1}
        BY <2>2, <2>6, <4>1
      <4>3. /\ table.rules[r] > 0
            /\ r \in ToSet(Required) => ~run[p].managed /\ table.rules[r] > 1
            /\ PlanFor(run[p].managed, u) = rest
        <5>1. [PlanFor(run[p].managed, table) EXCEPT !.rules[r] = @ + 1] = rest
          BY <3>2, <4>1, Zenon
        <5>2. /\ table.rules[r] > 0
              /\ r \in ToSet(Required) => ~run[p].managed /\ table.rules[r] > 1
              /\ PlanFor(run[p].managed, u) = [PlanFor(run[p].managed, table) EXCEPT !.rules[r] = @ + 1]
          BY <2>0, <2>2, <3>3, <4>2, RestAfterDrop
        <5> QED BY <5>1, <5>2
      <4>4. u.input = table.input /\ u.rules = [table.rules EXCEPT ![r] = table.rules[r] - 1]
        BY <1>1, <3>3, <4>3, RuleDeleted
      <4>5. table.rules \in [Rules -> Nat] /\ ToSet(Required) \subseteq Rules
        BY <1>1, TableParts DEF Rules
      <4>6. Found(p) \in Tables /\ AsBlocked(Found(p), table)
        BY <1>4, <2>1, <3>3
      <4>7. AsBlocked(Found(p), u)
        <5>1. CASE r \in ToSet(Required)
          <6>1. Cems \notin ToSet(table.input) /\ 1 \in JumpsOf(u)
            BY <1>4, <2>1, <2>4, <3>3, <4>3, <4>4, <5>1 DEF JumpsOf
          <6>2. \A q \in ToSet(Required) : table.rules[q] > 0 => u.rules[q] > 0
            BY <4>3, <4>4, <4>5, <5>1
          <6> QED BY <1>1, <3>3, <4>6, <6>1, <6>2, AsBlockedTop
        <5>2. CASE r \notin ToSet(Required)
          <6>1. \A q \in ToSet(Required) : u.rules[q] = table.rules[q]
            BY <4>4, <4>5, <5>2
          <6> QED BY <4>4, <4>6, <6>1, AsBlockedSame
        <5> QED BY <5>1, <5>2
      <4> QED BY <4>3, <4>4, <4>7 DEF Managed
    <3> QED BY <2>3, <3>1, <3>3, AppliedWork
  <2> QED BY <2>5, <2>6
<1>10. CASE RollBack(p)
  <2>1. run[p].pc = "undo" /\ ahead' = ahead
    BY <1>10 DEF RollBack
  <2>2. CASE run[p].applied = <<>>
    <3>1. run'[p].pc = "idle" /\ run'[p].result = "rolledBack"
      BY <1>3, <1>10, <2>2 DEF RollBack
    <3> QED BY <3>1 DEF PlanIsFresh, Guarded
  <2>3. CASE run[p].applied # <<>>
    <3> DEFINE undo == Undo(Head(run[p].applied))
    <3>1. \/ /\ TableChanges(p, Effect(table, undo), Tail(seen[p]))
             /\ Update(p, [run[p] EXCEPT !.applied = Tail(@)])
          \/ Finish(p, "rollbackFailed")
      BY <1>10, <2>3, Zenon DEF RollBack
    <3>2. CASE Finish(p, "rollbackFailed")
      BY <1>3, <3>2 DEF PlanIsFresh, Guarded
    <3>3. CASE /\ TableChanges(p, Effect(table, undo), Tail(seen[p]))
               /\ Update(p, [run[p] EXCEPT !.applied = Tail(@)])
      <4>1. seen[p] # <<>> /\ seen'[p] = Tail(seen[p]) /\ Alone(p) /\ Tail(seen[p]) # <<>>
        BY <2>1, <3>3 DEF TableChanges, Alone
      <4>2. run'[p].pc = "undo" /\ run'[p].result = run[p].result
        BY <1>1, <2>1, <3>3 DEF Update, Runs
      <4>3. \A i \in 1..Len(seen[p]) : AsBlocked(Last(seen[p]), seen[p][i])
        BY <1>2, <2>1, <4>1 DEF Guarded, Found
      <4>4. \A i \in 1..Len(Tail(seen[p])) : AsBlocked(Last(Tail(seen[p])), Tail(seen[p])[i])
        BY <1>1, <4>1, <4>3, GuardShorter
      <4>5. Guarded(p)'
        BY <4>1, <4>4 DEF Guarded, Found, AsBlocked, JumpsOf
      <4> QED BY <1>2, <4>1, <4>2, <4>5 DEF PlanIsFresh
    <3> QED BY <3>1, <3>2, <3>3
  <2> QED BY <2>2, <2>3
<1>11. CASE ReadAfter(p)
  <2>1. run[p].pc = "apply" /\ run[p].plan = NothingToDo /\ ahead' = ahead /\ table' = table
    BY <1>11 DEF ReadAfter
  <2>2. Forget(p)
    BY <1>11 DEF ReadAfter
  <2>3. Alone(p)
    BY <1>1, <2>1, <2>2 DEF Forget, Alone
  <2>4. ~run[p].managed => Verdict(table) = "pass"
    <3>1. SUFFICES ASSUME ~run[p].managed PROVE BuildPlan(table) = NothingToDo
      BY DEF Verdict
    <3>2. FreshPlan(table) = NothingToDo /\ ahead = 0
      BY <1>4, <2>1, <2>3, <3>1 DEF PlanFor
    <3> QED BY <1>1, <3>2, FreshPlanIsPlan
  <2>5. PICK result : Finish(p, result) /\ result # "overridden"
    BY <1>11, <2>4 DEF ReadAfter, CemsVerdict
  <2> QED BY <1>3, <2>5 DEF PlanIsFresh, Guarded
<1> QED BY <1>5, <1>6, <1>7, <1>8, <1>9, <1>10, <1>11 DEF Step

LEMMA OthersWorkInv ==
  ASSUME NEW p, WorkInvOf(p), UNCHANGED ahead,
         seen'[p] = <<>> \/ UNCHANGED <<table, seen[p], run[p]>>
  PROVE  WorkInvOf(p)'
<1>1. CASE seen'[p] = <<>>
  BY <1>1 DEF WorkInvOf, Alone
<1>2. CASE UNCHANGED <<table, seen[p], run[p]>>
  BY <1>2 DEF WorkInvOf, Alone, PlanIsFresh, PlanFor, Managed, LegacyPlan, FreshPlan, Plan,
              RulePlan, JumpsOf, Guarded, Found, AsBlocked
<1> QED BY <1>1, <1>2

LEMMA NextWorkInv ==
  ASSUME TypeOK, UndoInv, WorkInv, [Next]_vars
  PROVE  WorkInv'
<1> SUFFICES ASSUME NEW q \in Proc PROVE WorkInvOf(q)'
  BY DEF WorkInv
<1>1. WorkInvOf(q)
  BY DEF WorkInv
<1>2. CASE Step(q)
  BY <1>2, OwnWorkInv DEF WorkInvOf
<1>3. CASE Evaluate(q)
  <2>1. seen'[q] = <<>> /\ ahead' = ahead
    BY <1>3 DEF Evaluate, TypeOK
  <2> QED BY <1>1, <2>1, OthersWorkInv
<1>4. ASSUME NEW p \in Proc, p # q, Step(p) \/ Evaluate(p) PROVE WorkInvOf(q)'
  <2>1. ahead' = ahead /\ (seen'[q] = <<>> \/ UNCHANGED <<table, seen[q], run[q]>>)
    BY <1>4, StepIsOwn
  <2> QED BY <1>1, <2>1, OthersWorkInv
<1>5. CASE OthersChangeInput \/ FirewallRestarts
  <2>1. seen'[q] = <<>> /\ ahead' = ahead
    BY <1>5 DEF OthersChangeInput, FirewallRestarts, Disturb
  <2> QED BY <1>1, <2>1, OthersWorkInv
<1>6. CASE CemsChangesPolicy \/ UNCHANGED vars
  <2>1. UNCHANGED <<table, seen, run, ahead>>
    BY <1>6 DEF CemsChangesPolicy, vars
  <2> QED BY <1>1, <2>1, OthersWorkInv
<1> QED BY <1>2, <1>3, <1>4, <1>5, <1>6 DEF Next

\* The three invariants together.
THEOREM WorkAlwaysSound == Spec => [](TypeOK /\ UndoInv /\ WorkInv)
<1>1. Init => UndoInv /\ WorkInv
  BY DEF Init, UndoInv, UndoInvOf, WorkInv, WorkInvOf, Alone
<1>2. TypeOK /\ UndoInv /\ [Next]_vars => UndoInv'
  BY NextUndoInv
<1>3. TypeOK /\ UndoInv /\ WorkInv /\ [Next]_vars => WorkInv'
  BY NextWorkInv
<1> QED BY <1>1, <1>2, <1>3, TypeCorrect, PTL DEF Spec

\* NeverUnblocks: in whatever order the commands of a plan run, and are undone,
\* no required port that was blocked when the process read the table is open
\* between two of them, while nobody else changes the table; CEMS may change
\* its policy at any time.
THEOREM PortsStayBlocked == Spec => []NeverUnblocks
<1>1. TypeOK /\ UndoInv /\ WorkInv => NeverUnblocks
  <2> SUFFICES ASSUME TypeOK, UndoInv, WorkInv, NEW p \in Proc, Alone(p),
                      run[p].pc \in {"apply", "undo"},
                      NEW r \in ToSet(Required), Blocks(Found(p), r)
               PROVE  Blocks(table, r)
    BY DEF NeverUnblocks
  <2>1. Traces(p) /\ Guarded(p)
    BY DEF UndoInv, UndoInvOf, WorkInv, WorkInvOf
  <2>2. seen[p] \in Seq(Tables) /\ seen[p] # <<>>
    BY DEF TypeOK, Alone
  <2>3. seen[p][1] = table /\ 1 \in 1..Len(seen[p])
    BY <2>1, <2>2 DEF Traces
  <2>4. AsBlocked(Found(p), table)
    BY <2>1, <2>3 DEF Guarded
  <2> QED BY <2>4, AsBlockedBlocks
<1> QED BY <1>1, WorkAlwaysSound, PTL

\* OverrideMeansInterference: one application of the plan is enough, whatever
\* the table, so that "overridden by security policy" is never reported by a
\* process that nobody has disturbed.
THEOREM OverrideIsNeverOwn == Spec => []OverrideMeansInterference
<1>1. WorkInv => OverrideMeansInterference
  BY DEF WorkInv, WorkInvOf, OverrideMeansInterference
<1> QED BY <1>1, WorkAlwaysSound, PTL

-----------------------------------------------------------------------------
(* The check that passes.                                                  *)

\* A table for which there is nothing to do blocks every port.
LEMMA NothingToDoBlocks ==
  ASSUME NEW t \in Tables, ahead \in Nat, BuildPlan(t) = NothingToDo, NEW r \in ToSet(Required)
  PROVE  Blocks(t, r)
<1>1. ahead = 0
  BY ListingsHideTheJump
<1>2. FreshPlan(t) = NothingToDo
  BY <1>1, FreshPlanIsPlan
<1>3. ~FreshPlan(t).jump /\ FreshPlan(t).rules = NoRules
  BY <1>2 DEF NothingToDo
<1>4. 1 \in JumpsOf(t) /\ RulePlan(t) = NoRules
  BY <1>3, FreshParts
<1>5. r \in Rules /\ RulePlan(t)[r] = 1 - t.rules[r] /\ t.rules \in [Rules -> Nat]
  BY CountRules
<1>6. 1 - t.rules[r] = 0
  BY <1>4, <1>5 DEF NoRules
<1>7. t.rules[r] > 0
  BY <1>5, <1>6
<1> QED BY <1>4, <1>7, TopJumpBlocks

LEMMA OwnPass ==
  ASSUME TypeOK, Verdict(table) = "pass"
  PROVE  AllBlocked
<1>1. BuildPlan(table) = NothingToDo
  BY DEF Verdict
<1>2. table \in Tables /\ ahead \in Nat
  BY DEF TypeOK, IsTable
<1> QED BY <1>1, <1>2, NothingToDoBlocks DEF AllBlocked

\* A port that CEMS is found to drop is dropped by the rules of CEMS.
LEMMA DecisionIsFate ==
  ASSUME NEW r, CemsDecision(r) = "DROP"
  PROVE  CemsFate(r) = "DROP"
<1> DEFINE first == {k \in DOMAIN cems :
                       Decides(cems[k], r) /\ \A j \in 1..k - 1 : ~Decides(cems[j], r)}
           k == CHOOSE i \in first : TRUE
<1>1. first # {} /\ cems[k].target = "DROP"
  BY DEF CemsDecision
<1>2. k \in first
  BY <1>1
<1>3. Hits(k, r, "DROP") /\ k \in DOMAIN cems
  BY <1>1, <1>2 DEF Hits, Decides
<1>4. ASSUME NEW j \in 1..k - 1 PROVE ~Hits(j, r, "DROP") /\ ~Hits(j, r, "ACCEPT")
  BY <1>2, <1>4 DEF Hits, Decides
<1> HIDE DEF k
<1>5. FateIs(r, "DROP")
  BY <1>3, <1>4 DEF FateIs
<1> QED BY <1>5 DEF CemsFate

\* A set of numbers that is not empty has a smallest one.
LEMMA Smallest ==
  ASSUME NEW S, S \subseteq Nat, S # {}
  PROVE  \E m \in S : \A n \in S : m <= n
<1> DEFINE R == OpToRel(<, Nat)
<1>1. IsWellFoundedOn(R, Nat)
  BY NatLessThanWellFounded
<1>2. PICK m \in S : \A n \in S : ~(<<n, m>> \in R)
  BY <1>1, WFMin
<1>3. ASSUME NEW n \in S PROVE ~(n < m)
  BY <1>2 DEF OpToRel
<1> HIDE DEF R
<1> QED BY <1>2, <1>3

\* Where the verdict about CEMS is "pass" and nothing accepts before its chain,
\* INPUT drops every port: the first rule that decides about it drops it.
LEMMA CemsPass ==
  ASSUME TypeOK, Managed(table), CemsVerdict(table) = "pass", ~AcceptsBeforeCems(table)
  PROVE  AllBlocked
<1>1. table.input \in Seq(InputRules)
  BY DEF TypeOK, IsTable, Tables
<1>2. SUFFICES ASSUME NEW r \in ToSet(Required) PROVE Blocks(table, r)
  BY DEF AllBlocked
<1>3. CemsFate(r) = "DROP"
  BY DecisionIsFate, <1>2 DEF CemsVerdict, Missing
<1> DEFINE deciding == {k \in DOMAIN table.input : Decision(table, k, r) # "none"}
<1>4. \A k \in DOMAIN table.input : table.input[k] = Cems => Decision(table, k, r) = "DROP"
  BY <1>3 DEF Decision, Cems, Jump
<1>5. PICK c \in DOMAIN table.input : table.input[c] = Cems
  BY DEF Managed, ToSet
<1>6. DOMAIN table.input \subseteq Nat /\ \A k \in DOMAIN table.input : 1..k - 1 \subseteq DOMAIN table.input
  BY <1>1
<1>7. c \in deciding
  BY <1>4, <1>5
<1>8. PICK m \in deciding : \A k \in deciding : m <= k
  BY <1>6, <1>7, Smallest
<1>9. \A j \in 1..m - 1 : Decision(table, j, r) = "none" /\ table.input[j] # Cems
  BY <1>4, <1>6, <1>8
<1>10. table.input[m] # "accept"
  BY <1>8, <1>9, <1>6 DEF AcceptsBeforeCems
<1>11. Decision(table, m, r) = "DROP"
  <2>1. CASE table.input[m] = Cems
    BY <1>4, <1>8, <2>1
  <2>2. CASE table.input[m] # Cems
    BY <1>8, <1>10, <2>2 DEF Decision
  <2> QED BY <2>1, <2>2
<1> QED BY <1>8, <1>9, <1>11 DEF Blocks

\* Only the two reads of iptables-save say "pass".
LEMMA PassIsSaidByReading ==
  ASSUME TypeOK, NEW p \in Proc, Next, SaysPass(p)
  PROVE  ReadBefore(p) \/ ReadAfter(p)
<1>1. run \in [Proc -> Runs] /\ run[p] \in Runs
  BY DEF TypeOK
<1>2. \A q, r : Update(q, r) => run'[p] = IF q = p THEN r ELSE run[p]
  BY <1>1 DEF Update
<1>3. run'[p].result = "pass" /\ run[p].result # "pass"
  BY DEF SaysPass
<1>4. \A q, result : Finish(q, result) /\ result # "pass" => FALSE
  <2> SUFFICES ASSUME NEW q, NEW result, Finish(q, result), result # "pass" PROVE FALSE
    OBVIOUS
  <2>1. [Idle EXCEPT !.result = result].result = result
    BY DEF Idle
  <2> QED BY <1>2, <1>3, <2>1 DEF Finish
<1>5. \A q \in Proc : \A c, rest : ~Apply(q, c, rest)
  <2> SUFFICES ASSUME NEW q \in Proc, NEW c, NEW rest, Apply(q, c, rest) PROVE FALSE
    OBVIOUS
  <2>1. \/ Update(q, [run[q] EXCEPT !.plan = rest, !.applied = <<c>> \o @])
        \/ Update(q, [run[q] EXCEPT !.pc = "undo"])
    BY DEF Apply
  <2>2. q = p
    BY <1>2, <1>3, <2>1
  <2>3. \/ run'[p] = [run[p] EXCEPT !.plan = rest, !.applied = <<c>> \o run[p].applied]
        \/ run'[p] = [run[p] EXCEPT !.pc = "undo"]
    BY <1>2, <2>1, <2>2
  <2>4. /\ [run[p] EXCEPT !.plan = rest, !.applied = <<c>> \o run[p].applied].result = run[p].result
        /\ [run[p] EXCEPT !.pc = "undo"].result = run[p].result
    BY <1>1 DEF Runs
  <2> QED BY <1>3, <2>3, <2>4
<1>6. \A q \in Proc : ~Evaluate(q)
  <2> SUFFICES ASSUME NEW q \in Proc, Evaluate(q) PROVE FALSE
    OBVIOUS
  <2>1. PICK mode \in {"audit", "repair"} : Update(q, [Idle EXCEPT !.pc = "before", !.mode = mode])
    BY DEF Evaluate
  <2>2. [Idle EXCEPT !.pc = "before", !.mode = mode].result = "none"
    BY DEF Idle
  <2> QED BY <1>2, <1>3, <2>1, <2>2
<1>7. \A q \in Proc : ~RollBack(q)
  <2> SUFFICES ASSUME NEW q \in Proc, RollBack(q) PROVE FALSE
    OBVIOUS
  <2>1. \/ Finish(q, "rolledBack") \/ Finish(q, "rollbackFailed")
        \/ Update(q, [run[q] EXCEPT !.applied = Tail(@)])
    BY DEF RollBack
  <2>2. Update(q, [run[q] EXCEPT !.applied = Tail(@)])
    BY <1>4, <2>1
  <2> DEFINE v == [run[q] EXCEPT !.applied = Tail(@)]
  <2>3. q = p => v.result = run[p].result
    BY <1>1 DEF Runs
  <2> HIDE DEF v
  <2>4. run'[p] = IF q = p THEN v ELSE run[p]
    BY <1>2, <2>2 DEF v
  <2>5. run'[p].result = run[p].result
    BY <2>3, <2>4
  <2> QED BY <1>3, <2>5
<1>8. \A q \in Proc : ReadBefore(q) \/ ReadAfter(q) => q = p
  <2> SUFFICES ASSUME NEW q \in Proc, ReadBefore(q) \/ ReadAfter(q) PROVE q = p
    OBVIOUS
  <2>1. \E r : Update(q, r)
    BY DEF ReadBefore, ReadAfter, Finish
  <2> QED BY <1>2, <1>3, <2>1
<1>9. ~(OthersChangeInput \/ FirewallRestarts \/ CemsChangesPolicy)
  BY <1>3 DEF OthersChangeInput, FirewallRestarts, CemsChangesPolicy
<1>10. PICK q \in Proc : Step(q)
  BY <1>6, <1>9 DEF Next
<1>11. ReadBefore(q) \/ ReadAfter(q)
  BY <1>5, <1>7, <1>10 DEF Step, CreateChain, PutJumpFirst, RemoveSurplusJump, CorrectRule
<1> QED BY <1>8, <1>11

LEMMA PassBlocks ==
  ASSUME TypeOK, NEW p \in Proc, Next, SaysPass(p), run[p].managed => Managed(table),
         ~(Managed(table) /\ AcceptsBeforeCems(table))
  PROVE  AllBlocked
<1>1. run[p] \in Runs /\ run \in [Proc -> Runs] /\ run'[p].result = "pass"
  BY DEF TypeOK, SaysPass
<1>2. \A result : Finish(p, result) => result = "pass"
  BY <1>1 DEF Finish, Update, Idle
<1>3. CASE ReadBefore(p)
  <2> DEFINE managed == Managed(table)
             plan == IF managed THEN LegacyPlan(table) ELSE BuildPlan(table)
             verdict == IF managed THEN CemsVerdict(table) ELSE Verdict(table)
             on == [Idle EXCEPT !.pc = "apply", !.mode = "repair", !.managed = managed, !.plan = plan]
  <2>1. Finish(p, "unread") \/ Finish(p, verdict) \/ Update(p, on)
    BY <1>3, Zenon DEF ReadBefore
  <2>2. on.result = "none"
    BY DEF Idle
  <2> HIDE DEF on
  <2>3. ~Update(p, on)
    BY <1>1, <2>2 DEF Update
  <2>4. verdict = "pass"
    BY <1>2, <2>1, <2>3
  <2> QED BY <2>4, OwnPass, CemsPass
<1>4. CASE ReadAfter(p)
  <2>1. PICK works \in BOOLEAN :
          Finish(p, IF ~works THEN "unread"
                    ELSE IF run[p].managed THEN CemsVerdict(table)
                    ELSE IF Verdict(table) = "pass" THEN "pass" ELSE "overridden")
    BY <1>4 DEF ReadAfter
  <2>2. (IF ~works THEN "unread"
         ELSE IF run[p].managed THEN CemsVerdict(table)
         ELSE IF Verdict(table) = "pass" THEN "pass" ELSE "overridden") = "pass"
    BY <1>2, <2>1
  <2>3. IF run[p].managed THEN CemsVerdict(table) = "pass" ELSE Verdict(table) = "pass"
    BY <2>2
  <2> QED BY <2>3, OwnPass, CemsPass
<1> QED BY <1>3, <1>4, PassIsSaidByReading

\* PassIsTrueWhileCemsStays: whoever changed what before, a process that
\* reports "pass" has found INPUT to drop every required port, unless CEMS has
\* left since it began, or a rule before the chain of CEMS accepts everything.
THEOREM PassMeansBlocked == Spec => PassIsTrueWhileCemsStays
<1>1. TypeOK /\ [Next]_vars =>
        [\A p \in Proc : SaysPass(p) /\ (run[p].managed => Managed(table))
           /\ ~(Managed(table) /\ AcceptsBeforeCems(table)) => AllBlocked]_vars
  BY PassBlocks
<1> QED BY <1>1, TypeCorrect, PTL DEF Spec, PassIsTrueWhileCemsStays

-----------------------------------------------------------------------------
(* Third parties.                                                          *)

\* A jump more does not change how many rules of others are before a rule.
LEMMA SameBefore ==
  ASSUME NEW s, NEW i, NEW n \in Nat \ {0}, NEW k \in Nat \ {0}, k >= n,
         i[n] = Jump,
         \A j \in 1..k - 1 : IF j < n THEN i[j] = s[j] ELSE i[j + 1] = s[j]
  PROVE  OthersBefore(i, k + 1) = OthersBefore(s, k)
<1> DEFINE A == {j \in 1..k - 1 : s[j] # Jump}
           B == {j \in 1..(k + 1) - 1 : i[j] # Jump}
           f == [j \in A |-> IF j < n THEN j ELSE j + 1]
<1>1. IsFiniteSet(A)
  <2>1. IsFiniteSet(1..k - 1)
    BY FS_Interval
  <2> QED BY <2>1, FS_Subset
<1>2. \A j \in A : f[j] \in B
  <2> SUFFICES ASSUME NEW j \in A PROVE f[j] \in B
    OBVIOUS
  <2>1. j \in 1..k - 1 /\ s[j] # Jump /\ f[j] = IF j < n THEN j ELSE j + 1
    OBVIOUS
  <2>2. IF j < n THEN i[j] = s[j] ELSE i[j + 1] = s[j]
    BY <2>1
  <2>3. j \in 1..(k + 1) - 1 /\ j + 1 \in 1..(k + 1) - 1
    BY <2>1
  <2> HIDE DEF f
  <2> QED BY <2>1, <2>2, <2>3
<1>3. \A j, m \in A : f[j] = f[m] => j = m
  BY DEF A
<1>4. \A j \in B : \E m \in A : f[m] = j
  <2> SUFFICES ASSUME NEW j \in B PROVE \E m \in A : f[m] = j
    OBVIOUS
  <2>1. j \in 1..k /\ i[j] # Jump /\ j # n
    OBVIOUS
  <2>2. CASE j < n
    <3>1. j \in 1..k - 1
      BY <2>1, <2>2
    <3>2. j \in A
      BY <2>1, <2>2, <3>1
    <3> QED BY <2>2, <3>2
  <2>3. CASE j > n
    <3>1. j - 1 \in 1..k - 1 /\ ~(j - 1 < n) /\ (j - 1) + 1 = j
      BY <2>1, <2>3
    <3>2. s[j - 1] = i[j]
      BY <3>1
    <3>3. j - 1 \in A
      BY <2>1, <3>1, <3>2
    <3>4. f[j - 1] = j
      BY <3>1, <3>3
    <3> QED BY <3>3, <3>4
  <2> QED BY <2>1, <2>2, <2>3
<1>5. f \in [A -> B]
  BY <1>2
<1> HIDE DEF f, A, B
<1>6. f \in Bijection(A, B)
  BY <1>3, <1>4, <1>5, Fun_IsBij
<1>7. ExistsBijection(A, B)
  BY <1>6 DEF ExistsBijection
<1>8. Cardinality(B) = Cardinality(A)
  BY <1>1, <1>7, FS_Bijection
<1> QED BY <1>8 DEF OthersBefore, A, B

\* Where a jump is inserted, or removed, does not matter to others.
LEMMA JumpsDoNotCount ==
  ASSUME NEW t \in Tables, NEW u \in Tables, NEW n \in 1..Len(t.input) + 1,
         u.input = InsertAt(t.input, n, Jump)
  PROVE  ThirdParty(u) = ThirdParty(t)
<1>1. PICK s \in Seq(InputRules) : s = t.input /\ DOMAIN s = 1..Len(s) /\ Len(s) \in Nat
  BY TableParts
<1>2. PICK i \in Seq(InputRules) : i = u.input /\ DOMAIN i = 1..Len(i) /\ i = InsertAt(s, n, Jump)
  BY <1>1, TableParts
<1>3. n \in 1..Len(s) + 1 /\ Jump \in InputRules
  BY <1>1 DEF InputRules
<1>4. /\ Len(i) = Len(s) + 1
      /\ \A j \in 1..Len(s) + 1 : i[j] = IF j < n THEN s[j] ELSE IF j = n THEN Jump ELSE s[j - 1]
  <2>1. /\ Len(InsertAt(s, n, Jump)) = Len(s) + 1
        /\ \A j \in 1..Len(s) + 1 : InsertAt(s, n, Jump)[j] =
             IF j < n THEN s[j] ELSE IF j = n THEN Jump ELSE s[j - 1]
    BY <1>3, InsertAtProperties
  <2> QED BY <1>2, <2>1
<1>5. \A j \in 1..Len(s) : IF j < n THEN i[j] = s[j] ELSE i[j + 1] = s[j]
  <2> TAKE j \in 1..Len(s)
  <2>1. j \in 1..Len(s) + 1 /\ j + 1 \in 1..Len(s) + 1 /\ (j + 1) - 1 = j
    BY <1>1
  <2> QED BY <1>3, <1>4, <2>1
<1>6. i[n] = Jump
  BY <1>3, <1>4
\* Each rule of others has its counterpart, with as many before it.
<1>7. ASSUME NEW k \in 1..Len(s)
      PROVE  IF k < n THEN i[k] = s[k] /\ OthersBefore(i, k) = OthersBefore(s, k)
                      ELSE i[k + 1] = s[k] /\ OthersBefore(i, k + 1) = OthersBefore(s, k)
  <2>1. CASE k < n
    <3>1. \A j \in 1..k - 1 : i[j] = s[j]
      BY <1>1, <1>3, <1>5, <2>1
    <3>2. {j \in 1..k - 1 : i[j] # Jump} = {j \in 1..k - 1 : s[j] # Jump}
      BY <3>1
    <3> QED BY <1>5, <2>1, <3>2 DEF OthersBefore
  <2>2. CASE ~(k < n)
    <3>1. n \in Nat \ {0} /\ k \in Nat \ {0} /\ k >= n
      BY <1>1, <1>3, <2>2
    <3>2. \A j \in 1..k - 1 : IF j < n THEN i[j] = s[j] ELSE i[j + 1] = s[j]
      <4> TAKE j \in 1..k - 1
      <4>1. j \in 1..Len(s)
        BY <1>1
      <4> QED BY <1>5, <4>1
    <3>3. OthersBefore(i, k + 1) = OthersBefore(s, k)
      BY <1>6, <3>1, <3>2, SameBefore
    <3> QED BY <1>5, <2>2, <3>3
  <2> QED BY <2>1, <2>2
<1>8. ThirdParty(t) = {<<OthersBefore(s, k), s[k]>> : k \in {j \in 1..Len(s) : s[j] # Jump}}
  BY <1>1 DEF ThirdParty
<1>9. ThirdParty(u) = {<<OthersBefore(i, k), i[k]>> : k \in {j \in 1..Len(s) + 1 : i[j] # Jump}}
  BY <1>2, <1>4 DEF ThirdParty
<1>10. ASSUME NEW x \in ThirdParty(t) PROVE x \in ThirdParty(u)
  <2>1. PICK k \in 1..Len(s) : s[k] # Jump /\ x = <<OthersBefore(s, k), s[k]>>
    BY <1>8
  <2>2. k \in 1..Len(s) + 1 /\ k + 1 \in 1..Len(s) + 1
    BY <1>1
  <2>3. PICK m \in 1..Len(s) + 1 : i[m] = s[k] /\ OthersBefore(i, m) = OthersBefore(s, k)
    BY <1>7, <2>2
  <2> QED BY <1>9, <2>1, <2>3
<1>11. ASSUME NEW x \in ThirdParty(u) PROVE x \in ThirdParty(t)
  <2>1. PICK m \in 1..Len(s) + 1 : i[m] # Jump /\ x = <<OthersBefore(i, m), i[m]>>
    BY <1>9
  <2>2. PICK k \in 1..Len(s) : i[m] = s[k] /\ OthersBefore(i, m) = OthersBefore(s, k)
    <3>1. m # n
      BY <1>6, <2>1
    <3>2. CASE m < n
      <4>1. m \in 1..Len(s)
        BY <1>1, <1>3, <3>2
      <4> QED BY <1>7, <3>2, <4>1
    <3>3. CASE m > n
      <4>1. m - 1 \in 1..Len(s) /\ ~(m - 1 < n) /\ (m - 1) + 1 = m
        BY <1>1, <1>3, <3>3
      <4>2. i[m] = s[m - 1] /\ OthersBefore(i, m) = OthersBefore(s, m - 1)
        BY <1>7, <4>1
      <4> QED BY <4>1, <4>2
    <3> QED BY <1>1, <1>3, <3>1, <3>2, <3>3
  <2> QED BY <1>8, <2>1, <2>2
<1> QED BY <1>10, <1>11

LEMMA PositionStays == \A m \in Nat : \A n : n \in 1..m => n \in 1..(m - 1) + 1
OBVIOUS

\* What iptables does to jumps and rules of the program does not touch others.
LEMMA CommandKeepsOthers ==
  ASSUME NEW t, IsTable(t), NEW c \in AllCommands, Accepts(t, c),
         c.op = "-D n" => t.input[c.at] = Jump
  PROVE  ThirdParty(Effect(t, c)) = ThirdParty(t)
<1> DEFINE u == Effect(t, c)
<1>1. t \in Tables /\ u \in Tables
  BY EffectIsTable DEF IsTable
<1>2. /\ t.input \in Seq(InputRules) /\ t.rules \in [Rules -> Nat] /\ Jump \in InputRules
      /\ DOMAIN t.input = 1..Len(t.input) /\ Len(t.input) \in Nat
  BY <1>1, TableParts
<1>3. CASE c.op = "-I"
  <2>1. c.at \in 1..Len(t.input) + 1
    BY <1>3 DEF Accepts
  <2>2. u = [t EXCEPT !.input = InsertAt(t.input, c.at, Jump)]
    BY <1>3 DEF Effect
  <2> HIDE DEF u
  <2>3. u.input = InsertAt(t.input, c.at, Jump)
    BY <1>1, <2>2 DEF Tables
  <2>4. ThirdParty(u) = ThirdParty(t)
    BY <1>1, <2>1, <2>3, JumpsDoNotCount
  <2> QED BY <2>4 DEF u
<1>4. ASSUME NEW n \in 1..Len(t.input), t.input[n] = Jump,
             u = [t EXCEPT !.input = RemoveAt(t.input, n)]
      PROVE  ThirdParty(u) = ThirdParty(t)
  <2> HIDE DEF u
  <2>1. u.input = RemoveAt(t.input, n)
    BY <1>1, <1>4 DEF Tables
  <2>2. InsertAt(u.input, n, Jump) = t.input
    BY <1>2, <1>4, <2>1, InsertRemoved
  <2>3. n \in 1..Len(u.input) + 1
    <3>1. Len(RemoveAt(t.input, n)) = Len(t.input) - 1
      BY <1>2, RemoveAtProperties
    <3>2. Len(u.input) = Len(t.input) - 1
      BY <2>1, <3>1, Zenon
    <3>3. \A m \in Nat : n \in 1..m => n \in 1..(m - 1) + 1
      BY PositionStays, Zenon
    <3>4. Len(t.input) \in Nat /\ n \in 1..Len(t.input)
      BY <1>2
    <3>5. n \in 1..(Len(t.input) - 1) + 1
      BY <3>3, <3>4, Zenon
    <3> QED BY <3>2, <3>5, Zenon
  <2> QED BY <1>1, <2>2, <2>3, JumpsDoNotCount
<1>5. CASE c.op = "-D n"
  <2>1. c.at \in 1..Len(t.input) /\ t.input[c.at] = Jump
    BY <1>2, <1>5 DEF Accepts
  <2>2. u = [t EXCEPT !.input = RemoveAt(t.input, c.at)]
    BY <1>5 DEF Effect
  <2> QED BY <1>4, <2>1, <2>2
<1>6. CASE c.op = "-D jump"
  <2> DEFINE n == FirstJump(t.input)
  <2>1. n \in 1..Len(t.input) /\ IsFirstJump(t.input, n)
    <3>1. \E k \in 1..Len(t.input) : IsFirstJump(t.input, k)
      BY <1>2, <1>6 DEF Accepts
    <3> QED BY <1>2, <3>1 DEF FirstJump
  <2>2. u = [t EXCEPT !.input = RemoveAt(t.input, n)]
    BY <1>6 DEF Effect
  <2>3. t.input[n] = Jump
    BY <2>1 DEF IsFirstJump
  <2> QED BY <1>4, <2>1, <2>2, <2>3
<1>7. CASE c.op \in {"-N", "-X", "-A", "-D"}
  <2>1. u.input = t.input
    <3>1. CASE c.op = "-N"
      BY <1>1, <3>1, TableParts DEF Effect
    <3>2. CASE c.op = "-X"
      BY <1>1, <3>2, TableParts DEF Effect
    <3>3. CASE c.op = "-A"
      BY <1>1, <3>3 DEF Effect, Tables
    <3>4. CASE c.op = "-D"
      BY <1>1, <3>4 DEF Effect, Tables
    <3> QED BY <1>7, <3>1, <3>2, <3>3, <3>4
  <2> HIDE DEF u
  <2>2. ThirdParty(u) = ThirdParty(t)
    BY <2>1 DEF ThirdParty
  <2> QED BY <2>2 DEF u
<1> QED BY <1>3, <1>5, <1>6, <1>7 DEF AllCommands

\* Nothing is undone by position.
LEMMA UndoIsNoPosition ==
  ASSUME NEW c \in Commands
  PROVE  Undo(c).op # "-D n"
<1> USE DEF Undo, Command
<1>1. CASE c.op = "-N"
  BY <1>1 DEF DeleteChain
<1>2. CASE c.op = "-I"
  BY <1>2 DEF DeleteJump
<1>3. CASE c.op = "-D n"
  BY <1>3 DEF InsertJump
<1>4. CASE c.op = "-A"
  BY <1>4 DEF DeleteRule
<1>5. CASE c.op = "-D"
  BY <1>5 DEF AppendRule
<1> QED BY <1>1, <1>2, <1>3, <1>4, <1>5 DEF Commands

LEMMA AppliedKeepsOthers ==
  ASSUME TypeOK, NEW p \in Proc, NEW c \in Commands, NEW rest, Apply(p, c, rest),
         c.op = "-D n" => table.input[c.at] = Jump
  PROVE  ThirdParty(table') = ThirdParty(table)
<1>1. table' = table \/ (Accepts(table, c) /\ table' = Effect(table, c))
  BY DEF Apply, TableChanges
<1>2. IsTable(table) /\ c \in AllCommands
  BY CommandsAreCommands DEF TypeOK
<1>3. CASE table' = table
  BY <1>3
<1>4. CASE Accepts(table, c) /\ table' = Effect(table, c)
  BY <1>2, <1>4, CommandKeepsOthers
<1> QED BY <1>1, <1>3, <1>4

\* A step of a process that works alone keeps what third parties have put into
\* INPUT.
LEMMA StepKeepsOthers ==
  ASSUME TypeOK, UndoInv, NEW p \in Proc, Alone(p), Step(p)
  PROVE  ThirdParty(table') = ThirdParty(table)
<1>1. /\ run[p].applied \in Seq(Commands) /\ IsTable(table)
  BY DEF TypeOK, Runs
<1>2. Traces(p) /\ PlanFits(p)
  BY DEF UndoInv, UndoInvOf
<1>3. CASE ReadBefore(p) \/ ReadAfter(p)
  <2>1. table' = table
    BY <1>3 DEF ReadBefore, ReadAfter
  <2> QED BY <2>1
<1>4. CASE CreateChain(p)
  <2>1. NewChain.op = "-N"
    BY DEF NewChain, Command
  <2> QED BY <1>4, <2>1, CommandTypes, AppliedKeepsOthers DEF CreateChain
<1>5. CASE PutJumpFirst(p)
  <2>1. InsertJump(1).op = "-I"
    BY DEF InsertJump, Command
  <2> QED BY <1>5, <2>1, CommandTypes, AppliedKeepsOthers DEF PutJumpFirst
<1>6. CASE RemoveSurplusJump(p)
  <2>1. PICK n \in run[p].plan.surplus :
          Apply(p, DeleteAt(n), [run[p].plan EXCEPT !.surplus = @ \ {n}])
    BY <1>6 DEF RemoveSurplusJump
  <2>2. DeleteAt(n).at = n /\ DeleteAt(n) \in Commands
    BY CommandTypes DEF DeleteAt, Command
  <2>3. table.input[n] = Jump
    BY <1>2, <1>6, <2>1 DEF RemoveSurplusJump, Apply, PlanFits, IsJump
  <2> QED BY <2>1, <2>2, <2>3, AppliedKeepsOthers
<1>7. CASE CorrectRule(p)
  <2>1. PICK r \in Rules :
          \/ Apply(p, AppendRule(r), [run[p].plan EXCEPT !.rules[r] = 0])
          \/ Apply(p, DeleteRule(r), [run[p].plan EXCEPT !.rules[r] = @ + 1])
    BY <1>7, OrderType DEF CorrectRule
  <2>2. AppendRule(r) \in Commands /\ DeleteRule(r) \in Commands
    BY CommandTypes
  <2>3. AppendRule(r).op = "-A" /\ DeleteRule(r).op = "-D"
    BY DEF AppendRule, DeleteRule, Command
  <2> QED BY <2>1, <2>2, <2>3, AppliedKeepsOthers
<1>8. CASE RollBack(p)
  <2> DEFINE c == Head(run[p].applied)
  <2>1. \/ table' = table
        \/ /\ run[p].applied # <<>> /\ Accepts(table, Undo(c))
           /\ table' = Effect(table, Undo(c))
    BY <1>8 DEF RollBack, TableChanges
  <2>2. CASE table' = table
    BY <2>2
  <2>3. CASE /\ run[p].applied # <<>> /\ Accepts(table, Undo(c))
             /\ table' = Effect(table, Undo(c))
    <3>1. c \in Commands
      BY <1>1, <2>3, HeadTailProperties
    <3> HIDE DEF c
    <3>2. Undo(c) \in AllCommands
      BY <3>1, UndoType
    <3>3. Undo(c).op # "-D n"
      BY <3>1, UndoIsNoPosition
    <3> QED BY <1>1, <2>3, <3>2, <3>3, CommandKeepsOthers
  <2> QED BY <2>1, <2>2, <2>3
<1> QED BY <1>3, <1>4, <1>5, <1>6, <1>7, <1>8 DEF Step

\* ThirdPartyKeptAlone: a process that works alone deletes and rewrites no rule
\* of a third party, and keeps their order, while it applies its plan and while
\* it undoes it.
THEOREM OthersAlwaysKept == Spec => ThirdPartyKeptAlone
<1>1. TypeOK /\ UndoInv /\ [Next]_vars =>
        [\A p \in Proc : Alone(p) /\ Step(p) => ThirdParty(table') = ThirdParty(table)]_vars
  BY StepKeepsOthers
<1> QED BY <1>1, WorkAlwaysSound, PTL DEF Spec, ThirdPartyKeptAlone
==============================================================================
