------------------------ MODULE ReportDirectory_proofs ------------------------
(***************************************************************************)
(* Proofs about the FTP directory and the exporter, for any terminals,     *)
(* tables of persons and findings, and any number of reports, attempts and *)
(* faults.                                                                 *)
(***************************************************************************)
EXTENDS ReportDirectory, FiniteSetTheorems, WellFoundedInduction, TLAPS

\* Among numbers up to n there is a greatest one.
LEMMA Greatest ==
  ASSUME NEW n \in Nat, NEW S, S \subseteq 0..n, S # {}
  PROVE  \E m \in S : \A s \in S : s <= m
<1> DEFINE T == {n - s : s \in S}
           R == OpToRel(<, Nat)
<1>1. T \subseteq Nat /\ T # {}
  <2>1. \A s \in S : n - s \in Nat
    OBVIOUS
  <2>2. QED
    BY <2>1
<1>2. PICK x \in T : \A y \in T : ~(<<y, x>> \in R)
  <2>1. IsWellFoundedOn(R, Nat)
    BY NatLessThanWellFounded
  <2> HIDE DEF R, T
  <2>2. QED
    BY <1>1, <2>1, WFMin
<1>3. \A y \in T : ~(y < x)
  BY <1>1, <1>2 DEF OpToRel
<1>4. PICK m \in S : x = n - m
  OBVIOUS
<1>5. ASSUME NEW s \in S PROVE s <= m
  <2>1. ~(n - s < n - m)
    BY <1>3, <1>4
  <2>2. s \in Int /\ m \in Int
    OBVIOUS
  <2>3. QED
    BY <2>1, <2>2
<1>6. QED
  BY <1>5

-----------------------------------------------------------------------------
(* What the exporter makes of reports and of the table of persons.         *)

\* Of the reports of a terminal a newest one is taken, unless there are two.
LEMMA NewestIsTaken ==
  ASSUME NEW n \in Nat, NEW reports, \A q \in reports : q.stamp \in 0..n,
         NEW r \in reports, ~Conflict(reports, r)
  PROVE  \E p \in LatestReports(reports) : /\ Identity(p) = Identity(r)
                                           /\ p.stamp >= r.stamp
<1> DEFINE S == {q.stamp : q \in Group(reports, r)}
<1>1. Group(reports, r) \subseteq reports /\ r \in Group(reports, r)
  BY DEF Group
<1>2. PICK m \in S : \A s \in S : s <= m
  <2>1. S \subseteq 0..n /\ S # {}
    BY <1>1
  <2> HIDE DEF S
  <2>2. QED
    BY <2>1, Greatest
<1>3. PICK p \in Group(reports, r) : p.stamp = m
  OBVIOUS
<1>4. \A q \in Group(reports, r) : q.stamp <= p.stamp
  BY <1>2, <1>3
<1>5. \A q \in Group(reports, r) \ {p} : q.stamp < p.stamp
  <2> SUFFICES ASSUME NEW q \in Group(reports, r), q # p PROVE q.stamp < p.stamp
    OBVIOUS
  <2>1. q.stamp # p.stamp
    BY <1>4 DEF Conflict
  <2>2. q.stamp \in Int /\ p.stamp \in Int
    BY <1>1
  <2>3. QED
    BY <1>4, <2>1, <2>2
<1>6. Identity(p) = Identity(r) /\ p \in reports
  BY DEF Group
<1>7. Group(reports, p) = Group(reports, r)
  BY <1>6 DEF Group
<1>8. p \in LatestReports(reports)
  BY <1>5, <1>6, <1>7 DEF LatestReports
<1>9. QED
  BY <1>1, <1>4, <1>6, <1>8

\* A row with the MAC of a report, the only one with it, decides.
LEMMA MacIsTaken ==
  ASSUME NEW rows, NEW r, r.mac # NoAddress, NEW i \in DOMAIN rows,
         rows[i].mac = r.mac,
         \A j \in DOMAIN rows : rows[j].mac = rows[i].mac => i = j
  PROVE  Assignment(rows, r) = rows[i]
<1> DEFINE U(mode) == UniqueAssignment(rows, r, mode)
<1>1. Matches(rows, r, "mac") = {i}
  BY DEF Matches, Accepts, UsableRows
<1>2. U("mac")
  BY <1>1, FS_Singleton DEF UniqueAssignment
<1>3. U("both") => Matches(rows, r, "both") = {i}
  <2>1. Matches(rows, r, "both") \subseteq {i}
    BY DEF Matches, Accepts, UsableRows
  <2>2. U("both") => Matches(rows, r, "both") # {}
    <3>1. Cardinality({}) = 0
      BY FS_EmptySet
    <3>2. QED
      BY <3>1 DEF UniqueAssignment
  <2>3. QED
    BY <2>1, <2>2
<1>4. Modes[1] = "both" /\ Modes[2] = "mac" /\ DOMAIN Modes = 1..3
  BY SMT DEF Modes
<1> DEFINE First(m) == U(Modes[m]) /\ \A k \in 1..m - 1 : ~U(Modes[k])
<1>5. ASSUME NEW m \in 1..3, First(m) PROVE Matches(rows, r, Modes[m]) = {i}
  <2> HIDE DEF U
  <2>1. m = 1 \/ m = 2
    <3>1. m = 3 => 2 \in 1..m - 1
      OBVIOUS
    <3>2. QED
      BY <1>2, <1>4, <1>5, <3>1
  <2>2. QED
    BY <1>1, <1>3, <1>4, <1>5, <2>1
<1>6. \E m \in 1..3 : First(m)
  <2> HIDE DEF U
  <2>1. CASE U("both")
    <3>1. 1 \in 1..3 /\ 1..1 - 1 = {}
      OBVIOUS
    <3>2. First(1)
      BY <1>4, <2>1, <3>1
    <3>3. QED
      BY <3>1, <3>2
  <2>2. CASE ~U("both")
    <3>1. 2 \in 1..3 /\ 1..2 - 1 = {1}
      OBVIOUS
    <3>2. First(2)
      BY <1>2, <1>4, <2>2, <3>1
    <3>3. QED
      BY <3>1, <3>2
  <2>3. QED
    BY <2>1, <2>2
<1>7. QED
  <2> DEFINE c == CHOOSE m \in DOMAIN Modes : First(m)
  <2>1. c \in 1..3 /\ First(c)
    <3> HIDE DEF First
    <3>1. QED
      BY <1>4, <1>6
  <2>2. Matches(rows, r, Modes[c]) = {i}
    BY <1>5, <2>1
  <2>3. Assignment(rows, r) = rows[CHOOSE k \in Matches(rows, r, Modes[c]) : TRUE]
    BY <1>4, <1>6 DEF Assignment
  <2> HIDE DEF c
  <2>4. QED
    BY <2>2, <2>3

RiskNames == {"high", "medium", "low", "review", "normal"}

\* The level of a report tells whether there are high or medium findings.
LEMMA RiskOfReport ==
  ASSUME NEW r, r.issues \subseteq {"low", "medium", "high"}, r.review \in BOOLEAN
  PROVE  /\ RiskLevel(r) \in RiskNames
         /\ "high" \in r.issues => RiskLevel(r) = "high"
         /\ "medium" \in r.issues => RiskLevel(r) \in {"medium", "high"}
         /\ RiskLevel(r) = "normal" => r.issues = {} /\ ~r.review
<1>1. CASE "high" \in r.issues
  <2>1. RiskLevel(r) = "high"
    BY <1>1, Zenon DEF RiskLevel
  <2>2. QED
    BY <1>1, <2>1 DEF RiskNames
<1>2. CASE "high" \notin r.issues /\ "medium" \in r.issues
  <2>1. RiskLevel(r) = "medium"
    BY <1>2 DEF RiskLevel
  <2>2. QED
    BY <1>2, <2>1 DEF RiskNames
<1>3. CASE r.issues \cap {"high", "medium"} = {} /\ r.review
  <2>1. RiskLevel(r) = "review"
    BY <1>3 DEF RiskLevel
  <2>2. QED
    BY <1>3, <2>1 DEF RiskNames
<1>4. CASE r.issues = {"low"} /\ ~r.review
  <2>1. RiskLevel(r) = "low"
    BY <1>4 DEF RiskLevel
  <2>2. QED
    BY <1>4, <2>1 DEF RiskNames
<1>5. CASE r.issues = {} /\ ~r.review
  <2>1. RiskLevel(r) = "normal"
    BY <1>5 DEF RiskLevel
  <2>2. QED
    BY <1>5, <2>1 DEF RiskNames
<1>6. QED
  BY <1>1, <1>2, <1>3, <1>4, <1>5

LEMMA RiskRanks ==
  /\ \A risk : RiskRank(risk) \in 0..4
  /\ \A risk \in RiskNames : /\ RiskRank(risk) = 4 => risk = "high"
                             /\ RiskRank(risk) >= 3 => risk \in {"medium", "high"}
  /\ RiskRank("high") = 4 /\ RiskRank("medium") = 3
  BY DEF RiskRank, RiskNames

\* In the rows of a person there is a worst one.
LEMMA WorstOfPerson ==
  ASSUME NEW own, own # {}
  PROVE  \E w \in own : \A row \in own : RiskRank(row.risk) <= RiskRank(w.risk)
<1> DEFINE S == {RiskRank(row.risk) : row \in own}
<1>1. S \subseteq 0..4 /\ S # {} /\ 4 \in Nat
  BY RiskRanks
<1>2. PICK m \in S : \A s \in S : s <= m
  <2> HIDE DEF S
  <2>1. QED
    BY <1>1, Greatest
<1>3. QED
  BY <1>2

-----------------------------------------------------------------------------
(* The sheet.                                                              *)

RowOf(r) == [report |-> r, owner |-> Assignment(table, r).owner,
             risk |-> IF Assignment(table, r) = Nobody THEN "review" ELSE RiskLevel(r)]

\* The sheet shows reports, with the owner and the risk they are given.
SheetInv == /\ found \in [Terminals -> Findings]
            /\ \A row \in sheet : \E b \in Batches : row = RowOf(ReportOf(b))

\* What a row says of a report.
LEMMA Rows ==
  ASSUME SheetInv, NEW row \in sheet
  PROVE  /\ row = RowOf(row.report)
         /\ \E b \in Batches : row.report = ReportOf(b)
         /\ row.report.issues \subseteq {"low", "medium", "high"}
         /\ row.report.review \in BOOLEAN
         /\ row.report.stamp \in Stamps
<1>1. PICK b \in Batches : row = RowOf(ReportOf(b))
  BY DEF SheetInv
<1>2. row.report = ReportOf(b)
  BY <1>1 DEF RowOf
<1>3. found[b[1]] \in Findings /\ b[2] \in Stamps
  BY DEF SheetInv, Batches
<1>4. /\ row.report.issues = found[b[1]].issues
      /\ row.report.review = found[b[1]].review
      /\ row.report.stamp = b[2]
  BY <1>2 DEF ReportOf
<1>5. QED
  BY <1>1, <1>2, <1>3, <1>4, DirectoryAssumption

LEMMA SheetKnowsOwners == SheetInv => MacDecides
<1> SUFFICES ASSUME SheetInv, NEW row \in sheet, NEW i \in DOMAIN table,
                    row.report.mac # NoAddress, table[i].mac = row.report.mac,
                    \A j \in DOMAIN table : table[j].mac = table[i].mac => i = j
             PROVE  row.owner = table[i].owner
  BY DEF MacDecides
<1>1. row.owner = Assignment(table, row.report).owner
  BY Rows DEF RowOf
<1>2. QED
  BY <1>1, MacIsTaken

LEMMA SheetShowsFindings == SheetInv => WorstFindingShown
<1> SUFFICES ASSUME SheetInv, NEW row \in sheet, row.owner # Nobody.owner
             PROVE  \E p \in PersonSheet(sheet) :
                       /\ row.report \in p.reports
                       /\ "high" \in row.report.issues => p.risk = "high"
                       /\ "medium" \in row.report.issues => p.risk \in {"medium", "high"}
                       /\ \A line \in StatisticsSheet(sheet) :
                            line.dimension = "risk" /\ line.value = "normal" => line.problem = 0
  BY DEF WorstFindingShown
<1>1. \A q \in sheet : /\ q.risk \in RiskNames
                       /\ q.risk = "normal" => q.report.issues = {} /\ ~q.report.review
  <2> SUFFICES ASSUME NEW q \in sheet
               PROVE  /\ q.risk \in RiskNames
                      /\ q.risk = "normal" => q.report.issues = {} /\ ~q.report.review
    OBVIOUS
  <2>1. q.risk = "review" \/ q.risk = RiskLevel(q.report)
    BY Rows DEF RowOf
  <2>2. QED
    BY <2>1, Rows, RiskOfReport DEF RiskNames
<1>2. row.risk = RiskLevel(row.report)
  BY Rows DEF RowOf
<1> DEFINE key == PersonKey(row)
           own == {q \in sheet : PersonKey(q) = key}
           worst == CHOOSE w \in own : \A q \in own : RiskRank(q.risk) <= RiskRank(w.risk)
           p == [key |-> key, reports |-> {q.report : q \in own}, risk |-> worst.risk]
<1>3. p \in PersonSheet(sheet)
  BY DEF PersonSheet
<1>4. row.report \in p.reports
  OBVIOUS
<1>5. worst \in own /\ RiskRank(row.risk) <= RiskRank(worst.risk)
  <2>1. row \in own
    OBVIOUS
  <2> HIDE DEF own
  <2>2. QED
    BY <2>1, WorstOfPerson
<1>6. worst.risk \in RiskNames
  BY <1>1, <1>5
<1>7. "high" \in row.report.issues => p.risk = "high"
  <2>1. "high" \in row.report.issues => RiskRank(row.risk) = 4
    BY <1>2, Rows, RiskOfReport, RiskRanks
  <2>2. RiskRank(worst.risk) \in 0..4
    BY RiskRanks
  <2> HIDE DEF worst
  <2>3. QED
    BY <1>5, <1>6, <2>1, <2>2, RiskRanks
<1>8. "medium" \in row.report.issues => p.risk \in {"medium", "high"}
  <2>1. "medium" \in row.report.issues => RiskRank(row.risk) >= 3
    BY <1>2, Rows, RiskOfReport, RiskRanks
  <2>2. RiskRank(worst.risk) \in 0..4 /\ RiskRank(row.risk) \in 0..4
    BY RiskRanks
  <2> HIDE DEF worst
  <2>3. QED
    BY <1>5, <1>6, <2>1, <2>2, RiskRanks
<1>9. ASSUME NEW line \in StatisticsSheet(sheet), line.dimension = "risk", line.value = "normal"
      PROVE  line.problem = 0
  <2>1. line.problem = Cardinality({q \in {x \in sheet : ValueOf(x, "risk") = "normal"} :
                                      q.report.issues # {} \/ q.report.review})
    <3>1. PICK d \in Dimensions : \E value \in {ValueOf(x, d) : x \in sheet} :
              line = LET group == {x \in sheet : ValueOf(x, d) = value} IN
                [dimension |-> d, value |-> value, total |-> Cardinality(group),
                 problem |-> Cardinality({x \in group : x.report.issues # {} \/
                                                        x.report.review}),
                 unmatched |-> Cardinality({x \in group : x.owner = Nobody.owner})]
      BY <1>9, Zenon DEF StatisticsSheet
    <3>2. QED
      BY <1>9, <3>1
  <2>2. {q \in {x \in sheet : ValueOf(x, "risk") = "normal"} :
            q.report.issues # {} \/ q.report.review} = {}
    BY <1>1 DEF ValueOf
  <2>3. QED
    BY <2>1, <2>2, FS_EmptySet
<1>10. QED
  <2> HIDE DEF p
  <2>1. QED
    BY <1>3, <1>4, <1>7, <1>8, <1>9

-----------------------------------------------------------------------------
(* Typing.                                                                 *)

\* A tool that is at work is at a report.
AtReport == \A t \in Terminals : sender[t].pc # "rest" => sender[t].stamp \in Stamps

LEMMA InitTyped == Init => TypeOK /\ AtReport
<1> SUFFICES ASSUME Init PROVE TypeOK /\ AtReport
  OBVIOUS
<1>1. PICK last \in [Terminals -> 0..MaxStamp] :
        sender = [t \in Terminals |-> [pc |-> "rest", stamp |-> last[t], attempt |-> 1]]
  BY DEF Init
<1>2. AtReport
  BY <1>1 DEF AtReport
<1>3. 1 \in 1..MaxAttempts
  BY DirectoryAssumption
<1>4. sender \in [Terminals ->
         [pc : {"rest", "html", "json", "put html", "put json", "wait html",
                "wait json"}, stamp : 0..MaxStamp, attempt : 1..MaxAttempts]]
  BY <1>1, <1>3
<1>5. exporter \in [pc : {"rest", "reading", "done"}, todo : SUBSET Batches,
                    late : SUBSET Batches, exit : 0..3,
                    loaded : SUBSET {ReportOf(b) : b \in Batches}]
  BY DEF Init
<1>6. QED
  BY <1>2, <1>4, <1>5 DEF Init, TypeOK

AllReports == {ReportOf(b) : b \in Batches}

LEMMA ReportsStay == UNCHANGED given => AllReports' = AllReports
  BY DEF given, AllReports, ReportOf

LEMMA ObserveTyped == stable \subseteq Batches /\ Observe => stable' \subseteq Batches
  BY DEF Observe

LEMMA FaultTyped == faults \in 0..MaxFaults /\ Fault => faults' \in 0..MaxFaults
  BY DirectoryAssumption DEF Fault

SenderType == [pc : {"rest", "html", "json", "put html", "put json", "wait html",
                     "wait json"}, stamp : 0..MaxStamp, attempt : 1..MaxAttempts]
FileType == [Kinds -> {"none", "part", "whole"}]

LEMMA BatchTyped ==
  ASSUME TypeOK, AtReport, NEW t \in Terminals, sender[t].pc # "rest"
  PROVE  Batch(t) \in Batches
  BY DEF AtReport, Batch, Batches

LEMMA FilesTyped ==
  /\ \A t : FirstFile(t) \in Kinds /\ FileAt(t) \in Kinds
  /\ \A k \in Kinds : OtherFile(k) \in Kinds /\ OtherFile(k) # k
  BY DEF FirstFile, FileAt, OtherFile, Kinds

LEMMA PutTyped ==
  ASSUME TypeOK, NEW b \in Batches, NEW k \in Kinds, NEW state \in {"none", "part", "whole"},
         Put(b, k, state)
  PROVE  files' \in [Batches -> FileType]
<1>1. files \in [Batches -> FileType]
  BY DEF TypeOK, FileType
<1>2. [files[b] EXCEPT ![k] = state] \in FileType
  BY <1>1 DEF FileType
<1>3. files' = [files EXCEPT ![b] = [files[b] EXCEPT ![k] = state]]
  BY <1>1, Zenon DEF Put
<1>4. QED
  BY <1>1, <1>2, <1>3

\* A tool goes on with its report.
SenderGoes(t) ==
    \E new \in SenderType : /\ sender' = [sender EXCEPT ![t] = new]
                            /\ new.pc # "rest" => new.stamp \in Stamps
LEMMA SenderTyped ==
  ASSUME TypeOK, AtReport, NEW t \in Terminals, SenderGoes(t)
  PROVE  sender' \in [Terminals -> SenderType] /\ AtReport'
<1>1. sender \in [Terminals -> SenderType]
  BY DEF TypeOK, SenderType
<1>2. QED
  BY <1>1 DEF SenderGoes, AtReport

\* The steps of a tool, as far as the tool is concerned.
LEMMA ToolGoes ==
  ASSUME TypeOK, AtReport, NEW t \in Terminals, ToolStep(t)
  PROVE  SenderGoes(t)
<1>1. sender \in [Terminals -> SenderType] /\ sender[t] \in SenderType
  BY DEF TypeOK, SenderType
<1>2. sender[t].pc # "rest" => sender[t].stamp \in Stamps
  BY DEF AtReport
<1>3. /\ 1 \in 1..MaxAttempts /\ MaxAttempts \in Nat /\ MaxStamp \in Nat
      /\ sender[t].attempt \in 1..MaxAttempts /\ sender[t].stamp \in 0..MaxStamp
  <2>1. sender[t].attempt \in 1..MaxAttempts /\ sender[t].stamp \in 0..MaxStamp
    BY <1>1 DEF SenderType
  <2>2. QED
    BY <2>1, DirectoryAssumption
<1>n. sender[t].attempt < MaxAttempts => sender[t].attempt + 1 \in 1..MaxAttempts
  BY <1>3
<1> DEFINE Pcs == {"html", "json", "put html", "put json", "wait html", "wait json"}
<1>4. ASSUME NEW pc \in Pcs \cup {"rest"}, sender[t].pc # "rest",
             sender' = [sender EXCEPT ![t].pc = pc]
      PROVE  SenderGoes(t)
  <2> DEFINE new == [sender[t] EXCEPT !.pc = pc]
  <2>1. sender' = [sender EXCEPT ![t] = new]
    BY <1>1, <1>4
  <2>2. new \in SenderType /\ new.stamp \in Stamps
    BY <1>1, <1>2, <1>4 DEF SenderType
  <2> HIDE DEF new
  <2>3. QED
    BY <2>1, <2>2 DEF SenderGoes
<1>5. ASSUME NEW pc \in Pcs, sender[t].pc # "rest", NextAttempt(t, pc)
      PROVE  SenderGoes(t)
  <2>1. CASE sender[t].attempt < MaxAttempts
    <3> DEFINE new == [sender[t] EXCEPT !.attempt = @ + 1, !.pc = pc]
    <3>1. sender' = [sender EXCEPT ![t] = new]
      BY <1>5, <2>1 DEF NextAttempt
    <3>3. new \in SenderType /\ new.stamp \in Stamps
      BY <1>1, <1>2, <1>5, <1>n, <2>1 DEF SenderType
    <3> HIDE DEF new
    <3>4. QED
      BY <3>1, <3>3 DEF SenderGoes
  <2>2. CASE ~(sender[t].attempt < MaxAttempts)
    <3> DEFINE new == [sender[t] EXCEPT !.pc = "rest"]
    <3>1. sender' = [sender EXCEPT ![t] = new]
      BY <1>5, <2>2 DEF NextAttempt
    <3>2. new \in SenderType /\ new.stamp \in Stamps
      BY <1>1, <1>2, <1>5 DEF SenderType
    <3> HIDE DEF new
    <3>3. QED
      BY <3>1, <3>2 DEF SenderGoes
  <2>3. QED
    BY <2>1, <2>2
<1>6. CASE Report(t)
  <2> DEFINE new == [pc |-> FirstFile(t), stamp |-> sender[t].stamp + 1, attempt |-> 1]
  <2>1. sender' = [sender EXCEPT ![t] = new]
    BY <1>1, <1>6 DEF Report
  <2>2. new \in SenderType /\ new.stamp \in Stamps
    <3>1. sender[t].stamp + 1 \in Stamps /\ sender[t].stamp + 1 \in 0..MaxStamp
      BY <1>3, <1>6 DEF Report, Stamps
    <3>2. QED
      BY <1>3, <3>1 DEF SenderType, FirstFile
  <2> HIDE DEF new
  <2>3. QED
    BY <2>1, <2>2 DEF SenderGoes
<1>6a. ASSUME sender[t].pc # "rest", FileSent(t) PROVE SenderGoes(t)
  <2>1. CASE sender' = [sender EXCEPT ![t].pc = OtherFile(FileAt(t)),
                                      ![t].attempt = IF t \in Windows THEN @ ELSE 1]
    <3> DEFINE new == [sender[t] EXCEPT !.pc = OtherFile(FileAt(t)),
                                        !.attempt = IF t \in Windows THEN @ ELSE 1]
    <3>1. sender' = [sender EXCEPT ![t] = new]
      BY <1>1, <2>1
    <3>2. new \in SenderType /\ new.stamp \in Stamps
      BY <1>1, <1>2, <1>3, <1>6a DEF SenderType, OtherFile
    <3> HIDE DEF new
    <3>3. QED
      BY <3>1, <3>2 DEF SenderGoes
  <2>2. CASE Acknowledge(t)
    BY <1>4, <1>6a, <2>2 DEF Acknowledge
  <2>3. QED
    BY <1>6a, <2>1, <2>2 DEF FileSent
<1>7. CASE OpenFile(t)
  BY <1>4, <1>7 DEF OpenFile, Go, Kinds
<1>8. CASE FillFile(t) \/ Answered(t)
  <2>1. sender[t].pc # "rest"
    BY <1>8 DEF FillFile, Answered, Awaited
  <2>2. QED
    BY <1>6a, <1>8, <2>1 DEF FillFile, Answered
<1>9. CASE PutFails(t)
  BY <1>5, <1>9 DEF PutFails, FileAt
<1>10. CASE OpenSession(t)
  BY <1>4, <1>10 DEF OpenSession, Go, Kinds
<1>11. CASE NoSession(t)
  BY <1>5, <1>11 DEF NoSession, Kinds
<1>12. CASE TimeOut(t)
  BY <1>5, <1>12 DEF TimeOut, FileAt
<1>13. QED
  BY <1>6, <1>7, <1>8, <1>9, <1>10, <1>11, <1>12 DEF ToolStep, UploadStep

LEMMA SessionsTyped ==
  ASSUME TypeOK, NEW s \in sessions
  PROVE  /\ s.of \in SessionType /\ s.step \in {"receiving", "renaming", "stored", "late"}
         /\ Target(s) \in Batches /\ s.of.kind \in Kinds
         /\ s = [of |-> s.of, step |-> s.step]
  BY DEF TypeOK, SessionType, Target, Batches

LEMMA ToolTyped ==
  ASSUME TypeOK, AtReport, NEW t \in Terminals, ToolStep(t)
  PROVE  TypeOK' /\ AtReport'
<1> USE FilesTyped
<1>1. sender' \in [Terminals -> SenderType] /\ AtReport'
  BY ToolGoes, SenderTyped
<1>2. stable' \subseteq Batches /\ Observe
  BY ObserveTyped DEF TypeOK, ToolStep, UploadStep, Report, OpenFile, FillFile, PutFails,
     OpenSession, NoSession, TimeOut, Answered
<1>3. UNCHANGED <<pruner, exporter, given>> /\ torn' \subseteq torn
  BY DEF ToolStep, UploadStep, Report, OpenFile, FillFile, PutFails, OpenSession, NoSession,
     TimeOut, Answered, seen
<1>4. files' \in [Batches -> FileType]
  <2>1. CASE UNCHANGED files
    BY <2>1 DEF TypeOK, FileType
  <2>2. CASE OpenFile(t)
    BY <2>2, BatchTyped, PutTyped DEF OpenFile, Kinds
  <2>3. CASE FillFile(t)
    BY <2>1, <2>3, BatchTyped, PutTyped DEF FillFile
  <2>4. QED
    BY <2>1, <2>2, <2>3 DEF ToolStep, UploadStep, Report, PutFails, OpenSession, NoSession,
       TimeOut, Answered
<1>5. acknowledged' \subseteq Batches
  <2>1. CASE UNCHANGED acknowledged
    BY <2>1 DEF TypeOK
  <2>2. CASE sender[t].pc # "rest" /\ Acknowledge(t)
    BY <2>2, BatchTyped DEF TypeOK, Acknowledge
  <2>3. QED
    BY <2>1, <2>2 DEF ToolStep, UploadStep, Report, OpenFile, FillFile, FileSent, PutFails,
       OpenSession, NoSession, TimeOut, Answered, Awaited, seen
<1>6. sessions' \subseteq [of : SessionType, step : {"receiving", "renaming", "stored", "late"}]
  <2>1. CASE sessions' \subseteq sessions
    BY <2>1 DEF TypeOK
  <2>2. ASSUME NEW k \in Kinds, NEW step \in {"receiving", "late"}, sender[t].pc # "rest",
               sessions' = sessions \cup {[of |-> Session(t, k), step |-> step]}
        PROVE  sessions' \subseteq
                  [of : SessionType, step : {"receiving", "renaming", "stored", "late"}]
    <3>1. Session(t, k) \in SessionType
      BY <2>2 DEF TypeOK, AtReport, Session, SessionType
    <3>2. [of |-> Session(t, k), step |-> step]
              \in [of : SessionType, step : {"receiving", "renaming", "stored", "late"}]
      BY <3>1
    <3>3. QED
      BY <2>2, <3>2 DEF TypeOK
  <2>3. CASE OpenSession(t)
    BY <2>2, <2>3 DEF OpenSession, Kinds
  <2>4. CASE PutFails(t)
    BY <2>1, <2>2, <2>4 DEF PutFails
  <2>5. QED
    BY <2>1, <2>3, <2>4 DEF ToolStep, UploadStep, Report, OpenFile, FillFile, NoSession,
       TimeOut, Answered
<1>7. exporter' \in [pc : {"rest", "reading", "done"}, todo : SUBSET Batches,
                    late : SUBSET Batches, exit : 0..3,
                    loaded : SUBSET AllReports']
  BY <1>3, ReportsStay DEF TypeOK, AllReports
<1>8. faults' \in 0..MaxFaults
  <2>1. CASE UNCHANGED faults
    BY <2>1 DEF TypeOK
  <2>2. CASE Fault
    BY <2>2, FaultTyped DEF TypeOK
  <2>3. QED
    BY <2>1, <2>2 DEF ToolStep, UploadStep, Report, OpenFile, FillFile, PutFails, OpenSession,
       NoSession, TimeOut, Answered
<1>9. QED
  BY <1>1, <1>2, <1>3, <1>4, <1>5, <1>6, <1>7, <1>8
     DEF TypeOK, SenderType, FileType, AllReports, given

\* The steps of the others leave the tools alone.
OthersStep == ReceiverStep \/ PrunerStep \/ ExporterStep

LEMMA OthersObserve == OthersStep => Observe /\ UNCHANGED <<sender, given, acknowledged>>
<1>1. ReceiverStep => Observe /\ UNCHANGED <<sender, given, acknowledged>>
  BY DEF ReceiverStep, Reject, RemoveOld, RenameNew, RenameFails, ReceiverDies, LateWrite, seen
<1>2. PrunerStep => Observe /\ UNCHANGED <<sender, given, acknowledged>>
  BY DEF PrunerStep, ListReports, Confirm, DeleteNext, seen
<1>3. ExporterStep => Observe /\ UNCHANGED <<sender, given, acknowledged>>
  BY DEF ExporterStep, StartExport, LoadReport, WriteWorkbook, seen
<1>4. QED
  BY <1>1, <1>2, <1>3 DEF OthersStep

LEMMA SameExporter ==
  ASSUME TypeOK, UNCHANGED <<exporter, given>>
  PROVE  exporter' \in [pc : {"rest", "reading", "done"}, todo : SUBSET Batches,
                        late : SUBSET Batches, exit : 0..3, loaded : SUBSET AllReports']
  BY ReportsStay DEF TypeOK, AllReports

LEMMA ReceiverTyped ==
  ASSUME TypeOK, ReceiverStep
  PROVE  /\ files' \in [Batches -> FileType]
         /\ sessions' \subseteq [of : SessionType, step : {"receiving", "renaming", "stored", "late"}]
         /\ torn' \subseteq Batches \X Kinds /\ faults' \in 0..MaxFaults
         /\ UNCHANGED <<pruner, exporter, sheet>>
<1>1. UNCHANGED <<pruner, exporter, sheet>>
  BY DEF ReceiverStep, Reject, RemoveOld, RenameNew, RenameFails, ReceiverDies, LateWrite
<1> USE SessionsTyped
<1>2. CASE Reject
  BY <1>1, <1>2 DEF TypeOK, FileType, Reject, seen
<1>3. CASE RemoveOld
  <2>1. PICK s \in sessions :
          /\ sessions' = (sessions \ {s}) \cup {[s EXCEPT !.step = "renaming"]}
          /\ Put(Target(s), s.of.kind, "none")
    BY <1>3 DEF RemoveOld
  <2>2. files' \in [Batches -> FileType]
    BY <2>1, PutTyped
  <2>3. [s EXCEPT !.step = "renaming"]
          \in [of : SessionType, step : {"receiving", "renaming", "stored", "late"}]
    BY DEF TypeOK
  <2>4. sessions' \subseteq [of : SessionType, step : {"receiving", "renaming", "stored", "late"}]
    BY <2>1, <2>3 DEF TypeOK
  <2>5. QED
    BY <1>1, <1>3, <2>2, <2>4 DEF TypeOK, RemoveOld, seen
<1>4. CASE RenameNew
  <2>1. PICK s \in sessions :
          /\ sessions' = (sessions \ {s}) \cup
               (IF Awaited(s.of) THEN {[s EXCEPT !.step = "stored"]} ELSE {})
          /\ Put(Target(s), s.of.kind, "whole")
    BY <1>4 DEF RenameNew
  <2>2. files' \in [Batches -> FileType]
    BY <2>1, PutTyped
  <2>3. [s EXCEPT !.step = "stored"]
          \in [of : SessionType, step : {"receiving", "renaming", "stored", "late"}]
    BY DEF TypeOK
  <2>4. sessions' \subseteq [of : SessionType, step : {"receiving", "renaming", "stored", "late"}]
    BY <2>1, <2>3 DEF TypeOK
  <2>5. QED
    BY <1>1, <1>4, <2>2, <2>4 DEF TypeOK, RenameNew, seen
<1>5. CASE RenameFails
  <2>1. faults' \in 0..MaxFaults
    BY <1>5, FaultTyped DEF TypeOK, RenameFails
  <2>2. PICK s \in sessions : /\ sessions' = sessions \ {s} /\ UNCHANGED files
                             /\ torn' = torn \cup {<<Target(s), s.of.kind>>}
    BY <1>5 DEF RenameFails
  <2>3. <<Target(s), s.of.kind>> \in Batches \X Kinds
    OBVIOUS
  <2>4. torn' \subseteq Batches \X Kinds
    BY <2>2, <2>3 DEF TypeOK
  <2>5. QED
    BY <1>1, <2>1, <2>2, <2>4 DEF TypeOK, FileType
<1>6. CASE ReceiverDies
  <2>1. faults' \in 0..MaxFaults
    BY <1>6, FaultTyped DEF TypeOK, ReceiverDies
  <2>2. {<<Target(s), s.of.kind>> : s \in {s \in sessions : s.step = "renaming"}}
           \subseteq Batches \X Kinds
    OBVIOUS
  <2>3. torn' \subseteq Batches \X Kinds
    BY <1>6, <2>2 DEF TypeOK, ReceiverDies
  <2>4. QED
    BY <1>1, <1>6, <2>1, <2>3 DEF TypeOK, FileType, ReceiverDies
<1>7. CASE LateWrite
  <2>1. PICK s \in sessions :
          /\ \E state \in {"part", "whole"} : Put(Target(s), s.of.kind, state)
          /\ torn' \in {torn \cup {<<Target(s), s.of.kind>>}, torn \ {<<Target(s), s.of.kind>>}}
          /\ sessions' \subseteq sessions
    BY <1>7 DEF LateWrite
  <2>2. files' \in [Batches -> FileType]
    BY <2>1, PutTyped
  <2>3. torn' \subseteq Batches \X Kinds
    <3>1. <<Target(s), s.of.kind>> \in Batches \X Kinds
      OBVIOUS
    <3>2. QED
      BY <2>1, <3>1 DEF TypeOK
  <2>4. sessions' \subseteq [of : SessionType, step : {"receiving", "renaming", "stored", "late"}]
    BY <2>1 DEF TypeOK
  <2>5. QED
    BY <1>1, <1>7, <2>2, <2>3, <2>4 DEF TypeOK, LateWrite
<1>8. QED
  BY <1>2, <1>3, <1>4, <1>5, <1>6, <1>7 DEF ReceiverStep

LEMMA PrunerTyped ==
  ASSUME TypeOK, PrunerStep
  PROVE  /\ files' \in [Batches -> FileType]
         /\ pruner' \in [pc : {"rest", "asking", "deleting"}, todo : SUBSET (Batches \X Kinds)]
         /\ faults' \in 0..MaxFaults
         /\ UNCHANGED <<sessions, exporter, sheet>> /\ torn' \subseteq torn
<1>1. UNCHANGED <<sessions, exporter, sheet>> /\ torn' \subseteq torn
  BY DEF PrunerStep, ListReports, Confirm, DeleteNext, seen
<1>2. pruner \in [pc : {"rest", "asking", "deleting"}, todo : SUBSET (Batches \X Kinds)]
  BY DEF TypeOK
<1>3. CASE ListReports
  <2>1. Obsolete \in SUBSET (Batches \X Kinds)
    BY DEF Obsolete
  <2>2. QED
    BY <1>1, <1>2, <1>3, <2>1 DEF TypeOK, FileType, ListReports
<1>4. CASE Confirm
  <2>1. pruner' \in [pc : {"rest", "asking", "deleting"}, todo : SUBSET (Batches \X Kinds)]
    BY <1>2, <1>4 DEF Confirm
  <2>2. QED
    BY <1>1, <1>4, <2>1 DEF TypeOK, FileType, Confirm
<1>5. CASE DeleteNext
  <2>1. PICK f \in pruner.todo :
          /\ pruner' = IF pruner.todo = {f} THEN [pc |-> "rest", todo |-> {}]
                       ELSE [pruner EXCEPT !.todo = @ \ {f}]
          /\ \/ Put(f[1], f[2], "none") /\ UNCHANGED faults
             \/ Fault /\ UNCHANGED files
    BY <1>5 DEF DeleteNext
  <2>2. f[1] \in Batches /\ f[2] \in Kinds
    BY <1>2
  <2>3. files' \in [Batches -> FileType] /\ faults' \in 0..MaxFaults
    <3>1. CASE Put(f[1], f[2], "none") /\ UNCHANGED faults
      BY <2>2, <3>1, PutTyped DEF TypeOK
    <3>2. CASE Fault /\ UNCHANGED files
      BY <3>2, FaultTyped DEF TypeOK, FileType
    <3>3. QED
      BY <2>1, <3>1, <3>2
  <2>4. pruner' \in [pc : {"rest", "asking", "deleting"}, todo : SUBSET (Batches \X Kinds)]
    BY <1>2, <2>1
  <2>5. QED
    BY <1>1, <2>3, <2>4
<1>6. QED
  BY <1>3, <1>4, <1>5 DEF PrunerStep

LEMMA ExporterTyped ==
  ASSUME TypeOK, ExporterStep
  PROVE  /\ exporter' \in [pc : {"rest", "reading", "done"}, todo : SUBSET Batches,
                           late : SUBSET Batches, exit : 0..3, loaded : SUBSET AllReports']
         /\ faults' \in 0..MaxFaults
         /\ UNCHANGED <<files, sessions, pruner, torn>>
<1>1. UNCHANGED <<files, sessions, pruner, torn, given>>
  BY DEF ExporterStep, StartExport, LoadReport, WriteWorkbook, seen
<1>2. exporter \in [pc : {"rest", "reading", "done"}, todo : SUBSET Batches,
                    late : SUBSET Batches, exit : 0..3, loaded : SUBSET AllReports]
  BY DEF TypeOK, AllReports
<1>3. AllReports' = AllReports
  BY <1>1, ReportsStay
<1>4. CASE StartExport
  <2>1. Listed \in SUBSET Batches /\ Batches \ Listed \in SUBSET Batches
    BY DEF Listed
  <2>2. exporter' \in [pc : {"rest", "reading", "done"}, todo : SUBSET Batches,
                       late : SUBSET Batches, exit : 0..3, loaded : SUBSET AllReports]
    <3>1. CASE exporter' = [exporter EXCEPT !.pc = "reading", !.todo = Listed,
                                            !.late = Batches \ Listed]
      BY <1>2, <2>1, <3>1
    <3>2. ASSUME NEW exit \in 0..3, exporter' = [exporter EXCEPT !.pc = "done", !.exit = exit]
          PROVE  exporter' \in [pc : {"rest", "reading", "done"}, todo : SUBSET Batches,
                       late : SUBSET Batches, exit : 0..3, loaded : SUBSET AllReports]
      BY <1>2, <3>2
    <3>3. 2 \in 0..3 /\ 3 \in 0..3
      OBVIOUS
    <3>4. QED
      BY <1>4, <3>1, <3>2, <3>3 DEF StartExport
  <2>3. QED
    BY <1>1, <1>3, <1>4, <2>2 DEF TypeOK, StartExport
<1>5. CASE LoadReport
  <2>1. PICK b \in exporter.todo \cup (exporter.late \cap Listed) :
          exporter' = [exporter EXCEPT !.todo = @ \ {b}, !.late = @ \ {b},
                        !.loaded = @ \cup (IF Readable(b) THEN {ReportOf(b)} ELSE {})]
    BY <1>5 DEF LoadReport
  <2>2. ReportOf(b) \in AllReports
    BY <1>2 DEF AllReports, Listed
  <2>3. QED
    BY <1>1, <1>2, <1>3, <1>5, <2>1, <2>2 DEF TypeOK, LoadReport
<1>6. CASE WriteWorkbook
  <2>1. faults' \in 0..MaxFaults
    BY <1>6, FaultTyped DEF TypeOK, WriteWorkbook
  <2>2. \E exit \in 0..3 : exporter' = [exporter EXCEPT !.pc = "done", !.late = {}, !.exit = exit]
    BY <1>6 DEF WriteWorkbook
  <2>3. exporter' \in [pc : {"rest", "reading", "done"}, todo : SUBSET Batches,
                       late : SUBSET Batches, exit : 0..3, loaded : SUBSET AllReports]
    BY <1>2, <2>2
  <2>4. QED
    BY <1>1, <1>3, <2>1, <2>3
<1>7. QED
  BY <1>4, <1>5, <1>6 DEF ExporterStep

LEMMA NextTyped == TypeOK /\ AtReport /\ [Next]_vars => TypeOK' /\ AtReport'
<1> SUFFICES ASSUME TypeOK, AtReport, [Next]_vars PROVE TypeOK' /\ AtReport'
  OBVIOUS
<1>1. CASE UNCHANGED vars
  <2>1. AllReports' = AllReports
    BY <1>1, ReportsStay DEF vars
  <2>2. QED
    BY <1>1, <2>1 DEF vars, seen, given, TypeOK, AtReport, AllReports
<1>2. ASSUME NEW t \in Terminals, ToolStep(t) PROVE TypeOK' /\ AtReport'
  BY <1>2, ToolTyped
<1>3. CASE OthersStep
  <2>1. /\ sender' \in [Terminals -> SenderType] /\ AtReport' /\ acknowledged' \subseteq Batches
        /\ stable' \subseteq Batches /\ verified' \subseteq Kylin
    BY <1>3, OthersObserve, ObserveTyped DEF TypeOK, SenderType, AtReport, given
  <2>2. /\ files' \in [Batches -> FileType]
        /\ sessions' \subseteq [of : SessionType, step : {"receiving", "renaming", "stored", "late"}]
        /\ pruner' \in [pc : {"rest", "asking", "deleting"}, todo : SUBSET (Batches \X Kinds)]
        /\ torn' \subseteq Batches \X Kinds /\ faults' \in 0..MaxFaults
    <3>1. CASE ReceiverStep
      BY <3>1, ReceiverTyped DEF TypeOK
    <3>2. CASE PrunerStep
      BY <3>2, PrunerTyped DEF TypeOK
    <3>3. CASE ExporterStep
      BY <3>3, ExporterTyped DEF TypeOK, FileType
    <3>4. QED
      BY <1>3, <3>1, <3>2, <3>3 DEF OthersStep
  <2>3. exporter' \in [pc : {"rest", "reading", "done"}, todo : SUBSET Batches,
                       late : SUBSET Batches, exit : 0..3, loaded : SUBSET AllReports']
    BY <1>3, OthersObserve, SameExporter, ReceiverTyped, PrunerTyped, ExporterTyped
       DEF OthersStep
  <2>4. QED
    BY <2>1, <2>2, <2>3 DEF TypeOK, SenderType, FileType, AllReports
<1>4. QED
  BY <1>1, <1>2, <1>3 DEF Next, OthersStep

(***************************************************************************)
(* The directory, the tools, the receiver, the pruner and the exporter     *)
(* keep their types, for any terminals and any bounds.                     *)
(***************************************************************************)
THEOREM DirectoryTyped == Spec => []TypeOK
<1>1. TypeOK /\ AtReport => TypeOK
  OBVIOUS
<1>2. QED
  BY InitTyped, NextTyped, PTL DEF Spec

-----------------------------------------------------------------------------
(* The exporter.                                                           *)

LEMMA InitSheet == Init => SheetInv
  BY DEF Init, SheetInv

\* The workbook gets rows of reports that were loaded; nobody else writes it.
LEMMA SheetSteps ==
  ASSUME TypeOK, [Next]_vars
  PROVE  /\ UNCHANGED given
         /\ \A row \in sheet' \ sheet : row \in TerminalSheet(table, exporter.loaded)
<1>1. CASE UNCHANGED vars
  BY <1>1 DEF vars
<1>2. ASSUME NEW t \in Terminals, ToolStep(t) PROVE UNCHANGED <<sheet, given>>
  BY <1>2 DEF ToolStep, UploadStep, Report, OpenFile, FillFile, PutFails, OpenSession, NoSession, TimeOut,
     Answered
<1>3. CASE ReceiverStep \/ PrunerStep \/ StartExport \/ LoadReport
  <2>1. UNCHANGED given
    BY <1>3, OthersObserve DEF OthersStep, ExporterStep
  <2>2. UNCHANGED sheet
    BY <1>3, ReceiverTyped, PrunerTyped DEF StartExport, LoadReport
  <2>3. QED
    BY <2>1, <2>2
<1>4. CASE WriteWorkbook
  BY <1>4 DEF WriteWorkbook
<1>5. QED
  BY <1>1, <1>2, <1>3, <1>4 DEF Next, ExporterStep

LEMMA NextSheet == TypeOK /\ SheetInv /\ [Next]_vars => SheetInv'
<1> SUFFICES ASSUME TypeOK, SheetInv, [Next]_vars PROVE SheetInv'
  OBVIOUS
<1>1. UNCHANGED <<found, table>>
  BY SheetSteps DEF given
<1>2. found' \in [Terminals -> Findings]
  BY <1>1 DEF SheetInv
<1>3. ASSUME NEW row \in sheet' PROVE \E b \in Batches : row = RowOf(ReportOf(b))
  <2>1. CASE row \in sheet
    BY <2>1 DEF SheetInv
  <2>2. CASE row \in TerminalSheet(table, exporter.loaded)
    <3>1. PICK r \in LatestReports(exporter.loaded) : row = RowOf(r)
      BY <2>2, Zenon DEF TerminalSheet, ApplyAssignments, RowOf
    <3>2. r \in exporter.loaded
      BY DEF LatestReports
    <3>3. \E b \in Batches : r = ReportOf(b)
      BY <3>2 DEF TypeOK
    <3>4. QED
      BY <3>1, <3>3
  <2>3. QED
    BY <2>1, <2>2, SheetSteps
<1>4. \A b : RowOf(ReportOf(b))' = RowOf(ReportOf(b))
  BY <1>1 DEF RowOf, ReportOf
<1>5. QED
  BY <1>2, <1>3, <1>4 DEF SheetInv

(***************************************************************************)
(* In the workbook the MAC decides who owns a terminal, for any tables of  *)
(* persons: a row of the table with the MAC of a report, and the only one  *)
(* with it, gives the owner, whoever has its IP address.                   *)
(***************************************************************************)
THEOREM MacAlwaysDecides == Spec => []MacDecides
<1>1. Init => TypeOK /\ AtReport /\ SheetInv
  BY InitTyped, InitSheet
<1>2. (TypeOK /\ AtReport /\ SheetInv) /\ [Next]_vars => (TypeOK /\ AtReport /\ SheetInv)'
  BY NextTyped, NextSheet
<1>3. QED
  BY <1>1, <1>2, SheetKnowsOwners, PTL DEF Spec

(***************************************************************************)
(* A high or medium finding shows in the line of its person, whatever else *)
(* was found on the person's terminals, and no terminal with a finding is  *)
(* counted among the normal ones.                                          *)
(***************************************************************************)
THEOREM WorstFindingAlwaysShown == Spec => []WorstFindingShown
<1>1. Init => TypeOK /\ AtReport /\ SheetInv
  BY InitTyped, InitSheet
<1>2. (TypeOK /\ AtReport /\ SheetInv) /\ [Next]_vars => (TypeOK /\ AtReport /\ SheetInv)'
  BY NextTyped, NextSheet
<1>3. QED
  BY <1>1, <1>2, SheetShowsFindings, PTL DEF Spec

\* The exporter has read, or will read, the pairs that stay readable.
ReadingInv ==
    /\ exporter.pc = "reading" =>
         \A b \in stable : b \in exporter.todo \/ ReportOf(b) \in exporter.loaded
    /\ NewestReported

LEMMA InitReading == Init => ReadingInv
  BY DEF Init, ReadingInv, NewestReported

\* While the exporter reads, "stable" can only lose pairs.
LEMMA StableSteps ==
  ASSUME Observe, exporter.pc # "rest"
  PROVE  stable' \subseteq stable /\ \A b \in stable' : Readable(b)
<1>1. CASE exporter'.pc # "reading" /\ exporter.pc # "reading"
  BY <1>1 DEF Observe
<1>2. CASE ~(exporter'.pc # "reading" /\ exporter.pc # "reading")
  BY <1>2 DEF Observe
<1>3. QED
  BY <1>1, <1>2

\* A pair that was loaded has a row in the new workbook.
LEMMA LoadedIsShown ==
  ASSUME TypeOK, NEW b \in Batches, ReportOf(b) \in exporter.loaded,
         ~Conflict(exporter.loaded, ReportOf(b))
  PROVE  \E row \in TerminalSheet(table, exporter.loaded) :
            /\ Identity(row.report) = Identity(ReportOf(b))
            /\ row.report.stamp >= ReportOf(b).stamp
<1>1. MaxStamp \in Nat
  BY DirectoryAssumption
<1>2. \A q \in exporter.loaded : q.stamp \in 0..MaxStamp
  <2> SUFFICES ASSUME NEW q \in exporter.loaded PROVE q.stamp \in 0..MaxStamp
    OBVIOUS
  <2>1. PICK c \in Batches : q = ReportOf(c)
    BY DEF TypeOK
  <2>2. q.stamp = c[2] /\ c[2] \in 1..MaxStamp
    BY <2>1 DEF ReportOf, Batches, Stamps
  <2>3. QED
    BY <1>1, <2>2
<1>3. PICK p \in LatestReports(exporter.loaded) :
        /\ Identity(p) = Identity(ReportOf(b))
        /\ p.stamp >= ReportOf(b).stamp
  BY <1>1, <1>2, NewestIsTaken
<1>4. RowOf(p) \in TerminalSheet(table, exporter.loaded)
  BY Zenon DEF TerminalSheet, ApplyAssignments, RowOf
<1>5. RowOf(p).report = p
  BY DEF RowOf
<1>6. QED
  BY <1>3, <1>4, <1>5

LEMMA NextReading ==
  ASSUME TypeOK, ReadingInv, [Next]_vars
  PROVE  ReadingInv'
<1>1. CASE UNCHANGED vars
  BY <1>1 DEF vars, given, ReadingInv, NewestReported, ReportOf
<1>2. ASSUME Observe, UNCHANGED <<exporter, sheet, given>> PROVE ReadingInv'
  <2>1. \A b : ReportOf(b)' = ReportOf(b)
    BY <1>2 DEF given, ReportOf
  <2>2. CASE exporter.pc = "reading"
    <3>1. stable' \subseteq stable
      BY <1>2, <2>2, StableSteps
    <3>2. QED
      BY <1>2, <2>1, <2>2, <3>1 DEF ReadingInv, NewestReported
  <2>3. CASE exporter.pc # "reading"
    <3>1. stable' = {}
      BY <1>2, <2>3 DEF Observe
    <3>2. QED
      BY <1>2, <2>3, <3>1 DEF ReadingInv, NewestReported
  <2>4. QED
    BY <2>2, <2>3
<1>3. CASE StartExport
  <2>1. UNCHANGED <<files, given>> /\ Observe /\ exporter.pc = "rest"
    BY <1>3 DEF StartExport
  <2>2. \A b \in Batches : Readable(b) => b \in Listed
    BY DEF Readable, Listed
  <2>3. CASE exporter' = [exporter EXCEPT !.pc = "reading", !.todo = Listed, !.late = Batches \ Listed]
    <3>1. exporter'.todo = Listed /\ exporter'.pc = "reading"
      BY <2>3 DEF TypeOK
    <3>2. \A b \in stable' : b \in Batches /\ Readable(b)
      BY <2>1, <3>1, Zenon DEF Observe
    <3>3. QED
      BY <2>2, <3>1, <3>2 DEF ReadingInv, NewestReported
  <2>4. CASE exporter'.pc = "done" /\ exporter'.exit # 0
    BY <2>4 DEF ReadingInv, NewestReported
  <2>5. \/ exporter'.pc = "done" /\ exporter'.exit # 0
        \/ exporter' = [exporter EXCEPT !.pc = "reading", !.todo = Listed, !.late = Batches \ Listed]
    <3>1. ASSUME NEW exit \in {2, 3}, exporter' = [exporter EXCEPT !.pc = "done", !.exit = exit]
          PROVE  exporter'.pc = "done" /\ exporter'.exit # 0
      <4>1. exporter'.pc = "done" /\ exporter'.exit = exit
        BY <3>1 DEF TypeOK
      <4>2. QED
        BY <3>1, <4>1
    <3>2. QED
      BY <1>3, <3>1 DEF StartExport
  <2>6. QED
    BY <2>3, <2>4, <2>5
<1>4. CASE LoadReport
  <2>1. PICK c \in exporter.todo \cup (exporter.late \cap Listed) :
          exporter' = [exporter EXCEPT !.todo = @ \ {c}, !.late = @ \ {c},
                        !.loaded = @ \cup (IF Readable(c) THEN {ReportOf(c)} ELSE {})]
    BY <1>4 DEF LoadReport
  <2>2. /\ exporter'.todo = exporter.todo \ {c} /\ exporter'.pc = "reading"
        /\ exporter'.loaded = exporter.loaded \cup (IF Readable(c) THEN {ReportOf(c)} ELSE {})
    BY <1>4, <2>1 DEF TypeOK, LoadReport
  <2>3. exporter.pc = "reading" /\ Observe /\ UNCHANGED given
    BY <1>4 DEF LoadReport
  <2>4. stable' \subseteq stable /\ \A b \in stable' : Readable(b)
    BY <2>3, StableSteps
  <2>5. \A b : ReportOf(b)' = ReportOf(b)
    BY <2>3 DEF given, ReportOf
  <2>6. ASSUME NEW b \in stable' PROVE b \in exporter'.todo \/ ReportOf(b) \in exporter'.loaded
    BY <2>2, <2>3, <2>4, <2>6 DEF ReadingInv
  <2>7. QED
    BY <2>2, <2>5, <2>6 DEF ReadingInv, NewestReported
<1>5. CASE WriteWorkbook
  <2>1. exporter.pc = "reading" /\ Observe /\ UNCHANGED given /\ exporter.todo = {}
    BY <1>5 DEF WriteWorkbook
  <2>2. stable' \subseteq stable
    BY <2>1, StableSteps
  <2>3. \A b : ReportOf(b)' = ReportOf(b) /\ Identity(ReportOf(b))' = Identity(ReportOf(b))
    BY <2>1 DEF given, ReportOf, Identity
  <2>4. exporter'.pc = "done" /\ exporter'.loaded = exporter.loaded
    BY <1>5 DEF WriteWorkbook, TypeOK
  <2>5. exporter'.exit = 0 => sheet' = TerminalSheet(table, exporter.loaded)
    <3>1. exporter' = [exporter EXCEPT !.pc = "done", !.late = {}, !.exit = 1]
            => exporter'.exit = 1
      BY DEF TypeOK
    <3>2. QED
      BY <1>5, <3>1 DEF WriteWorkbook
  <2>6. ASSUME NEW b \in stable', exporter'.exit = 0,
               ~Conflict(exporter.loaded, ReportOf(b))
        PROVE  \E row \in sheet' : /\ Identity(row.report) = Identity(ReportOf(b))
                                   /\ row.report.stamp >= ReportOf(b).stamp
    <3>1. b \in Batches /\ ReportOf(b) \in exporter.loaded
      BY <2>1, <2>2 DEF ReadingInv, TypeOK
    <3>2. QED
      BY <2>5, <2>6, <3>1, LoadedIsShown
  <2>7. NewestReported'
    BY <2>3, <2>4, <2>6 DEF NewestReported
  <2>8. QED
    BY <2>4, <2>7 DEF ReadingInv
<1>6. ASSUME NEW t \in Terminals, ToolStep(t) PROVE Observe /\ UNCHANGED <<exporter, sheet, given>>
  BY <1>6 DEF ToolStep, UploadStep, Report, OpenFile, FillFile, PutFails, OpenSession, NoSession, TimeOut,
     Answered
<1>7. CASE ReceiverStep \/ PrunerStep
  BY <1>2, <1>7, OthersObserve, ReceiverTyped, PrunerTyped DEF OthersStep
<1>8. QED
  BY <1>1, <1>2, <1>3, <1>4, <1>5, <1>6, <1>7 DEF Next, ExporterStep

(***************************************************************************)
(* Although it reads one file after the other while files come and go, the *)
(* exporter gives every terminal a row at least as new as any pair that    *)
(* could be read all the time, unless two names claim the newest report.   *)
(***************************************************************************)
THEOREM NewestAlwaysReported == Spec => []NewestReported
<1>1. Init => TypeOK /\ AtReport /\ ReadingInv
  BY InitTyped, InitReading
<1>2. (TypeOK /\ AtReport /\ ReadingInv) /\ [Next]_vars => (TypeOK /\ AtReport /\ ReadingInv)'
  BY NextTyped, NextReading
<1>3. ReadingInv => NewestReported
  BY DEF ReadingInv
<1>4. QED
  BY <1>1, <1>2, <1>3, PTL DEF Spec

-----------------------------------------------------------------------------
(* What a step may do to files, sessions and tools.                        *)

LEMMA SenderParts ==
  ASSUME TypeOK, NEW t \in Terminals
  PROVE  sender[t] \in SenderType /\ sender[t].stamp \in 0..MaxStamp /\ sender[t].stamp \in Int
<1>1. sender[t] \in SenderType
  BY DEF TypeOK, SenderType
<1>2. sender[t].stamp \in 0..MaxStamp
  BY <1>1 DEF SenderType
<1>3. QED
  BY <1>1, <1>2, DirectoryAssumption

LEMMA BatchParts ==
  ASSUME NEW b \in Batches
  PROVE  b[1] \in Terminals /\ b[2] \in Stamps /\ b[2] \in Int /\ b = <<b[1], b[2]>>
  BY DEF Batches, Stamps

LEMMA PutReads ==
  ASSUME TypeOK, NEW b \in Batches, NEW k \in Kinds, NEW state, Put(b, k, state)
  PROVE  /\ files'[b][k] = state
         /\ \A c \in Batches, j \in Kinds : c # b \/ j # k => files'[c][j] = files[c][j]
         /\ \A c \in Batches : c # b => files'[c] = files[c]
<1>1. files \in [Batches -> [Kinds -> {"none", "part", "whole"}]]
  BY DEF TypeOK
<1>2. files' = [files EXCEPT ![b] = [files[b] EXCEPT ![k] = state]]
  BY <1>1, Zenon DEF Put
<1>3. QED
  BY <1>1, <1>2

LEMMA GoReads ==
  ASSUME TypeOK, NEW t \in Terminals, NEW pc, sender' = [sender EXCEPT ![t].pc = pc]
  PROVE  sender'[t].pc = pc /\ sender'[t].stamp = sender[t].stamp /\
         sender'[t].attempt = sender[t].attempt
  BY DEF TypeOK

LEMMA NextAttemptReads ==
  ASSUME TypeOK, NEW t \in Terminals, NEW pc, NextAttempt(t, pc)
  PROVE  sender'[t].pc \in {pc, "rest"} /\ sender'[t].stamp = sender[t].stamp
<1>1. CASE sender[t].attempt < MaxAttempts
  BY <1>1 DEF TypeOK, NextAttempt
<1>2. CASE ~(sender[t].attempt < MaxAttempts)
  BY <1>2 DEF TypeOK, NextAttempt
<1>3. QED
  BY <1>1, <1>2

LEMMA ReportReads ==
  ASSUME TypeOK, NEW t \in Terminals, Report(t)
  PROVE  /\ sender[t].pc = "rest" /\ sender'[t].stamp = sender[t].stamp + 1
         /\ sender'[t].pc = FirstFile(t)
  BY DEF TypeOK, Report

\* After 226 the tool goes on with the second file, or it is done.
LEMMA FileSentReads ==
  ASSUME TypeOK, NEW t \in Terminals, FileSent(t)
  PROVE  /\ sender'[t].stamp = sender[t].stamp
         /\ \/ /\ FileAt(t) = FirstFile(t) /\ sender'[t].pc = OtherFile(FirstFile(t))
               /\ UNCHANGED acknowledged
            \/ /\ FileAt(t) # FirstFile(t) /\ sender'[t].pc = "rest"
               /\ acknowledged' = acknowledged \cup {Batch(t)}
<1>1. CASE FileAt(t) = FirstFile(t)
  <2>1. UNCHANGED acknowledged /\
        sender' = [sender EXCEPT ![t].pc = OtherFile(FirstFile(t)),
                                 ![t].attempt = IF t \in Windows THEN @ ELSE 1]
    BY <1>1 DEF FileSent
  <2>2. QED
    BY <1>1, <2>1 DEF TypeOK
<1>2. CASE FileAt(t) # FirstFile(t)
  BY <1>2, GoReads DEF FileSent, Acknowledge
<1>3. QED
  BY <1>1, <1>2

\* What a step of a tool does to the tool.
LEMMA ToolReads ==
  ASSUME TypeOK, AtReport, NEW t \in Terminals, ToolStep(t)
  PROVE  /\ \A u \in Terminals : u # t => sender'[u] = sender[u]
         /\ sender'[t].stamp >= sender[t].stamp
         /\ ~Report(t) => sender'[t].stamp = sender[t].stamp
<1>1. \A u \in Terminals : u # t => sender'[u] = sender[u]
  <2>1. PICK new \in SenderType : sender' = [sender EXCEPT ![t] = new]
    BY ToolGoes DEF SenderGoes
  <2>2. sender \in [Terminals -> SenderType]
    BY DEF TypeOK, SenderType
  <2>3. QED
    BY <2>1, <2>2
<1>2. sender[t].stamp \in Int
  BY SenderParts
<1>3. CASE Report(t)
  BY <1>1, <1>2, <1>3, ReportReads
<1>4. CASE ~Report(t)
  <2>1. sender'[t].stamp = sender[t].stamp
    <3>1. CASE OpenFile(t) \/ OpenSession(t)
      BY <3>1, GoReads DEF OpenFile, OpenSession, Go
    <3>2. CASE FillFile(t) \/ Answered(t)
      BY <3>2, FileSentReads DEF FillFile, Answered
    <3>3. CASE PutFails(t) \/ NoSession(t) \/ TimeOut(t)
      BY <3>3, NextAttemptReads DEF PutFails, NoSession, TimeOut
    <3>4. QED
      BY <1>4, <3>1, <3>2, <3>3 DEF ToolStep, UploadStep
  <2>2. QED
    BY <1>1, <1>2, <1>4, <2>1
<1>5. QED
  BY <1>3, <1>4

-----------------------------------------------------------------------------
(* Stamps grow.                                                            *)

\* What lies in the directory, what is on its way and what the pruner wants to
\* delete is not newer than the report the tool is at; nor is what was called
\* uploaded.  Late transfers are those to ordinary servers.
Ordered ==
    /\ \A b \in Batches : b[2] > sender[b[1]].stamp => files[b] = Missing
    /\ \A s \in sessions : /\ s.step = "late" <=> s.of.from \notin verified
                           /\ s.of.stamp <= sender[s.of.from].stamp
    /\ \A f \in pruner.todo : f[1][2] < sender[f[1][1]].stamp
    /\ \A b \in acknowledged : b[2] <= sender[b[1]].stamp

LEMMA InitOrdered == Init => Ordered
<1> SUFFICES ASSUME Init PROVE Ordered
  OBVIOUS
<1>1. PICK last \in [Terminals -> 0..MaxStamp] :
         /\ \A b \in Batches : b[2] > last[b[1]] => files[b] = Missing
         /\ sender = [t \in Terminals |-> [pc |-> "rest", stamp |-> last[t], attempt |-> 1]]
  BY DEF Init
<1>2. \A b \in Batches : sender[b[1]].stamp = last[b[1]]
  BY <1>1 DEF Batches
<1>3. sessions = {} /\ pruner.todo = {} /\ acknowledged = {}
  BY DEF Init
<1>4. QED
  BY <1>1, <1>2, <1>3 DEF Ordered

LEMMA StampsGrow ==
  ASSUME TypeOK, AtReport, [Next]_vars
  PROVE  \A t \in Terminals : sender'[t].stamp >= sender[t].stamp
<1>1. \A t \in Terminals : sender[t].stamp \in Int
  BY SenderParts
<1>2. CASE UNCHANGED sender
  BY <1>1, <1>2
<1>3. ASSUME NEW t \in Terminals, ToolStep(t)
      PROVE  \A u \in Terminals : sender'[u].stamp >= sender[u].stamp
  BY <1>1, <1>3, ToolReads
<1>4. QED
  BY <1>2, <1>3, OthersObserve DEF Next, OthersStep, vars

\* Who writes or deletes a file does so for a report the tool was at.
LEMMA WritesAreOld ==
  ASSUME TypeOK, AtReport, Ordered, [Next]_vars, NEW b \in Batches, files'[b] # files[b]
  PROVE  b[2] <= sender[b[1]].stamp
<1>1. ASSUME NEW c \in Batches, NEW k \in Kinds, NEW state, Put(c, k, state),
             c[2] <= sender[c[1]].stamp
      PROVE  b[2] <= sender[b[1]].stamp
  BY <1>1, PutReads
<1>2. ASSUME NEW t \in Terminals, OpenFile(t) \/ FillFile(t)
      PROVE  b[2] <= sender[b[1]].stamp
  <2>1. sender[t].pc # "rest" /\ Batch(t) \in Batches
    BY <1>2, BatchTyped DEF OpenFile, FillFile, Kinds
  <2>2. Batch(t)[2] <= sender[Batch(t)[1]].stamp
    BY SenderParts DEF Batch
  <2>3. \E k \in Kinds, state \in {"none", "part", "whole"} : Put(Batch(t), k, state)
    BY <1>2, FilesTyped DEF OpenFile, FillFile, Kinds
  <2>4. QED
    BY <1>1, <2>1, <2>2, <2>3
<1>3. CASE RemoveOld \/ RenameNew \/ LateWrite
  <2>1. PICK s \in sessions : \E state : Put(Target(s), s.of.kind, state)
    BY <1>3 DEF RemoveOld, RenameNew, LateWrite
  <2>2. Target(s)[2] <= sender[Target(s)[1]].stamp
    BY DEF Ordered, Target
  <2>3. QED
    BY <1>1, <2>1, <2>2, SessionsTyped
<1>4. CASE DeleteNext
  <2>1. PICK f \in pruner.todo : Put(f[1], f[2], "none") \/ UNCHANGED files
    BY <1>4 DEF DeleteNext
  <2>2. f[1] \in Batches /\ f[2] \in Kinds
    BY DEF TypeOK
  <2>3. f[1][2] <= sender[f[1][1]].stamp
    <3>1. f[1][2] < sender[f[1][1]].stamp
      BY DEF Ordered
    <3>2. QED
      BY <2>2, <3>1, BatchParts, SenderParts
  <2>4. QED
    BY <1>1, <2>1, <2>2, <2>3
<1>5. CASE UNCHANGED files
  BY <1>5
<1>6. QED
  BY <1>2, <1>3, <1>4, <1>5 DEF Next, ToolStep, UploadStep, ReceiverStep, PrunerStep, ExporterStep, vars,
     Report, PutFails, OpenSession, NoSession, TimeOut, Answered, Reject, RenameFails,
     ReceiverDies, LateWrite, ListReports, Confirm, StartExport, LoadReport, WriteWorkbook

\* A session is one there was, perhaps further on, or one of the tool just at
\* work; a late one is of a tool with an ordinary server.
LEMMA SessionsComeFrom ==
  ASSUME TypeOK, [Next]_vars, NEW s \in sessions'
  PROVE  \/ \E r \in sessions : s.of = r.of /\ (s.step = "late" <=> r.step = "late")
         \/ \E t \in Terminals, k \in Kinds :
              s.of = Session(t, k) /\ (s.step = "late" <=> t \notin verified)
<1> DEFINE Old(x) == \E r \in sessions : x.of = r.of /\ (x.step = "late" <=> r.step = "late")
           New(x) == \E t \in Terminals, k \in Kinds :
                       x.of = Session(t, k) /\ (x.step = "late" <=> t \notin verified)
<1>1. CASE sessions' \subseteq sessions
  BY <1>1
<1>2. ASSUME NEW t \in Terminals, NEW k \in Kinds, NEW step \in {"receiving", "late"},
             step = "late" <=> t \notin verified,
             sessions' = sessions \cup {[of |-> Session(t, k), step |-> step]}
      PROVE  Old(s) \/ New(s)
  <2>1. s \notin sessions => s.of = Session(t, k) /\ s.step = step
    BY <1>2
  <2>2. QED
    BY <1>2, <2>1
<1>3. ASSUME NEW t \in Terminals, OpenSession(t) PROVE Old(s) \/ New(s)
  BY <1>2, <1>3 DEF OpenSession
<1>4. ASSUME NEW t \in Terminals, PutFails(t) PROVE Old(s) \/ New(s)
  BY <1>1, <1>2, <1>4, FilesTyped DEF PutFails
<1>5. ASSUME NEW r \in sessions, r.step # "late", NEW step \in {"renaming", "stored"},
             sessions' \subseteq (sessions \ {r}) \cup {[r EXCEPT !.step = step]}
      PROVE  Old(s) \/ New(s)
  <2>1. [r EXCEPT !.step = step].of = r.of /\ [r EXCEPT !.step = step].step = step
    BY SessionsTyped
  <2>2. QED
    BY <1>5, <2>1
<1>6. CASE RemoveOld
  BY <1>5, <1>6 DEF RemoveOld
<1>7. CASE RenameNew
  BY <1>5, <1>7 DEF RenameNew
<1>8. QED
  BY <1>1, <1>3, <1>4, <1>6, <1>7 DEF Next, ToolStep, UploadStep, ReceiverStep, PrunerStep,
     ExporterStep, vars, Report, OpenFile, FillFile, NoSession, TimeOut, Answered, Reject,
     RenameFails, ReceiverDies, LateWrite, ListReports, Confirm, DeleteNext, StartExport,
     LoadReport, WriteWorkbook

\* What is called uploaded was so before, or the tool that is done with its
\* second file calls it so.
LEMMA AcknowledgedComesFrom ==
  ASSUME TypeOK, [Next]_vars, NEW b \in acknowledged'
  PROVE  \/ b \in acknowledged
         \/ \E t \in Terminals : /\ FillFile(t) \/ Answered(t)
                                /\ FileAt(t) # FirstFile(t) /\ b = Batch(t)
<1>1. CASE acknowledged' = acknowledged
  BY <1>1
<1>2. ASSUME NEW t \in Terminals, FillFile(t) \/ Answered(t)
      PROVE  \/ b \in acknowledged
             \/ /\ FillFile(t) \/ Answered(t)
                /\ FileAt(t) # FirstFile(t) /\ b = Batch(t)
  BY <1>2, FileSentReads DEF FillFile, Answered
<1>3. QED
  BY <1>1, <1>2 DEF Next, ToolStep, UploadStep, ReceiverStep, PrunerStep, ExporterStep, vars, seen,
     Report, OpenFile, PutFails, OpenSession, NoSession, TimeOut, Reject, RemoveOld, RenameNew,
     RenameFails, ReceiverDies, LateWrite, ListReports, Confirm, DeleteNext, StartExport,
     LoadReport, WriteWorkbook

\* The pruner only adds to its list when it makes a new one.
LEMMA TodoComesFrom ==
  ASSUME TypeOK, [Next]_vars
  PROVE  \/ pruner'.todo \subseteq pruner.todo
         \/ pruner'.todo = Obsolete /\ ListReports
<1>1. CASE UNCHANGED pruner
  BY <1>1
<1>2. CASE ListReports
  BY <1>2 DEF ListReports
<1>3. CASE Confirm
  <2>1. pruner'.todo = pruner.todo \/ pruner'.todo = {}
    <3>1. pruner' = [pruner EXCEPT !.pc = "deleting"] => pruner'.todo = pruner.todo
      BY DEF TypeOK
    <3>2. QED
      BY <1>3, <3>1 DEF Confirm
  <2>2. QED
    BY <2>1
<1>4. CASE DeleteNext
  <2>1. PICK f \in pruner.todo :
          pruner' = IF pruner.todo = {f} THEN [pc |-> "rest", todo |-> {}]
                    ELSE [pruner EXCEPT !.todo = @ \ {f}]
    BY <1>4 DEF DeleteNext
  <2>2. pruner'.todo = {} \/ pruner'.todo = pruner.todo \ {f}
    BY <2>1 DEF TypeOK
  <2>3. QED
    BY <2>2
<1>5. QED
  BY <1>1, <1>2, <1>3, <1>4 DEF Next, ToolStep, UploadStep, ReceiverStep, PrunerStep, ExporterStep, vars,
     Report, OpenFile, FillFile, PutFails, OpenSession, NoSession, TimeOut, Answered, Reject,
     RemoveOld, RenameNew, RenameFails, ReceiverDies, LateWrite, StartExport, LoadReport, WriteWorkbook

LEMMA ObsoleteIsOlder ==
  ASSUME TypeOK, Ordered, NEW f \in Obsolete
  PROVE  /\ f[1] \in Batches /\ f[2] \in Kinds /\ Paired(f[1])
         /\ \E s \in Stamps : s > f[1][2] /\ Paired(<<f[1][1], s>>)
         /\ f[1][2] < sender[f[1][1]].stamp
<1>1. f[1] \in Batches /\ f[2] \in Kinds /\ Paired(f[1]) /\ ~Newest(f[1])
  BY DEF Obsolete
<1>2. PICK s \in Stamps : s > f[1][2] /\ Paired(<<f[1][1], s>>)
  BY <1>1 DEF Newest
<1>3. <<f[1][1], s>> \in Batches
  BY <1>1 DEF Batches
<1>4. files[<<f[1][1], s>>] # Missing
  BY <1>2, <1>3 DEF Paired, Missing, Kinds
<1>5. s <= sender[f[1][1]].stamp
  <2>1. s \in Int /\ sender[f[1][1]].stamp \in Int
    BY <1>1, BatchParts, SenderParts DEF Stamps
  <2>2. QED
    BY <1>3, <1>4, <2>1 DEF Ordered
<1>6. QED
  BY <1>1, <1>2, <1>5, BatchParts, SenderParts DEF Stamps

LEMMA NextOrdered ==
  ASSUME TypeOK, AtReport, Ordered, [Next]_vars
  PROVE  Ordered'
<1>1. \A t \in Terminals : sender[t].stamp \in Int /\ sender'[t].stamp \in Int /\
                           sender'[t].stamp >= sender[t].stamp
  <2>1. TypeOK'
    BY NextTyped
  <2>2. \A t \in Terminals : sender'[t] \in SenderType
    BY <2>1 DEF TypeOK, SenderType
  <2>3. \A t \in Terminals : sender'[t].stamp \in 0..MaxStamp
    BY <2>2 DEF SenderType
  <2>4. \A t \in Terminals : sender'[t].stamp \in Int
    BY <2>3, DirectoryAssumption
  <2>5. QED
    BY <2>4, StampsGrow, SenderParts
<1>2. ASSUME NEW b \in Batches, b[2] > sender'[b[1]].stamp PROVE files'[b] = Missing
  <2>1. b[1] \in Terminals /\ b[2] \in Int
    BY DEF Batches, Stamps
  <2>2. b[2] > sender[b[1]].stamp
    BY <1>1, <1>2, <2>1
  <2>3. ~(b[2] <= sender[b[1]].stamp)
    BY <1>1, <2>1, <2>2
  <2>4. QED
    BY <2>2, <2>3, WritesAreOld DEF Ordered
<1>n. verified' = verified
  BY SheetSteps DEF given
<1>3. ASSUME NEW s \in sessions'
      PROVE  /\ s.step = "late" <=> s.of.from \notin verified
             /\ s.of.stamp <= sender'[s.of.from].stamp
  <2>1. ASSUME NEW r \in sessions, s.of = r.of, s.step = "late" <=> r.step = "late"
        PROVE  /\ s.step = "late" <=> s.of.from \notin verified
               /\ s.of.stamp <= sender'[s.of.from].stamp
    <3>1. /\ r.step = "late" <=> r.of.from \notin verified
          /\ r.of.stamp <= sender[r.of.from].stamp
      BY DEF Ordered
    <3>2. r.of.stamp \in Int /\ r.of.from \in Terminals
      BY SessionsTyped DEF SessionType, Stamps
    <3>3. QED
      BY <1>1, <2>1, <3>1, <3>2
  <2>2. ASSUME NEW t \in Terminals, NEW k \in Kinds,
               s.of = Session(t, k), s.step = "late" <=> t \notin verified
        PROVE  /\ s.step = "late" <=> s.of.from \notin verified
               /\ s.of.stamp <= sender'[s.of.from].stamp
    BY <1>1, <2>2 DEF Session
  <2>3. QED
    BY <2>1, <2>2, SessionsComeFrom
<1>4. ASSUME NEW f \in pruner'.todo PROVE f[1][2] < sender'[f[1][1]].stamp
  <2>1. f[1][2] < sender[f[1][1]].stamp /\ f[1] \in Batches
    BY TodoComesFrom, ObsoleteIsOlder DEF Ordered, TypeOK
  <2>2. QED
    BY <1>1, <2>1 DEF Batches, Stamps
<1>5. ASSUME NEW b \in acknowledged' PROVE b[2] <= sender'[b[1]].stamp
  <2>1. CASE b \in acknowledged
    <3>1. b \in Batches /\ b[2] <= sender[b[1]].stamp
      BY <2>1 DEF Ordered, TypeOK
    <3>2. QED
      BY <1>1, <3>1, BatchParts
  <2>2. ASSUME NEW t \in Terminals, b = Batch(t) PROVE b[2] <= sender'[b[1]].stamp
    BY <1>1, <2>2 DEF Batch
  <2>3. QED
    BY <2>1, <2>2, AcknowledgedComesFrom
<1>6. QED
  BY <1>2, <1>3, <1>4, <1>5, <1>n DEF Ordered, Missing

-----------------------------------------------------------------------------
(* Reports that have arrived stay.                                         *)

\* How far the tools and the sessions with the receiver have come.
Ways(t) == IF t \in verified THEN {"rest", "html", "json", "wait html", "wait json"}
           ELSE {"rest", "html", "json", "put html", "put json"}
AtSecond(t) == sender[t].pc # "rest" /\ FileAt(t) # FirstFile(t)
Tools == \A t \in Terminals : /\ sender[t].pc \in Ways(t)
                              /\ AtSecond(t) => HasFile(Batch(t), FirstFile(t))
                              /\ sender[t].pc # "rest" => Batch(t) \notin acknowledged
\* The receiver never shows half a file.
VerifiedFiles == \A b \in Batches : b[1] \in verified =>
                   \A k \in Kinds : files[b][k] \in {"none", "whole"}
Stored == \A s \in sessions : s.step = "stored" => /\ Awaited(s.of)
                                                   /\ HasFile(Target(s), s.of.kind)
\* An ordinary server has emptied these files, and they are still there.
Emptied == \A f \in torn : f[1][1] \notin verified => files[f[1]][f[2]] = "part"
\* The pruner has deleted a file of such a report, or it is whole or emptied.
NothingHalf == \A b \in acknowledged : b[1] \notin verified =>
                 \A k \in Kinds : files[b][k] = "none" \/ HasFile(b, k)
Progress == Tools /\ VerifiedFiles /\ Stored /\ Emptied

\* A report or a newer one is there, and the pruner is not about to delete it.
Good(b) == IF b[1] \in verified THEN \A k \in Kinds : HasFile(b, k) ELSE Paired(b)
Spared(b) == \A k \in Kinds : <<b, k>> \notin pruner.todo
Safe(b) == \E s \in Stamps : s >= b[2] /\ Good(<<b[1], s>>) /\ Spared(<<b[1], s>>)
AllSafe == /\ NothingHalf
           /\ \A b \in acknowledged : Safe(b)
           /\ \A f \in pruner.todo : Safe(f[1])

Shape == TypeOK /\ AtReport /\ Ordered /\ Progress

LEMMA InitProgress == Init => Progress /\ AllSafe
<1> SUFFICES ASSUME Init PROVE Progress /\ AllSafe
  OBVIOUS
<1>1. \A t \in Terminals : sender[t].pc = "rest"
  BY DEF Init
<1>2. VerifiedFiles
  BY DEF Init, VerifiedFiles
<1>3. sessions = {} /\ acknowledged = {} /\ pruner.todo = {} /\ torn = {}
  BY DEF Init
<1>4. QED
  BY <1>1, <1>2, <1>3 DEF Progress, Tools, Ways, AtSecond, Stored, Emptied, NothingHalf, AllSafe

LEMMA TodoParts ==
  ASSUME TypeOK, NEW f \in pruner.todo
  PROVE  f[1] \in Batches /\ f[2] \in Kinds /\ f = <<f[1], f[2]>>
<1>1. f \in Batches \X Kinds
  BY DEF TypeOK
<1>2. QED
  BY <1>1

LEMMA TornParts ==
  ASSUME TypeOK, NEW f \in torn
  PROVE  f[1] \in Batches /\ f[2] \in Kinds /\ f = <<f[1], f[2]>>
<1>1. f \in Batches \X Kinds
  BY DEF TypeOK
<1>2. QED
  BY <1>1

\* A tool whose transfer is running has an ordinary server.
LEMMA PutsAreOrdinary ==
  ASSUME Shape, NEW t \in Terminals, OpenFile(t) \/ FillFile(t)
  PROVE  t \notin verified /\ Batch(t) \in Batches /\ sender[t].pc # "rest"
<1>1. t \notin verified
  BY DEF Shape, Progress, Tools, Ways, OpenFile, FillFile
<1>2. sender[t].pc # "rest"
  BY DEF OpenFile, FillFile, Kinds
<1>3. QED
  BY <1>1, <1>2, BatchTyped DEF Shape

(***************************************************************************)
(* Who changes a file, and what becomes of it.  Nine ways, for a batch b   *)
(* and a kind k.                                                           *)
(***************************************************************************)
Same(b, k) == /\ files'[b][k] = files[b][k]
              /\ <<b, k>> \in torn' <=> <<b, k>> \in torn
Renaming(b, k) == \E r \in sessions : r.step = "renaming" /\ Target(r) = b /\ r.of.kind = k
Written(b, k) == files'[b][k] = "whole" /\ <<b, k>> \notin torn'
FileSteps(b, k) ==
    \/ Same(b, k) /\ (Renaming(b, k) => Renaming(b, k)')
    \/ /\ b[1] \notin verified
       /\ \/ \E t \in Terminals : /\ OpenFile(t) /\ b = Batch(t) /\ k = sender[t].pc
                                  /\ files'[b][k] = "part" /\ <<b, k>> \notin torn'
          \/ Written(b, k)
          \/ files'[b][k] = "part" /\ <<b, k>> \in torn'
    \/ /\ b[1] \in verified
       /\ \/ /\ files'[b][k] = "none" /\ (<<b, k>> \in torn' <=> <<b, k>> \in torn)
             /\ Renaming(b, k)'
          \/ Written(b, k)
          \/ files'[b][k] = files[b][k] /\ <<b, k>> \in torn'
    \/ files'[b][k] = "none" /\ <<b, k>> \notin torn' /\ <<b, k>> \in pruner.todo

LEMMA RenamingStays ==
  ASSUME \A r \in sessions : r.step = "renaming" => r \in sessions', NEW b, NEW k,
         Renaming(b, k)
  PROVE  Renaming(b, k)'
  BY DEF Renaming, Target

LEMMA HowFilesChange ==
  ASSUME Shape, [Next]_vars, NEW b \in Batches, NEW k \in Kinds
  PROVE  FileSteps(b, k)
<1> USE DEF Shape
<1>1. ASSUME UNCHANGED <<files, torn>>,
             \A r \in sessions : r.step = "renaming" => r \in sessions'
      PROVE  FileSteps(b, k)
  BY <1>1, RenamingStays DEF FileSteps, Same
<1>2. ASSUME NEW c \in Batches, NEW j \in Kinds, NEW state, Put(c, j, state),
             torn' \cup {<<c, j>>} = torn \cup {<<c, j>>},
             \A r \in sessions : r.step = "renaming" /\ ~(Target(r) = c /\ r.of.kind = j)
                                  => r \in sessions',
             c # b \/ j # k
      PROVE  FileSteps(b, k)
  <2>1. files'[b][k] = files[b][k]
    BY <1>2, PutReads
  <2>2. <<b, k>> # <<c, j>>
    BY <1>2
  <2>3. <<b, k>> \in torn' <=> <<b, k>> \in torn
    BY <1>2, <2>2
  <2>4. Renaming(b, k) => Renaming(b, k)'
    BY <1>2 DEF Renaming, Target
  <2>5. QED
    BY <2>1, <2>3, <2>4 DEF FileSteps, Same
<1>3. ASSUME NEW t \in Terminals, OpenFile(t) PROVE FileSteps(b, k)
  <2>1. /\ Put(Batch(t), sender[t].pc, "part") /\ sender[t].pc \in Kinds
        /\ torn' = torn \ {<<Batch(t), sender[t].pc>>} /\ UNCHANGED sessions
    BY <1>3 DEF OpenFile
  <2>2. t \notin verified /\ Batch(t) \in Batches /\ Batch(t)[1] = t
    BY <1>3, PutsAreOrdinary DEF Batch
  <2>3. CASE b = Batch(t) /\ k = sender[t].pc
    <3>1. files'[b][k] = "part"
      BY <2>1, <2>2, <2>3, PutReads
    <3>2. <<b, k>> \notin torn'
      BY <2>1, <2>3
    <3>3. QED
      BY <1>3, <2>2, <2>3, <3>1, <3>2 DEF FileSteps
  <2>4. CASE ~(b = Batch(t) /\ k = sender[t].pc)
    BY <1>2, <2>1, <2>2, <2>4
  <2>5. QED
    BY <2>3, <2>4
<1>4. ASSUME NEW t \in Terminals, FillFile(t) PROVE FileSteps(b, k)
  <2>1. UNCHANGED <<torn, sessions>>
    BY <1>4 DEF FillFile
  <2>2. t \notin verified /\ Batch(t) \in Batches /\ Batch(t)[1] = t
    BY <1>4, PutsAreOrdinary DEF Batch
  <2>3. CASE UNCHANGED files
    BY <1>1, <2>1, <2>3
  <2>4. CASE <<Batch(t), FileAt(t)>> \notin torn /\ Put(Batch(t), FileAt(t), "whole")
    <3>1. CASE b = Batch(t) /\ k = FileAt(t)
      <4>1. files'[b][k] = "whole"
        BY <2>2, <2>4, <3>1, PutReads
      <4>2. QED
        BY <2>1, <2>2, <2>4, <3>1, <4>1 DEF FileSteps, Written
    <3>2. CASE ~(b = Batch(t) /\ k = FileAt(t))
      BY <1>2, <2>1, <2>2, <2>4, <3>2, FilesTyped
    <3>3. QED
      BY <3>1, <3>2
  <2>5. QED
    BY <1>4, <2>3, <2>4 DEF FillFile
<1>5. ASSUME NEW t \in Terminals, ToolStep(t), ~OpenFile(t), ~FillFile(t) PROVE FileSteps(b, k)
  <2>1. UNCHANGED <<files, torn>>
    BY <1>5 DEF ToolStep, UploadStep, Report, PutFails, OpenSession, NoSession, TimeOut, Answered,
       seen
  <2>2. \A r \in sessions : r.step = "renaming" => r \in sessions'
    BY <1>5 DEF ToolStep, UploadStep, Report, PutFails, OpenSession, NoSession, TimeOut, Answered
  <2>3. QED
    BY <1>1, <2>1, <2>2
<1>6. CASE Reject
  BY <1>1, <1>6 DEF Reject, seen
<1>7. CASE RemoveOld
  <2>1. PICK s \in sessions :
          /\ s.step = "receiving"
          /\ sessions' = (sessions \ {s}) \cup {[s EXCEPT !.step = "renaming"]}
          /\ Put(Target(s), s.of.kind, "none")
    BY <1>7 DEF RemoveOld
  <2> DEFINE new == [s EXCEPT !.step = "renaming"]
  <2>2. new.of = s.of /\ new.step = "renaming" /\ new \in sessions'
    BY <2>1, SessionsTyped
  <2>3. Target(new) = Target(s) /\ torn' = torn
    BY <1>7, <2>2 DEF Target, RemoveOld, seen
  <2>4. Target(s)[1] \in verified /\ Target(s) \in Batches /\ s.of.kind \in Kinds
    BY <2>1, SessionsTyped DEF Ordered, Target
  <2> HIDE DEF new
  <2>5. CASE Target(s) = b /\ s.of.kind = k
    <3>1. files'[b][k] = "none"
      BY <2>1, <2>4, <2>5, PutReads
    <3>2. Renaming(b, k)'
      BY <2>2, <2>3, <2>5 DEF Renaming, Target
    <3>3. QED
      BY <2>3, <2>4, <2>5, <3>1, <3>2 DEF FileSteps
  <2>6. CASE ~(Target(s) = b /\ s.of.kind = k)
    BY <1>2, <2>1, <2>3, <2>4, <2>6
  <2>7. QED
    BY <2>5, <2>6
<1>8. CASE RenameNew
  <2>1. PICK s \in sessions :
          /\ s.step = "renaming" /\ sessions \ {s} \subseteq sessions'
          /\ Put(Target(s), s.of.kind, "whole")
          /\ torn' = torn \ {<<Target(s), s.of.kind>>}
    BY <1>8 DEF RenameNew
  <2>2. Target(s)[1] \in verified /\ Target(s) \in Batches /\ s.of.kind \in Kinds
    BY <2>1, SessionsTyped DEF Ordered, Target
  <2>3. CASE Target(s) = b /\ s.of.kind = k
    <3>1. files'[b][k] = "whole" /\ <<b, k>> \notin torn'
      BY <2>1, <2>2, <2>3, PutReads
    <3>2. QED
      BY <2>2, <2>3, <3>1 DEF FileSteps, Written
  <2>4. CASE ~(Target(s) = b /\ s.of.kind = k)
    BY <1>2, <2>1, <2>2, <2>4
  <2>5. QED
    BY <2>3, <2>4
<1>9. ASSUME NEW S, S \subseteq sessions, \A s \in S : s.step = "renaming",
             UNCHANGED files, torn' = torn \cup {<<Target(s), s.of.kind>> : s \in S},
             \A r \in sessions : r.step = "renaming" => r \in S \/ r \in sessions'
      PROVE  FileSteps(b, k)
  <2>1. ASSUME NEW s \in S, Target(s) = b, s.of.kind = k PROVE FileSteps(b, k)
    <3>1. b[1] \in verified /\ <<b, k>> \in torn'
      BY <1>9, <2>1 DEF Ordered, Target
    <3>2. QED
      BY <1>9, <3>1 DEF FileSteps
  <2>2. ASSUME \A s \in S : ~(Target(s) = b /\ s.of.kind = k) PROVE FileSteps(b, k)
    <3>1. <<b, k>> \in torn' <=> <<b, k>> \in torn
      BY <1>9, <2>2
    <3>2. Renaming(b, k) => Renaming(b, k)'
      BY <1>9, <2>2 DEF Renaming, Target
    <3>3. QED
      BY <1>9, <3>1, <3>2 DEF FileSteps, Same
  <2>3. QED
    BY <2>1, <2>2
<1>10. CASE RenameFails
  <2>1. PICK s \in sessions : /\ s.step = "renaming" /\ sessions' = sessions \ {s}
                              /\ torn' = torn \cup {<<Target(s), s.of.kind>>}
    BY <1>10 DEF RenameFails
  <2>2. {<<Target(x), x.of.kind>> : x \in {s}} = {<<Target(s), s.of.kind>>}
    OBVIOUS
  <2>3. UNCHANGED files
    BY <1>10 DEF RenameFails
  <2> DEFINE S == {s}
  <2>4. S \subseteq sessions /\ (\A x \in S : x.step = "renaming") /\
        \A r \in sessions : r.step = "renaming" => r \in S \/ r \in sessions'
    BY <2>1
  <2>5. torn' = torn \cup {<<Target(x), x.of.kind>> : x \in S}
    BY <2>1, <2>2
  <2> HIDE DEF S
  <2>6. QED
    BY <1>9, <2>3, <2>4, <2>5
<1>11. CASE ReceiverDies
  <2> DEFINE S == {s \in sessions : s.step = "renaming"}
  <2>1. torn' = torn \cup {<<Target(s), s.of.kind>> : s \in S} /\ UNCHANGED files
    BY <1>11, Zenon DEF ReceiverDies
  <2>2. S \subseteq sessions /\ (\A s \in S : s.step = "renaming") /\
        \A r \in sessions : r.step = "renaming" => r \in S
    OBVIOUS
  <2> HIDE DEF S
  <2>3. QED
    BY <1>9, <2>1, <2>2
<1>12. CASE LateWrite
  <2>1. PICK s \in sessions :
          /\ s.step = "late" /\ sessions \ {s} \subseteq sessions'
          /\ \/ /\ Put(Target(s), s.of.kind, "part")
                /\ torn' = torn \cup {<<Target(s), s.of.kind>>}
             \/ /\ Put(Target(s), s.of.kind, "whole")
                /\ torn' = torn \ {<<Target(s), s.of.kind>>}
    BY <1>12 DEF LateWrite
  <2>2. Target(s)[1] \notin verified /\ Target(s) \in Batches /\ s.of.kind \in Kinds
    BY <2>1, SessionsTyped DEF Ordered, Target
  <2>3. CASE Target(s) = b /\ s.of.kind = k
    <3>1. \/ files'[b][k] = "part" /\ <<b, k>> \in torn'
          \/ Written(b, k)
      BY <2>1, <2>2, <2>3, PutReads DEF Written
    <3>2. QED
      BY <2>2, <2>3, <3>1 DEF FileSteps
  <2>4. CASE ~(Target(s) = b /\ s.of.kind = k)
    <3>1. PICK state : Put(Target(s), s.of.kind, state)
      BY <2>1
    <3>2. torn' \cup {<<Target(s), s.of.kind>>} = torn \cup {<<Target(s), s.of.kind>>}
      BY <2>1
    <3>3. QED
      BY <1>2, <2>1, <2>2, <2>4, <3>1, <3>2
  <2>5. QED
    BY <2>3, <2>4
<1>13. CASE DeleteNext
  <2>1. PICK f \in pruner.todo : \/ Put(f[1], f[2], "none") /\ torn' = torn \ {f}
                                 \/ UNCHANGED <<files, torn>>
    BY <1>13 DEF DeleteNext
  <2>2. f[1] \in Batches /\ f[2] \in Kinds /\ f = <<f[1], f[2]>>
    BY TodoParts
  <2>3. UNCHANGED sessions
    BY <1>13 DEF DeleteNext
  <2>4. CASE UNCHANGED <<files, torn>>
    BY <1>1, <2>3, <2>4
  <2>5. CASE Put(f[1], f[2], "none") /\ torn' = torn \ {f}
    <3>1. CASE f[1] = b /\ f[2] = k
      <4>1. files'[b][k] = "none"
        BY <2>2, <2>5, <3>1, PutReads
      <4>2. f = <<b, k>>
        BY <2>2, <3>1
      <4>3. QED
        BY <2>5, <4>1, <4>2 DEF FileSteps
    <3>2. CASE ~(f[1] = b /\ f[2] = k)
      <4>1. torn' \cup {<<f[1], f[2]>>} = torn \cup {<<f[1], f[2]>>}
        BY <2>2, <2>5
      <4>2. QED
        BY <1>2, <2>2, <2>3, <2>5, <3>2, <4>1
    <3>3. QED
      BY <3>1, <3>2
  <2>6. QED
    BY <2>1, <2>4, <2>5
<1>14. CASE ListReports \/ Confirm \/ ExporterStep \/ UNCHANGED vars
  <2>1. UNCHANGED <<files, torn, sessions>>
    BY <1>14 DEF ListReports, Confirm, ExporterStep, StartExport, LoadReport, WriteWorkbook, vars,
       seen
  <2>2. QED
    BY <1>1, <2>1
<1>15. QED
  BY <1>3, <1>4, <1>5, <1>6, <1>7, <1>8, <1>10, <1>11, <1>12, <1>13, <1>14
     DEF Next, ReceiverStep, PrunerStep

\* A file that has arrived stays, unless the pruner is just about to delete it
\* or its own tool sends it once more to an ordinary server.
LEMMA FileStays ==
  ASSUME Shape, [Next]_vars, NEW b \in Batches, NEW k \in Kinds,
         HasFile(b, k), <<b, k>> \notin pruner.todo,
         \A t \in Terminals : OpenFile(t) /\ t \notin verified => ~(b = Batch(t) /\ k = sender[t].pc)
  PROVE  HasFile(b, k)'
<1>1. FileSteps(b, k)
  BY HowFilesChange
<1>2. HasFile(b, k)' <=> files'[b][k] = "whole" \/ <<b, k>> \in torn' \/ Renaming(b, k)'
  BY DEF HasFile, Renaming
<1>3. files[b][k] = "whole" \/ <<b, k>> \in torn \/ Renaming(b, k)
  BY DEF HasFile, Renaming
<1>4. ASSUME NEW t \in Terminals, OpenFile(t) PROVE ~(b = Batch(t) /\ k = sender[t].pc)
  BY <1>4 DEF OpenFile
<1>5. QED
  BY <1>1, <1>2, <1>3, <1>4 DEF FileSteps, Same, Written

\* Files on an ordinary server stay, unless the pruner is about to delete them.
LEMMA PartStays ==
  ASSUME Shape, [Next]_vars, NEW b \in Batches, b[1] \notin verified, NEW k \in Kinds,
         files[b][k] # "none", <<b, k>> \notin pruner.todo
  PROVE  files'[b][k] # "none"
<1>1. FileSteps(b, k)
  BY HowFilesChange
<1>2. QED
  BY <1>1 DEF FileSteps, Same, Written

\* The report a tool is at is never on the pruner's list.
LEMMA CurrentIsSpared ==
  ASSUME Shape, NEW t \in Terminals
  PROVE  Spared(Batch(t))
<1> SUFFICES ASSUME NEW k \in Kinds, <<Batch(t), k>> \in pruner.todo PROVE FALSE
  BY DEF Spared
<1>1. sender[t].stamp < sender[t].stamp
  BY DEF Shape, Ordered, Batch
<1>2. QED
  BY <1>1, SenderParts DEF Shape

LEMMA GoodStays ==
  ASSUME Shape, [Next]_vars, NEW b \in Batches, Good(b), Spared(b)
  PROVE  Good(b)'
<1>1. verified' = verified
  BY SheetSteps DEF given, Shape
<1>2. CASE b[1] \in verified
  <2>1. \A t \in Terminals : t \notin verified => b # Batch(t)
    BY <1>2 DEF Batch
  <2>2. \A k \in Kinds : HasFile(b, k)'
    BY <1>2, <2>1, FileStays DEF Good, Spared
  <2>3. QED
    BY <1>1, <1>2, <2>2 DEF Good
<1>3. CASE b[1] \notin verified
  <2>1. files[b]["html"] # "none" /\ files[b]["json"] # "none"
    BY <1>3 DEF Good, Paired
  <2>2. files'[b]["html"] # "none" /\ files'[b]["json"] # "none"
    BY <1>3, <2>1, PartStays DEF Spared, Kinds
  <2>3. QED
    BY <1>1, <1>3, <2>2 DEF Good, Paired
<1>4. QED
  BY <1>2, <1>3

\* Among the pairs of a terminal there is a newest one.
LEMMA NewestPair ==
  ASSUME NEW t, NEW s \in Stamps, Paired(<<t, s>>)
  PROVE  \E m \in Stamps : m >= s /\ Paired(<<t, m>>) /\ Newest(<<t, m>>)
<1> DEFINE S == {n \in Stamps : Paired(<<t, n>>)}
<1>1. MaxStamp \in Nat /\ S \subseteq 0..MaxStamp /\ S # {}
  BY DirectoryAssumption DEF Stamps
<1>2. PICK m \in S : \A n \in S : n <= m
  <2> HIDE DEF S
  <2>1. QED
    BY <1>1, Greatest
<1>3. m >= s
  BY <1>2 DEF Stamps
<1>4. \A n \in Stamps : n > m => ~Paired(<<t, n>>)
  BY <1>2 DEF Stamps
<1>5. Newest(<<t, m>>)
  BY <1>4 DEF Newest
<1>6. QED
  BY <1>3, <1>5

\* A pair in the directory is good: the receiver shows whole files only.
LEMMA PairedIsGood ==
  ASSUME Shape, NEW b \in Batches, Paired(b)
  PROVE  Good(b)
<1>1. CASE b[1] \in verified
  <2>1. \A k \in Kinds : files[b][k] # "none"
    BY DEF Paired, Kinds
  <2>2. \A k \in Kinds : files[b][k] = "whole"
    BY <1>1, <2>1 DEF Shape, Progress, VerifiedFiles
  <2>3. QED
    BY <1>1, <2>2 DEF Good, HasFile
<1>2. CASE b[1] \notin verified
  BY <1>2 DEF Good
<1>3. QED
  BY <1>1, <1>2

\* A report that is safe stays safe.
LEMMA SafeStays ==
  ASSUME Shape, [Next]_vars, NEW b \in Batches, Safe(b)
  PROVE  Safe(b)'
<1>1. PICK s \in Stamps : s >= b[2] /\ Good(<<b[1], s>>) /\ Spared(<<b[1], s>>)
  BY DEF Safe
<1>2. <<b[1], s>> \in Batches
  BY BatchParts DEF Batches
<1>3. CASE pruner'.todo \subseteq pruner.todo
  <2>1. Spared(<<b[1], s>>)'
    BY <1>1, <1>3 DEF Spared
  <2>2. QED
    BY <1>1, <1>2, <2>1, GoodStays DEF Safe
<1>4. CASE pruner'.todo = Obsolete /\ ListReports
  <2>1. UNCHANGED <<files, sessions, torn, verified>>
    BY <1>4 DEF ListReports, seen, given
  <2>2. ASSUME NEW m \in Stamps, m >= b[2], Good(<<b[1], m>>), ~Paired(<<b[1], m>>) \/ Newest(<<b[1], m>>)
        PROVE  Safe(b)'
    <3>1. Good(<<b[1], m>>)'
      BY <2>1, <2>2 DEF Good, HasFile, Paired, Target
    <3>2. \A k \in Kinds : <<<<b[1], m>>, k>> \notin Obsolete
      BY <2>2 DEF Obsolete
    <3>3. Spared(<<b[1], m>>)'
      BY <1>4, <3>2 DEF Spared
    <3>4. QED
      BY <2>2, <3>1, <3>3 DEF Safe
  <2>3. CASE ~Paired(<<b[1], s>>) \/ Newest(<<b[1], s>>)
    BY <1>1, <2>2, <2>3
  <2>4. CASE Paired(<<b[1], s>>)
    <3>1. PICK m \in Stamps : m >= s /\ Paired(<<b[1], m>>) /\ Newest(<<b[1], m>>)
      BY <1>2, <2>4, NewestPair
    <3>2. m >= b[2]
      BY <1>1, <3>1, BatchParts DEF Stamps
    <3>3. Good(<<b[1], m>>)
      BY <3>1, PairedIsGood, BatchParts DEF Batches
    <3>4. QED
      BY <2>2, <3>1, <3>2, <3>3
  <2>5. QED
    BY <2>3, <2>4
<1>5. QED
  BY <1>3, <1>4, TodoComesFrom DEF Shape

-----------------------------------------------------------------------------
(* The progress of the tools.                                              *)

LEMMA NextVerifiedFiles == Shape /\ [Next]_vars => VerifiedFiles'
<1> SUFFICES ASSUME Shape, [Next]_vars, NEW b \in Batches, b[1] \in verified', NEW k \in Kinds
             PROVE  files'[b][k] \in {"none", "whole"}
  BY DEF VerifiedFiles
<1>1. b[1] \in verified
  BY SheetSteps DEF given, Shape
<1>2. files[b][k] \in {"none", "whole"}
  BY <1>1 DEF Shape, Progress, VerifiedFiles
<1>3. QED
  BY <1>1, <1>2, HowFilesChange DEF FileSteps, Same, Written

LEMMA NextEmptied == Shape /\ [Next]_vars => Emptied'
<1> SUFFICES ASSUME Shape, [Next]_vars, NEW f \in torn', f[1][1] \notin verified'
             PROVE  files'[f[1]][f[2]] = "part"
  BY DEF Emptied
<1>1. f[1] \in Batches /\ f[2] \in Kinds /\ f = <<f[1], f[2]>>
  <2>1. TypeOK'
    BY NextTyped DEF Shape
  <2>2. f \in Batches \X Kinds
    BY <2>1 DEF TypeOK
  <2>3. QED
    BY <2>2
<1>2. f[1][1] \notin verified
  BY SheetSteps DEF given, Shape
<1>3. f \in torn => files[f[1]][f[2]] = "part"
  BY <1>2 DEF Shape, Progress, Emptied
<1>4. FileSteps(f[1], f[2])
  BY <1>1, HowFilesChange
<1>5. QED
  BY <1>1, <1>2, <1>3, <1>4 DEF FileSteps, Same, Written

\* What 226 stands for, from either server: the file has arrived.
LEMMA AwaitedParts ==
  ASSUME NEW s, Awaited(s)
  PROVE  /\ sender[s.from].pc \in {"wait json", "wait html"}
         /\ s.stamp = sender[s.from].stamp /\ s.kind = FileAt(s.from)
<1>1. PICK t, k : t = s.from /\ k = FileAt(t)
  OBVIOUS
<1>2. s = [from |-> t, stamp |-> sender[t].stamp, kind |-> k, no |-> sender[t].attempt]
  BY <1>1, Zenon DEF Awaited, Session
<1>3. s.stamp = sender[t].stamp /\ s.kind = k
  BY <1>2
<1>4. QED
  BY <1>1, <1>3 DEF Awaited

LEMMA AnswerMeansStored ==
  ASSUME Shape, NEW t \in Terminals, Answered(t)
  PROVE  HasFile(Batch(t), FileAt(t)) /\ t \in verified
<1>1. PICK s \in sessions : s.step = "stored" /\ Awaited(s.of) /\ s.of.from = t
  BY DEF Answered
<1>2. s.of.stamp = sender[t].stamp /\ s.of.kind = FileAt(t)
  BY <1>1, AwaitedParts
<1>3. Target(s) = Batch(t)
  BY <1>1, <1>2 DEF Target, Batch
<1>4. QED
  BY <1>1, <1>2, <1>3 DEF Shape, Progress, Stored, Ordered

LEMMA SentIsThere ==
  ASSUME Shape, [Next]_vars, NEW t \in Terminals, FillFile(t) \/ Answered(t),
         NEW b \in Batches, b = Batch(t), NEW k \in Kinds, k = FileAt(t) \/ HasFile(b, k)
  PROVE  HasFile(b, k)'
<1>1. CASE HasFile(b, k)
  <2>1. <<b, k>> \notin pruner.todo
    BY CurrentIsSpared DEF Spared
  <2>2. ASSUME NEW u \in Terminals, OpenFile(u), b = Batch(u) PROVE FALSE
    <3>1. u = t
      BY <2>2 DEF Batch
    <3>2. QED
      BY <2>2, <3>1 DEF OpenFile, FillFile, Answered, Awaited, Kinds
  <2>3. QED
    BY <1>1, <2>1, <2>2, FileStays
<1>2. CASE ~HasFile(b, k)
  <2>1. FillFile(t) /\ k = FileAt(t)
    BY <1>2, AnswerMeansStored
  <2>2. Put(b, k, "whole")
    BY <1>2, <2>1 DEF FillFile, HasFile
  <2>3. files'[b][k] = "whole"
    BY <2>2, PutReads DEF Shape
  <2>4. QED
    BY <2>3 DEF HasFile
<1>3. QED
  BY <1>1, <1>2

\* How a tool goes on: with its first file, with the file it is at, or, when the
\* first one has been sent, with the second.
LEMMA ToolMoves ==
  ASSUME Shape, NEW t \in Terminals, ToolStep(t)
  PROVE  /\ sender'[t].pc \in Ways(t)
         /\ \/ sender'[t].pc = "rest"
            \/ Report(t) /\ FileAt(t)' = FirstFile(t) /\ UNCHANGED acknowledged
            \/ /\ sender[t].pc # "rest" /\ Batch(t)' = Batch(t) /\ UNCHANGED acknowledged
               /\ \/ FileAt(t)' \in {FileAt(t), FirstFile(t)}
                  \/ FillFile(t) \/ Answered(t)
<1> USE DEF Shape
<1>1. sender[t].pc \in Ways(t)
  BY DEF Progress, Tools
<1>2. FirstFile(t) \in Ways(t) /\ OtherFile(FirstFile(t)) \in Ways(t) /\ FileAt(t) \in Ways(t)
      /\ "rest" \in Ways(t)
  BY DEF FirstFile, OtherFile, FileAt, Ways
<1>3. CASE Report(t)
  <2>1. sender'[t].pc = FirstFile(t) /\ UNCHANGED acknowledged
    BY <1>3, ReportReads DEF Report, seen
  <2>2. FileAt(t)' = FirstFile(t)
    BY <2>1 DEF FileAt, FirstFile
  <2>3. QED
    BY <1>2, <1>3, <2>1, <2>2
<1>4. ASSUME NEW pc \in {"put html", "put json", "wait html", "wait json"},
             sender[t].pc \in Kinds, sender' = [sender EXCEPT ![t].pc = pc],
             pc \in Ways(t), UNCHANGED acknowledged,
             sender[t].pc = "json" <=> pc \in {"put json", "wait json"}
      PROVE  /\ sender'[t].pc \in Ways(t) /\ sender[t].pc # "rest" /\ Batch(t)' = Batch(t)
             /\ UNCHANGED acknowledged /\ FileAt(t)' = FileAt(t)
  <2>1. sender'[t].pc = pc /\ sender'[t].stamp = sender[t].stamp
    BY <1>4, GoReads
  <2>2. Batch(t)' = Batch(t)
    BY <2>1 DEF Batch
  <2>3. sender[t].pc = "json" \/ sender[t].pc = "html"
    BY <1>4 DEF Kinds
  <2>4. FileAt(t)' = FileAt(t)
    BY <1>4, <2>1, <2>3 DEF FileAt
  <2>5. QED
    BY <1>4, <2>1, <2>2, <2>3, <2>4
<1>5. CASE OpenFile(t)
  <2> DEFINE pc == IF sender[t].pc = "html" THEN "put html" ELSE "put json"
  <2>1. /\ pc \in {"put html", "put json", "wait html", "wait json"} /\ pc \in Ways(t)
        /\ sender[t].pc = "json" <=> pc \in {"put json", "wait json"}
    BY <1>5 DEF OpenFile, Kinds, Ways
  <2>2. sender[t].pc \in Kinds /\ sender' = [sender EXCEPT ![t].pc = pc] /\ UNCHANGED acknowledged
    BY <1>5, Zenon DEF OpenFile, Go
  <2> HIDE DEF pc
  <2>3. QED
    BY <1>4, <2>1, <2>2
<1>6. CASE OpenSession(t)
  <2> DEFINE pc == IF sender[t].pc = "json" THEN "wait json" ELSE "wait html"
  <2>1. /\ pc \in {"put html", "put json", "wait html", "wait json"} /\ pc \in Ways(t)
        /\ sender[t].pc = "json" <=> pc \in {"put json", "wait json"}
    BY <1>6 DEF OpenSession, Kinds, Ways
  <2>2. sender[t].pc \in Kinds /\ sender' = [sender EXCEPT ![t].pc = pc] /\ UNCHANGED acknowledged
    BY <1>6, Zenon DEF OpenSession, Go, seen
  <2> HIDE DEF pc
  <2>3. QED
    BY <1>4, <2>1, <2>2
<1>7. ASSUME NEW file \in {FileAt(t), FirstFile(t)}, sender[t].pc # "rest",
             NextAttempt(t, file), UNCHANGED acknowledged
      PROVE  /\ sender'[t].pc \in Ways(t)
             /\ \/ sender'[t].pc = "rest"
                \/ /\ Batch(t)' = Batch(t) /\ UNCHANGED acknowledged
                   /\ FileAt(t)' \in {FileAt(t), FirstFile(t)}
  <2>1. sender'[t].pc \in {file, "rest"} /\ sender'[t].stamp = sender[t].stamp
    BY <1>7, NextAttemptReads
  <2>2. sender'[t].pc = file => FileAt(t)' = file
    BY FilesTyped DEF FileAt, Kinds
  <2>3. Batch(t)' = Batch(t)
    BY <2>1 DEF Batch
  <2>4. file \in Ways(t)
    BY <1>2
  <2>5. QED
    BY <1>2, <1>7, <2>1, <2>2, <2>3, <2>4
<1>8. CASE PutFails(t)
  <2>1. (IF t \in Windows THEN "html" ELSE FileAt(t)) \in {FileAt(t), FirstFile(t)}
    BY DEF FirstFile
  <2>2. QED
    BY <1>7, <1>8, <2>1 DEF PutFails, seen
<1>9. CASE NoSession(t)
  <2>1. sender[t].pc = FileAt(t) /\ sender[t].pc # "rest"
    BY <1>9 DEF NoSession, Kinds, FileAt
  <2>2. NextAttempt(t, FileAt(t)) /\ UNCHANGED acknowledged
    BY <1>9, <2>1 DEF NoSession, seen
  <2>3. QED
    BY <1>7, <2>1, <2>2
<1>10. CASE TimeOut(t)
  <2>1. sender[t].pc # "rest" /\ NextAttempt(t, FileAt(t)) /\ UNCHANGED acknowledged
    BY <1>10 DEF TimeOut, seen
  <2>2. QED
    BY <1>7, <2>1
<1>11. CASE FillFile(t) \/ Answered(t)
  <2>1. FileSent(t) /\ sender[t].pc # "rest"
    BY <1>11 DEF FillFile, Answered, Awaited
  <2>2. sender'[t].stamp = sender[t].stamp
    BY <2>1, FileSentReads
  <2>3. Batch(t)' = Batch(t)
    BY <2>2 DEF Batch
  <2>4. \/ sender'[t].pc = OtherFile(FirstFile(t)) /\ UNCHANGED acknowledged
        \/ sender'[t].pc = "rest"
    BY <2>1, FileSentReads
  <2>5. QED
    BY <1>2, <1>11, <2>1, <2>3, <2>4
<1>12. QED
  BY <1>3, <1>4, <1>5, <1>6, <1>8, <1>9, <1>10, <1>11 DEF ToolStep, UploadStep

LEMMA NextTools == Shape /\ [Next]_vars => Tools'
<1> SUFFICES ASSUME Shape, [Next]_vars, NEW t \in Terminals
             PROVE  /\ sender'[t].pc \in Ways(t)'
                    /\ AtSecond(t)' => HasFile(Batch(t), FirstFile(t))'
                    /\ sender'[t].pc # "rest" => Batch(t)' \notin acknowledged'
  BY DEF Tools
<1> USE DEF Shape
<1>1. Ways(t)' = Ways(t)
  BY SheetSteps DEF given, Ways
<1>2. /\ sender[t].pc \in Ways(t)
      /\ AtSecond(t) => HasFile(Batch(t), FirstFile(t))
      /\ sender[t].pc # "rest" => Batch(t) \notin acknowledged
  BY DEF Progress, Tools
<1>3. ASSUME AtSecond(t), Batch(t)' = Batch(t) PROVE HasFile(Batch(t), FirstFile(t))'
  <2>1. Batch(t) \in Batches
    BY <1>3, BatchTyped DEF AtSecond
  <2>2. PICK b \in Batches, k \in Kinds : b = Batch(t) /\ k = FirstFile(t)
    BY <2>1, FilesTyped
  <2>3. HasFile(b, k) /\ <<b, k>> \notin pruner.todo
    BY <1>2, <1>3, <2>2, CurrentIsSpared DEF Spared
  <2>4. ASSUME NEW u \in Terminals, OpenFile(u), b = Batch(u), k = sender[u].pc PROVE FALSE
    <3>1. u = t
      BY <2>2, <2>4 DEF Batch
    <3>2. FileAt(t) = sender[t].pc
      BY <2>4, <3>1 DEF OpenFile, Kinds, FileAt
    <3>3. QED
      BY <1>3, <2>2, <2>4, <3>1, <3>2 DEF AtSecond
  <2>5. HasFile(b, k)'
    BY <2>3, <2>4, FileStays
  <2>6. Batch(t)' = b /\ FirstFile(t)' = k
    BY <1>3, <2>2 DEF FirstFile
  <2>7. QED
    BY <2>5, <2>6 DEF HasFile
<1>4. CASE sender'[t] = sender[t]
  <2>1. Batch(t)' = Batch(t) /\ FileAt(t)' = FileAt(t)
    BY <1>4 DEF Batch, FileAt
  <2>2. AtSecond(t)' => AtSecond(t)
    BY <1>4, <2>1 DEF AtSecond, FirstFile
  <2>3. ASSUME sender[t].pc # "rest", Batch(t) \in acknowledged' PROVE FALSE
    <3>1. PICK u \in Terminals : /\ FillFile(u) \/ Answered(u)
                                 /\ FileAt(u) # FirstFile(u) /\ Batch(t) = Batch(u)
      BY <1>2, <2>3, AcknowledgedComesFrom
    <3>2. u = t
      BY <3>1 DEF Batch
    <3>3. sender'[t].pc = "rest"
      BY <3>1, <3>2, FileSentReads DEF FillFile, Answered
    <3>4. QED
      BY <1>4, <2>3, <3>3
  <2>4. QED
    BY <1>1, <1>2, <1>3, <1>4, <2>1, <2>2, <2>3
<1>5. ASSUME NEW u \in Terminals, ToolStep(u), u # t PROVE sender'[t] = sender[t]
  BY <1>5, ToolReads
<1>6. CASE ToolStep(t)
  <2>1. sender'[t].pc \in Ways(t)
    BY <1>6, ToolMoves
  <2>2. CASE sender'[t].pc = "rest"
    BY <1>1, <2>1, <2>2 DEF AtSecond
  <2>3. CASE Report(t) /\ FileAt(t)' = FirstFile(t) /\ UNCHANGED acknowledged
    <3>1. ~AtSecond(t)'
      BY <2>3 DEF AtSecond, FirstFile
    <3>2. Batch(t)' \notin acknowledged
      <4>1. sender'[t].stamp = sender[t].stamp + 1 /\ sender[t].stamp \in Int
        BY <2>3, ReportReads, SenderParts
      <4>2. Batch(t)'[1] = t /\ Batch(t)'[2] = sender[t].stamp + 1
        BY <4>1 DEF Batch
      <4>3. Batch(t)' \in acknowledged => Batch(t)'[2] <= sender[t].stamp
        BY <4>2 DEF Ordered
      <4>4. QED
        BY <4>1, <4>2, <4>3
    <3>3. QED
      BY <1>1, <2>1, <2>3, <3>1, <3>2
  <2>4. CASE sender[t].pc # "rest" /\ Batch(t)' = Batch(t) /\ UNCHANGED acknowledged
    <3>1. Batch(t)' \notin acknowledged'
      BY <1>2, <2>4
    <3>2. CASE FileAt(t)' \in {FileAt(t), FirstFile(t)}
      <4>1. AtSecond(t)' => AtSecond(t)
        BY <2>4, <3>2 DEF AtSecond, FirstFile
      <4>2. QED
        BY <1>1, <1>3, <2>1, <2>4, <3>1, <4>1
    <3>3. CASE FillFile(t) \/ Answered(t)
      <4>1. CASE FileAt(t) = FirstFile(t)
        <5>1. PICK b \in Batches, k \in Kinds : b = Batch(t) /\ k = FileAt(t)
          BY <2>4, BatchTyped, FilesTyped
        <5>2. HasFile(b, k)'
          BY <3>3, <5>1, SentIsThere
        <5>3. Batch(t)' = b /\ FirstFile(t)' = k
          BY <2>4, <4>1, <5>1 DEF FirstFile
        <5>4. HasFile(Batch(t), FirstFile(t))'
          BY <5>2, <5>3 DEF HasFile
        <5>5. QED
          BY <1>1, <2>1, <3>1, <5>4
      <4>2. CASE FileAt(t) # FirstFile(t)
        BY <1>3, <1>1, <2>1, <2>4, <3>1, <4>2 DEF AtSecond
      <4>3. QED
        BY <4>1, <4>2
    <3>4. QED
      BY <1>6, <3>2, <3>3, <2>2, <2>3, ToolMoves
  <2>5. QED
    BY <1>6, <2>2, <2>3, <2>4, ToolMoves
<1>7. QED
  BY <1>4, <1>5, <1>6, OthersObserve DEF Next, OthersStep, vars

\* Only a step of the tool itself ends its waiting for an answer.
LEMMA AwaitedStays ==
  ASSUME NEW s, Awaited(s), sender'[s.from] = sender[s.from]
  PROVE  Awaited(s)'
  BY DEF Awaited, Session, FileAt

LEMMA NextStored == Shape /\ [Next]_vars => Stored'
<1> SUFFICES ASSUME Shape, [Next]_vars, NEW s \in sessions', s.step = "stored"
             PROVE  Awaited(s.of)' /\ HasFile(Target(s), s.of.kind)'
  BY DEF Stored, Target
<1> USE DEF Shape
<1>1. ASSUME s \in sessions
      PROVE  /\ Awaited(s.of) /\ s.of.from \in Terminals /\ s.of.from \in verified
             /\ HasFile(Target(s), s.of.kind)'
  <2>1. Awaited(s.of) /\ HasFile(Target(s), s.of.kind) /\ s.of.from \in verified
    BY <1>1 DEF Progress, Stored, Ordered
  <2>2. s.of.from \in Terminals
    BY <1>1, SessionsTyped DEF SessionType
  <2>3. Target(s) = Batch(s.of.from)
    BY <2>1, AwaitedParts DEF Target, Batch
  <2>4. <<Target(s), s.of.kind>> \notin pruner.todo
    BY <1>1, <2>2, <2>3, CurrentIsSpared, SessionsTyped DEF Spared
  <2>5. Target(s) \in Batches /\ Target(s)[1] \in verified /\ s.of.kind \in Kinds
    BY <1>1, <2>1, SessionsTyped DEF Target
  <2>6. \A t \in Terminals : t \notin verified => Target(s) # Batch(t)
    BY <2>5 DEF Batch
  <2>7. QED
    BY <2>1, <2>2, <2>4, <2>5, <2>6, FileStays
<1>2. CASE UNCHANGED <<sessions, sender>>
  BY <1>1, <1>2, AwaitedStays
<1>3. CASE ReceiverStep
  <2>1. UNCHANGED sender
    BY <1>3, OthersObserve DEF OthersStep
  <2>2. CASE s \in sessions
    BY <1>1, <2>1, <2>2, AwaitedStays
  <2>3. CASE s \notin sessions
    <3>1. ~Reject /\ ~RenameFails /\ ~ReceiverDies /\ ~LateWrite
      BY <2>3 DEF Reject, RenameFails, ReceiverDies, LateWrite
    <3>2. ASSUME RemoveOld PROVE FALSE
      <4>1. PICK r \in sessions :
              sessions' = (sessions \ {r}) \cup {[r EXCEPT !.step = "renaming"]}
        BY <3>2 DEF RemoveOld
      <4>2. [r EXCEPT !.step = "renaming"].step = "renaming"
        BY SessionsTyped
      <4>3. QED
        BY <2>3, <4>1, <4>2
    <3>3. CASE RenameNew
      <4>1. PICK r \in sessions :
              /\ sessions' = (sessions \ {r}) \cup
                   (IF Awaited(r.of) THEN {[r EXCEPT !.step = "stored"]} ELSE {})
              /\ Put(Target(r), r.of.kind, "whole")
        BY <3>3 DEF RenameNew
      <4>2. Awaited(r.of) /\ s = [r EXCEPT !.step = "stored"]
        BY <2>3, <4>1
      <4>3. s.of = r.of
        BY <4>2, SessionsTyped
      <4>4. Awaited(s.of)'
        BY <2>1, <4>2, <4>3, AwaitedStays
      <4>5. files'[Target(r)][r.of.kind] = "whole" /\ Target(s) = Target(r)
        BY <4>1, <4>3, SessionsTyped, PutReads DEF Target
      <4>6. QED
        BY <4>3, <4>4, <4>5 DEF HasFile
    <3>4. QED
      BY <1>3, <3>1, <3>2, <3>3 DEF ReceiverStep
  <2>4. QED
    BY <2>2, <2>3
<1>4. ASSUME NEW t \in Terminals, ToolStep(t)
      PROVE  Awaited(s.of)' /\ HasFile(Target(s), s.of.kind)'
  <2>1. s \in sessions
    <3>1. CASE sessions' \subseteq sessions
      BY <3>1
    <3>2. ASSUME NEW of, NEW step \in {"receiving", "late"},
                 sessions' = sessions \cup {[of |-> of, step |-> step]}
          PROVE  s \in sessions
      <4>1. [of |-> of, step |-> step].step # "stored"
        OBVIOUS
      <4>2. QED
        BY <3>2, <4>1
    <3>3. QED
      BY <1>4, <3>1, <3>2 DEF ToolStep, UploadStep, Report, OpenFile, FillFile, PutFails,
         OpenSession, NoSession, TimeOut, Answered
  <2>2. s.of.from # t
    <3> SUFFICES ASSUME s.of.from = t PROVE FALSE
      OBVIOUS
    <3>1. Awaited(s.of) /\ sender[t].pc \in {"wait json", "wait html"} /\ t \in verified
      BY <1>1, <2>1 DEF Awaited
    <3>2. TimeOut(t) \/ Answered(t)
      BY <1>4, <3>1 DEF ToolStep, UploadStep, Report, OpenFile, FillFile, PutFails, OpenSession,
         NoSession, Kinds
    <3>3. ~TimeOut(t)
      BY <3>1 DEF TimeOut
    <3>4. ASSUME Answered(t) PROVE FALSE
      <4>1. PICK r \in sessions : /\ r.step = "stored" /\ Awaited(r.of) /\ r.of.from = t
                                  /\ sessions' = sessions \ {r}
        BY <3>4 DEF Answered
      <4>2. r.of = s.of
        BY <3>1, <4>1 DEF Awaited
      <4>3. r = s
        BY <2>1, <4>1, <4>2, SessionsTyped
      <4>4. QED
        BY <4>1, <4>3
    <3>5. QED
      BY <3>2, <3>3, <3>4
  <2>3. sender'[s.of.from] = sender[s.of.from]
    BY <1>1, <1>4, <2>1, <2>2, ToolReads
  <2>4. QED
    BY <1>1, <2>1, <2>3, AwaitedStays
<1>5. CASE PrunerStep \/ ExporterStep
  BY <1>2, <1>5, OthersObserve, PrunerTyped, ExporterTyped DEF OthersStep
<1>6. QED
  BY <1>2, <1>3, <1>4, <1>5 DEF Next, vars

LEMMA NextShape == Shape /\ [Next]_vars => Shape'
  BY NextTyped, NextOrdered, NextTools, NextVerifiedFiles, NextStored, NextEmptied
     DEF Shape, Progress

-----------------------------------------------------------------------------
(* Acknowledged reports.                                                   *)

\* What a tool calls uploaded is there.
LEMMA AcknowledgedIsThere ==
  ASSUME Shape, [Next]_vars, NEW b \in acknowledged', b \notin acknowledged
  PROVE  /\ b \in Batches /\ Good(b)' /\ Spared(b)'
         /\ \A k \in Kinds : HasFile(b, k)'
<1> USE DEF Shape
<1>1. PICK t \in Terminals : /\ FillFile(t) \/ Answered(t)
                             /\ FileAt(t) # FirstFile(t) /\ b = Batch(t)
  BY AcknowledgedComesFrom
<1>2. sender[t].pc # "rest" /\ b \in Batches
  BY <1>1, BatchTyped DEF FillFile, Answered, Awaited
<1>3. Spared(b)'
  <2>1. UNCHANGED pruner
    BY <1>1 DEF FillFile, Answered
  <2>2. QED
    BY <1>1, <2>1, CurrentIsSpared DEF Spared
<1>4. ASSUME NEW k \in Kinds PROVE HasFile(b, k)'
  <2>1. k = FileAt(t) \/ k = FirstFile(t)
    BY <1>1, FilesTyped DEF Kinds
  <2>2. HasFile(b, FirstFile(t))
    BY <1>1, <1>2 DEF Progress, Tools, AtSecond
  <2>3. QED
    BY <1>1, <1>2, <2>1, <2>2, SentIsThere
<1>5. Good(b)'
  <2>1. CASE b[1] \in verified'
    BY <1>4, <2>1 DEF Good
  <2>2. CASE b[1] \notin verified'
    <3>1. Emptied' /\ Ordered'
      BY NextEmptied, NextOrdered
    <3>2. ASSUME NEW k \in Kinds PROVE files'[b][k] # "none"
      <4>1. files'[b][k] = "whole" \/ <<b, k>> \in torn' \/
            \E r \in sessions' : r.step = "renaming" /\ <<r.of.from, r.of.stamp>> = b
        BY <1>4 DEF HasFile, Target
      <4>2. <<b, k>> \in torn' => files'[b][k] = "part"
        BY <2>2, <3>1 DEF Emptied
      <4>3. \A r \in sessions' : r.step = "renaming" => r.of.from \in verified'
        BY <3>1 DEF Ordered
      <4>4. QED
        BY <2>2, <4>1, <4>2, <4>3
    <3>3. QED
      BY <2>2, <3>2 DEF Good, Paired, Kinds
  <2>3. QED
    BY <2>1, <2>2
<1>6. QED
  BY <1>2, <1>3, <1>4, <1>5

LEMMA NextNothingHalf == Shape /\ NothingHalf /\ [Next]_vars => NothingHalf'
<1> SUFFICES ASSUME Shape, NothingHalf, [Next]_vars, NEW b \in acknowledged',
                    b[1] \notin verified', NEW k \in Kinds
             PROVE  files'[b][k] = "none" \/ HasFile(b, k)'
  BY DEF NothingHalf
<1>1. CASE b \notin acknowledged
  BY <1>1, AcknowledgedIsThere
<1>2. CASE b \in acknowledged
  <2>1. b \in Batches /\ b[1] \notin verified
    BY <1>2, SheetSteps DEF given, Shape, TypeOK
  <2>2. files[b][k] = "none" \/ files[b][k] = "whole" \/ <<b, k>> \in torn \/ Renaming(b, k)
    BY <1>2, <2>1 DEF NothingHalf, HasFile, Renaming
  <2>3. ASSUME NEW t \in Terminals, OpenFile(t) PROVE b # Batch(t)
    BY <1>2, <2>3, PutsAreOrdinary DEF Shape, Progress, Tools
  <2>4. files'[b][k] = "none" \/ files'[b][k] = "whole" \/ <<b, k>> \in torn' \/ Renaming(b, k)'
    BY <2>1, <2>2, <2>3, HowFilesChange DEF FileSteps, Same, Written
  <2>5. QED
    BY <2>4 DEF HasFile, Renaming
<1>3. QED
  BY <1>1, <1>2

LEMMA NextSafe == Shape /\ AllSafe /\ [Next]_vars => AllSafe'
<1> SUFFICES ASSUME Shape, AllSafe, [Next]_vars PROVE AllSafe'
  OBVIOUS
<1> USE DEF Shape
<1>n. NothingHalf'
  BY NextNothingHalf DEF AllSafe
<1>1. ASSUME NEW b \in acknowledged' PROVE Safe(b)'
  <2>1. CASE b \in acknowledged
    BY <2>1, SafeStays DEF AllSafe, TypeOK
  <2>2. CASE b \notin acknowledged
    <3>1. b \in Batches /\ Good(b)' /\ Spared(b)'
      BY <2>2, AcknowledgedIsThere
    <3>2. b = <<b[1], b[2]>> /\ b[2] \in Stamps /\ b[2] >= b[2]
      BY <3>1, BatchParts
    <3>3. Good(<<b[1], b[2]>>)' /\ Spared(<<b[1], b[2]>>)'
      BY <3>1, <3>2, Zenon
    <3>4. QED
      BY <3>2, <3>3 DEF Safe
  <2>3. QED
    BY <2>1, <2>2
<1>2. ASSUME NEW f \in pruner'.todo PROVE Safe(f[1])'
  <2>1. CASE f \in pruner.todo
    BY <2>1, TodoParts, SafeStays DEF AllSafe
  <2>2. CASE f \in Obsolete
    <3>1. f[1] \in Batches /\ Paired(f[1])
      BY <2>2, ObsoleteIsOlder
    <3>2. PICK s \in Stamps : s > f[1][2] /\ Paired(<<f[1][1], s>>)
      BY <2>2, ObsoleteIsOlder
    <3>3. PICK m \in Stamps : m >= s /\ Paired(<<f[1][1], m>>) /\ Newest(<<f[1][1], m>>)
      BY <3>2, NewestPair
    <3>4. <<f[1][1], m>> \in Batches /\ m >= f[1][2]
      BY <3>1, <3>2, <3>3, BatchParts DEF Batches, Stamps
    <3>5. Good(<<f[1][1], m>>)
      BY <3>3, <3>4, PairedIsGood
    <3>6. CASE pruner'.todo \subseteq pruner.todo
      BY <2>1, <3>6
    <3>7. CASE pruner'.todo = Obsolete /\ ListReports
      <4>1. UNCHANGED <<files, sessions, torn, verified>>
        BY <3>7 DEF ListReports, seen, given
      <4>2. Good(<<f[1][1], m>>)'
        BY <3>5, <4>1 DEF Good, HasFile, Paired, Target
      <4>3. Spared(<<f[1][1], m>>)'
        BY <3>3, <3>7 DEF Spared, Obsolete
      <4>4. QED
        BY <3>4, <4>2, <4>3 DEF Safe
    <3>8. QED
      BY <3>6, <3>7, TodoComesFrom
  <2>3. QED
    BY <2>1, <2>2, TodoComesFrom
<1>3. QED
  BY <1>1, <1>2, <1>n DEF AllSafe

LEMMA SafeIsKept == Shape /\ AllSafe => AcknowledgedReportKept
<1> SUFFICES ASSUME Shape, AllSafe, NEW b \in acknowledged PROVE Kept(b)
  BY DEF AcknowledgedReportKept
<1>1. PICK s \in Stamps : s >= b[2] /\ Good(<<b[1], s>>)
  BY DEF AllSafe, Safe
<1> DEFINE newer == <<b[1], s>>
<1>2. CASE b[1] \in verified
  BY <1>1, <1>2 DEF Kept, Good
<1>3. CASE b[1] \notin verified
  <2>1. Paired(newer) /\ newer[1] = b[1]
    BY <1>1, <1>3 DEF Good
  <2>2. newer \in acknowledged => \A k \in Kinds : HasFile(newer, k)
    BY <1>3, <2>1 DEF AllSafe, NothingHalf, Paired, Kinds
  <2>3. newer \notin acknowledged => TakenForComplete(newer)
    BY <1>3, <2>1 DEF TakenForComplete
  <2>4. QED
    BY <1>1, <2>2, <2>3 DEF Kept
<1>4. QED
  BY <1>2, <1>3

(***************************************************************************)
(* What a tool has called uploaded stays whole until a newer report is,    *)
(* for any number of terminals, reports, attempts and faults: the pruner,  *)
(* which works from a list that gets old, never deletes it before, and a   *)
(* late transfer of an attempt given up never leaves half of it unnoticed. *)
(* The exceptions are named in Kept: files the receiver was just replacing *)
(* or was cut off in replacing, files of an ordinary server emptied by a   *)
(* transfer given up, and a newer pair on an ordinary server whose upload  *)
(* stopped half way and which the pruner takes for complete.               *)
(***************************************************************************)
THEOREM AcknowledgedAlwaysKept == Spec => []AcknowledgedReportKept
<1>1. Init => Shape /\ AllSafe
  BY InitTyped, InitOrdered, InitProgress DEF Shape
<1>2. (Shape /\ AllSafe) /\ [Next]_vars => (Shape /\ AllSafe)'
  BY NextShape, NextSafe
<1>3. QED
  BY <1>1, <1>2, SafeIsKept, PTL DEF Spec
====
