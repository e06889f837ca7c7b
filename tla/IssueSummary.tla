---------------------------- MODULE IssueSummary ----------------------------
(***************************************************************************)
(* What the exporter (src/src/report_issue_exporter.cpp) makes of the      *)
(* reports it could read and of the table of persons: the newest report of *)
(* each terminal, the person a terminal belongs to, and the level of risk. *)
(* Texts are values that are equal or not.                                 *)
(***************************************************************************)
EXTENDS Integers, Sequences, FiniteSets

(* A report has a platform, mac, ip, stamp and source (its file), the      *)
(* classes of its findings (issues) and whether something needs a review.  *)
NoAddress == ""
Identity(r) ==
    <<r.platform, IF r.mac = NoAddress THEN r.ip ELSE r.mac>>
Group(reports, r) == {q \in reports : Identity(q) = Identity(r)}

\* Two newest reports of a terminal are a conflict: the terminal is left out.
Conflict(reports, r) ==
    \E p, q \in Group(reports, r) :
        /\ p # q /\ p.stamp = q.stamp
        /\ \A o \in Group(reports, r) : o.stamp <= p.stamp
\* (A variant that takes the oldest report.)
OldestReports(reports) ==
    {r \in reports : \A q \in Group(reports, r) \ {r} : q.stamp > r.stamp}
LatestReports(reports) ==
    {r \in reports : \A q \in Group(reports, r) \ {r} : q.stamp < r.stamp}

\* (A variant that looks for reviews before it looks for medium findings.)
RiskLevelReviewFirst(r) ==
    CASE "high" \in r.issues -> "high"
      [] "high" \notin r.issues /\ r.review -> "review"
      [] OTHER -> IF r.issues = {} THEN "normal" ELSE "medium"
\* RiskLevel looks for high, medium, review, low in this order; RiskRank, by
\* which persons are judged, puts low above review.
RiskLevel(r) ==
    CASE "high" \in r.issues -> "high"
      [] "high" \notin r.issues /\ "medium" \in r.issues -> "medium"
      [] r.issues \cap {"high", "medium"} = {} /\ r.review -> "review"
      [] r.issues = {"low"} /\ ~r.review -> "low"
      [] OTHER -> "normal"
RiskRank(risk) ==
    CASE risk = "high" -> 4 [] risk = "medium" -> 3 [] risk = "low" -> 2
      [] risk = "review" -> 1 [] OTHER -> 0

-----------------------------------------------------------------------------
(* The table of persons: a sequence of rows with owner (and organization), *)
(* ip and mac.                                                             *)

\* AppendAssignments takes the rows with an owner and an address.
UsableRows(table) == {i \in DOMAIN table : table[i].ip # NoAddress \/ table[i].mac # NoAddress}

Accepts(a, r, mode) ==
    LET ip == r.ip # NoAddress /\ a.ip = r.ip
        mac == r.mac # NoAddress /\ a.mac = r.mac
    IN CASE mode = "both" -> ip /\ mac [] mode = "mac" -> mac [] mode = "ip" -> ip

Matches(table, r, mode) ==
    {i \in UsableRows(table) : Accepts(table[i], r, mode)}
UniqueAssignment(table, r, mode) == Cardinality(Matches(table, r, mode)) = 1

\* (A variant that believes the IP address first.)
ModesIpFirst == <<"both", "ip", "mac">>
Modes == <<"both", "mac", "ip">>
Nobody == [owner |-> "unmatched", ip |-> NoAddress, mac |-> NoAddress]
\* The first mode that accepts one row alone decides.
Assignment(table, r) ==
    IF \E m \in DOMAIN Modes : UniqueAssignment(table, r, Modes[m])
    THEN LET m == CHOOSE m \in DOMAIN Modes :
                     /\ UniqueAssignment(table, r, Modes[m])
                     /\ \A n \in 1..m - 1 : ~UniqueAssignment(table, r, Modes[n])
         IN table[CHOOSE i \in Matches(table, r, Modes[m]) : TRUE]
    ELSE Nobody

\* A terminal without an owner is "to be reviewed", whatever was found on it.
ApplyAssignments(table, reports) ==
    {[report |-> r, owner |-> Assignment(table, r).owner,
      risk |-> IF Assignment(table, r) = Nobody THEN "review"
               ELSE RiskLevel(r)] : r \in reports}

TerminalSheet(table, reports) ==
    ApplyAssignments(table, LatestReports(reports))

\* One line for each person, and for each terminal that nobody owns.
PersonKey(row) == IF row.owner = Nobody.owner
                  THEN <<row.owner, row.report.ip, row.report.mac>>
                  ELSE <<row.owner>>
PersonSheet(rows) ==
    {LET own == {row \in rows : PersonKey(row) = key} IN
     [key |-> key, reports |-> {row.report : row \in own},
      risk |-> LET worst == CHOOSE w \in own : \A row \in own :
                              RiskRank(row.risk) <= RiskRank(w.risk)
               IN worst.risk] : key \in {PersonKey(row) : row \in rows}}

\* Terminals counted by platform and by level of risk.
Dimensions == {"platform", "risk"}
ValueOf(row, dimension) == IF dimension = "risk" THEN row.risk ELSE row.report.platform
StatisticsSheet(rows) ==
    UNION {{LET group == {row \in rows : ValueOf(row, d) = value} IN
            [dimension |-> d, value |-> value, total |-> Cardinality(group),
             problem |-> Cardinality({row \in group : row.report.issues # {} \/
                                                       row.report.review}),
             unmatched |-> Cardinality({row \in group : row.owner = Nobody.owner})] :
            value \in {ValueOf(row, d) : row \in rows}} : d \in Dimensions}
=============================================================================
