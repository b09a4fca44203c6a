-------------------------- MODULE StatsLoadProofs --------------------------
(***************************************************************************)
(* Proofs about StatsLoad, for any pages, any number of runs and of their  *)
(* interleavings.                                                          *)
(*                                                                         *)
(* What the tables hold follows from what the open transactions hold.  The *)
(* first inductive invariant, IInv, says that nothing is in a transaction, *)
(* or in the savepoint of its current page, that the run does not report   *)
(* as loaded; the second, KInv, adds the converse, that nothing reported   *)
(* as loaded is missing; the third, OInv, adds what the entries of a page  *)
(* say about each other and about its rows, and what a row holds while     *)
(* runs do not overlap; the fourth, CInv, follows each column of a row,    *)
(* which an upsert may leave as another run wrote it.                      *)
(***************************************************************************)
EXTENDS StatsLoad, WellFoundedInduction, SequenceTheorems, TLAPS

Reasons ==
  {"invalid_season_year", "missing_season", "missing_player", "missing_player_season",
   "missing_team_abbreviation", "missing_team_season", "missing_player_team_season",
   "missing_routing_fields", "missing_player_id", "invalid_aggregate_routing",
   "unsupported_stat_scope", "invalid_multi_team_marker_routing",
   "unsupported_source_table", "invalid_values", "missing_source_table",
   "missing_stat_scope", "missing_source_team_code", "invalid_source_team_code",
   "invalid_team_stint_source_team_code", "duplicate_stats_grain", "repository_error",
   "loaded", NONE}

Entries == [status : {"prepared", "failed", "skipped", "loaded"}, reason : Reasons]
PageEntries == [status : {"loaded", "failed", "skipped"}, entries : Seq(Entries)]
Pages == [ok : BOOLEAN, rows : Seq(Rows), path : Paths]
Data == {row.val : row \in Rows} \union Paths \union {NONE}
Cells == [is : Data, run : Runs \union {NONE}, page : Nat]
StatsRows == [col : [Columns -> Cells], run : Runs \union {NONE}, page : Nat]

(* The shape of the state.                                                  *)
Shape ==
  /\ command \in [Runs -> Commands]
  /\ pages \in [Runs -> Seq(Pages)]
  /\ overlap \in BOOLEAN
  /\ core \subseteq TeamPages
  /\ table \in [Keys -> StatsRows]
  /\ work \in [Runs -> [Keys -> StatsRows]]
  /\ mark \in [Runs -> [Keys -> StatsRows]]
  /\ pc \in [Runs -> {"idle", "page", "prepare", "write", "flush"} \union Ended]
  /\ cur \in [Runs -> Nat]
  /\ ent \in [Runs -> Seq(Entries)]
  /\ seen \in [Runs -> StatsRows]
  /\ results \in [Runs -> Seq(PageEntries)]
  /\ commits \in Seq(Runs)
  /\ earlier \in [Runs -> SUBSET Runs]
  /\ DOMAIN scope = Runs

InPage(r) == pc[r] \in {"prepare", "write", "flush"}
Open(r) == pc[r] = "page" \/ InPage(r)

(* Where a run stands on its list of pages, and how far its report goes.    *)
Position(r) ==
  /\ cur[r] \in 1..Len(pages[r]) + 1
  /\ InPage(r) => cur[r] <= Len(pages[r])
  /\ Len(results[r]) = cur[r] - 1
  /\ InPage(r) => Len(ent[r]) <= Len(pages[r][cur[r]].rows)
  /\ pc[r] = "prepare" => \A n \in DOMAIN ent[r] : ent[r][n].status # "loaded"
  /\ pc[r] = "flush" => Pending(r) # {}
  /\ \A i \in DOMAIN results[r] :
       Len(results[r][i].entries) <= Len(pages[r][i].rows)

(* Row n of page i of run r is reported as loaded, at key k.                *)
LoadedAt(r, i, n, k) ==
  LoadedEntry(r, i, n) /\ KeyOf(command[r], pages[r][i].rows[n]) = k

LoadedNow(r, n, k) == ent[r][n].status = "loaded" /\ Key(r, n) = k

Past(r, row, k) ==
  /\ row.run = r
  /\ row.page \in DOMAIN results[r]
  /\ \E n \in DOMAIN results[r][row.page].entries : LoadedAt(r, row.page, n, k)

Present(r, row, k) ==
  /\ pc[r] \in {"write", "flush"}
  /\ row.run = r
  /\ row.page = cur[r]
  /\ \E n \in DOMAIN ent[r] : LoadedNow(r, n, k)

(* Nothing is in a transaction, or in a page's savepoint, that the run does *)
(* not report.                                                              *)
WorkIsReported(r) ==
  \A k \in Keys :
    work[r][k] # Clean => Past(r, work[r][k], k) \/ Present(r, work[r][k], k)

MarkIsReported(r) ==
  InPage(r) => \A k \in Keys : mark[r][k] # Clean => Past(r, mark[r][k], k)

NothingOpen(r) == pc[r] \in Ended \union {"idle"} => work[r] = Untouched

RunInv(r) == Position(r) /\ WorkIsReported(r) /\ MarkIsReported(r) /\ NothingOpen(r)

(* A run commits once.                                                      *)
CommitsOnce ==
  /\ \A r \in Runs : pc[r] = "done" <=> \E n \in DOMAIN commits : commits[n] = r
  /\ \A m, n \in DOMAIN commits : commits[m] = commits[n] => m = n

(* A row of the tables was upserted last by a run that committed, from a    *)
(* page whose report says so.                                               *)
Reported(k) ==
  Written(table[k]) =>
    /\ pc[table[k].run] = "done"
    /\ \E n \in DOMAIN results[table[k].run][table[k].page].entries :
         LoadedAt(table[k].run, table[k].page, n, k)

UpsertsAreReported == \A k \in Keys : Reported(k)

(* The inductive invariant of the report.                                   *)
IInv ==
  /\ Shape
  /\ \A r \in Runs : RunInv(r)
  /\ CommitsOnce
  /\ UpsertsAreReported

-----------------------------------------------------------------------------
(* Operators.                                                               *)

(* A set of naturals that is not empty has a least element.                 *)
LEMMA LeastIsLeast ==
  ASSUME NEW S \in SUBSET Nat, S # {}
  PROVE  Least(S) \in S
<1> DEFINE Less == OpToRel(<, Nat)
<1>1. \A i, j \in Nat : j < i => <<j, i>> \in Less
  BY DEF OpToRel
<1>2. IsWellFoundedOn(Less, Nat)
  BY NatLessThanWellFounded
<1> HIDE DEF Less
<1>3. PICK i \in S : \A j \in S : ~(<<j, i>> \in Less)
  BY <1>2, WFMin
<1>4. ASSUME NEW j \in S
      PROVE  i <= j
  <2>1. i \in Nat /\ j \in Nat
    OBVIOUS
  <2>2. ~(j < i)
    BY <1>1, <1>3, <2>1
  <2> QED BY <2>1, <2>2
<1> QED BY <1>4 DEF Least

(* A row's verdict is that of one of its checks, and no check loads a row   *)
(* or says what only the other rows of the page or the database can decide. *)
Settled == {"loaded", "duplicate_stats_grain", "repository_error"}
Verdicts == [status : {"prepared", "failed", "skipped"}, reason : Reasons \ Settled]

(* A function on 1..n is a sequence of length n.                            *)
LEMMA FunctionIsSeq ==
  ASSUME NEW S, NEW n \in Nat, NEW f \in [1..n -> S]
  PROVE  f \in Seq(S) /\ Len(f) = n
OBVIOUS

(* The verdict of a list of checks is that of one of them, or Ready.        *)
LEMMA FirstVerdictIsOne ==
  ASSUME NEW S, Ready \in S, NEW checks \in Seq(S)
  PROVE  FirstVerdict(checks) \in S
<1> DEFINE hits == {i \in DOMAIN checks : checks[i] # Ready}
<1>1. CASE hits = {}
  BY <1>1 DEF FirstVerdict
<1>2. CASE hits # {}
  <2>1. hits \in SUBSET Nat
    OBVIOUS
  <2>2. Least(hits) \in DOMAIN checks
    BY <1>2, <2>1, LeastIsLeast
  <2>3. checks[Least(hits)] \in S
    BY <2>2
  <2> QED BY <1>2, <2>3 DEF FirstVerdict
<1> QED BY <1>1, <1>2

(* Every row gets a verdict, whatever it holds.                             *)
LEMMA VerdictIsVerdict ==
  ASSUME NEW c, NEW row
  PROVE  _prepare_row(c, row) \in Verdicts
<1>1. /\ Ready \in Verdicts
      /\ \A reason \in Reasons \ Settled :
           Fail(reason) \in Verdicts /\ Skip(reason) \in Verdicts
  BY StatsLoadAssumption DEF Ready, Fail, Skip, Verdicts, Reasons, Settled
<1>2. ASSUME NEW route
      PROVE  GrainChecks(route, row) \in Seq(Verdicts)
  <2>1. CASE route \in Aggregates
    BY <1>1, <2>1 DEF GrainChecks, When, Reasons, Settled
  <2>2. CASE route \notin Aggregates
    BY <1>1, <2>2 DEF GrainChecks, When, Reasons, Settled
  <2> QED BY <2>1, <2>2
<1>3. TeamPageChecks(row) \in Seq(Verdicts)
  BY <1>1, <1>2 DEF TeamPageChecks, When, Reasons, Settled
<1>4. PlayerPageChecks(row) \in Seq(Verdicts)
  BY <1>1, <1>2 DEF PlayerPageChecks, When, Reasons, Settled
<1> QED BY <1>1, <1>3, <1>4, FirstVerdictIsOne DEF _prepare_row

(* The row being written is one of those that are still prepared.           *)
LEMMA NextIsPending ==
  ASSUME NEW r \in Runs, Shape, Pending(r) # {}
  PROVE  Next1(r) \in Pending(r) /\ Next1(r) \in DOMAIN ent[r]
<1>1. Pending(r) \in SUBSET Nat
  BY DEF Shape, Pending
<1>2. Next1(r) \in Pending(r)
  BY <1>1, LeastIsLeast DEF Next1
<1> QED BY <1>2 DEF Pending

(* Rows of the page at hand have a key.                                     *)
LEMMA RowHasKey ==
  ASSUME Shape, NEW r \in Runs, Position(r), InPage(r), NEW n \in DOMAIN ent[r]
  PROVE  Row(r, n) \in Rows /\ Key(r, n) \in Keys
<1>1. pages[r][cur[r]] \in Pages
  BY DEF Shape, Position
<1>2. n \in 1..Len(pages[r][cur[r]].rows)
  BY <1>1 DEF Shape, Position, Pages
<1>3. Row(r, n) \in Rows
  BY <1>1, <1>2 DEF Row, Pages
<1> QED BY <1>3 DEF Key, Keys, Shape

(* The values that stand for no row are rows.                               *)
LEMMA RowsAreTyped ==
  /\ NoRow \in StatsRows /\ Clean \in StatsRows
  /\ Untouched \in [Keys -> StatsRows]
  /\ \A k \in Keys : Untouched[k] = Clean
BY DEF NoRow, Clean, Blank, Untouched, StatsRows, Cells, Data

(* A run reads rows.                                                        *)
LEMMA ViewIsTyped ==
  ASSUME Shape, NEW r \in Runs, NEW k \in Keys
  PROVE  View(r, k) \in StatsRows
BY DEF Shape, View

(* What a page says of a column can be stored.                              *)
LEMMA GivenIsTyped ==
  ASSUME Shape, NEW r \in Runs, Position(r), InPage(r), NEW n, Row(r, n) \in Rows, NEW c
  PROVE  Gives(r, cur[r], n, c) \in Data
<1>1. pages[r][cur[r]] \in Pages
  BY DEF Shape, Position
<1> QED BY <1>1 DEF Gives, Data, Pages, Row

(* An upserted row carries its run and its page; each of its columns is as  *)
(* the page says, or was left alone because it was so when it was read.     *)
LEMMA UpsertedIsTyped ==
  ASSUME Shape, NEW r \in Runs, Position(r), InPage(r), NEW n,
         Row(r, n) \in Rows, Key(r, n) \in Keys
  PROVE  /\ Upserted(r, n) \in StatsRows
         /\ Upserted(r, n).run = r /\ Upserted(r, n).page = cur[r]
         /\ \A c \in Columns :
              \/ Upserted(r, n).col[c] = [is |-> Gives(r, cur[r], n, c), run |-> r, page |-> cur[r]]
              \/ /\ seen[r] # NoRow /\ seen[r].col[c].is = Gives(r, cur[r], n, c)
                 /\ Upserted(r, n).col[c] = View(r, Key(r, n)).col[c]
<1>1. cur[r] \in Nat
  BY DEF Shape
<1> DEFINE now == View(r, Key(r, n))
           Own(c) == [is |-> Gives(r, cur[r], n, c), run |-> r, page |-> cur[r]]
           Left(c) == seen[r] # NoRow /\ seen[r].col[c].is = Gives(r, cur[r], n, c)
           cols == [c \in Columns |-> IF Left(c) THEN now.col[c] ELSE Own(c)]
<1>2. now \in StatsRows
  BY ViewIsTyped
<1>3. \A c \in Columns : Own(c) \in Cells /\ now.col[c] \in Cells
  BY <1>1, <1>2, GivenIsTyped DEF Cells, StatsRows
<1>4. Upserted(r, n) = [col |-> cols, run |-> r, page |-> cur[r]]
  BY DEF Upserted
<1> HIDE DEF now, Own, Left
<1>5. cols \in [Columns -> Cells]
  BY <1>3
<1>6. Upserted(r, n) \in StatsRows /\ Upserted(r, n).run = r /\ Upserted(r, n).page = cur[r]
  BY <1>1, <1>4, <1>5 DEF StatsRows
<1>7. \A c \in Columns : Upserted(r, n).col[c] = IF Left(c) THEN now.col[c] ELSE Own(c)
  BY <1>4
<1> QED BY <1>6, <1>7 DEF now, Own, Left

(* The end of a row's savepoint changes that row's entry.                   *)
LEMMA SettleFacts ==
  ASSUME Shape, NEW r \in Runs, Pending(r) # {}, NEW entry \in Entries,
         Settle(r, Next1(r), entry)
  PROVE  /\ ent' \in [Runs -> Seq(Entries)]
         /\ seen' \in [Runs -> StatsRows]
         /\ pc' = [pc EXCEPT ![r] = "write"]
         /\ DOMAIN ent'[r] = DOMAIN ent[r] /\ Len(ent'[r]) = Len(ent[r])
         /\ Next1(r) \in DOMAIN ent[r]
         /\ ent[r][Next1(r)].status = "prepared"
         /\ ent'[r][Next1(r)] = entry
         /\ \A m \in DOMAIN ent[r] \ {Next1(r)} : ent'[r][m] = ent[r][m]
         /\ \A q \in Runs \ {r} : ent'[q] = ent[q]
<1>1. Next1(r) \in DOMAIN ent[r] /\ ent[r][Next1(r)].status = "prepared"
  BY NextIsPending DEF Pending
<1>2. ent[r] \in Seq(Entries) /\ DOMAIN ent = Runs
  BY DEF Shape
<1>3. ent'[r] = [ent[r] EXCEPT ![Next1(r)] = entry]
  BY <1>2 DEF Settle
<1>4. ent'[r] \in Seq(Entries) /\ Len(ent'[r]) = Len(ent[r])
  BY <1>1, <1>2, <1>3, ExceptSeq
<1>5. seen' \in [Runs -> StatsRows]
  BY RowsAreTyped DEF Settle, Shape
<1>6. ent' \in [Runs -> Seq(Entries)]
  BY <1>3, <1>4 DEF Settle, Shape
<1> QED BY <1>1, <1>2, <1>3, <1>4, <1>5, <1>6 DEF Settle

-----------------------------------------------------------------------------
(* A step of one run leaves every other run alone.                          *)
SameRun(q) ==
  /\ work'[q] = work[q] /\ mark'[q] = mark[q] /\ pc'[q] = pc[q]
  /\ cur'[q] = cur[q] /\ ent'[q] = ent[q] /\ results'[q] = results[q]

OthersSame(r) == UNCHANGED inputs /\ \A q \in Runs \ {r} : SameRun(q)

(* What a run is told by RunInv does not depend on other runs.              *)
LEMMA Frame ==
  ASSUME UNCHANGED inputs, NEW q \in Runs, RunInv(q), SameRun(q)
  PROVE  RunInv(q)'
<1> USE DEF SameRun, inputs
<1>1. Position(q)'
  BY DEF RunInv, Position, InPage, Pending
<1>2. WorkIsReported(q)'
  BY DEF RunInv, WorkIsReported, Past, Present, LoadedAt, LoadedEntry, LoadedNow, Key, Row
<1>3. MarkIsReported(q)'
  BY DEF RunInv, MarkIsReported, InPage, Past, LoadedAt, LoadedEntry
<1>4. NothingOpen(q)'
  BY DEF RunInv, NothingOpen
<1> QED BY <1>1, <1>2, <1>3, <1>4 DEF RunInv

(* What is in the report stays there.                                       *)
LEMMA PastStays ==
  ASSUME Shape, UNCHANGED inputs, NEW r \in Runs, NEW row, NEW k, Past(r, row, k),
         \/ results'[r] = results[r]
         \/ \E e \in PageEntries : results'[r] = Append(results[r], e)
  PROVE  Past(r, row, k)'
<1>1. row.page \in DOMAIN results'[r] /\ results'[r][row.page] = results[r][row.page]
  <2>1. CASE results'[r] = results[r]
    BY <2>1 DEF Past
  <2>2. ASSUME NEW e \in PageEntries, results'[r] = Append(results[r], e)
        PROVE  row.page \in DOMAIN results'[r] /\ results'[r][row.page] = results[r][row.page]
    <3>1. results[r] \in Seq(PageEntries)
      BY DEF Shape
    <3>2. row.page \in 1..Len(results[r])
      BY <3>1 DEF Past
    <3> QED BY <2>2, <3>1, <3>2, AppendProperties
  <2> QED BY <2>1, <2>2
<1> QED BY <1>1 DEF Past, LoadedAt, LoadedEntry, inputs

(* The transaction begins empty.                                            *)
LEMMA StartStep ==
  ASSUME Shape, NEW r \in Runs, RunInv(r), Start(r)
  PROVE  Shape' /\ OthersSame(r) /\ RunInv(r)'
<1> USE DEF Start, inputs, session, history
<1>1. Shape'
  BY DEF Shape, Ended
<1>2. OthersSame(r)
  BY DEF Shape, OthersSame, SameRun
<1>3. Position(r)'
  BY DEF Shape, RunInv, Position, InPage, Ended
<1>4. WorkIsReported(r)'
  BY PastStays DEF Shape, RunInv, WorkIsReported, Present
<1>5. MarkIsReported(r)'
  BY PastStays DEF Shape, RunInv, MarkIsReported, InPage
<1>6. NothingOpen(r)'
  BY DEF Shape, RunInv, NothingOpen, Ended
<1> QED BY <1>1, <1>2, <1>3, <1>4, <1>5, <1>6 DEF RunInv

(* The savepoint is what the transaction holds.                             *)
LEMMA OpenPageStep ==
  ASSUME Shape, NEW r \in Runs, RunInv(r), OpenPage(r)
  PROVE  Shape' /\ OthersSame(r) /\ RunInv(r)'
<1> USE DEF OpenPage, inputs, session, history, AtPage
<1>1. Shape'
  BY DEF Shape, Ended
<1>2. OthersSame(r)
  BY DEF Shape, OthersSame, SameRun
<1>3. Position(r)'
  BY DEF Shape, RunInv, Position, InPage, Ended
<1>4. WorkIsReported(r)'
  BY PastStays DEF Shape, RunInv, WorkIsReported, Present
<1>5. MarkIsReported(r)'
  BY PastStays DEF Shape, RunInv, MarkIsReported, InPage, WorkIsReported, Present
<1>6. NothingOpen(r)'
  BY DEF Shape, RunInv, NothingOpen, Ended
<1> QED BY <1>1, <1>2, <1>3, <1>4, <1>5, <1>6 DEF RunInv

(* Preparing a row writes nothing and reports no row as loaded.             *)
LEMMA PrepareRowStep ==
  ASSUME Shape, NEW r \in Runs, RunInv(r), PrepareRow(r)
  PROVE  Shape' /\ OthersSame(r) /\ RunInv(r)'
<1> USE DEF PrepareRow, inputs, session, history
<1>a. _prepare_row(command[r], Row(r, Len(ent[r]) + 1)) \in Verdicts
  BY VerdictIsVerdict
<1>b. PICK v \in Verdicts : ent' = [ent EXCEPT ![r] = Append(ent[r], v)]
  BY <1>a DEF Shape
<1>c. v \in Entries /\ v.status # "loaded"
  BY DEF Verdicts, Entries
<1>d. /\ ent'[r] = Append(ent[r], v)
      /\ ent'[r] \in Seq(Entries) /\ Len(ent'[r]) = Len(ent[r]) + 1
      /\ \A i \in 1..Len(ent[r]) : ent'[r][i] = ent[r][i]
      /\ ent'[r][Len(ent[r]) + 1] = v
  BY <1>b, <1>c, AppendProperties DEF Shape
<1>1. Shape'
  BY <1>b, <1>d DEF Shape
<1>2. OthersSame(r)
  BY DEF Shape, OthersSame, SameRun
<1>3. Position(r)'
  <2>1. \A n \in DOMAIN ent'[r] : ent'[r][n].status # "loaded"
    BY <1>c, <1>d DEF RunInv, Position, Shape
  <2>2. Len(ent'[r]) <= Len(pages[r][cur[r]].rows)
    BY <1>d DEF RunInv, Position, Shape, Pages, InPage
  <2> QED BY <2>1, <2>2 DEF Shape, RunInv, Position, InPage
<1>4. WorkIsReported(r)'
  BY PastStays DEF Shape, RunInv, WorkIsReported, Present
<1>5. MarkIsReported(r)'
  BY PastStays DEF Shape, RunInv, MarkIsReported, InPage
<1>6. NothingOpen(r)'
  BY DEF Shape, RunInv, NothingOpen, Ended
<1> QED BY <1>1, <1>2, <1>3, <1>4, <1>5, <1>6 DEF RunInv

(* Nor does the rejection of duplicates.                                    *)
LEMMA RejectDuplicatesStep ==
  ASSUME Shape, NEW r \in Runs, RunInv(r), RejectDuplicates(r)
  PROVE  Shape' /\ OthersSame(r) /\ RunInv(r)'
<1> USE DEF RejectDuplicates, inputs, session, history
<1>a. /\ DOMAIN ent'[r] = DOMAIN ent[r]
      /\ \A n \in DOMAIN ent[r] :
           ent'[r][n] \in {ent[r][n], Fail("duplicate_stats_grain")}
  BY DEF Shape
<1>b. Fail("duplicate_stats_grain") \in Entries
  BY DEF Fail, Entries, Reasons
<1>c. ent'[r] \in Seq(Entries) /\ Len(ent'[r]) = Len(ent[r])
  <2>1. ent'[r] = [n \in 1..Len(ent[r]) |-> ent'[r][n]]
    BY <1>a DEF Shape
  <2>2. \A n \in 1..Len(ent[r]) : ent'[r][n] \in Entries
    BY <1>a, <1>b DEF Shape
  <2>3. ent'[r] \in [1..Len(ent[r]) -> Entries]
    BY <2>1, <2>2
  <2>4. Len(ent[r]) \in Nat
    BY DEF Shape
  <2> QED BY <2>3, <2>4, FunctionIsSeq
<1>1. Shape'
  BY <1>c DEF Shape
<1>2. OthersSame(r)
  BY DEF Shape, OthersSame, SameRun
<1>3. Position(r)'
  BY <1>c DEF Shape, RunInv, Position, InPage
<1>4. WorkIsReported(r)'
  BY PastStays DEF Shape, RunInv, WorkIsReported, Present
<1>5. MarkIsReported(r)'
  BY PastStays DEF Shape, RunInv, MarkIsReported, InPage
<1>6. NothingOpen(r)'
  BY DEF Shape, RunInv, NothingOpen, Ended
<1> QED BY <1>1, <1>2, <1>3, <1>4, <1>5, <1>6 DEF RunInv

(* The SELECT changes neither transaction nor report.                       *)
LEMMA SelectRowStep ==
  ASSUME Shape, NEW r \in Runs, RunInv(r), SelectRow(r)
  PROVE  Shape' /\ OthersSame(r) /\ RunInv(r)'
<1> USE DEF SelectRow, inputs, session, history
<1>a. Next1(r) \in DOMAIN ent[r]
  BY NextIsPending
<1>b. View(r, Key(r, Next1(r))) \in StatsRows
  BY <1>a, RowHasKey, ViewIsTyped DEF RunInv, InPage
<1>1. Shape'
  BY <1>b DEF Shape
<1>2. OthersSame(r)
  BY DEF Shape, OthersSame, SameRun
<1>3. Position(r)'
  BY DEF Shape, RunInv, Position, InPage, Pending
<1>4. WorkIsReported(r)'
  BY PastStays DEF Shape, RunInv, WorkIsReported, Present, LoadedNow, Key, Row
<1>5. MarkIsReported(r)'
  BY PastStays DEF Shape, RunInv, MarkIsReported, InPage
<1>6. NothingOpen(r)'
  BY DEF Shape, RunInv, NothingOpen, Ended
<1> QED BY <1>1, <1>2, <1>3, <1>4, <1>5, <1>6 DEF RunInv

(* The row that is written is reported as loaded in the same step.          *)
LEMMA WriteRowStep ==
  ASSUME Shape, NEW r \in Runs, RunInv(r), WriteRow(r)
  PROVE  Shape' /\ OthersSame(r) /\ RunInv(r)'
<1> USE DEF WriteRow, inputs, session, history, AtFlush
<1>a. Pending(r) # {}
  BY DEF RunInv, Position
<1>b. [status |-> "loaded", reason |-> "loaded"] \in Entries
  BY DEF Entries, Reasons
<1>c. Row(r, Next1(r)) \in Rows /\ Key(r, Next1(r)) \in Keys
  BY <1>a, NextIsPending, RowHasKey DEF RunInv, InPage
<1> DEFINE n == Next1(r)
           new == Upserted(r, n)
<1>d. new \in StatsRows /\ new.run = r /\ new.page = cur[r]
  BY <1>c, UpsertedIsTyped DEF RunInv, InPage
<1>e. /\ work' \in [Runs -> [Keys -> StatsRows]]
      /\ work'[r][Key(r, n)] = new
      /\ \A k \in Keys \ {Key(r, n)} : work'[r][k] = work[r][k]
      /\ \A q \in Runs \ {r} : work'[q] = work[q]
  BY <1>c, <1>d DEF Shape
<1>f. /\ ent' \in [Runs -> Seq(Entries)]
      /\ seen' \in [Runs -> StatsRows]
      /\ pc' = [pc EXCEPT ![r] = "write"]
      /\ DOMAIN ent'[r] = DOMAIN ent[r] /\ Len(ent'[r]) = Len(ent[r])
      /\ n \in DOMAIN ent[r]
      /\ ent[r][n].status = "prepared"
      /\ ent'[r][n].status = "loaded"
      /\ \A m \in DOMAIN ent[r] \ {n} : ent'[r][m] = ent[r][m]
      /\ \A q \in Runs \ {r} : ent'[q] = ent[q]
  BY <1>a, <1>b, SettleFacts
<1> HIDE DEF n, new
<1>1. Shape'
  BY <1>e, <1>f DEF Shape
<1>2. OthersSame(r)
  BY <1>e, <1>f DEF Shape, OthersSame, SameRun
<1>3. Position(r)'
  BY <1>f DEF Shape, RunInv, Position, InPage
<1>4. WorkIsReported(r)'
  <2> SUFFICES ASSUME NEW k \in Keys, work'[r][k] # Clean
               PROVE  Past(r, work[r][k], k)' \/ Present(r, work[r][k], k)'
    BY DEF WorkIsReported
  <2>1. \A m : Key(r, m)' = Key(r, m)
    BY DEF Key, Row
  <2>2. pc'[r] = "write" /\ cur'[r] = cur[r]
    BY <1>f DEF Shape
  <2>3. CASE k = Key(r, n)
    BY <1>d, <1>e, <1>f, <2>1, <2>2, <2>3 DEF Present, LoadedNow, Shape
  <2>4. CASE k # Key(r, n)
    <3>1. work'[r][k] = work[r][k]
      BY <1>e, <2>4
    <3>2. CASE Past(r, work[r][k], k)
      <4>1. PICK row : row = work[r][k]
        OBVIOUS
      <4>2. Past(r, row, k)'
        BY <3>2, <4>1, PastStays
      <4> QED BY <3>1, <4>1, <4>2 DEF Past
    <3>3. CASE Present(r, work[r][k], k)
      <4>1. PICK m \in DOMAIN ent[r] : LoadedNow(r, m, k)
        BY <3>3 DEF Present
      <4>2. ent'[r][m] = ent[r][m] /\ m \in DOMAIN ent'[r]
        BY <1>f, <4>1 DEF LoadedNow
      <4>3. LoadedNow(r, m, k)'
        BY <2>1, <4>1, <4>2 DEF LoadedNow
      <4> QED BY <2>2, <3>1, <3>3, <4>2, <4>3 DEF Present
    <3> QED BY <3>1, <3>2, <3>3 DEF RunInv, WorkIsReported
  <2> QED BY <2>3, <2>4
<1>5. MarkIsReported(r)'
  BY <1>f, PastStays DEF Shape, RunInv, MarkIsReported, InPage
<1>6. NothingOpen(r)'
  BY <1>f DEF Shape, NothingOpen, Ended
<1> QED BY <1>1, <1>2, <1>3, <1>4, <1>5, <1>6 DEF RunInv

(* A row that fails is not in the transaction and not reported as loaded.   *)
LEMMA RowFailsStep ==
  ASSUME Shape, NEW r \in Runs, RunInv(r), AtFlush(r), RowFails(r)
  PROVE  Shape' /\ OthersSame(r) /\ RunInv(r)'
<1> USE DEF RowFails, inputs, session, history, AtFlush
<1>a. Pending(r) # {}
  BY DEF RunInv, Position
<1>b. WriteFailed \in Entries /\ WriteFailed.status # "loaded"
  BY DEF WriteFailed, Fail, Entries, Reasons
<1> DEFINE n == Next1(r)
<1>f. /\ ent' \in [Runs -> Seq(Entries)]
      /\ seen' \in [Runs -> StatsRows]
      /\ pc' = [pc EXCEPT ![r] = "write"]
      /\ DOMAIN ent'[r] = DOMAIN ent[r] /\ Len(ent'[r]) = Len(ent[r])
      /\ ent[r][n].status = "prepared"
      /\ \A m \in DOMAIN ent[r] \ {n} : ent'[r][m] = ent[r][m]
      /\ \A q \in Runs \ {r} : ent'[q] = ent[q]
  BY <1>a, <1>b, SettleFacts
<1> HIDE DEF n
<1>1. Shape'
  BY <1>f DEF Shape
<1>2. OthersSame(r)
  BY <1>f DEF Shape, OthersSame, SameRun
<1>3. Position(r)'
  BY <1>f DEF Shape, RunInv, Position, InPage
<1>4. WorkIsReported(r)'
  <2> SUFFICES ASSUME NEW k \in Keys, work'[r][k] # Clean
               PROVE  Past(r, work[r][k], k)' \/ Present(r, work[r][k], k)'
    BY DEF WorkIsReported
  <2>1. \A m : Key(r, m)' = Key(r, m)
    BY DEF Key, Row
  <2>2. pc'[r] = "write" /\ cur'[r] = cur[r]
    BY <1>f DEF Shape
  <2>3. CASE Past(r, work[r][k], k)
    <3>1. PICK row : row = work[r][k]
      OBVIOUS
    <3>2. Past(r, row, k)'
      BY <2>3, <3>1, PastStays
    <3> QED BY <3>1, <3>2 DEF Past
  <2>4. CASE Present(r, work[r][k], k)
    BY <1>f, <2>1, <2>2, <2>4 DEF Present, LoadedNow
  <2> QED BY <2>3, <2>4 DEF RunInv, WorkIsReported
<1>5. MarkIsReported(r)'
  BY <1>f, PastStays DEF Shape, RunInv, MarkIsReported, InPage
<1>6. NothingOpen(r)'
  BY <1>f DEF Shape, NothingOpen, Ended
<1> QED BY <1>1, <1>2, <1>3, <1>4, <1>5, <1>6 DEF RunInv

(* A run that committed has nothing open.                                   *)
LEMMA CommitStep ==
  ASSUME Shape, NEW r \in Runs, RunInv(r), Commit(r)
  PROVE  Shape' /\ OthersSame(r) /\ RunInv(r)'
<1> USE DEF Commit, inputs, session, history
<1>1. Shape'
  <2>1. table' \in [Keys -> StatsRows]
    BY ViewIsTyped
  <2>2. commits' \in Seq(Runs)
    BY AppendProperties DEF Shape
  <2> QED BY <2>1, <2>2, RowsAreTyped DEF Shape, Ended
<1>2. OthersSame(r)
  BY DEF Shape, OthersSame, SameRun
<1>3. Position(r)'
  BY DEF Shape, RunInv, Position, InPage, Ended
<1>4. WorkIsReported(r)'
  BY RowsAreTyped DEF Shape, WorkIsReported
<1>5. MarkIsReported(r)'
  BY PastStays DEF Shape, RunInv, MarkIsReported, InPage
<1>6. NothingOpen(r)'
  BY DEF Shape, RunInv, NothingOpen, Ended
<1> QED BY <1>1, <1>2, <1>3, <1>4, <1>5, <1>6 DEF RunInv

(* A crash leaves neither a transaction nor a report.                       *)
LEMMA CrashStep ==
  ASSUME Shape, NEW r \in Runs, RunInv(r), Crash(r)
  PROVE  Shape' /\ OthersSame(r) /\ RunInv(r)'
<1> USE DEF Crash, inputs, session, history
<1>1. Shape'
  BY RowsAreTyped DEF Shape, Ended
<1>2. OthersSame(r)
  BY DEF Shape, OthersSame, SameRun
<1>3. Position(r)'
  BY DEF Shape, RunInv, Position, InPage, Ended
<1>4. WorkIsReported(r)'
  BY RowsAreTyped DEF Shape, WorkIsReported
<1>5. MarkIsReported(r)'
  BY PastStays DEF Shape, RunInv, MarkIsReported, InPage
<1>6. NothingOpen(r)'
  BY DEF Shape, RunInv, NothingOpen, Ended
<1> QED BY <1>1, <1>2, <1>3, <1>4, <1>5, <1>6 DEF RunInv

(* Run r closes its page with report entry e: what is in the transaction    *)
(* moves from the page at hand into the report.                             *)
Closes(r, e) ==
  /\ Open(r)
  /\ cur[r] <= Len(pages[r])
  /\ Len(e.entries) <= Len(pages[r][cur[r]].rows)
  /\ Report(r, e.status, e.entries)
  /\ UNCHANGED <<inputs, core, table, seen, scope, history>>
  /\ \/ pc[r] = "write" /\ e.entries = ent[r] /\ work' = work
     \/ pc[r] = "prepare" /\ e.entries = <<>> /\ work' = [work EXCEPT ![r] = mark[r]]
     \/ pc[r] = "page" /\ e.entries = <<>> /\ work' = work

(* What Report does to the report, entry by entry.                          *)
LEMMA ReportFacts ==
  ASSUME Shape, NEW r \in Runs, RunInv(r), NEW e \in PageEntries,
         Report(r, e.status, e.entries)
  PROVE  /\ results'[r] = Append(results[r], e)
         /\ \A q \in Runs \ {r} : results'[q] = results[q]
         /\ DOMAIN results' = Runs
         /\ results'[r] \in Seq(PageEntries) /\ Len(results'[r]) = cur[r]
         /\ DOMAIN results'[r] = 1..cur[r]
         /\ \A i \in DOMAIN results[r] : results'[r][i] = results[r][i]
         /\ \A i \in DOMAIN results'[r] : i # cur[r] => i \in DOMAIN results[r]
         /\ results'[r][cur[r]] = e
         /\ ent'[r] = <<>> /\ cur'[r] = cur[r] + 1 /\ pc'[r] = "page"
<1>1. e = [status |-> e.status, entries |-> e.entries]
  BY DEF PageEntries
<1>2. /\ results'[r] = Append(results[r], e)
      /\ \A q \in Runs \ {r} : results'[q] = results[q]
      /\ DOMAIN results' = Runs
  BY <1>1 DEF Report, Shape
<1>3. results[r] \in Seq(PageEntries) /\ Len(results[r]) = cur[r] - 1 /\ cur[r] \in Nat
  BY DEF Shape, RunInv, Position
<1>4. /\ results'[r] \in Seq(PageEntries) /\ Len(results'[r]) = cur[r]
      /\ DOMAIN results'[r] = 1..cur[r] /\ DOMAIN results[r] = 1..cur[r] - 1
      /\ \A i \in DOMAIN results[r] : results'[r][i] = results[r][i]
      /\ results'[r][cur[r]] = e
  BY <1>2, <1>3, AppendProperties, LenProperties
<1>5. ent'[r] = <<>> /\ cur'[r] = cur[r] + 1 /\ pc'[r] = "page"
  BY DEF Report, Shape
<1> QED BY <1>2, <1>3, <1>4, <1>5

(* Closing a page keeps transaction and report in step.                     *)
LEMMA ReportStep ==
  ASSUME Shape, NEW r \in Runs, RunInv(r), NEW e \in PageEntries, Closes(r, e)
  PROVE  Shape' /\ OthersSame(r) /\ RunInv(r)'
<1> USE DEF inputs, history, Closes
<1>2. /\ results'[r] = Append(results[r], e)
      /\ \A q \in Runs \ {r} : results'[q] = results[q]
      /\ DOMAIN results' = Runs
  BY ReportFacts
<1>3. /\ results'[r] \in Seq(PageEntries) /\ Len(results'[r]) = cur[r]
      /\ DOMAIN results'[r] = 1..cur[r]
      /\ \A i \in DOMAIN results[r] : results'[r][i] = results[r][i]
      /\ results'[r][cur[r]] = e
  BY ReportFacts
<1>4. /\ ent'[r] = <<>> /\ cur'[r] = cur[r] + 1 /\ pc'[r] = "page"
  BY ReportFacts
<1>5. Shape'
  <2>1. results' \in [Runs -> Seq(PageEntries)]
    BY <1>2, <1>3 DEF Shape, Report
  <2>2. work' \in [Runs -> [Keys -> StatsRows]]
    BY DEF Shape
  <2>3. ent' \in [Runs -> Seq(Entries)] /\ mark' \in [Runs -> [Keys -> StatsRows]]
    BY RowsAreTyped DEF Shape, Report
  <2> QED BY <2>1, <2>2, <2>3 DEF Shape, Report
<1>6. OthersSame(r)
  BY <1>2 DEF Shape, Report, OthersSame, SameRun
<1>7. Position(r)'
  <2>1. \A i \in DOMAIN results'[r] : Len(results'[r][i].entries) <= Len(pages[r][i].rows)
    <3> SUFFICES ASSUME NEW i \in DOMAIN results'[r]
                 PROVE  Len(results'[r][i].entries) <= Len(pages[r][i].rows)
      OBVIOUS
    <3>1. CASE i = cur[r]
      BY <1>3, <3>1
    <3>2. CASE i # cur[r]
      <4>1. i \in DOMAIN results[r]
        BY <1>3, <3>2 DEF RunInv, Position, Shape
      <4> QED BY <1>3, <4>1 DEF RunInv, Position
    <3> QED BY <3>1, <3>2
  <2>2. cur[r] \in Nat /\ cur[r] <= Len(pages[r]) /\ Len(pages[r]) \in Nat /\ cur[r] >= 1
    BY DEF RunInv, Position, Shape
  <2>3. cur'[r] \in 1..Len(pages[r]) + 1 /\ Len(results'[r]) = cur'[r] - 1
    BY <1>3, <1>4, <2>2
  <2> QED BY <1>4, <2>1, <2>3 DEF Position, InPage
<1>8. WorkIsReported(r)'
  <2> SUFFICES ASSUME NEW k \in Keys, work'[r][k] # Clean
               PROVE  Past(r, work[r][k], k)'
    BY DEF WorkIsReported
  <2>1. PICK row : row = work'[r][k]
    OBVIOUS
  <2>2. CASE Past(r, row, k)
    <3>1. Past(r, row, k)'
      BY <1>2, <2>2, PastStays
    <3> QED BY <2>1, <3>1 DEF Past
  <2>3. CASE Present(r, row, k) /\ e.entries = ent[r]
    <3>1. PICK n \in DOMAIN e.entries : LoadedNow(r, n, k)
      BY <2>3 DEF Present
    <3>2. row.run = r /\ row.page = cur[r]
      BY <2>3 DEF Present
    <3>3. row.page \in DOMAIN results'[r] /\ results'[r][row.page] = e
      BY <1>3, <3>2 DEF Shape, RunInv, Position
    <3>4. e.entries[n].status = "loaded" /\ KeyOf(command[r], pages[r][row.page].rows[n]) = k
      BY <2>3, <3>1, <3>2 DEF LoadedNow, Key, Row
    <3> QED BY <2>1, <3>1, <3>2, <3>3, <3>4 DEF Past, LoadedAt, LoadedEntry
  <2>4. CASE work' = work
    BY <2>1, <2>2, <2>3, <2>4 DEF RunInv, WorkIsReported, Present
  <2>5. CASE pc[r] = "prepare" /\ work' = [work EXCEPT ![r] = mark[r]]
    BY <2>1, <2>2, <2>5 DEF RunInv, MarkIsReported, InPage, Shape
  <2> QED BY <2>4, <2>5
<1>9. MarkIsReported(r)'
  BY <1>4 DEF MarkIsReported, InPage
<1>10. NothingOpen(r)'
  BY <1>4 DEF NothingOpen, Ended
<1> QED BY <1>5, <1>6, <1>7, <1>8, <1>9, <1>10 DEF RunInv

(* The four ways to close a page, in the form of Closes.                    *)
LEMMA ClosingIsReport ==
  ASSUME Shape, NEW r \in Runs, RunInv(r),
         RejectPage(r) \/ SkipPage(r) \/ PageFault(r) \/ ClosePage(r)
  PROVE  \E e \in PageEntries : Closes(r, e)
<1>1. /\ [status |-> "failed", entries |-> <<>>] \in PageEntries
      /\ [status |-> "skipped", entries |-> <<>>] \in PageEntries
      /\ [status |-> _entry_from_load_report(ent[r]), entries |-> ent[r]] \in PageEntries
  BY DEF PageEntries, Shape, _entry_from_load_report
<1>2. cur[r] \in Nat /\ cur[r] >= 1 /\ Len(pages[r]) \in Nat
  BY DEF Shape, RunInv, Position
<1>3. cur[r] <= Len(pages[r]) => Len(pages[r][cur[r]].rows) \in Nat
  <2> SUFFICES ASSUME cur[r] <= Len(pages[r])
               PROVE  Len(pages[r][cur[r]].rows) \in Nat
    OBVIOUS
  <2>1. pages[r][cur[r]] \in Pages
    BY <1>2 DEF Shape
  <2> QED BY <2>1 DEF Pages
<1>4. Len(<<>>) = 0
  OBVIOUS
<1>5. CASE RejectPage(r)
  <2>1. PICK e \in PageEntries : e = [status |-> "failed", entries |-> <<>>]
    BY <1>1
  <2>2. Open(r) /\ pc[r] = "page" /\ cur[r] <= Len(pages[r])
    BY <1>5 DEF RejectPage, AtPage, Open
  <2>3. Report(r, e.status, e.entries) /\ Len(e.entries) <= Len(pages[r][cur[r]].rows)
    BY <1>3, <1>4, <1>5, <2>1, <2>2 DEF RejectPage, Report
  <2> QED BY <1>5, <2>1, <2>2, <2>3 DEF Closes, RejectPage
<1>6. CASE SkipPage(r)
  <2>1. PICK e \in PageEntries : e = [status |-> "skipped", entries |-> <<>>]
    BY <1>1
  <2>2. Open(r) /\ pc[r] = "page" /\ cur[r] <= Len(pages[r])
    BY <1>6 DEF SkipPage, AtPage, Open
  <2>3. Report(r, e.status, e.entries) /\ Len(e.entries) <= Len(pages[r][cur[r]].rows)
    BY <1>3, <1>4, <1>6, <2>1, <2>2 DEF SkipPage, Report
  <2> QED BY <1>6, <2>1, <2>2, <2>3 DEF Closes, SkipPage
<1>7. CASE PageFault(r)
  <2>1. PICK e \in PageEntries : e = [status |-> "failed", entries |-> <<>>]
    BY <1>1
  <2>2. Open(r) /\ pc[r] = "prepare" /\ cur[r] <= Len(pages[r])
    BY <1>7 DEF PageFault, InPage, Open, RunInv, Position
  <2>3. Report(r, e.status, e.entries) /\ Len(e.entries) <= Len(pages[r][cur[r]].rows)
    BY <1>3, <1>4, <1>7, <2>1, <2>2 DEF PageFault, Report
  <2> QED BY <1>7, <2>1, <2>2, <2>3 DEF Closes, PageFault
<1>8. CASE ClosePage(r)
  <2>1. PICK e \in PageEntries :
          e = [status |-> _entry_from_load_report(ent[r]), entries |-> ent[r]]
    BY <1>1
  <2>2. Open(r) /\ pc[r] = "write" /\ cur[r] <= Len(pages[r])
    BY <1>8 DEF ClosePage, InPage, Open, RunInv, Position
  <2>3. Report(r, e.status, e.entries) /\ Len(e.entries) <= Len(pages[r][cur[r]].rows)
    BY <1>8, <2>1, <2>2 DEF ClosePage, Report, RunInv, Position, InPage
  <2> QED BY <1>8, <2>1, <2>2, <2>3 DEF Closes, ClosePage
<1> QED BY <1>5, <1>6, <1>7, <1>8

(* Closing a page, whichever way.                                           *)
LEMMA ClosingStep ==
  ASSUME Shape, NEW r \in Runs, RunInv(r),
         RejectPage(r) \/ SkipPage(r) \/ PageFault(r) \/ ClosePage(r)
  PROVE  Shape' /\ OthersSame(r) /\ RunInv(r)'
BY ClosingIsReport, ReportStep

-----------------------------------------------------------------------------
(* What a step of the system does to the tables.                            *)
Quiet(r) == UNCHANGED <<table, commits>> /\ pc[r] \notin Ended /\ pc'[r] # "done"

(* Each step of a run keeps that run's invariant and leaves the others      *)
(* alone.                                                                   *)
LEMMA RunStep ==
  ASSUME IInv, NEW r \in Runs, Step(r)
  PROVE  /\ Shape' /\ OthersSame(r) /\ RunInv(r)'
         /\ Commit(r) \/ Quiet(r)
<1> USE DEF IInv, history
<1> DEFINE Goal == Shape' /\ OthersSame(r) /\ RunInv(r)' /\ (Commit(r) \/ Quiet(r))
<1>1. CASE Start(r)
  BY <1>1, StartStep DEF Start, Quiet, Ended, Shape, session
<1>2. CASE OpenPage(r)
  BY <1>2, OpenPageStep DEF OpenPage, AtPage, Quiet, Ended, Shape
<1>3. CASE PrepareRow(r)
  BY <1>3, PrepareRowStep DEF PrepareRow, Quiet, Ended, Shape
<1>4. CASE RejectDuplicates(r)
  BY <1>4, RejectDuplicatesStep DEF RejectDuplicates, Quiet, Ended, Shape
<1>5. CASE SelectRow(r)
  BY <1>5, SelectRowStep DEF SelectRow, Quiet, Ended, Shape
<1>6. CASE WriteRow(r)
  BY <1>6, WriteRowStep DEF WriteRow, AtFlush, Settle, Quiet, Ended, Shape
<1>7. CASE AtFlush(r) /\ RowFails(r)
  BY <1>7, RowFailsStep DEF RowFails, AtFlush, Settle, Quiet, Ended, Shape
<1>8. CASE RejectPage(r) \/ SkipPage(r) \/ PageFault(r) \/ ClosePage(r)
  <2>1. Shape' /\ OthersSame(r) /\ RunInv(r)'
    BY <1>8, ClosingStep
  <2>2. Quiet(r)
    BY <1>8 DEF RejectPage, SkipPage, PageFault, ClosePage, AtPage, Report, Quiet, Ended,
         Shape
  <2> QED BY <2>1, <2>2
<1>9. CASE Commit(r)
  BY <1>9, CommitStep
<1>10. CASE Crash(r)
  BY <1>10, CrashStep DEF Crash, Quiet, Ended, Shape
<1> QED
  BY <1>1, <1>2, <1>3, <1>4, <1>5, <1>6, <1>7, <1>8, <1>9, <1>10
  DEF Step, UniqueViolation, DeadlockVictim, StatementFault

(* The order of the commits.                                                *)
LEMMA CommitsStayOnce ==
  ASSUME IInv, NEW r \in Runs, Shape', OthersSame(r), Commit(r) \/ Quiet(r)
  PROVE  CommitsOnce'
<1>1. \A q \in Runs \ {r} : pc'[q] = pc[q]
  BY DEF OthersSame, SameRun
<1>2. CASE Quiet(r)
  <2>1. pc[r] # "done" /\ pc'[r] # "done" /\ commits' = commits
    BY <1>2 DEF Quiet, Ended
  <2>2. \A q \in Runs : pc'[q] = "done" <=> pc[q] = "done"
    BY <1>1, <2>1
  <2> QED BY <2>1, <2>2 DEF IInv, CommitsOnce
<1>3. CASE Commit(r)
  <2>1. /\ pc[r] # "done" /\ pc'[r] = "done"
        /\ commits' = Append(commits, r) /\ commits \in Seq(Runs)
    BY <1>3 DEF Commit, IInv, Shape
  <2>2. /\ Len(commits) \in Nat /\ DOMAIN commits = 1..Len(commits)
        /\ DOMAIN commits' = 1..Len(commits) + 1
        /\ \A n \in 1..Len(commits) : commits'[n] = commits[n]
        /\ commits'[Len(commits) + 1] = r
    BY <2>1, AppendProperties
  <2>3. \A n \in DOMAIN commits : commits[n] # r
    BY <2>1 DEF IInv, CommitsOnce
  <2>4. ASSUME NEW q \in Runs
        PROVE  pc'[q] = "done" <=> \E n \in DOMAIN commits' : commits'[n] = q
    <3>1. CASE q = r
      BY <2>1, <2>2, <3>1
    <3>2. CASE q # r
      <4>1. pc'[q] = "done" <=> \E n \in DOMAIN commits : commits[n] = q
        BY <1>1, <3>2 DEF IInv, CommitsOnce
      <4>2. \A n \in DOMAIN commits' :
              commits'[n] = q => n \in DOMAIN commits /\ commits[n] = q
        BY <2>2, <3>2
      <4>3. \A n \in DOMAIN commits : n \in DOMAIN commits' /\ commits'[n] = commits[n]
        BY <2>2
      <4> QED BY <4>1, <4>2, <4>3
    <3> QED BY <3>1, <3>2
  <2>5. ASSUME NEW m \in DOMAIN commits', NEW n \in DOMAIN commits',
               commits'[m] = commits'[n]
        PROVE  m = n
    <3>1. CASE m \in DOMAIN commits /\ n \in DOMAIN commits
      BY <2>2, <2>5, <3>1 DEF IInv, CommitsOnce
    <3>2. CASE m \notin DOMAIN commits \/ n \notin DOMAIN commits
      BY <2>2, <2>3, <2>5, <3>2
    <3> QED BY <3>1, <3>2
  <2> QED BY <2>4, <2>5 DEF CommitsOnce
<1> QED BY <1>2, <1>3

(* The row of the tables that a step leaves alone stays reported.           *)
LEMMA ReportedStays ==
  ASSUME IInv, NEW r \in Runs, OthersSame(r), NEW k \in Keys, table'[k] = table[k],
         pc[r] # "done"
  PROVE  Reported(k)'
<1> SUFFICES ASSUME Written(table[k])
             PROVE  Reported(k)'
  BY DEF Reported, Written
<1>1. PICK row : row = table[k]
  OBVIOUS
<1>2. Reported(k)
  BY DEF IInv, UpsertsAreReported
<1>3. row.run \in Runs \ {r}
  <2>1. row \in StatsRows /\ row.run # NONE
    BY <1>1 DEF IInv, Shape, Written
  <2>2. row.run \in Runs
    BY <2>1 DEF StatsRows
  <2> QED BY <1>1, <1>2, <2>2 DEF Reported
<1>4. /\ pc'[row.run] = pc[row.run] /\ results'[row.run] = results[row.run]
      /\ command' = command /\ pages' = pages
  BY <1>3 DEF OthersSame, SameRun, inputs
<1> QED BY <1>1, <1>2, <1>4 DEF Reported, LoadedAt, LoadedEntry

(* A commit brings reported rows into the tables, and takes none back.      *)
LEMMA RowsStayReported ==
  ASSUME IInv, NEW r \in Runs, Shape', OthersSame(r), Commit(r) \/ Quiet(r)
  PROVE  UpsertsAreReported'
<1> SUFFICES ASSUME NEW k \in Keys
             PROVE  Reported(k)'
  BY DEF UpsertsAreReported
<1>1. CASE Quiet(r)
  BY <1>1, ReportedStays DEF Quiet, Ended
<1>2. CASE Commit(r)
  <2>1. /\ pc[r] = "page" /\ pc'[r] = "done" /\ results'[r] = results[r]
        /\ table'[k] = View(r, k) /\ UNCHANGED inputs
    BY <1>2 DEF Commit, IInv, Shape
  <2>2. CASE work[r][k] = Clean
    BY <2>1, <2>2, ReportedStays DEF View
  <2>3. CASE work[r][k] # Clean
    <3>1. PICK row : row = work[r][k]
      OBVIOUS
    <3>2. Past(r, row, k)
      BY <2>1, <2>3, <3>1 DEF IInv, RunInv, WorkIsReported, Present
    <3>3. Past(r, row, k)'
      BY <2>1, <3>2, PastStays DEF IInv
    <3>4. table'[k] = row
      BY <2>1, <2>3, <3>1 DEF View
    <3>5. row.run = r /\ \E n \in DOMAIN results'[r][row.page].entries :
                           LoadedAt(r, row.page, n, k)'
      BY <3>3 DEF Past
    <3> QED BY <2>1, <3>4, <3>5 DEF Reported, LoadedAt, LoadedEntry
  <2> QED BY <2>2, <2>3
<1> QED BY <1>1, <1>2

-----------------------------------------------------------------------------
(* IInv holds at first.                                                     *)
LEMMA InitIInv ==
  ASSUME Init
  PROVE  IInv
<1> USE DEF Init, inputs
<1>1. pages \in [Runs -> Seq(Pages)]
  <2>1. \A c \in Commands : PageLists[c] \subseteq Seq(Pages)
    BY StatsLoadAssumption DEF Pages
  <2>2. \A q \in Runs : pages[q] \in Seq(Pages)
    BY <2>1
  <2> QED BY <2>2
<1>2. Shape
  BY <1>1, RowsAreTyped DEF Shape
<1>3. ASSUME NEW r \in Runs
      PROVE  RunInv(r)
  <2>1. Position(r)
    <3>1. pages[r] \in Seq(Pages)
      BY <1>1
    <3>2. Len(pages[r]) \in Nat
      BY <3>1
    <3> QED BY <3>2 DEF Position, InPage
  <2>2. WorkIsReported(r) /\ MarkIsReported(r) /\ NothingOpen(r)
    BY RowsAreTyped DEF WorkIsReported, MarkIsReported, NothingOpen, InPage
  <2> QED BY <2>1, <2>2 DEF RunInv
<1>4. CommitsOnce
  BY DEF CommitsOnce
<1>5. UpsertsAreReported
  BY DEF UpsertsAreReported, Reported, Written, NoRow, Blank
<1> QED BY <1>2, <1>3, <1>4, <1>5 DEF IInv

(* Every step keeps IInv.                                                   *)
LEMMA StepIInv ==
  ASSUME IInv, [Next]_vars
  PROVE  IInv'
<1>1. ASSUME NEW r \in Runs, Step(r)
      PROVE  IInv'
  <2>1. Shape' /\ OthersSame(r) /\ RunInv(r)' /\ (Commit(r) \/ Quiet(r))
    BY <1>1, RunStep
  <2>2. \A q \in Runs : RunInv(q)'
    <3> SUFFICES ASSUME NEW q \in Runs
                 PROVE  RunInv(q)'
      OBVIOUS
    <3>1. CASE q = r
      BY <2>1, <3>1
    <3>2. CASE q # r
      BY <2>1, <3>2, Frame DEF IInv, OthersSame
    <3> QED BY <3>1, <3>2
  <2> QED BY <2>1, <2>2, CommitsStayOnce, RowsStayReported DEF IInv
<1>2. CASE LoadCore \/ UNCHANGED vars
  <2>1. /\ UNCHANGED <<inputs, table, session, scope, pc, cur, results, history>>
        /\ IInv => core' \subseteq TeamPages
    BY <1>2 DEF LoadCore, vars, IInv, Shape
  <2>2. Shape'
    BY <2>1 DEF IInv, Shape, inputs, session, history
  <2>3. \A q \in Runs : RunInv(q)'
    BY <2>1, Frame DEF IInv, SameRun, session
  <2>4. CommitsOnce'
    BY <2>1 DEF IInv, CommitsOnce, history
  <2>5. UpsertsAreReported'
    BY <2>1 DEF IInv, UpsertsAreReported, Reported, Written, LoadedAt, LoadedEntry, inputs
  <2> QED BY <2>2, <2>3, <2>4, <2>5 DEF IInv
<1> QED BY <1>1, <1>2 DEF Next

(* The shape of a load: where each run stands, that a run that is over has  *)
(* nothing open, and that exactly the runs that committed are done.         *)
THEOREM TypeCorrect == Spec => []TypeOK
<1>1. ASSUME IInv
      PROVE  TypeOK
  <2>1. \A r \in Runs :
          /\ pc[r] \in {"idle", "page", "prepare", "write", "flush"} \union Ended
          /\ cur[r] \in 1..Len(pages[r]) + 1
          /\ Len(results[r]) = cur[r] - 1
          /\ pc[r] = "flush" => Pending(r) # {}
          /\ pc[r] \in Ended => work[r] = Untouched
    BY <1>1 DEF IInv, Shape, RunInv, Position, NothingOpen
  <2>2. {commits[n] : n \in DOMAIN commits} = {r \in Runs : pc[r] = "done"}
    <3>1. \A n \in DOMAIN commits : commits[n] \in Runs
      BY <1>1 DEF IInv, Shape
    <3> QED BY <1>1, <3>1 DEF IInv, CommitsOnce
  <2> QED BY <1>1, <2>1, <2>2 DEF IInv, Shape, TypeOK
<1> QED BY <1>1, InitIInv, StepIInv, PTL DEF Spec

-----------------------------------------------------------------------------
(***************************************************************************)
(* What is reported as loaded is in the database.                          *)
(***************************************************************************)

(* Nothing that a run reports as loaded is missing from its transaction,    *)
(* or from the savepoint to which the current page may be rolled back.      *)
Keeps(row, r, i) == row.run = r /\ row.page >= i

WorkIsKept(r) ==
  pc[r] \notin Ended => \A k \in Keys :
    /\ \A i \in DOMAIN results[r] : \A n \in DOMAIN results[r][i].entries :
         LoadedAt(r, i, n, k) => Keeps(work[r][k], r, i)
    /\ pc[r] \in {"write", "flush"} =>
         \A n \in DOMAIN ent[r] : LoadedNow(r, n, k) => Keeps(work[r][k], r, cur[r])

MarkIsKept(r) ==
  InPage(r) => \A k \in Keys :
    \A i \in DOMAIN results[r] : \A n \in DOMAIN results[r][i].entries :
      LoadedAt(r, i, n, k) => Keeps(mark[r][k], r, i)

Kept(r) == WorkIsKept(r) /\ MarkIsKept(r)

(* A committed run's loaded row was upserted last by that run or a later    *)
(* one.                                                                     *)
Persists(q, k) ==
  \A i \in DOMAIN results[q] : \A n \in DOMAIN results[q][i].entries :
    LoadedAt(q, i, n, k) => AtLeast(table[k], q, i)

UpsertsPersist ==
  \A q \in Runs : pc[q] = "done" => \A k \in Keys : Persists(q, k)

(* The inductive invariant of what is kept.                                 *)
KInv ==
  /\ IInv
  /\ \A r \in Runs : Kept(r)
  /\ UpsertsPersist

-----------------------------------------------------------------------------
(* One run's steps keep its transaction.                                    *)

(* Every loaded row of a report stays where it is when the report does.     *)
LEMMA KeepSame ==
  ASSUME UNCHANGED inputs, NEW r \in Runs, Kept(r), InPage(r),
         work'[r] = work[r], mark'[r] = mark[r], results'[r] = results[r],
         cur'[r] = cur[r], pc'[r] \in {"prepare", "write", "flush"},
         pc[r] \in {"write", "flush"} \/ \A n \in DOMAIN ent'[r] : ent'[r][n].status # "loaded",
         pc[r] \in {"write", "flush"} =>
           \A n \in DOMAIN ent'[r] : ent'[r][n].status = "loaded" =>
             n \in DOMAIN ent[r] /\ ent[r][n].status = "loaded"
  PROVE  Kept(r)'
<1> USE DEF Kept, inputs
<1>1. WorkIsKept(r)'
  <2>1. ASSUME NEW k \in Keys, NEW i \in DOMAIN results'[r],
               NEW n \in DOMAIN results'[r][i].entries, LoadedAt(r, i, n, k)'
        PROVE  Keeps(work'[r][k], r, i)
    BY <2>1 DEF WorkIsKept, InPage, Ended, LoadedAt, LoadedEntry
  <2>2. ASSUME NEW k \in Keys, NEW n \in DOMAIN ent'[r], LoadedNow(r, n, k)'
        PROVE  Keeps(work'[r][k], r, cur'[r])
    BY <2>2 DEF WorkIsKept, InPage, Ended, LoadedNow, Key, Row
  <2> QED BY <2>1, <2>2 DEF WorkIsKept, Keeps
<1>2. MarkIsKept(r)'
  BY DEF MarkIsKept, InPage, LoadedAt, LoadedEntry, Keeps
<1> QED BY <1>1, <1>2

(* A run that has not started has reported nothing.                         *)
LEMMA KeepStart ==
  ASSUME Shape, NEW r \in Runs, Kept(r), Start(r)
  PROVE  Kept(r)'
<1> USE DEF Start, inputs, session, history, Kept
<1>1. /\ pc[r] = "idle" /\ pc'[r] \in {"refused", "page"}
      /\ work' = work /\ results' = results
  BY DEF Shape
<1>2. WorkIsKept(r)'
  BY <1>1 DEF WorkIsKept, Ended, LoadedAt, LoadedEntry, Keeps
<1>3. MarkIsKept(r)'
  BY <1>1 DEF MarkIsKept, InPage
<1> QED BY <1>2, <1>3

(* The savepoint keeps what the transaction kept.                           *)
LEMMA KeepOpenPage ==
  ASSUME Shape, NEW r \in Runs, Kept(r), OpenPage(r)
  PROVE  Kept(r)'
<1> USE DEF OpenPage, AtPage, inputs, session, history, Kept
<1>1. /\ pc[r] = "page" /\ pc'[r] = "prepare"
      /\ work' = work /\ results' = results /\ mark'[r] = work[r]
  BY DEF Shape
<1>2. WorkIsKept(r)'
  BY <1>1 DEF WorkIsKept, Ended, LoadedAt, LoadedEntry, Keeps
<1>3. MarkIsKept(r)'
  BY <1>1 DEF MarkIsKept, WorkIsKept, Ended, InPage, LoadedAt, LoadedEntry, Keeps
<1> QED BY <1>2, <1>3

(* Preparing a row takes nothing out of the transaction.                    *)
LEMMA KeepPrepareRow ==
  ASSUME Shape, NEW r \in Runs, RunInv(r), RunInv(r)', Kept(r), PrepareRow(r)
  PROVE  Kept(r)'
<1>1. /\ pc[r] = "prepare" /\ pc'[r] = "prepare"
      /\ UNCHANGED <<inputs, work, mark, results, cur>>
  BY DEF PrepareRow
<1>2. \A n \in DOMAIN ent'[r] : ent'[r][n].status # "loaded"
  BY <1>1 DEF RunInv, Position
<1> QED BY <1>1, <1>2, KeepSame DEF InPage

(* Nor does the rejection of duplicates.                                    *)
LEMMA KeepRejectDuplicates ==
  ASSUME Shape, NEW r \in Runs, RunInv(r), Kept(r), RejectDuplicates(r)
  PROVE  Kept(r)'
<1>1. /\ pc[r] = "prepare" /\ pc'[r] = "write"
      /\ UNCHANGED <<inputs, work, mark, results, cur>>
  BY DEF RejectDuplicates, Shape
<1>2. \A n \in DOMAIN ent'[r] :
        n \in DOMAIN ent[r] /\ ent'[r][n] \in {ent[r][n], Fail("duplicate_stats_grain")}
  BY DEF RejectDuplicates, Shape
<1>3. \A n \in DOMAIN ent'[r] : ent'[r][n].status # "loaded"
  BY <1>1, <1>2 DEF RunInv, Position, Fail
<1> QED BY <1>1, <1>3, KeepSame DEF InPage

(* Nor does the SELECT.                                                     *)
LEMMA KeepSelectRow ==
  ASSUME Shape, NEW r \in Runs, Kept(r), SelectRow(r)
  PROVE  Kept(r)'
<1>1. /\ pc[r] = "write" /\ pc'[r] = "flush"
      /\ UNCHANGED <<inputs, work, mark, ent, results, cur>>
  BY DEF SelectRow, Shape
<1> QED BY <1>1, KeepSame DEF InPage

(* Nor does a row that fails: only its own savepoint is rolled back.        *)
LEMMA KeepRowFails ==
  ASSUME Shape, NEW r \in Runs, RunInv(r), Kept(r), AtFlush(r), RowFails(r)
  PROVE  Kept(r)'
<1>1. Pending(r) # {} /\ WriteFailed \in Entries /\ WriteFailed.status # "loaded"
  BY DEF RunInv, Position, AtFlush, WriteFailed, Fail, Entries, Reasons
<1>2. /\ DOMAIN ent'[r] = DOMAIN ent[r]
      /\ ent'[r][Next1(r)].status # "loaded"
      /\ \A m \in DOMAIN ent[r] \ {Next1(r)} : ent'[r][m] = ent[r][m]
  BY <1>1, SettleFacts DEF RowFails
<1>3. /\ pc[r] = "flush" /\ pc'[r] = "write"
      /\ UNCHANGED <<inputs, work, mark, results, cur>>
  BY DEF AtFlush, RowFails, Settle, Shape
<1> QED BY <1>2, <1>3, KeepSame DEF InPage

(* The row that is written is as late as any row of the report.             *)
LEMMA KeepWriteRow ==
  ASSUME Shape, NEW r \in Runs, RunInv(r), Kept(r), WriteRow(r)
  PROVE  Kept(r)'
<1> USE DEF inputs, Kept
<1> DEFINE n == Next1(r)
           new == Upserted(r, n)
<1>1. /\ pc[r] = "flush" /\ pc'[r] = "write"
      /\ UNCHANGED <<inputs, mark, results, cur>>
  BY DEF WriteRow, AtFlush, Settle, Shape
<1>2. Pending(r) # {} /\ [status |-> "loaded", reason |-> "loaded"] \in Entries
  BY <1>1 DEF RunInv, Position, Entries, Reasons
<1>3. /\ DOMAIN ent'[r] = DOMAIN ent[r]
      /\ \A m \in DOMAIN ent[r] \ {n} : ent'[r][m] = ent[r][m]
  BY <1>2, SettleFacts DEF WriteRow
<1>4. Row(r, n) \in Rows /\ Key(r, n) \in Keys
  BY <1>1, <1>2, NextIsPending, RowHasKey DEF RunInv, InPage
<1>5. new \in StatsRows /\ new.run = r /\ new.page = cur[r]
  BY <1>1, <1>4, UpsertedIsTyped DEF RunInv, InPage
<1>6. /\ work'[r][Key(r, n)] = new
      /\ \A k \in Keys \ {Key(r, n)} : work'[r][k] = work[r][k]
  BY <1>4, <1>5 DEF WriteRow, Shape
<1>7. cur[r] \in Nat /\ \A i \in DOMAIN results[r] : i \in Nat /\ cur[r] >= i
  BY DEF RunInv, Position, Shape
<1> HIDE DEF n, new
<1>8. WorkIsKept(r)'
  <2>1. ASSUME NEW k \in Keys, NEW i \in DOMAIN results'[r],
               NEW m \in DOMAIN results'[r][i].entries, LoadedAt(r, i, m, k)'
        PROVE  Keeps(work'[r][k], r, i)
    <3>1. CASE k = Key(r, n)
      BY <1>1, <1>5, <1>6, <1>7, <3>1 DEF Keeps
    <3>2. CASE k # Key(r, n)
      BY <1>1, <1>6, <2>1, <3>2 DEF WorkIsKept, Ended, LoadedAt, LoadedEntry
    <3> QED BY <3>1, <3>2
  <2>2. ASSUME NEW k \in Keys, NEW m \in DOMAIN ent'[r], LoadedNow(r, m, k)'
        PROVE  Keeps(work'[r][k], r, cur'[r])
    <3>1. CASE k = Key(r, n)
      BY <1>1, <1>5, <1>6, <1>7, <3>1 DEF Keeps
    <3>2. CASE k # Key(r, n)
      <4>1. m # n /\ LoadedNow(r, m, k)
        BY <1>1, <1>3, <2>2, <3>2 DEF LoadedNow, Key, Row
      <4> QED BY <1>1, <1>3, <1>6, <3>2, <4>1 DEF WorkIsKept, Ended
    <3> QED BY <3>1, <3>2
  <2> QED BY <1>1, <2>1, <2>2 DEF WorkIsKept, Keeps
<1>9. MarkIsKept(r)'
  BY <1>1 DEF MarkIsKept, InPage, LoadedAt, LoadedEntry, Keeps
<1> QED BY <1>8, <1>9

(* Closing a page: its rows move into the report; a page that failed as a   *)
(* whole takes its savepoint back and reports no row.                       *)
LEMMA KeepClosing ==
  ASSUME Shape, NEW r \in Runs, RunInv(r), Kept(r),
         RejectPage(r) \/ SkipPage(r) \/ PageFault(r) \/ ClosePage(r)
  PROVE  Kept(r)'
<1> USE DEF inputs, Kept
<1>a. PICK e \in PageEntries : Closes(r, e)
  BY ClosingIsReport
<1>1. /\ Report(r, e.status, e.entries)
      /\ \/ pc[r] = "write" /\ e.entries = ent[r] /\ work'[r] = work[r]
         \/ pc[r] = "prepare" /\ e.entries = <<>> /\ work'[r] = mark[r]
         \/ pc[r] = "page" /\ e.entries = <<>> /\ work'[r] = work[r]
  BY <1>a DEF Closes, Shape
<1>2. /\ DOMAIN results'[r] = 1..cur[r]
      /\ \A i \in DOMAIN results[r] : results'[r][i] = results[r][i]
      /\ \A i \in DOMAIN results'[r] : i # cur[r] => i \in DOMAIN results[r]
      /\ results'[r][cur[r]] = e
      /\ pc'[r] = "page"
  BY <1>1, ReportFacts
<1>3. UNCHANGED <<command, pages>>
  BY <1>a DEF Closes
<1>4. ASSUME NEW k \in Keys, NEW i \in DOMAIN results'[r],
             NEW n \in DOMAIN results'[r][i].entries, LoadedAt(r, i, n, k)'
      PROVE  Keeps(work'[r][k], r, i)
  <2>1. CASE i = cur[r]
    <3>1. e.entries[n].status = "loaded" /\ n \in DOMAIN e.entries
      BY <1>2, <1>4, <2>1 DEF LoadedAt, LoadedEntry
    <3>2. pc[r] = "write" /\ e.entries = ent[r] /\ work'[r] = work[r]
      BY <1>1, <3>1
    <3>3. LoadedNow(r, n, k)
      BY <1>3, <1>4, <2>1, <3>1, <3>2 DEF LoadedNow, LoadedAt, Key, Row
    <3> QED BY <2>1, <3>1, <3>2, <3>3 DEF WorkIsKept, Ended
  <2>2. CASE i # cur[r]
    <3>1. i \in DOMAIN results[r] /\ n \in DOMAIN results[r][i].entries
      BY <1>2, <2>2
    <3>2. LoadedAt(r, i, n, k)
      BY <1>2, <1>3, <1>4, <3>1 DEF LoadedAt, LoadedEntry
    <3> QED BY <1>1, <3>1, <3>2 DEF WorkIsKept, MarkIsKept, InPage, Ended
  <2> QED BY <2>1, <2>2
<1>5. WorkIsKept(r)'
  BY <1>2, <1>4 DEF WorkIsKept, Keeps
<1>6. MarkIsKept(r)'
  BY <1>2 DEF MarkIsKept, InPage
<1> QED BY <1>5, <1>6

(* Another run's step does not reach this run's transaction.                *)
LEMMA KeepOther ==
  ASSUME UNCHANGED inputs, NEW q \in Runs, Kept(q), SameRun(q)
  PROVE  Kept(q)'
<1> USE DEF SameRun, inputs, Kept
<1>1. WorkIsKept(q)'
  BY DEF WorkIsKept, LoadedAt, LoadedEntry, LoadedNow, Key, Row, Keeps
<1>2. MarkIsKept(q)'
  BY DEF MarkIsKept, InPage, LoadedAt, LoadedEntry, Keeps
<1> QED BY <1>1, <1>2

(* Each step of a run keeps what it has reported as loaded.                 *)
LEMMA KeepRun ==
  ASSUME IInv, NEW r \in Runs, Kept(r), RunInv(r)', Step(r)
  PROVE  Kept(r)'
<1> USE DEF IInv
<1>1. CASE Start(r) \/ OpenPage(r)
  BY <1>1, KeepStart, KeepOpenPage
<1>2. CASE PrepareRow(r) \/ RejectDuplicates(r) \/ SelectRow(r)
  BY <1>2, KeepPrepareRow, KeepRejectDuplicates, KeepSelectRow
<1>3. CASE WriteRow(r) \/ (AtFlush(r) /\ RowFails(r))
  BY <1>3, KeepWriteRow, KeepRowFails
<1>4. CASE RejectPage(r) \/ SkipPage(r) \/ PageFault(r) \/ ClosePage(r)
  BY <1>4, KeepClosing
<1>5. CASE Commit(r) \/ Crash(r)
  <2>1. pc'[r] \in {"done", "crashed"}
    BY <1>5 DEF Commit, Crash, Shape
  <2> QED BY <2>1 DEF Kept, WorkIsKept, MarkIsKept, InPage, Ended
<1> QED
  BY <1>1, <1>2, <1>3, <1>4, <1>5
  DEF Step, UniqueViolation, DeadlockVictim, StatementFault

-----------------------------------------------------------------------------
(* The place of a committed run in the order of the commits.                *)
LEMMA Placed ==
  ASSUME IInv, NEW q \in Runs, pc[q] = "done"
  PROVE  /\ CommittedAt(q) \in DOMAIN commits /\ commits[CommittedAt(q)] = q
         /\ \A n \in DOMAIN commits : commits[n] = q => n = CommittedAt(q)
<1>1. PICK n \in DOMAIN commits : commits[n] = q
  BY DEF IInv, CommitsOnce
<1>2. CommittedAt(q) \in DOMAIN commits /\ commits[CommittedAt(q)] = q
  BY <1>1 DEF CommittedAt
<1> QED BY <1>2 DEF IInv, CommitsOnce

(* Later commits do not change the place of an earlier one.                 *)
LEMMA PlaceStays ==
  ASSUME IInv, IInv', NEW q \in Runs, pc[q] = "done", pc'[q] = "done",
         commits' = commits \/ \E r \in Runs : commits' = Append(commits, r)
  PROVE  CommittedAt(q)' = CommittedAt(q)
<1>1. CommittedAt(q) \in DOMAIN commits /\ commits[CommittedAt(q)] = q
  BY Placed
<1>2. /\ DOMAIN commits \subseteq DOMAIN commits'
      /\ \A n \in DOMAIN commits : commits'[n] = commits[n]
  <2>1. commits \in Seq(Runs)
    BY DEF IInv, Shape
  <2>2. CASE commits' = commits
    BY <2>2
  <2>3. ASSUME NEW r \in Runs, commits' = Append(commits, r)
        PROVE  /\ DOMAIN commits \subseteq DOMAIN commits'
               /\ \A n \in DOMAIN commits : commits'[n] = commits[n]
    BY <2>1, <2>3, AppendProperties
  <2> QED BY <2>2, <2>3
<1>3. /\ CommittedAt(q)' \in DOMAIN commits' /\ commits'[CommittedAt(q)'] = q
      /\ \A n \in DOMAIN commits' : commits'[n] = q => n = CommittedAt(q)'
  <2>1. PICK n \in DOMAIN commits' : commits'[n] = q
    BY DEF IInv, CommitsOnce
  <2>2. CommittedAt(q)' \in DOMAIN commits' /\ commits'[CommittedAt(q)'] = q
    BY <2>1 DEF CommittedAt
  <2> QED BY <2>2 DEF IInv, CommitsOnce
<1> QED BY <1>1, <1>2, <1>3

(* A reported row has a key.                                                *)
LEMMA KeyOfReported ==
  ASSUME Shape, NEW q \in Runs, Position(q), NEW i \in DOMAIN results[q],
         NEW n \in DOMAIN results[q][i].entries
  PROVE  KeyOf(command[q], pages[q][i].rows[n]) \in Keys
<1>1. i \in 1..Len(pages[q])
  BY DEF Shape, Position
<1>2. pages[q][i] \in Pages /\ results[q][i] \in PageEntries
  BY <1>1 DEF Shape
<1>3. n \in 1..Len(pages[q][i].rows)
  BY <1>2 DEF Position, PageEntries, Pages
<1>4. pages[q][i].rows[n] \in Rows
  BY <1>2, <1>3 DEF Pages
<1> QED BY <1>4 DEF Keys, Shape

(* A row that names a run names one that committed.                         *)
LEMMA WriterCommitted ==
  ASSUME IInv, NEW k \in Keys, Written(table[k])
  PROVE  table[k].run \in Runs /\ pc[table[k].run] = "done"
<1>1. table[k] \in StatsRows /\ table[k].run # NONE
  BY DEF IInv, Shape, Written
<1> QED BY <1>1 DEF IInv, UpsertsAreReported, Reported, StatsRows

(* A step that leaves a row alone takes nothing back.                       *)
LEMMA PersistsStays ==
  ASSUME IInv, IInv', UNCHANGED inputs, NEW q \in Runs, NEW k \in Keys,
         pc[q] = "done", Persists(q, k), table'[k] = table[k],
         results'[q] = results[q],
         \A p \in Runs : pc[p] = "done" => pc'[p] = "done",
         commits' = commits \/ \E r \in Runs : commits' = Append(commits, r)
  PROVE  Persists(q, k)'
<1> SUFFICES ASSUME NEW i \in DOMAIN results[q], NEW n \in DOMAIN results[q][i].entries,
                    AtLeast(table[k], q, i)
             PROVE  AtLeast(table[k], q, i)'
  BY DEF Persists, LoadedAt, LoadedEntry, inputs
<1>1. PICK p : p = table[k].run
  OBVIOUS
<1>2. p \in Runs /\ pc[p] = "done" /\ pc'[p] = "done" /\ pc'[q] = "done"
  BY <1>1, WriterCommitted DEF AtLeast
<1>3. CommittedAt(p)' = CommittedAt(p) /\ CommittedAt(q)' = CommittedAt(q)
  BY <1>2, PlaceStays
<1>4. CASE p = q
  BY <1>1, <1>4 DEF AtLeast, Written
<1>5. CASE p # q
  <2>1. CommittedAt(p)' > CommittedAt(q)'
    BY <1>1, <1>3, <1>5 DEF AtLeast
  <2>2. table'[k].run = p /\ p # NONE
    BY <1>1 DEF AtLeast, Written
  <2>3. PICK row : row = table'[k]
    OBVIOUS
  <2> QED BY <1>5, <2>1, <2>2, <2>3 DEF AtLeast, Written
<1> QED BY <1>4, <1>5

(* A commit brings in what its run loaded, and replaces only earlier rows.  *)
LEMMA CommitPersists ==
  ASSUME KInv, IInv', NEW r \in Runs, OthersSame(r), Commit(r)
  PROVE  UpsertsPersist'
<1> USE DEF KInv
<1>1. /\ pc[r] = "page" /\ pc'[r] = "done" /\ results' = results
      /\ commits' = Append(commits, r) /\ UNCHANGED inputs
      /\ \A k \in Keys : table'[k] = View(r, k)
      /\ \A q \in Runs \ {r} : pc'[q] = pc[q]
  BY DEF Commit, IInv, Shape
<1>2. \A k \in Keys : work[r][k] # Clean => work[r][k].run = r
  BY DEF IInv, RunInv, WorkIsReported, Past, Present
<1>3. ASSUME NEW q \in Runs, pc[q] = "done", NEW k \in Keys
      PROVE  Persists(q, k)'
  <2>1. Persists(q, k)
    BY <1>3 DEF UpsertsPersist
  <2>2. CASE work[r][k] = Clean
    <3>1. table'[k] = table[k]
      BY <1>1, <2>2 DEF View
    <3> QED BY <1>1, <1>3, <2>1, <3>1, PersistsStays
  <2>3. CASE work[r][k] # Clean
    <3>1. table'[k] = work[r][k] /\ table'[k].run = r /\ r # NONE
      BY <1>1, <1>2, <2>3, StatsLoadAssumption DEF View
    <3>2. CommittedAt(q)' = CommittedAt(q) /\ CommittedAt(q) \in DOMAIN commits
      BY <1>1, <1>3, Placed, PlaceStays
    <3>3. CommittedAt(r)' = Len(commits) + 1
      <4>1. /\ commits \in Seq(Runs) /\ Len(commits) \in Nat
            /\ Len(commits) + 1 \in DOMAIN commits' /\ commits'[Len(commits) + 1] = r
        BY <1>1, AppendProperties DEF IInv, Shape
      <4>2. CommittedAt(r)' \in DOMAIN commits' /\ commits'[CommittedAt(r)'] = r
        BY <4>1 DEF CommittedAt
      <4> QED BY <4>1, <4>2 DEF IInv, CommitsOnce
    <3>4. CommittedAt(r)' > CommittedAt(q)' /\ r # q
      <4>1. commits \in Seq(Runs)
        BY DEF IInv, Shape
      <4>2. CommittedAt(q) \in Nat /\ CommittedAt(q) <= Len(commits)
        BY <3>2, <4>1
      <4>3. Len(commits) \in Nat
        BY <4>1
      <4> QED BY <1>1, <1>3, <3>2, <3>3, <4>2, <4>3
    <3>5. ASSUME NEW i
          PROVE  AtLeast(table[k], q, i)'
      BY <3>1, <3>4 DEF AtLeast, Written
    <3> QED BY <3>5 DEF Persists
  <2> QED BY <2>2, <2>3
<1>4. ASSUME NEW k \in Keys
      PROVE  Persists(r, k)'
  <2> SUFFICES ASSUME NEW i \in DOMAIN results[r], NEW n \in DOMAIN results[r][i].entries,
                      LoadedAt(r, i, n, k)
               PROVE  AtLeast(table[k], r, i)'
    BY <1>1 DEF Persists, LoadedAt, LoadedEntry, inputs
  <2>1. work[r][k].run = r /\ work[r][k].page >= i
    BY <1>1 DEF Kept, WorkIsKept, Ended, Keeps
  <2>2. r # NONE /\ work[r][k] # Clean
    BY <2>1, StatsLoadAssumption DEF Clean, Blank
  <2>3. table'[k] = work[r][k]
    BY <1>1, <2>2 DEF View
  <2> QED BY <2>1, <2>2, <2>3 DEF AtLeast, Written
<1>5. ASSUME NEW q \in Runs, pc'[q] = "done", NEW k \in Keys
      PROVE  Persists(q, k)'
  BY <1>1, <1>3, <1>4, <1>5
<1>6. ASSUME NEW q \in Runs, NEW i \in DOMAIN results'[q],
             NEW n \in DOMAIN results'[q][i].entries
      PROVE  KeyOf(command'[q], pages'[q][i].rows[n]) \in Keys
  BY <1>1, KeyOfReported DEF IInv, RunInv, inputs
<1> QED BY <1>5, <1>6 DEF UpsertsPersist

(* Without a commit the tables keep what they have.                         *)
LEMMA QuietPersists ==
  ASSUME KInv, IInv', UNCHANGED <<inputs, table, commits>>,
         \A p \in Runs : pc'[p] = "done" <=> pc[p] = "done",
         \A p \in Runs : pc[p] = "done" => results'[p] = results[p]
  PROVE  UpsertsPersist'
<1> USE DEF KInv
<1>1. ASSUME NEW q \in Runs, pc[q] = "done", NEW k \in Keys
      PROVE  Persists(q, k)'
  <2>1. Persists(q, k)
    BY <1>1 DEF UpsertsPersist
  <2> QED BY <1>1, <2>1, PersistsStays
<1>2. ASSUME NEW q \in Runs, pc[q] = "done", NEW i \in DOMAIN results'[q],
             NEW n \in DOMAIN results'[q][i].entries
      PROVE  KeyOf(command'[q], pages'[q][i].rows[n]) \in Keys
  BY <1>2, KeyOfReported DEF IInv, RunInv, inputs
<1> QED BY <1>1, <1>2 DEF UpsertsPersist

-----------------------------------------------------------------------------
(* KInv holds at first.                                                     *)
LEMMA InitKInv ==
  ASSUME Init
  PROVE  KInv
<1>1. \A r \in Runs : Kept(r)
  BY DEF Init, Kept, WorkIsKept, MarkIsKept, InPage
<1>2. UpsertsPersist
  BY DEF Init, UpsertsPersist
<1> QED BY <1>1, <1>2, InitIInv DEF KInv

(* Every step keeps KInv.                                                   *)
LEMMA StepKInv ==
  ASSUME KInv, [Next]_vars
  PROVE  KInv'
<1> USE DEF KInv
<1>1. IInv'
  BY StepIInv
<1>2. ASSUME NEW r \in Runs, Step(r)
      PROVE  KInv'
  <2>1. OthersSame(r) /\ RunInv(r)' /\ (Commit(r) \/ Quiet(r))
    BY <1>2, RunStep
  <2>2. \A q \in Runs : Kept(q)'
    <3> SUFFICES ASSUME NEW q \in Runs
                 PROVE  Kept(q)'
      OBVIOUS
    <3>1. CASE q = r
      BY <1>2, <2>1, <3>1, KeepRun
    <3>2. CASE q # r
      BY <2>1, <3>2, KeepOther DEF OthersSame
    <3> QED BY <3>1, <3>2
  <2>3. CASE Commit(r)
    BY <1>1, <2>1, <2>2, <2>3, CommitPersists
  <2>4. CASE Quiet(r)
    <3>1. \A p \in Runs : pc'[p] = "done" <=> pc[p] = "done"
      BY <2>1, <2>4 DEF Quiet, OthersSame, SameRun, Ended
    <3>2. \A p \in Runs : pc[p] = "done" => results'[p] = results[p]
      BY <2>1, <2>4 DEF Quiet, OthersSame, SameRun, Ended
    <3>3. UpsertsPersist'
      BY <1>1, <2>1, <2>4, <3>1, <3>2, QuietPersists DEF Quiet, OthersSame
    <3> QED BY <1>1, <2>2, <3>3
  <2> QED BY <2>1, <2>3, <2>4
<1>3. CASE LoadCore \/ UNCHANGED vars
  <2>1. UNCHANGED <<inputs, table, session, scope, pc, cur, results, history>>
    BY <1>3 DEF LoadCore, vars
  <2>2. \A q \in Runs : Kept(q)'
    BY <2>1, KeepOther DEF SameRun, session
  <2>3. UpsertsPersist'
    BY <1>1, <2>1, QuietPersists DEF history
  <2> QED BY <1>1, <2>2, <2>3
<1> QED BY <1>2, <1>3 DEF Next

-----------------------------------------------------------------------------
(***************************************************************************)
(* Duplicates, values, and the exit code.                                  *)
(***************************************************************************)

(* What the entries of a page say about each other and about its rows.      *)

(* An entry of a row that is, or may yet be, in the transaction; and of one *)
(* that was ready to be written before duplicates were rejected.            *)
Chosen(e) == e.status \in {"prepared", "loaded"} \/ e.reason = "repository_error"
Contender(e) == e.status \in {"prepared", "loaded"} \/ e.reason \in Settled

(* No row that is written shares its grain with another row of the page.    *)
Sole(c, rows, entries) ==
  \A n, m \in DOMAIN entries :
    (n # m /\ Chosen(entries[n]) /\ Contender(entries[m]))
       => KeyOf(c, rows[n]) # KeyOf(c, rows[m])

(* A supported row is skipped only for a reason that the exit code counts.  *)
Counted(c, row, e) ==
  (c # "stats" /\ Supported(c, row) /\ e.status = "skipped")
     => e.reason \in UNRESOLVED_REASONS(c)

AllCounted(c, rows, entries) == \A n \in DOMAIN entries : Counted(c, rows[n], entries[n])

RowsOf(r, i) == pages[r][i].rows

(* The entries of the page at hand, before and after duplicates are found.  *)
PageIsJudged(r) ==
  InPage(r) =>
    /\ AllCounted(command[r], RowsOf(r, cur[r]), ent[r])
    /\ pc[r] = "prepare" => \A n \in DOMAIN ent[r] : ent[r][n].reason \notin Settled
    /\ pc[r] \in {"write", "flush"} =>
         /\ Len(ent[r]) = Len(RowsOf(r, cur[r]))
         /\ Sole(command[r], RowsOf(r, cur[r]), ent[r])

(* The report on a page that is closed.                                     *)
ReportIsJudged(r) ==
  \A i \in DOMAIN results[r] :
    LET e == results[r][i]
    IN  /\ AllCounted(command[r], RowsOf(r, i), e.entries)
        /\ Sole(command[r], RowsOf(r, i), e.entries)
        /\ \A n \in DOMAIN e.entries : e.entries[n].status # "prepared"
        /\ e.status # "failed" => Len(e.entries) = Len(RowsOf(r, i))

Judged(r) ==
  /\ PageIsJudged(r)
  /\ ReportIsJudged(r)
  /\ pc[r] = "done" => cur[r] = Len(pages[r]) + 1

-----------------------------------------------------------------------------
(* Runs that do not overlap.                                                *)

Going(r) == pc[r] \notin Ended \union {"idle"}

(* A row holds what one row of one page says: the page upserted last.       *)
OneParse(row, k) ==
  row.run # NONE =>
    \E n \in DOMAIN pages[row.run][row.page].rows :
      /\ KeyOf(command[row.run], pages[row.run][row.page].rows[n]) = k
      /\ \A c \in Columns : row.col[c].is = Gives(row.run, row.page, n, c)

Serial(r) ==
  /\ Going(r) => \A q \in Runs \ {r} : ~Going(q)
  /\ \A k \in Keys : OneParse(work[r][k], k) /\ OneParse(mark[r][k], k)
  /\ pc[r] = "flush" => seen[r] = View(r, Key(r, Next1(r)))

(* The inductive invariant of the three.                                    *)
OInv ==
  /\ KInv
  /\ \A r \in Runs : pages[r] \in PageLists[command[r]]
  /\ \A r \in Runs : Judged(r)
  /\ ~overlap => /\ \A r \in Runs : Serial(r)
                 /\ \A k \in Keys : OneParse(table[k], k)

-----------------------------------------------------------------------------
(* A supported row that a player-page command skips lacks something in the  *)
(* core tables: each of these reasons is one that the exit code counts.     *)
LEMMA SkipIsCounted ==
  ASSUME NEW c \in Commands, NEW row,
         c = "player-stats" => row.scope = "player_season_aggregate"
  PROVE  Counted(c, row, _prepare_row(c, row))
<1> SUFFICES ASSUME c # "stats", Supported(c, row)
             PROVE  Counted(c, row, _prepare_row(c, row))
  BY DEF Counted
<1> DEFINE Good == {Ready} \union {Fail(x) : x \in Reasons}
                   \union {Skip(x) : x \in UNRESOLVED_REASONS(c)}
           route == PlayerPageRoute(row)
<1>1. /\ c \in {"player-stats", "player-postseason-stats"}
      /\ RouteOf(c, row) = route
  BY StatsLoadAssumption DEF RouteOf
<1>2. /\ row.source \in route.of
      /\ route \in Aggregates => row.team # "TOT"
      /\ route \notin Aggregates => ~is_synthetic_team_code(row.team)
  BY <1>1 DEF Supported
<1>3. route \notin Aggregates => c = "player-postseason-stats"
  BY <1>1 DEF PlayerPageRoute, Aggregates
<1>4. /\ Ready \in Good
      /\ \A x \in Reasons : Fail(x) \in Good
      /\ Skip("missing_season") \in Good /\ Skip("missing_player") \in Good
      /\ Skip("missing_player_season") \in Good
      /\ route \notin Aggregates => /\ Skip("missing_team_season") \in Good
                                    /\ Skip("missing_player_team_season") \in Good
  BY <1>3 DEF UNRESOLVED_REASONS
<1> HIDE DEF route
<1>5. GrainChecks(route, row) \in Seq(Good)
  <2> HIDE DEF Good
  <2>1. CASE route \in Aggregates
    BY <1>4, <2>1 DEF GrainChecks, When, Reasons
  <2>2. CASE route \notin Aggregates
    BY <1>4, <2>2 DEF GrainChecks, When, Reasons
  <2> QED BY <2>1, <2>2
<1>6. PlayerPageChecks(row) \in Seq(Good)
  <2> HIDE DEF Good
  <2>1. route = PlayerPageRoute(row)
    BY DEF route
  <2> QED BY <1>2, <1>4, <1>5, <2>1 DEF PlayerPageChecks, When, Reasons
<1>7. _prepare_row(c, row) \in Good
  BY <1>4, <1>6, FirstVerdictIsOne DEF _prepare_row
<1>8. CASE _prepare_row(c, row) = Ready
  BY <1>8 DEF Counted, Ready
<1>9. ASSUME NEW x, _prepare_row(c, row) = Fail(x)
      PROVE  Counted(c, row, _prepare_row(c, row))
  BY <1>9 DEF Counted, Fail
<1>10. ASSUME NEW x \in UNRESOLVED_REASONS(c), _prepare_row(c, row) = Skip(x)
       PROVE  Counted(c, row, _prepare_row(c, row))
  BY <1>10 DEF Counted, Skip
<1> QED BY <1>7, <1>8, <1>9, <1>10

-----------------------------------------------------------------------------
(* Judged, step by step.                                                    *)

(* Another run's step does not reach this run's entries.                    *)
LEMMA JudgedOther ==
  ASSUME UNCHANGED inputs, NEW q \in Runs, Judged(q), SameRun(q)
  PROVE  Judged(q)'
<1> USE DEF SameRun, inputs, Judged
<1>1. PageIsJudged(q)'
  BY DEF PageIsJudged, InPage, RowsOf
<1>2. ReportIsJudged(q)'
  BY DEF ReportIsJudged, RowsOf
<1> QED BY <1>1, <1>2

(* The report stays as it is while a page is worked on.                     *)
LEMMA JudgedRest ==
  ASSUME UNCHANGED inputs, NEW r \in Runs, Judged(r), results'[r] = results[r],
         PageIsJudged(r)', pc'[r] # "done"
  PROVE  Judged(r)'
<1>1. ReportIsJudged(r)'
  BY DEF Judged, ReportIsJudged, RowsOf, inputs
<1> QED BY <1>1 DEF Judged

(* A page begins without entries.                                           *)
LEMMA JudgeStart ==
  ASSUME Shape, NEW r \in Runs, Judged(r), Start(r) \/ OpenPage(r)
  PROVE  Judged(r)'
<1>1. /\ UNCHANGED inputs /\ results'[r] = results[r]
      /\ pc'[r] \in {"refused", "page", "prepare"}
      /\ pc'[r] = "prepare" => ent'[r] = <<>>
  BY DEF Shape, Start, OpenPage, AtPage, session
<1>2. PageIsJudged(r)'
  BY <1>1 DEF PageIsJudged, InPage, AllCounted
<1> QED BY <1>1, <1>2, JudgedRest

(* A row is judged against the core tables, not against other rows.         *)
LEMMA JudgePrepareRow ==
  ASSUME Shape, NEW r \in Runs, RunInv(r), Judged(r), PrepareRow(r),
         pages[r] \in PageLists[command[r]]
  PROVE  Judged(r)'
<1> DEFINE rows == RowsOf(r, cur[r])
           next == Len(ent[r]) + 1
           v == _prepare_row(command[r], Row(r, next))
<1>1. /\ UNCHANGED inputs /\ results'[r] = results[r] /\ cur'[r] = cur[r]
      /\ pc[r] = "prepare" /\ pc'[r] = "prepare" /\ RowsOf(r, cur[r])' = rows
      /\ ent'[r] = Append(ent[r], v)
  BY DEF Shape, PrepareRow, RowsOf, inputs
<1>2. v \in Verdicts /\ v \in Entries /\ v.reason \notin Settled
  <2>1. v \in Verdicts
    BY VerdictIsVerdict
  <2> QED BY <2>1 DEF Verdicts, Entries
<1>3. /\ ent[r] \in Seq(Entries) /\ Len(ent[r]) \in Nat
      /\ DOMAIN ent'[r] = 1..next /\ DOMAIN ent[r] = 1..Len(ent[r])
      /\ \A i \in 1..Len(ent[r]) : ent'[r][i] = ent[r][i]
      /\ ent'[r][next] = v
  BY <1>1, <1>2, AppendProperties, LenProperties DEF Shape
<1>4. /\ cur[r] \in DOMAIN pages[r] /\ next \in DOMAIN rows /\ Row(r, next) = rows[next]
  <2>1. cur[r] \in DOMAIN pages[r] /\ pages[r][cur[r]] \in Pages
    BY <1>1 DEF Shape, RunInv, Position, InPage
  <2>2. next \in 1..Len(rows)
    BY <1>3, <2>1 DEF PrepareRow, RowsOf, Pages
  <2> QED BY <2>1, <2>2 DEF Pages, RowsOf, Row
<1>5. Counted(command[r], rows[next], v)
  <2>1. command[r] \in Commands
    BY DEF Shape
  <2>2. command[r] = "player-stats" => rows[next].scope = "player_season_aggregate"
    BY <1>4, <2>1, StatsLoadAssumption DEF RowsOf
  <2> QED BY <1>4, <2>1, <2>2, SkipIsCounted
<1> HIDE DEF v, next, rows
<1>6. AllCounted(command[r], rows, ent'[r])
  BY <1>1, <1>3, <1>5 DEF AllCounted, Judged, PageIsJudged, InPage, rows, next
<1>7. \A n \in DOMAIN ent'[r] : ent'[r][n].reason \notin Settled
  BY <1>1, <1>2, <1>3 DEF Judged, PageIsJudged, InPage, next
<1>8. PageIsJudged(r)'
  BY <1>1, <1>6, <1>7 DEF PageIsJudged, inputs
<1> QED BY <1>1, <1>8, JudgedRest

(* Of the rows of one grain none is left to be written.                     *)
LEMMA JudgeRejectDuplicates ==
  ASSUME Shape, NEW r \in Runs, RunInv(r), Judged(r), RejectDuplicates(r)
  PROVE  Judged(r)'
<1> DEFINE rows == RowsOf(r, cur[r])
           Twin(n) == n \in Pending(r) /\ \E m \in Pending(r) \ {n} : Key(r, m) = Key(r, n)
<1>1. /\ UNCHANGED inputs /\ results'[r] = results[r] /\ cur'[r] = cur[r]
      /\ pc[r] = "prepare" /\ pc'[r] = "write" /\ RowsOf(r, cur[r])' = rows
      /\ DOMAIN ent'[r] = DOMAIN ent[r] /\ Len(ent[r]) = Len(rows)
  BY DEF Shape, RejectDuplicates, RowsOf, inputs
<1>2. \A n \in DOMAIN ent[r] :
        ent'[r][n] = IF Twin(n) THEN Fail("duplicate_stats_grain") ELSE ent[r][n]
  BY DEF Shape, RejectDuplicates
<1>3. \A n \in DOMAIN ent[r] : /\ ent[r][n].reason \notin Settled
                               /\ ent[r][n].status # "loaded"
                               /\ n \in Pending(r) <=> ent[r][n].status = "prepared"
                               /\ Key(r, n) = KeyOf(command[r], rows[n])
  BY <1>1 DEF Judged, PageIsJudged, InPage, RunInv, Position, Pending, Key, Row, RowsOf
<1> HIDE DEF Twin, rows
<1>4. ASSUME NEW n \in DOMAIN ent[r]
      PROVE  /\ Chosen(ent'[r][n]) => n \in Pending(r) /\ ~Twin(n)
             /\ Contender(ent'[r][n]) => n \in Pending(r)
  <2>1. CASE Twin(n)
    BY <1>2, <2>1 DEF Chosen, Contender, Fail, Twin
  <2>2. CASE ~Twin(n)
    BY <1>2, <1>3, <2>2 DEF Chosen, Contender, Settled
  <2> QED BY <2>1, <2>2
<1>5. Sole(command[r], rows, ent'[r])
  BY <1>1, <1>3, <1>4 DEF Sole, Twin
<1>6. AllCounted(command[r], rows, ent'[r])
  <2>1. AllCounted(command[r], rows, ent[r])
    BY <1>1 DEF Judged, PageIsJudged, InPage, rows
  <2> QED BY <1>1, <1>2, <2>1 DEF AllCounted, Counted, Fail
<1>7. Len(ent'[r]) = Len(ent[r])
  <2>1. /\ DOMAIN ent[r] = 1..Len(ent[r]) /\ Len(ent[r]) \in Nat
    BY DEF Shape
  <2>2. ent'[r] = [n \in 1..Len(ent[r]) |-> ent'[r][n]]
    BY <2>1 DEF Shape, RejectDuplicates
  <2>3. ent'[r] \in [1..Len(ent[r]) -> {ent'[r][n] : n \in 1..Len(ent[r])}]
    BY <2>2
  <2> QED BY <2>1, <2>3, FunctionIsSeq
<1>8. PageIsJudged(r)'
  BY <1>1, <1>5, <1>6, <1>7 DEF PageIsJudged, inputs
<1> QED BY <1>1, <1>8, JudgedRest

(* The SELECT judges nothing.                                               *)
LEMMA JudgeSelectRow ==
  ASSUME Shape, NEW r \in Runs, Judged(r), SelectRow(r)
  PROVE  Judged(r)'
<1>1. /\ UNCHANGED inputs /\ results'[r] = results[r] /\ cur'[r] = cur[r]
      /\ ent'[r] = ent[r] /\ pc[r] = "write" /\ pc'[r] = "flush"
      /\ RowsOf(r, cur[r])' = RowsOf(r, cur[r])
  BY DEF Shape, SelectRow, RowsOf, inputs
<1>2. PageIsJudged(r)'
  BY <1>1 DEF Judged, PageIsJudged, InPage, inputs
<1> QED BY <1>1, <1>2, JudgedRest

(* A row that was written, or failed to be, had its grain for itself.       *)
LEMMA JudgeSettle ==
  ASSUME Shape, NEW r \in Runs, RunInv(r), Judged(r), WriteRow(r) \/ (AtFlush(r) /\ RowFails(r))
  PROVE  Judged(r)'
<1> DEFINE rows == RowsOf(r, cur[r])
<1>1. /\ UNCHANGED inputs /\ results'[r] = results[r] /\ cur'[r] = cur[r]
      /\ pc[r] = "flush" /\ pc'[r] = "write" /\ RowsOf(r, cur[r])' = rows
  BY DEF Shape, WriteRow, AtFlush, RowFails, Settle, RowsOf, inputs
<1>2. PICK e \in {[status |-> "loaded", reason |-> "loaded"], WriteFailed} :
        Settle(r, Next1(r), e)
  BY DEF WriteRow, RowFails
<1>3. e \in Entries /\ e.status \in {"loaded", "failed"} /\ Chosen(e)
  BY DEF WriteFailed, Fail, Entries, Reasons, Chosen
<1>4. Pending(r) # {}
  BY <1>1 DEF RunInv, Position
<1>5. PICK n \in DOMAIN ent[r] :
        /\ DOMAIN ent'[r] = DOMAIN ent[r] /\ Len(ent'[r]) = Len(ent[r])
        /\ ent[r][n].status = "prepared"
        /\ ent'[r][n] = e
        /\ \A m \in DOMAIN ent[r] \ {n} : ent'[r][m] = ent[r][m]
  BY <1>2, <1>3, <1>4, SettleFacts
<1>6. /\ AllCounted(command[r], rows, ent[r]) /\ Sole(command[r], rows, ent[r])
      /\ Len(ent[r]) = Len(rows)
  BY <1>1 DEF Judged, PageIsJudged, InPage
<1> HIDE DEF rows
<1>7. \A m \in DOMAIN ent[r] : /\ Chosen(ent'[r][m]) => Chosen(ent[r][m])
                               /\ Contender(ent'[r][m]) => Contender(ent[r][m])
  BY <1>5 DEF Chosen, Contender
<1>8. Sole(command[r], rows, ent'[r])
  BY <1>5, <1>6, <1>7 DEF Sole
<1>9. AllCounted(command[r], rows, ent'[r])
  BY <1>3, <1>5, <1>6 DEF AllCounted, Counted
<1>10. PageIsJudged(r)'
  BY <1>1, <1>5, <1>6, <1>8, <1>9 DEF PageIsJudged, inputs
<1> QED BY <1>1, <1>10, JudgedRest

(* A page goes into the report as it was judged.                            *)
LEMMA JudgeReport ==
  ASSUME Shape, NEW r \in Runs, RunInv(r), Judged(r), UNCHANGED inputs,
         NEW e \in PageEntries, Report(r, e.status, e.entries),
         AllCounted(command[r], RowsOf(r, cur[r]), e.entries),
         Sole(command[r], RowsOf(r, cur[r]), e.entries),
         \A n \in DOMAIN e.entries : e.entries[n].status # "prepared",
         e.status # "failed" => Len(e.entries) = Len(RowsOf(r, cur[r]))
  PROVE  Judged(r)'
<1>1. /\ \A i \in DOMAIN results[r] : results'[r][i] = results[r][i]
      /\ \A i \in DOMAIN results'[r] : i # cur[r] => i \in DOMAIN results[r]
      /\ results'[r][cur[r]] = e
      /\ pc'[r] = "page"
  BY ReportFacts
<1>2. \A i : RowsOf(r, i)' = RowsOf(r, i)
  BY DEF RowsOf, inputs
<1>3. ReportIsJudged(r)'
  <2> SUFFICES ASSUME NEW i \in DOMAIN results'[r]
               PROVE  /\ AllCounted(command[r], RowsOf(r, i), results'[r][i].entries)
                      /\ Sole(command[r], RowsOf(r, i), results'[r][i].entries)
                      /\ \A n \in DOMAIN results'[r][i].entries :
                           results'[r][i].entries[n].status # "prepared"
                      /\ results'[r][i].status # "failed" =>
                           Len(results'[r][i].entries) = Len(RowsOf(r, i))
    BY <1>2 DEF ReportIsJudged, inputs
  <2>1. CASE i = cur[r]
    BY <1>1, <2>1
  <2>2. CASE i # cur[r]
    BY <1>1, <2>2 DEF Judged, ReportIsJudged
  <2> QED BY <2>1, <2>2
<1> QED BY <1>1, <1>3 DEF Judged, PageIsJudged, InPage

(* The four ways to close a page: a page that did not fail as a whole has   *)
(* an entry for every row, and none of them is still to be written.         *)
LEMMA JudgeClosing ==
  ASSUME Shape, NEW r \in Runs, RunInv(r), Judged(r),
         RejectPage(r) \/ SkipPage(r) \/ PageFault(r) \/ ClosePage(r)
  PROVE  Judged(r)'
<1>1. /\ AllCounted(command[r], RowsOf(r, cur[r]), <<>>)
      /\ Sole(command[r], RowsOf(r, cur[r]), <<>>)
  BY DEF AllCounted, Sole
<1>a. /\ [status |-> "failed", entries |-> <<>>] \in PageEntries
      /\ [status |-> "skipped", entries |-> <<>>] \in PageEntries
      /\ [status |-> _entry_from_load_report(ent[r]), entries |-> ent[r]] \in PageEntries
  BY DEF PageEntries, Shape, _entry_from_load_report
<1>2. CASE RejectPage(r) \/ PageFault(r)
  <2>1. PICK e \in PageEntries : e = [status |-> "failed", entries |-> <<>>]
    BY <1>a
  <2>2. UNCHANGED inputs /\ Report(r, e.status, e.entries)
    BY <1>2, <2>1 DEF RejectPage, PageFault
  <2> QED BY <1>1, <2>1, <2>2, JudgeReport
<1>3. CASE SkipPage(r)
  <2>1. PICK e \in PageEntries : e = [status |-> "skipped", entries |-> <<>>]
    BY <1>a
  <2>2. UNCHANGED inputs /\ Report(r, e.status, e.entries) /\ RowsOf(r, cur[r]) = <<>>
    BY <1>3, <2>1 DEF SkipPage, RowsOf
  <2> QED BY <1>1, <2>1, <2>2, JudgeReport
<1>4. CASE ClosePage(r)
  <2>1. PICK e \in PageEntries :
          e = [status |-> _entry_from_load_report(ent[r]), entries |-> ent[r]]
    BY <1>a
  <2>2. UNCHANGED inputs /\ Report(r, e.status, e.entries)
    BY <1>4, <2>1 DEF ClosePage
  <2>3. /\ AllCounted(command[r], RowsOf(r, cur[r]), ent[r])
        /\ Sole(command[r], RowsOf(r, cur[r]), ent[r])
        /\ Len(ent[r]) = Len(RowsOf(r, cur[r]))
        /\ \A n \in DOMAIN ent[r] : ent[r][n].status # "prepared"
    BY <1>4 DEF ClosePage, Pending, Judged, PageIsJudged, InPage
  <2> QED BY <2>1, <2>2, <2>3, JudgeReport
<1> QED BY <1>2, <1>3, <1>4

(* A run commits when every page is reported.                               *)
LEMMA JudgeEnd ==
  ASSUME Shape, NEW r \in Runs, RunInv(r), Judged(r), Commit(r) \/ Crash(r)
  PROVE  Judged(r)'
<1>1. CASE Commit(r)
  <2>1. /\ UNCHANGED inputs /\ results'[r] = results[r] /\ cur'[r] = cur[r]
        /\ pc'[r] = "done" /\ cur[r] > Len(pages[r])
    BY <1>1 DEF Shape, Commit
  <2>2. cur[r] = Len(pages[r]) + 1
    BY <2>1 DEF Shape, RunInv, Position
  <2>3. ReportIsJudged(r)'
    BY <2>1 DEF Judged, ReportIsJudged, RowsOf, inputs
  <2> QED BY <2>1, <2>2, <2>3 DEF Judged, PageIsJudged, InPage, inputs
<1>2. CASE Crash(r)
  <2>1. results'[r] = <<>> /\ pc'[r] = "crashed"
    BY <1>2 DEF Shape, Crash
  <2> QED BY <2>1 DEF Judged, PageIsJudged, ReportIsJudged, InPage
<1> QED BY <1>1, <1>2

(* Each step of a run keeps what its entries say.                           *)
LEMMA JudgeRun ==
  ASSUME IInv, NEW r \in Runs, Judged(r), pages[r] \in PageLists[command[r]], Step(r)
  PROVE  Judged(r)'
BY JudgeStart, JudgePrepareRow, JudgeRejectDuplicates, JudgeSelectRow, JudgeSettle,
   JudgeClosing, JudgeEnd
DEF IInv, Step, UniqueViolation, DeadlockVictim, StatementFault

-----------------------------------------------------------------------------
(* Serial, step by step.                                                    *)

(* Where the rows that a step puts into a transaction, a savepoint or the   *)
(* tables come from.                                                        *)
From(row, k) ==
  \/ row = Clean
  \/ row = table[k]
  \/ \E q \in Runs : row = work[q][k] \/ row = mark[q][k]

(* A row that is copied stays a row of one parse.                           *)
LEMMA ParseStays ==
  ASSUME UNCHANGED inputs, NEW k \in Keys, NEW row, From(row, k),
         \A q \in Runs : Serial(q), OneParse(table[k], k)
  PROVE  OneParse(row, k)'
<1>1. OneParse(row, k)
  <2>1. OneParse(Clean, k)
    BY DEF OneParse, Clean, Blank
  <2> QED BY <2>1 DEF From, Serial
<1> QED BY <1>1 DEF OneParse, Gives, inputs

(* While runs do not overlap, the upsert writes what the page says: nobody  *)
(* has changed the row since its SELECT.                                    *)
LEMMA WrittenIsOneParse ==
  ASSUME Shape, NEW r \in Runs, RunInv(r), Serial(r), WriteRow(r)
  PROVE  /\ UNCHANGED <<inputs, table, mark>>
         /\ \A q \in Runs : \A k \in Keys :
              work'[q][k] = work[q][k] \/ OneParse(work'[q][k], k)
<1> DEFINE n == Next1(r)
           new == Upserted(r, n)
<1>1. /\ UNCHANGED <<inputs, table, mark>> /\ pc[r] = "flush" /\ Pending(r) # {}
      /\ work' = [work EXCEPT ![r][Key(r, n)] = new]
  BY DEF WriteRow, AtFlush, RunInv, Position
<1>2. n \in DOMAIN ent[r] /\ Row(r, n) \in Rows /\ Key(r, n) \in Keys
  BY <1>1, NextIsPending, RowHasKey DEF RunInv, InPage
<1>3. seen[r] = View(r, Key(r, n))
  BY <1>1 DEF Serial
<1>4. /\ new.run = r /\ new.page = cur[r]
      /\ \A c \in Columns : new.col[c].is = Gives(r, cur[r], n, c)
  <2>1. Position(r) /\ InPage(r)
    BY <1>1 DEF RunInv, InPage
  <2>2. /\ new.run = r /\ new.page = cur[r]
        /\ \A c \in Columns :
             \/ new.col[c] = [is |-> Gives(r, cur[r], n, c), run |-> r, page |-> cur[r]]
             \/ /\ seen[r] # NoRow /\ seen[r].col[c].is = Gives(r, cur[r], n, c)
                /\ new.col[c] = View(r, Key(r, n)).col[c]
    <3> HIDE DEF n
    <3> QED BY <1>2, <2>1, UpsertedIsTyped
  <2>3. PICK row : row = new
    OBVIOUS
  <2> HIDE DEF new, n
  <2>4. \A c \in Columns : row.col[c].is = Gives(r, cur[r], n, c)
    <3> SUFFICES ASSUME NEW c \in Columns
                 PROVE  row.col[c].is = Gives(r, cur[r], n, c)
      OBVIOUS
    <3>1. PICK given, now, was :
            given = Gives(r, cur[r], n, c) /\ now = View(r, Key(r, n)) /\ was = seen[r]
      OBVIOUS
    <3>2. \/ row.col[c] = [is |-> given, run |-> r, page |-> cur[r]]
          \/ was.col[c].is = given /\ row.col[c] = now.col[c]
      BY <2>2, <2>3, <3>1
    <3>3. was = now
      BY <1>3, <3>1
    <3> QED BY <3>1, <3>2, <3>3
  <2> QED BY <2>2, <2>3, <2>4
<1>5. n \in DOMAIN pages[r][cur[r]].rows
  <2>1. pages[r][cur[r]] \in Pages
    BY <1>1 DEF Shape, RunInv, Position, InPage
  <2>2. n \in 1..Len(ent[r]) /\ Len(ent[r]) <= Len(pages[r][cur[r]].rows)
    BY <1>1, <1>2 DEF Shape, RunInv, Position, InPage
  <2> QED BY <2>1, <2>2 DEF Pages, Shape
<1>6. OneParse(new, Key(r, n))
  <2> HIDE DEF new, n
  <2> QED BY <1>4, <1>5 DEF OneParse, Key, Row
<1> HIDE DEF new, n
<1>7. ASSUME NEW q \in Runs, NEW k \in Keys
      PROVE  work'[q][k] = work[q][k] \/ OneParse(work'[q][k], k)
  <2>1. CASE q = r /\ k = Key(r, n)
    BY <1>1, <1>2, <1>6, <2>1 DEF Shape
  <2>2. CASE ~(q = r /\ k = Key(r, n))
    BY <1>1, <1>2, <2>2 DEF Shape
  <2> QED BY <2>1, <2>2
<1> QED BY <1>1, <1>7

(* Every step writes rows of one parse, or copies them.                     *)
LEMMA ParsesStay ==
  ASSUME IInv, NEW r \in Runs, Step(r), \A q \in Runs : Serial(q),
         \A k \in Keys : OneParse(table[k], k)
  PROVE  /\ \A q \in Runs : \A k \in Keys :
              OneParse(work[q][k], k)' /\ OneParse(mark[q][k], k)'
         /\ \A k \in Keys : OneParse(table[k], k)'
<1> USE DEF IInv
<1>a. UNCHANGED inputs
  BY RunStep DEF OthersSame
<1>1. CASE WriteRow(r)
  <2>1. /\ UNCHANGED <<inputs, table, mark>>
        /\ \A q \in Runs : \A k \in Keys :
             work'[q][k] = work[q][k] \/ OneParse(work'[q][k], k)
    BY <1>1, WrittenIsOneParse
  <2>2. ASSUME NEW q \in Runs, NEW k \in Keys
        PROVE  OneParse(work[q][k], k)'
    <3>1. PICK row : row = work'[q][k]
      OBVIOUS
    <3>2. OneParse(row, k)
      BY <2>1, <3>1 DEF Serial
    <3>3. OneParse(row, k)'
      BY <1>a, <3>2 DEF OneParse, Gives, inputs
    <3> QED BY <3>1, <3>3 DEF OneParse
  <2>3. ASSUME NEW q \in Runs, NEW k \in Keys
        PROVE  OneParse(mark[q][k], k)'
    <3>1. PICK row : row = mark[q][k]
      OBVIOUS
    <3>2. OneParse(row, k) /\ mark'[q][k] = row
      BY <2>1, <3>1 DEF Serial
    <3>3. OneParse(row, k)'
      BY <1>a, <3>2 DEF OneParse, Gives, inputs
    <3> QED BY <3>2, <3>3 DEF OneParse
  <2>4. ASSUME NEW k \in Keys
        PROVE  OneParse(table[k], k)'
    <3>1. PICK row : row = table[k]
      OBVIOUS
    <3>2. OneParse(row, k) /\ table'[k] = row
      BY <2>1, <3>1
    <3>3. OneParse(row, k)'
      BY <1>a, <3>2 DEF OneParse, Gives, inputs
    <3> QED BY <3>2, <3>3 DEF OneParse
  <2> QED BY <2>2, <2>3, <2>4
<1>2. CASE ~WriteRow(r)
  <2>1. ASSUME NEW q \in Runs, NEW k \in Keys
        PROVE  From(work'[q][k], k) /\ From(mark'[q][k], k) /\ From(table'[k], k)
    <3>1. CASE UNCHANGED <<work, mark, table>>
      BY <3>1 DEF From
    <3>2. CASE OpenPage(r)
      BY <3>2 DEF OpenPage, From, Shape
    <3>3. CASE RejectPage(r) \/ SkipPage(r) \/ ClosePage(r)
      BY <3>3, RowsAreTyped DEF RejectPage, SkipPage, ClosePage, Report, From, Shape
    <3>4. CASE PageFault(r)
      BY <3>4, RowsAreTyped DEF PageFault, Report, From, Shape
    <3>5. CASE Commit(r)
      BY <3>5, RowsAreTyped DEF Commit, View, From, Shape
    <3>6. CASE Crash(r)
      BY <3>6, RowsAreTyped DEF Crash, From, Shape
    <3> QED
      BY <1>2, <3>1, <3>2, <3>3, <3>4, <3>5, <3>6
      DEF Step, Start, PrepareRow, RejectDuplicates, SelectRow, UniqueViolation,
          DeadlockVictim, StatementFault, RowFails, session
  <2>2. ASSUME NEW row, NEW k \in Keys, From(row, k)
        PROVE  OneParse(row, k)'
    BY <1>a, <2>2, ParseStays
  <2>3. ASSUME NEW q \in Runs, NEW k \in Keys
        PROVE  OneParse(work[q][k], k)' /\ OneParse(mark[q][k], k)'
    <3>1. PICK row, saved : row = work'[q][k] /\ saved = mark'[q][k]
      OBVIOUS
    <3>2. OneParse(row, k)' /\ OneParse(saved, k)'
      BY <2>1, <2>2, <3>1
    <3> QED BY <3>1, <3>2 DEF OneParse
  <2>4. ASSUME NEW k \in Keys
        PROVE  OneParse(table[k], k)'
    <3>1. PICK row : row = table'[k]
      OBVIOUS
    <3>2. OneParse(row, k)'
      BY <2>1, <2>2, <3>1
    <3> QED BY <3>1, <3>2 DEF OneParse
  <2> QED BY <2>3, <2>4
<1> QED BY <1>1, <1>2

(* Between a SELECT and its flush nobody else writes, because nobody else   *)
(* is going.                                                                *)
LEMMA SerialStays ==
  ASSUME IInv, NEW r \in Runs, Step(r), ~overlap, \A q \in Runs : Serial(q),
         \A k \in Keys : OneParse(table[k], k)
  PROVE  /\ \A q \in Runs : Serial(q)'
         /\ \A k \in Keys : OneParse(table[k], k)'
<1> USE DEF IInv
<1>1. OthersSame(r) /\ RunInv(r)' /\ (Commit(r) \/ Quiet(r))
  BY RunStep
<1>2. /\ \A q \in Runs : \A k \in Keys :
           OneParse(work[q][k], k)' /\ OneParse(mark[q][k], k)'
      /\ \A k \in Keys : OneParse(table[k], k)'
  BY ParsesStay
<1>3. Going(r) \/ (Start(r) /\ \A q \in Runs \ {r} : ~Going(q))
  BY DEF Step, Start, RejectPage, SkipPage, OpenPage, PrepareRow, RejectDuplicates,
     PageFault, SelectRow, WriteRow, UniqueViolation, DeadlockVictim, StatementFault,
     ClosePage, Commit, Crash, AtPage, AtFlush, Going, Ended
<1>4. \A q \in Runs \ {r} : ~Going(q)
  BY <1>3 DEF Serial
<1>5. \A q \in Runs \ {r} : ~Going(q)' /\ pc'[q] # "flush"
  BY <1>1, <1>4 DEF OthersSame, SameRun, Going, Ended
<1>6. ASSUME pc'[r] = "flush"
      PROVE  (seen[r] = View(r, Key(r, Next1(r))))'
  <2>1. SelectRow(r)
    BY <1>6
    DEF Step, Start, RejectPage, SkipPage, OpenPage, PrepareRow, RejectDuplicates,
        PageFault, WriteRow, UniqueViolation, DeadlockVictim, StatementFault, RowFails,
        Settle, Report, ClosePage, Commit, Crash, AtPage, AtFlush, Ended, Shape
  <2>2. /\ UNCHANGED <<inputs, table, work, ent, cur>>
        /\ seen'[r] = View(r, Key(r, Next1(r)))
    BY <2>1 DEF SelectRow, Shape
  <2> QED BY <2>2 DEF View, Key, Row, Next1, Pending, inputs
<1> QED BY <1>2, <1>5, <1>6 DEF Serial

-----------------------------------------------------------------------------
(* OInv holds at first.                                                     *)
LEMMA InitOInv ==
  ASSUME Init
  PROVE  OInv
<1>1. KInv
  BY InitKInv
<1>2. \A r \in Runs : pages[r] \in PageLists[command[r]]
  BY DEF Init
<1>3. \A r \in Runs : Judged(r)
  BY DEF Init, Judged, PageIsJudged, ReportIsJudged, InPage
<1>4. /\ \A r \in Runs : Serial(r)
      /\ \A k \in Keys : OneParse(table[k], k)
  BY RowsAreTyped DEF Init, Serial, Going, Ended, OneParse, NoRow, Clean, Blank
<1> QED BY <1>1, <1>2, <1>3, <1>4 DEF OInv

(* Every step keeps OInv.                                                   *)
LEMMA StepOInv ==
  ASSUME OInv, [Next]_vars
  PROVE  OInv'
<1> USE DEF OInv
<1>1. KInv' /\ IInv
  BY StepKInv DEF KInv
<1>2. ASSUME NEW r \in Runs, Step(r)
      PROVE  OInv'
  <2>1. OthersSame(r) /\ UNCHANGED inputs
    BY <1>1, <1>2, RunStep DEF OthersSame
  <2>2. \A q \in Runs : Judged(q)'
    <3> SUFFICES ASSUME NEW q \in Runs
                 PROVE  Judged(q)'
      OBVIOUS
    <3>1. CASE q = r
      BY <1>1, <1>2, <3>1, JudgeRun
    <3>2. CASE q # r
      BY <2>1, <3>2, JudgedOther DEF OthersSame
    <3> QED BY <3>1, <3>2
  <2>3. ~overlap => /\ \A q \in Runs : Serial(q)'
                    /\ \A k \in Keys : OneParse(table[k], k)'
    BY <1>1, <1>2, SerialStays
  <2> QED BY <1>1, <2>1, <2>2, <2>3 DEF inputs
<1>3. CASE LoadCore \/ UNCHANGED vars
  <2>1. UNCHANGED <<inputs, table, session, pc, cur, results>>
    BY <1>3 DEF LoadCore, vars
  <2>2. \A q \in Runs : Judged(q)'
    BY <2>1, JudgedOther DEF SameRun, session
  <2>3. ASSUME ~overlap
        PROVE  /\ \A q \in Runs : Serial(q)'
               /\ \A k \in Keys : OneParse(table[k], k)'
    <3>1. \A k \in Keys : OneParse(table[k], k)'
      BY <2>1, <2>3 DEF OneParse, Gives, inputs
    <3>2. ASSUME NEW q \in Runs, NEW k \in Keys
          PROVE  OneParse(work[q][k], k)' /\ OneParse(mark[q][k], k)'
      BY <2>1, <2>3 DEF Serial, OneParse, Gives, inputs, session
    <3>3. \A q \in Runs : pc'[q] = "flush" => (seen[q] = View(q, Key(q, Next1(q))))'
      BY <2>1, <2>3 DEF Serial, View, Key, Row, Next1, Pending, inputs, session
    <3>4. \A q \in Runs : Going(q)' <=> Going(q)
      BY <2>1 DEF Going
    <3> QED BY <2>3, <3>1, <3>2, <3>3, <3>4 DEF Serial
  <2> QED BY <1>1, <2>1, <2>2, <2>3 DEF inputs
<1> QED BY <1>2, <1>3 DEF Next

-----------------------------------------------------------------------------
(***************************************************************************)
(* Columns.  An upsert leaves a column alone that it read as its page has  *)
(* it, so a row's columns may stem from different runs.  That none of them *)
(* is older than the report says rests on the row locks: while a run holds *)
(* a row, nobody else commits it, so a column that was left alone is still *)
(* the committed one when the run commits.                                 *)
(***************************************************************************)

(* What a column of a row in r's transaction may be: written by r from a    *)
(* page of its report, or from the page at hand; or the committed column.   *)
PastCell(r, cell, k, c) ==
  /\ cell.run = r
  /\ cell.page \in DOMAIN results[r]
  /\ \E n \in LoadedFrom(r, cell.page, k) : Gives(r, cell.page, n, c) = cell.is

PresentCell(r, cell, k, c) ==
  /\ pc[r] \in {"write", "flush"}
  /\ cell.run = r
  /\ cell.page = cur[r]
  /\ \E n \in DOMAIN ent[r] : LoadedNow(r, n, k) /\ Gives(r, cur[r], n, c) = cell.is

CopiedCell(cell, k, c) == Written(table[k]) /\ cell = table[k].col[c]

Origin(r, cell, k, c) ==
  PastCell(r, cell, k, c) \/ PresentCell(r, cell, k, c) \/ CopiedCell(cell, k, c)

WorkOrigins(r) ==
  \A k \in Keys : work[r][k] # Clean =>
    \A c \in Columns : Origin(r, work[r][k].col[c], k, c)

MarkOrigins(r) ==
  InPage(r) => \A k \in Keys : mark[r][k] # Clean =>
    /\ work[r][k] # Clean
    /\ \A c \in Columns : \/ PastCell(r, mark[r][k].col[c], k, c)
                          \/ CopiedCell(mark[r][k].col[c], k, c)

(* Between a SELECT and its flush, a column changes only because a run that *)
(* overtakes this one commits.                                              *)
SeenIsRecent(r) ==
  (pc[r] = "flush" /\ seen[r] # NoRow) =>
    LET now == View(r, Key(r, Next1(r)))
    IN  /\ Written(now)
        /\ \A c \in Columns :
             now.col[c] = seen[r].col[c] \/ Overtook(now.col[c].run, r)

(* Every column of a row keeps what the report says of run r's loaded rows. *)
PastHolds(row, r, k) ==
  \A i \in DOMAIN results[r] : \A n \in DOMAIN results[r][i].entries :
    LoadedAt(r, i, n, k) =>
      \A c \in Columns : Holds(row.col[c], Gives(r, i, n, c), r, i)

PresentHolds(row, r, k) ==
  pc[r] \in {"write", "flush"} =>
    \A n \in DOMAIN ent[r] : LoadedNow(r, n, k) =>
      \A c \in Columns : Holds(row.col[c], Gives(r, cur[r], n, c), r, cur[r])

ColumnsKept(r) ==
  pc[r] \notin Ended => \A k \in Keys :
    /\ PastHolds(work[r][k], r, k) /\ PresentHolds(work[r][k], r, k)
    /\ InPage(r) => PastHolds(mark[r][k], r, k)

ColumnInv(r) ==
  WorkOrigins(r) /\ MarkOrigins(r) /\ SeenIsRecent(r) /\ ColumnsKept(r)

(* A row is locked by one run at a time.                                    *)
LocksExclude ==
  \A q, r \in Runs : \A k \in Keys : q # r => work[q][k] = Clean \/ work[r][k] = Clean

EarlierCommitted == \A r \in Runs : \A q \in earlier[r] : pc[q] = "done"

(* The columns of the tables.                                               *)
ReportedCell(cell, k, c) ==
  /\ cell.run \in Runs
  /\ pc[cell.run] = "done"
  /\ \E n \in LoadedFrom(cell.run, cell.page, k) :
       Gives(cell.run, cell.page, n, c) = cell.is

TableIsReported ==
  \A k \in Keys :
    /\ table[k] = NoRow \/ Written(table[k])
    /\ Written(table[k]) => \A c \in Columns : ReportedCell(table[k].col[c], k, c)

TableIsKept ==
  \A q \in Runs : pc[q] = "done" => \A k \in Keys : PastHolds(table[k], q, k)

(* The inductive invariant of the columns.                                  *)
CInv ==
  /\ OInv
  /\ \A r \in Runs : ColumnInv(r)
  /\ LocksExclude
  /\ EarlierCommitted
  /\ TableIsReported
  /\ TableIsKept

-----------------------------------------------------------------------------
(* The kinds of steps, by what they do to transaction and report.           *)

LoadedEntries(r) == {n \in DOMAIN ent[r] : ent[r][n].status = "loaded"}

(* A step inside a page that writes nothing.                                *)
Works(r) ==
  /\ InPage(r) /\ pc'[r] \in {"prepare", "write", "flush"}
  /\ pc[r] \in {"write", "flush"} => pc'[r] \in {"write", "flush"}
  /\ pc[r] = "prepare" => LoadedEntries(r) = {}
  /\ LoadedEntries(r)' = LoadedEntries(r)
  /\ UNCHANGED <<inputs, table, history>>
  /\ work'[r] = work[r] /\ mark'[r] = mark[r]
  /\ results'[r] = results[r] /\ cur'[r] = cur[r]

(* Every step of a run is of one of these kinds.                            *)
LEMMA Kinds ==
  ASSUME IInv, NEW r \in Runs, Step(r)
  PROVE  \/ Start(r) \/ OpenPage(r) \/ Works(r) \/ WriteRow(r) \/ Commit(r) \/ Crash(r)
         \/ \E e \in PageEntries : Closes(r, e)
<1> USE DEF IInv
<1>1. CASE PrepareRow(r)
  <2>1. /\ pc[r] = "prepare" /\ pc'[r] = "prepare"
        /\ UNCHANGED <<inputs, table, history, work, mark, results, cur>>
    BY <1>1 DEF PrepareRow
  <2>2. RunInv(r)'
    BY <1>1, PrepareRowStep
  <2>3. LoadedEntries(r) = {} /\ LoadedEntries(r)' = {}
    BY <2>1, <2>2 DEF LoadedEntries, RunInv, Position
  <2> QED BY <2>1, <2>3 DEF Works, InPage
<1>2. CASE RejectDuplicates(r)
  <2>1. /\ pc[r] = "prepare" /\ pc'[r] = "write"
        /\ UNCHANGED <<inputs, table, history, work, mark, results, cur>>
    BY <1>2 DEF RejectDuplicates, Shape
  <2>2. \A n \in DOMAIN ent'[r] :
          n \in DOMAIN ent[r] /\ ent'[r][n] \in {ent[r][n], Fail("duplicate_stats_grain")}
    BY <1>2 DEF RejectDuplicates, Shape
  <2>3. LoadedEntries(r) = {} /\ LoadedEntries(r)' = {}
    BY <2>1, <2>2 DEF LoadedEntries, RunInv, Position, Fail
  <2> QED BY <2>1, <2>3 DEF Works, InPage
<1>3. CASE SelectRow(r)
  <2>1. /\ pc[r] = "write" /\ pc'[r] = "flush"
        /\ UNCHANGED <<inputs, table, history, work, mark, ent, results, cur>>
    BY <1>3 DEF SelectRow, Shape
  <2> QED BY <2>1 DEF Works, InPage, LoadedEntries
<1>4. CASE AtFlush(r) /\ RowFails(r)
  <2>1. Pending(r) # {} /\ WriteFailed \in Entries /\ WriteFailed.status # "loaded"
    BY <1>4 DEF RunInv, Position, AtFlush, WriteFailed, Fail, Entries, Reasons
  <2>2. /\ DOMAIN ent'[r] = DOMAIN ent[r]
        /\ ent[r][Next1(r)].status = "prepared"
        /\ ent'[r][Next1(r)].status # "loaded"
        /\ \A m \in DOMAIN ent[r] \ {Next1(r)} : ent'[r][m] = ent[r][m]
    BY <1>4, <2>1, SettleFacts DEF RowFails
  <2>3. /\ pc[r] = "flush" /\ pc'[r] = "write"
        /\ UNCHANGED <<inputs, table, history, work, mark, results, cur>>
    BY <1>4 DEF AtFlush, RowFails, Settle, Shape
  <2>4. LoadedEntries(r)' = LoadedEntries(r)
    BY <2>2 DEF LoadedEntries
  <2> QED BY <2>3, <2>4 DEF Works, InPage
<1>5. CASE RejectPage(r) \/ SkipPage(r) \/ PageFault(r) \/ ClosePage(r)
  BY <1>5, ClosingIsReport
<1> QED
  BY <1>1, <1>2, <1>3, <1>4, <1>5
  DEF Step, UniqueViolation, DeadlockVictim, StatementFault

-----------------------------------------------------------------------------
(* What a run has reported, and what it holds of a row, stays.              *)

(* The steps at which what run q must hold cannot shrink.                   *)
Later(q) ==
  /\ UNCHANGED inputs
  /\ earlier'[q] = earlier[q]
  /\ \A p \in Runs : pc[p] = "done" => pc'[p] = "done"

(* What a page gives does not change.                                       *)
LEMMA GivesStays ==
  ASSUME UNCHANGED inputs
  PROVE  \A r, i, n, c : Gives(r, i, n, c)' = Gives(r, i, n, c)
BY DEF Gives, inputs

(* A column that holds what is reported goes on doing so.                   *)
LEMMA HoldsStays ==
  ASSUME NEW q \in Runs, Later(q), NEW cell, NEW given, NEW i, Holds(cell, given, q, i)
  PROVE  Holds(cell, given, q, i)'
BY DEF Holds, Overtook, Later

(* So does a row, for the pages that are reported,                          *)
LEMMA PastHoldsStays ==
  ASSUME NEW q \in Runs, Later(q), NEW row, NEW k, PastHolds(row, q, k),
         results'[q] = results[q]
  PROVE  PastHolds(row, q, k)'
<1> SUFFICES ASSUME NEW i \in DOMAIN results'[q], NEW n \in DOMAIN results'[q][i].entries,
                    LoadedAt(q, i, n, k)', NEW c \in Columns
             PROVE  Holds(row.col[c], Gives(q, i, n, c), q, i)'
  BY DEF PastHolds
<1>1. PICK cell, given : cell = row.col[c] /\ given = Gives(q, i, n, c)
  OBVIOUS
<1>2. Gives(q, i, n, c)' = given
  BY <1>1, GivesStays DEF Later
<1>3. LoadedAt(q, i, n, k)
  BY DEF LoadedAt, LoadedEntry, Later, inputs
<1>4. Holds(cell, given, q, i)
  BY <1>1, <1>3 DEF PastHolds
<1>5. Holds(cell, given, q, i)'
  BY <1>4, HoldsStays
<1> QED BY <1>1, <1>2, <1>5 DEF Holds

(* and for the page at hand.                                                *)
LEMMA PresentHoldsStays ==
  ASSUME NEW q \in Runs, Later(q), NEW row, NEW k, PresentHolds(row, q, k),
         cur'[q] = cur[q],
         pc'[q] \in {"write", "flush"} =>
           \A n \in DOMAIN ent'[q] : ent'[q][n].status = "loaded" =>
             /\ pc[q] \in {"write", "flush"}
             /\ n \in DOMAIN ent[q] /\ ent[q][n].status = "loaded"
  PROVE  PresentHolds(row, q, k)'
<1> SUFFICES ASSUME pc'[q] \in {"write", "flush"}, NEW n \in DOMAIN ent'[q],
                    LoadedNow(q, n, k)', NEW c \in Columns
             PROVE  Holds(row.col[c], Gives(q, cur[q], n, c), q, cur[q])'
  BY DEF PresentHolds
<1>1. PICK cell, given, i : cell = row.col[c] /\ given = Gives(q, cur[q], n, c) /\ i = cur[q]
  OBVIOUS
<1>2. Gives(q, i, n, c)' = given
  BY <1>1, GivesStays DEF Later
<1>3. LoadedNow(q, n, k) /\ n \in DOMAIN ent[q] /\ pc[q] \in {"write", "flush"}
  BY DEF LoadedNow, Key, Row, Later, inputs
<1>4. Holds(cell, given, q, i)
  BY <1>1, <1>3 DEF PresentHolds
<1>5. Holds(cell, given, q, i)'
  BY <1>4, HoldsStays
<1>6. Gives(q, cur[q], n, c)' = given /\ cur'[q] = i
  BY <1>1, <1>2 DEF Gives
<1> QED BY <1>1, <1>5, <1>6 DEF Holds

(* Where a column stems from stays in the report                            *)
LEMMA PastCellStays ==
  ASSUME Shape, UNCHANGED inputs, NEW r \in Runs, NEW cell, NEW k, NEW c,
         PastCell(r, cell, k, c),
         \/ results'[r] = results[r]
         \/ \E e \in PageEntries : results'[r] = Append(results[r], e)
  PROVE  PastCell(r, cell, k, c)'
<1>1. cell.page \in DOMAIN results'[r] /\ results'[r][cell.page] = results[r][cell.page]
  <2>1. CASE results'[r] = results[r]
    BY <2>1 DEF PastCell
  <2>2. ASSUME NEW e \in PageEntries, results'[r] = Append(results[r], e)
        PROVE  cell.page \in DOMAIN results'[r] /\ results'[r][cell.page] = results[r][cell.page]
    <3>1. results[r] \in Seq(PageEntries)
      BY DEF Shape
    <3>2. cell.page \in 1..Len(results[r])
      BY <3>1 DEF PastCell
    <3> QED BY <2>2, <3>1, <3>2, AppendProperties
  <2> QED BY <2>1, <2>2
<1>2. PICK n \in LoadedFrom(r, cell.page, k) : Gives(r, cell.page, n, c) = cell.is
  BY DEF PastCell
<1>3. n \in LoadedFrom(r, cell.page, k)'
  BY <1>1, <1>2 DEF LoadedFrom, LoadedEntry, inputs
<1>4. Gives(r, cell.page, n, c)' = cell.is
  BY <1>2, GivesStays
<1>5. cell.run = r
  BY DEF PastCell
<1> QED BY <1>1, <1>3, <1>4, <1>5 DEF PastCell

(* and on the page at hand,                                                 *)
LEMMA PresentCellStays ==
  ASSUME UNCHANGED inputs, NEW r \in Runs, NEW cell, NEW k, NEW c,
         PresentCell(r, cell, k, c), pc'[r] \in {"write", "flush"}, cur'[r] = cur[r],
         \A n \in DOMAIN ent[r] : ent[r][n].status = "loaded" =>
           n \in DOMAIN ent'[r] /\ ent'[r][n].status = "loaded"
  PROVE  PresentCell(r, cell, k, c)'
<1>1. PICK n \in DOMAIN ent[r] : LoadedNow(r, n, k) /\ Gives(r, cur[r], n, c) = cell.is
  BY DEF PresentCell
<1>2. n \in DOMAIN ent'[r] /\ LoadedNow(r, n, k)'
  BY <1>1 DEF LoadedNow, Key, Row, inputs
<1>3. Gives(r, cur[r], n, c)' = cell.is
  BY <1>1 DEF Gives, inputs
<1>4. cell.run = r /\ cell.page = cur[r]
  BY DEF PresentCell
<1> QED BY <1>2, <1>3, <1>4 DEF PresentCell

(* or in the tables, while nobody commits the row.                          *)
LEMMA CopiedStays ==
  ASSUME NEW k, NEW cell, NEW c, CopiedCell(cell, k, c), table'[k] = table[k]
  PROVE  CopiedCell(cell, k, c)'
BY DEF CopiedCell, Written

(* A run that is done stays done, and so does its report.                   *)
LEMMA DoneStays ==
  ASSUME IInv, NEW r \in Runs, Step(r)
  PROVE  /\ UNCHANGED inputs
         /\ \A q \in Runs : pc[q] = "done" => pc'[q] = "done" /\ results'[q] = results[q]
         /\ pc[r] # "done"
         /\ \A q \in Runs : ~(q = r /\ Start(r)) => Later(q)
<1>1. OthersSame(r) /\ (Commit(r) \/ Quiet(r))
  BY RunStep
<1>2. pc[r] # "done"
  BY <1>1 DEF Commit, Quiet, Ended
<1>3. \A q \in Runs : ~(q = r /\ Start(r)) => earlier'[q] = earlier[q]
  BY DEF IInv, Shape, Step, Start, RejectPage, SkipPage, OpenPage, PrepareRow,
     RejectDuplicates, PageFault, SelectRow, WriteRow, UniqueViolation, DeadlockVictim,
     StatementFault, RowFails, ClosePage, Commit, Crash, history
<1> QED BY <1>1, <1>2, <1>3 DEF OthersSame, SameRun, Later

-----------------------------------------------------------------------------
(* A run's own steps.                                                       *)

(* A run that has nothing open has written nothing and reported nothing.    *)
LEMMA NothingLoaded ==
  ASSUME IInv, NEW r \in Runs, Kept(r), pc[r] \notin Ended, work[r] = Untouched
  PROVE  /\ \A k \in Keys : work[r][k] = Clean
         /\ \A k \in Keys : \A i \in DOMAIN results[r] :
              \A n \in DOMAIN results[r][i].entries : ~LoadedAt(r, i, n, k)
         /\ \A i \in DOMAIN results[r] :
              \A n \in DOMAIN results[r][i].entries : ~LoadedEntry(r, i, n)
<1>1. \A k \in Keys : work[r][k] = Clean /\ Clean.run # r
  BY RowsAreTyped, StatsLoadAssumption DEF Clean, Blank
<1>2. ASSUME NEW k \in Keys, NEW i \in DOMAIN results[r],
             NEW n \in DOMAIN results[r][i].entries
      PROVE  ~LoadedAt(r, i, n, k)
  BY <1>1 DEF Kept, WorkIsKept, Keeps
<1>3. ASSUME NEW i \in DOMAIN results[r], NEW n \in DOMAIN results[r][i].entries
      PROVE  ~LoadedEntry(r, i, n)
  BY <1>2, KeyOfReported DEF LoadedAt, IInv, RunInv
<1> QED BY <1>1, <1>2, <1>3

(* The transaction begins empty: there is nothing that it must hold.        *)
LEMMA StartColumns ==
  ASSUME IInv, NEW r \in Runs, Kept(r), Start(r)
  PROVE  WorkOrigins(r)' /\ MarkOrigins(r)' /\ ColumnsKept(r)'
<1>1. /\ pc[r] = "idle" /\ work' = work /\ results' = results /\ UNCHANGED inputs
      /\ pc'[r] \in {"refused", "page"}
  BY DEF Start, session, IInv, Shape
<1>2. work[r] = Untouched
  BY <1>1 DEF IInv, RunInv, NothingOpen
<1>3. /\ \A k \in Keys : work[r][k] = Clean
      /\ \A i \in DOMAIN results[r] :
           \A n \in DOMAIN results[r][i].entries : ~LoadedEntry(r, i, n)
  BY <1>1, <1>2, NothingLoaded DEF Ended
<1>4. WorkOrigins(r)'
  BY <1>1, <1>3 DEF WorkOrigins
<1>5. MarkOrigins(r)'
  BY <1>1 DEF MarkOrigins, InPage
<1>6. ColumnsKept(r)'
  BY <1>1, <1>3 DEF ColumnsKept, PastHolds, PresentHolds, LoadedAt, LoadedEntry, InPage
<1> QED BY <1>4, <1>5, <1>6

(* The savepoint is what the transaction holds.                             *)
LEMMA OpenPageColumns ==
  ASSUME IInv, NEW r \in Runs, OpenPage(r), Later(r),
         WorkOrigins(r), MarkOrigins(r), ColumnsKept(r)
  PROVE  WorkOrigins(r)' /\ MarkOrigins(r)' /\ ColumnsKept(r)'
<1>1. /\ pc[r] = "page" /\ pc'[r] = "prepare"
      /\ UNCHANGED <<inputs, table, work, results, cur>> /\ mark'[r] = work[r]
  BY DEF OpenPage, AtPage, IInv, Shape
<1>2. ASSUME NEW k \in Keys, NEW row, row = work[r][k], row # Clean, NEW c \in Columns
      PROVE  PastCell(r, row.col[c], k, c)' \/ CopiedCell(row.col[c], k, c)'
  <2>1. PICK cell : cell = row.col[c]
    OBVIOUS
  <2>2. PastCell(r, cell, k, c) \/ CopiedCell(cell, k, c)
    BY <1>1, <1>2, <2>1 DEF WorkOrigins, Origin, PresentCell
  <2>3. PastCell(r, cell, k, c)' \/ CopiedCell(cell, k, c)'
    BY <1>1, <2>2, PastCellStays, CopiedStays DEF IInv
  <2> QED BY <2>1, <2>3 DEF PastCell, CopiedCell
<1>3. WorkOrigins(r)'
  BY <1>1, <1>2 DEF WorkOrigins, Origin, PastCell, CopiedCell
<1>4. MarkOrigins(r)'
  BY <1>1, <1>2 DEF MarkOrigins, PastCell, CopiedCell
<1>5. ASSUME NEW k \in Keys
      PROVE  PastHolds(work[r][k], r, k)' /\ PastHolds(mark[r][k], r, k)'
  <2>1. PICK row : row = work[r][k]
    OBVIOUS
  <2>2. PastHolds(row, r, k)
    BY <1>1, <2>1 DEF ColumnsKept, Ended
  <2>3. PastHolds(row, r, k)'
    BY <1>1, <2>2, PastHoldsStays
  <2> QED BY <1>1, <2>1, <2>3 DEF PastHolds
<1>6. ColumnsKept(r)'
  BY <1>1, <1>5 DEF ColumnsKept, PresentHolds
<1> QED BY <1>3, <1>4, <1>6

(* Working on a page without writing changes nothing.                       *)
LEMMA WorksColumns ==
  ASSUME IInv, NEW r \in Runs, Works(r), Later(r),
         WorkOrigins(r), MarkOrigins(r), ColumnsKept(r)
  PROVE  WorkOrigins(r)' /\ MarkOrigins(r)' /\ ColumnsKept(r)'
<1>1. /\ InPage(r) /\ pc'[r] \in {"prepare", "write", "flush"}
      /\ pc[r] \in {"write", "flush"} => pc'[r] \in {"write", "flush"}
      /\ UNCHANGED <<inputs, table>>
      /\ work'[r] = work[r] /\ mark'[r] = mark[r]
      /\ results'[r] = results[r] /\ cur'[r] = cur[r]
  BY DEF Works
<1>2. /\ \A n \in DOMAIN ent[r] : ent[r][n].status = "loaded" =>
           n \in DOMAIN ent'[r] /\ ent'[r][n].status = "loaded"
      /\ \A n \in DOMAIN ent'[r] : ent'[r][n].status = "loaded" =>
           /\ pc[r] \in {"write", "flush"}
           /\ n \in DOMAIN ent[r] /\ ent[r][n].status = "loaded"
  <2>1. LoadedEntries(r)' = LoadedEntries(r) /\ (pc[r] = "prepare" => LoadedEntries(r) = {})
    BY DEF Works
  <2> QED BY <1>1, <2>1 DEF LoadedEntries, InPage
<1>3. ASSUME NEW k \in Keys, NEW row, NEW c \in Columns
      PROVE  /\ PastCell(r, row.col[c], k, c) => PastCell(r, row.col[c], k, c)'
             /\ PresentCell(r, row.col[c], k, c) => PresentCell(r, row.col[c], k, c)'
             /\ CopiedCell(row.col[c], k, c) => CopiedCell(row.col[c], k, c)'
  <2>1. PICK cell : cell = row.col[c]
    OBVIOUS
  <2>2. PastCell(r, cell, k, c) => PastCell(r, cell, k, c)'
    BY <1>1, PastCellStays DEF IInv
  <2>3. PresentCell(r, cell, k, c) => PresentCell(r, cell, k, c)'
    <3> SUFFICES ASSUME PresentCell(r, cell, k, c)
                 PROVE  PresentCell(r, cell, k, c)'
      OBVIOUS
    <3>1. pc'[r] \in {"write", "flush"}
      BY <1>1 DEF PresentCell
    <3> QED BY <1>1, <1>2, <3>1, PresentCellStays
  <2>4. CopiedCell(cell, k, c) => CopiedCell(cell, k, c)'
    BY <1>1, CopiedStays
  <2> QED BY <2>1, <2>2, <2>3, <2>4
<1>4. ASSUME NEW k \in Keys, NEW row
      PROVE  /\ PastHolds(row, r, k) => PastHolds(row, r, k)'
             /\ PresentHolds(row, r, k) => PresentHolds(row, r, k)'
  BY <1>1, <1>2, PastHoldsStays, PresentHoldsStays
<1>5. WorkOrigins(r)'
  <2> SUFFICES ASSUME NEW k \in Keys, work'[r][k] # Clean, NEW c \in Columns
               PROVE  Origin(r, work[r][k].col[c], k, c)'
    BY DEF WorkOrigins
  <2>1. PICK row : row = work[r][k]
    OBVIOUS
  <2>2. Origin(r, row.col[c], k, c)
    BY <1>1, <2>1 DEF WorkOrigins
  <2>3. Origin(r, row.col[c], k, c)'
    BY <1>3, <2>2 DEF Origin
  <2> QED BY <1>1, <2>1, <2>3 DEF Origin, PastCell, PresentCell, CopiedCell
<1>6. MarkOrigins(r)'
  <2> SUFFICES ASSUME NEW k \in Keys, mark'[r][k] # Clean
               PROVE  /\ work'[r][k] # Clean
                      /\ \A c \in Columns : (\/ PastCell(r, mark[r][k].col[c], k, c)
                                             \/ CopiedCell(mark[r][k].col[c], k, c))'
    BY DEF MarkOrigins
  <2>1. PICK row : row = mark[r][k]
    OBVIOUS
  <2>2. /\ work'[r][k] # Clean
        /\ \A c \in Columns : PastCell(r, row.col[c], k, c) \/ CopiedCell(row.col[c], k, c)
    BY <1>1, <2>1 DEF MarkOrigins
  <2>3. \A c \in Columns : PastCell(r, row.col[c], k, c)' \/ CopiedCell(row.col[c], k, c)'
    BY <1>3, <2>2
  <2> QED BY <1>1, <2>1, <2>2, <2>3 DEF PastCell, CopiedCell
<1>7. ColumnsKept(r)'
  <2> SUFFICES ASSUME NEW k \in Keys
               PROVE  /\ PastHolds(work[r][k], r, k)' /\ PresentHolds(work[r][k], r, k)'
                      /\ PastHolds(mark[r][k], r, k)'
    BY DEF ColumnsKept
  <2>1. PICK row, saved : row = work[r][k] /\ saved = mark[r][k]
    OBVIOUS
  <2>2. PastHolds(row, r, k) /\ PresentHolds(row, r, k) /\ PastHolds(saved, r, k)
    BY <1>1, <2>1 DEF ColumnsKept, InPage, Ended
  <2>3. PastHolds(row, r, k)' /\ PresentHolds(row, r, k)' /\ PastHolds(saved, r, k)'
    BY <1>4, <2>2
  <2> QED BY <1>1, <2>1, <2>3 DEF PastHolds, PresentHolds
<1> QED BY <1>5, <1>6, <1>7

(* Closing a page: what it loaded moves into the report; a page that failed *)
(* as a whole takes its savepoint back.                                     *)
LEMMA ClosingColumns ==
  ASSUME IInv, NEW r \in Runs, NEW e \in PageEntries, Closes(r, e), Later(r),
         WorkOrigins(r), MarkOrigins(r), ColumnsKept(r)
  PROVE  WorkOrigins(r)' /\ MarkOrigins(r)' /\ ColumnsKept(r)'
<1>1. /\ Open(r) /\ Report(r, e.status, e.entries)
      /\ UNCHANGED <<command, pages, inputs, table>>
      /\ \/ pc[r] = "write" /\ e.entries = ent[r] /\ work'[r] = work[r]
         \/ pc[r] = "prepare" /\ e.entries = <<>> /\ work'[r] = mark[r]
         \/ pc[r] = "page" /\ e.entries = <<>> /\ work'[r] = work[r]
  BY DEF Closes, IInv, Shape, inputs
<1>2. /\ results'[r] = Append(results[r], e)
      /\ DOMAIN results'[r] = 1..cur[r]
      /\ \A i \in DOMAIN results[r] : results'[r][i] = results[r][i]
      /\ \A i \in DOMAIN results'[r] : i # cur[r] => i \in DOMAIN results[r]
      /\ results'[r][cur[r]] = e
      /\ pc'[r] = "page"
  BY <1>1, ReportFacts DEF IInv
<1>3. cur[r] \in DOMAIN results'[r]
  BY <1>2 DEF IInv, Shape, RunInv, Position
<1>4. ASSUME NEW k \in Keys, NEW row, row = work'[r][k], row # Clean, NEW c \in Columns
      PROVE  PastCell(r, row.col[c], k, c)' \/ CopiedCell(row.col[c], k, c)'
  <2>1. PICK cell : cell = row.col[c]
    OBVIOUS
  <2>2. \/ PastCell(r, cell, k, c)
        \/ CopiedCell(cell, k, c)
        \/ PresentCell(r, cell, k, c) /\ pc[r] = "write"
    BY <1>1, <1>4, <2>1 DEF WorkOrigins, MarkOrigins, Origin, PresentCell, InPage
  <2>3. CASE PastCell(r, cell, k, c)
    BY <1>1, <1>2, <2>1, <2>3, PastCellStays DEF IInv
  <2>4. CASE CopiedCell(cell, k, c)
    BY <1>1, <2>1, <2>4, CopiedStays
  <2>5. CASE PresentCell(r, cell, k, c) /\ pc[r] = "write"
    <3>1. e.entries = ent[r]
      BY <1>1, <2>5
    <3>2. PICK n \in DOMAIN ent[r] : LoadedNow(r, n, k) /\ Gives(r, cur[r], n, c) = cell.is
      BY <2>5 DEF PresentCell
    <3>3. cell.run = r /\ cell.page = cur[r]
      BY <2>5 DEF PresentCell
    <3>4. n \in LoadedFrom(r, cell.page, k)'
      BY <1>1, <1>2, <3>1, <3>2, <3>3 DEF LoadedFrom, LoadedEntry, LoadedNow, Key, Row
    <3>5. Gives(r, cell.page, n, c)' = cell.is
      BY <1>1, <3>2, <3>3 DEF Gives
    <3>6. PastCell(r, cell, k, c)'
      BY <1>3, <3>3, <3>4, <3>5 DEF PastCell
    <3> QED BY <2>1, <3>6
  <2> QED BY <2>2, <2>3, <2>4, <2>5
<1>5. WorkOrigins(r)'
  BY <1>4 DEF WorkOrigins, Origin, PastCell, CopiedCell
<1>6. MarkOrigins(r)'
  BY <1>2 DEF MarkOrigins, InPage
<1>7. ASSUME NEW k \in Keys
      PROVE  PastHolds(work[r][k], r, k)'
  <2>1. PICK row : row = work'[r][k]
    OBVIOUS
  <2>2. /\ PastHolds(row, r, k)
        /\ pc[r] = "write" => PresentHolds(row, r, k)
    BY <1>1, <2>1 DEF ColumnsKept, InPage, Open, Ended
  <2> SUFFICES ASSUME NEW i \in DOMAIN results'[r],
                      NEW n \in DOMAIN results'[r][i].entries, LoadedAt(r, i, n, k)',
                      NEW c \in Columns
               PROVE  Holds(row.col[c], Gives(r, i, n, c), r, i)'
    BY <2>1 DEF PastHolds
  <2>3. PICK cell, given : cell = row.col[c] /\ given = Gives(r, i, n, c)
    OBVIOUS
  <2>4. Gives(r, i, n, c)' = given
    BY <1>1, <2>3 DEF Gives
  <2>5. Holds(cell, given, r, i)
    <3>1. CASE i = cur[r]
      <4>1. e.entries[n].status = "loaded" /\ n \in DOMAIN e.entries
        BY <1>2, <3>1 DEF LoadedAt, LoadedEntry
      <4>2. pc[r] = "write" /\ e.entries = ent[r]
        BY <1>1, <4>1
      <4>3. LoadedNow(r, n, k)
        BY <1>1, <3>1, <4>1, <4>2 DEF LoadedNow, LoadedAt, Key, Row
      <4> QED BY <2>2, <2>3, <3>1, <4>1, <4>2, <4>3 DEF PresentHolds
    <3>2. CASE i # cur[r]
      <4>1. i \in DOMAIN results[r] /\ n \in DOMAIN results[r][i].entries
        BY <1>2, <3>2
      <4>2. LoadedAt(r, i, n, k)
        BY <1>1, <1>2, <4>1 DEF LoadedAt, LoadedEntry
      <4> QED BY <2>2, <2>3, <4>1, <4>2 DEF PastHolds
    <3> QED BY <3>1, <3>2
  <2>6. Holds(cell, given, r, i)'
    BY <2>5, HoldsStays
  <2> QED BY <2>3, <2>4, <2>6 DEF Holds
<1>8. ColumnsKept(r)'
  BY <1>2, <1>7 DEF ColumnsKept, PresentHolds, InPage
<1> QED BY <1>5, <1>6, <1>8

(* A run that is over has nothing open.                                     *)
LEMMA EndColumns ==
  ASSUME IInv, NEW r \in Runs, Commit(r) \/ Crash(r)
  PROVE  WorkOrigins(r)' /\ MarkOrigins(r)' /\ ColumnsKept(r)'
<1>1. work'[r] = Untouched /\ pc'[r] \in {"done", "crashed"}
  BY DEF Commit, Crash, IInv, Shape
<1> QED BY <1>1, RowsAreTyped DEF WorkOrigins, MarkOrigins, ColumnsKept, InPage, Ended

(* The upsert: a column is as the page says, or it was so when it was read, *)
(* and then it changed only through a run that overtook this one.           *)
LEMMA WriteRowColumns ==
  ASSUME IInv, NEW r \in Runs, Kept(r), WriteRow(r), Later(r), SeenIsRecent(r),
         WorkOrigins(r), MarkOrigins(r), ColumnsKept(r)
  PROVE  WorkOrigins(r)' /\ MarkOrigins(r)' /\ ColumnsKept(r)'
<1>n. PICK n : n = Next1(r)
  OBVIOUS
<1>k. PICK at : at = Key(r, n)
  OBVIOUS
<1>u. PICK new : new = Upserted(r, n)
  OBVIOUS
<1>1. /\ pc[r] = "flush" /\ pc'[r] = "write" /\ Pending(r) # {}
      /\ UNCHANGED <<inputs, table, mark, results, cur>>
      /\ work' = [work EXCEPT ![r][at] = new]
      /\ Settle(r, n, [status |-> "loaded", reason |-> "loaded"])
  BY <1>n, <1>k, <1>u DEF WriteRow, AtFlush, Settle, IInv, Shape, RunInv, Position
<1>2. n \in DOMAIN ent[r] /\ Row(r, n) \in Rows /\ at \in Keys
  BY <1>1, <1>n, <1>k, NextIsPending, RowHasKey DEF IInv, RunInv, InPage
<1>3. /\ DOMAIN ent'[r] = DOMAIN ent[r]
      /\ ent[r][n].status = "prepared" /\ ent'[r][n].status = "loaded"
      /\ \A m \in DOMAIN ent[r] \ {n} : ent'[r][m] = ent[r][m]
  <2>1. [status |-> "loaded", reason |-> "loaded"] \in Entries
    BY DEF Entries, Reasons
  <2>2. PICK e \in Entries : e = [status |-> "loaded", reason |-> "loaded"]
    BY <2>1
  <2>3. Settle(r, n, e) /\ e.status = "loaded"
    BY <1>1, <2>2
  <2> QED BY <1>1, <1>n, <2>3, SettleFacts DEF IInv
<1>4. /\ new.run = r /\ new.page = cur[r]
      /\ \A c \in Columns :
           \/ new.col[c] = [is |-> Gives(r, cur[r], n, c), run |-> r, page |-> cur[r]]
           \/ /\ seen[r] # NoRow /\ seen[r].col[c].is = Gives(r, cur[r], n, c)
              /\ new.col[c] = View(r, at).col[c]
  <2>1. Shape /\ Position(r) /\ InPage(r)
    BY <1>1 DEF IInv, RunInv, InPage
  <2> QED BY <1>k, <1>u, <1>2, <2>1, UpsertedIsTyped
<1>5. /\ work'[r][at] = new
      /\ \A k \in Keys \ {at} : work'[r][k] = work[r][k]
  BY <1>1, <1>2 DEF IInv, Shape
<1>6. LoadedNow(r, n, at)'
  BY <1>1, <1>3, <1>k DEF LoadedNow, Key, Row, inputs
<1>7. cur[r] \in Nat /\ \A i \in DOMAIN results[r] : i \in Nat /\ cur[r] >= i
  BY DEF IInv, RunInv, Position, Shape
<1>9. PICK now, was : now = View(r, at) /\ was = seen[r]
  OBVIOUS
<1>10. was # NoRow => /\ Written(now)
                      /\ \A c \in Columns :
                           now.col[c] = was.col[c] \/ Overtook(now.col[c].run, r)
  BY <1>1, <1>9, <1>n, <1>k DEF SeenIsRecent
<1>11. r # NONE /\ Clean.run = NONE
  BY StatsLoadAssumption DEF Clean, Blank
<1>12. work[r][at] # Clean => now = work[r][at]
  BY <1>9 DEF View
<1>13. work[r][at] = Clean => now = table[at]
  BY <1>9 DEF View
<1> DEFINE Left(cell, c) == /\ was # NoRow /\ was.col[c].is = Gives(r, cur[r], n, c)
                            /\ cell = now.col[c]
<1>14. ASSUME NEW c \in Columns, NEW cell, cell = new.col[c]
       PROVE  \/ Left(cell, c)
              \/ /\ cell.run = r /\ cell.page = cur[r]
                 /\ cell.is = Gives(r, cur[r], n, c)
  <2>1. PICK given, page : given = Gives(r, cur[r], n, c) /\ page = cur[r]
    OBVIOUS
  <2>2. \/ cell = [is |-> given, run |-> r, page |-> page]
        \/ was # NoRow /\ was.col[c].is = given /\ cell = now.col[c]
    BY <1>4, <1>9, <1>14, <2>1
  <2>3. cell = [is |-> given, run |-> r, page |-> page] =>
          cell.run = r /\ cell.page = page /\ cell.is = given
    OBVIOUS
  <2> QED BY <2>1, <2>2, <2>3
<1> HIDE DEF Left
<1>15. ASSUME NEW k \in Keys, NEW cell, NEW c \in Columns
       PROVE  /\ PastCell(r, cell, k, c) => PastCell(r, cell, k, c)'
              /\ PresentCell(r, cell, k, c) => PresentCell(r, cell, k, c)'
              /\ CopiedCell(cell, k, c) => CopiedCell(cell, k, c)'
  <2>1. PastCell(r, cell, k, c) => PastCell(r, cell, k, c)'
    BY <1>1, PastCellStays DEF IInv
  <2>2. \A m \in DOMAIN ent[r] : ent[r][m].status = "loaded" =>
          m \in DOMAIN ent'[r] /\ ent'[r][m].status = "loaded"
    BY <1>3
  <2>3. PresentCell(r, cell, k, c) => PresentCell(r, cell, k, c)'
    BY <1>1, <2>2, PresentCellStays
  <2>4. CopiedCell(cell, k, c) => CopiedCell(cell, k, c)'
    BY <1>1, CopiedStays
  <2> QED BY <2>1, <2>3, <2>4
<1>16. ASSUME NEW k \in Keys, NEW row, row = work'[r][k], row # Clean, NEW c \in Columns
       PROVE  Origin(r, row.col[c], k, c)'
  <2>1. PICK cell : cell = row.col[c]
    OBVIOUS
  <2>2. CASE k = at
    <3>1. CASE Left(cell, c)
      <4>1. cell = now.col[c] /\ Written(now)
        BY <1>10, <3>1 DEF Left
      <4>2. CASE work[r][at] # Clean
        <5>1. Origin(r, cell, k, c)
          BY <1>12, <2>2, <4>1, <4>2 DEF WorkOrigins
        <5>2. Origin(r, cell, k, c)'
          BY <1>15, <5>1 DEF Origin
        <5> QED BY <2>1, <5>2
      <4>3. CASE work[r][at] = Clean
        <5>1. CopiedCell(cell, k, c)
          BY <1>13, <2>2, <4>1, <4>3 DEF CopiedCell
        <5>2. CopiedCell(cell, k, c)'
          BY <1>15, <5>1
        <5> QED BY <2>1, <5>2 DEF Origin
      <4> QED BY <4>2, <4>3
    <3>2. CASE cell.run = r /\ cell.page = cur[r] /\ cell.is = Gives(r, cur[r], n, c)
      <4>1. Gives(r, cur[r], n, c)' = cell.is
        BY <1>1, <3>2 DEF Gives, inputs
      <4>2. PresentCell(r, cell, k, c)'
        BY <1>1, <1>2, <1>3, <1>6, <2>2, <3>2, <4>1 DEF PresentCell
      <4> QED BY <2>1, <4>2 DEF Origin
    <3> QED BY <1>5, <1>14, <1>16, <2>1, <2>2, <3>1, <3>2
  <2>3. CASE k # at
    <3>1. Origin(r, cell, k, c)
      BY <1>5, <1>16, <2>1, <2>3 DEF WorkOrigins
    <3>2. Origin(r, cell, k, c)'
      BY <1>15, <3>1 DEF Origin
    <3> QED BY <2>1, <3>2
  <2> QED BY <2>2, <2>3
<1>17. WorkOrigins(r)'
  <2> SUFFICES ASSUME NEW k \in Keys, work'[r][k] # Clean, NEW c \in Columns
               PROVE  Origin(r, work[r][k].col[c], k, c)'
    BY DEF WorkOrigins
  <2>1. PICK row : row = work'[r][k]
    OBVIOUS
  <2>2. Origin(r, row.col[c], k, c)'
    BY <1>16, <2>1
  <2> QED BY <2>1, <2>2 DEF Origin, PastCell, PresentCell, CopiedCell
<1>18. MarkOrigins(r)'
  <2> SUFFICES ASSUME NEW k \in Keys, mark'[r][k] # Clean
               PROVE  /\ work'[r][k] # Clean
                      /\ \A c \in Columns : (\/ PastCell(r, mark[r][k].col[c], k, c)
                                             \/ CopiedCell(mark[r][k].col[c], k, c))'
    BY DEF MarkOrigins
  <2>1. PICK row : row = mark[r][k]
    OBVIOUS
  <2>2. /\ work[r][k] # Clean
        /\ \A c \in Columns : PastCell(r, row.col[c], k, c) \/ CopiedCell(row.col[c], k, c)
    BY <1>1, <2>1 DEF MarkOrigins, InPage
  <2>3. \A c \in Columns : PastCell(r, row.col[c], k, c)' \/ CopiedCell(row.col[c], k, c)'
    BY <1>15, <2>2
  <2>4. work'[r][k] # Clean
    BY <1>4, <1>5, <1>11, <2>2
  <2> QED BY <1>1, <2>1, <2>3, <2>4 DEF PastCell, CopiedCell
<1>19. ASSUME NEW i \in DOMAIN results[r], NEW m \in DOMAIN results[r][i].entries,
              LoadedAt(r, i, m, at), NEW c \in Columns, NEW cell, cell = new.col[c]
       PROVE  Holds(cell, Gives(r, i, m, c), r, i)
  <2>1. CASE Left(cell, c)
    <3>1. now = work[r][at]
      BY <1>1, <1>2, <1>11, <1>12, <1>19 DEF Kept, WorkIsKept, Keeps, Ended
    <3>2. PastHolds(now, r, at)
      BY <1>1, <1>2, <3>1 DEF ColumnsKept, Ended
    <3> QED BY <1>19, <2>1, <3>2 DEF PastHolds, Left
  <2>2. CASE cell.run = r /\ cell.page = cur[r] /\ cell.is = Gives(r, cur[r], n, c)
    BY <1>7, <2>2 DEF Holds
  <2> QED BY <1>14, <1>19, <2>1, <2>2
<1>20. ASSUME NEW m \in DOMAIN ent[r], m = n \/ LoadedNow(r, m, at),
              NEW c \in Columns, NEW cell, cell = new.col[c]
       PROVE  Holds(cell, Gives(r, cur[r], m, c), r, cur[r])
  <2>1. CASE Left(cell, c) /\ m = n
    BY <1>10, <2>1 DEF Holds, Left
  <2>2. CASE Left(cell, c) /\ LoadedNow(r, m, at)
    <3>1. now = work[r][at]
      BY <1>1, <1>2, <1>11, <1>12, <2>2 DEF Kept, WorkIsKept, Keeps, Ended
    <3>2. PresentHolds(now, r, at)
      BY <1>1, <1>2, <3>1 DEF ColumnsKept, Ended
    <3> QED BY <1>1, <2>2, <3>2 DEF PresentHolds, Left
  <2>3. CASE cell.run = r /\ cell.page = cur[r] /\ cell.is = Gives(r, cur[r], n, c)
    BY <1>7, <2>3 DEF Holds
  <2> QED BY <1>14, <1>20, <2>1, <2>2, <2>3
<1>21. ASSUME NEW k \in Keys
       PROVE  PastHolds(work[r][k], r, k)' /\ PresentHolds(work[r][k], r, k)'
  <2>1. PICK row : row = work'[r][k]
    OBVIOUS
  <2>2. PastHolds(row, r, k)'
    <3>1. PastHolds(row, r, k)
      BY <1>1, <1>5, <1>19, <2>1 DEF PastHolds, ColumnsKept, Ended
    <3> QED BY <1>1, <3>1, PastHoldsStays
  <2>3. PresentHolds(row, r, k)'
    <3> SUFFICES ASSUME NEW m \in DOMAIN ent'[r], LoadedNow(r, m, k)', NEW c \in Columns
                 PROVE  Holds(row.col[c], Gives(r, cur[r], m, c), r, cur[r])'
      BY DEF PresentHolds
    <3>1. PICK cell, given, i :
            cell = row.col[c] /\ given = Gives(r, cur[r], m, c) /\ i = cur[r]
      OBVIOUS
    <3>2. m \in DOMAIN ent[r] /\ ((m = n /\ k = at) \/ LoadedNow(r, m, k))
      <4>1. \A l : Key(r, l)' = Key(r, l)
        BY <1>1 DEF Key, Row, inputs
      <4> QED BY <1>3, <1>k, <4>1 DEF LoadedNow
    <3>3. Holds(cell, given, r, i)
      <4>1. CASE k = at
        BY <1>5, <1>20, <2>1, <3>1, <3>2, <4>1
      <4>2. CASE k # at
        <5>1. PresentHolds(row, r, k)
          BY <1>1, <1>5, <2>1, <4>2 DEF ColumnsKept, Ended
        <5> QED BY <1>1, <3>1, <3>2, <4>2, <5>1 DEF PresentHolds
      <4> QED BY <4>1, <4>2
    <3>4. Holds(cell, given, r, i)'
      BY <3>3, HoldsStays
    <3>5. Gives(r, cur[r], m, c)' = given /\ cur'[r] = i
      BY <1>1, <3>1 DEF Gives, inputs
    <3> QED BY <3>1, <3>4, <3>5 DEF Holds
  <2> QED BY <2>1, <2>2, <2>3 DEF PastHolds, PresentHolds
<1>22. ASSUME NEW k \in Keys
       PROVE  PastHolds(mark[r][k], r, k)'
  <2>1. PICK row : row = mark[r][k]
    OBVIOUS
  <2>2. PastHolds(row, r, k)
    BY <1>1, <2>1 DEF ColumnsKept, InPage, Ended
  <2>3. PastHolds(row, r, k)'
    BY <1>1, <2>2, PastHoldsStays
  <2> QED BY <1>1, <2>1, <2>3 DEF PastHolds
<1>23. ColumnsKept(r)'
  BY <1>21, <1>22 DEF ColumnsKept
<1> QED BY <1>17, <1>18, <1>23

(* What each step of a run keeps of its columns.                            *)
LEMMA OwnColumns ==
  ASSUME IInv, NEW r \in Runs, Step(r), Kept(r), ColumnInv(r)
  PROVE  WorkOrigins(r)' /\ MarkOrigins(r)' /\ ColumnsKept(r)'
<1> USE DEF ColumnInv
<1>1. CASE Start(r)
  BY <1>1, StartColumns
<1>2. CASE ~Start(r)
  <2>1. Later(r)
    BY <1>2, DoneStays
  <2>2. \/ OpenPage(r) \/ Works(r) \/ WriteRow(r) \/ Commit(r) \/ Crash(r)
        \/ \E e \in PageEntries : Closes(r, e)
    BY <1>2, Kinds
  <2> QED
    BY <2>1, <2>2, OpenPageColumns, WorksColumns, WriteRowColumns, EndColumns,
       ClosingColumns
<1> QED BY <1>1, <1>2

(* A run that is about to flush has just read the row.                      *)
LEMMA SeenOwn ==
  ASSUME IInv, TableIsReported, NEW r \in Runs, Step(r)
  PROVE  SeenIsRecent(r)'
<1> SUFFICES ASSUME pc'[r] = "flush", seen'[r] # NoRow
             PROVE  (LET now == View(r, Key(r, Next1(r)))
                     IN  /\ Written(now)
                         /\ \A c \in Columns :
                              \/ now.col[c] = seen[r].col[c]
                              \/ Overtook(now.col[c].run, r))'
  BY DEF SeenIsRecent
<1>1. SelectRow(r)
  BY DEF IInv, Step, Start, RejectPage, SkipPage, OpenPage, PrepareRow, RejectDuplicates,
     PageFault, WriteRow, UniqueViolation, DeadlockVictim, StatementFault, RowFails,
     Settle, Report, ClosePage, Commit, Crash, AtPage, AtFlush, Ended, Shape
<1>2. PICK k, now : k = Key(r, Next1(r)) /\ now = View(r, k)
  OBVIOUS
<1>3. /\ UNCHANGED <<inputs, table, work, ent, cur>>
      /\ seen'[r] = now /\ pc[r] = "write" /\ Pending(r) # {}
  BY <1>1, <1>2 DEF SelectRow, IInv, Shape
<1>4. k \in Keys
  BY <1>2, <1>3, NextIsPending, RowHasKey DEF IInv, RunInv, InPage
<1>5. Written(now)
  <2>1. CASE work[r][k] # Clean
    <3>1. now = work[r][k] /\ now.run = r
      BY <1>2, <1>4, <2>1 DEF View, IInv, RunInv, WorkIsReported, Past, Present
    <3> QED BY <3>1, StatsLoadAssumption DEF Written
  <2>2. CASE work[r][k] = Clean
    BY <1>2, <1>3, <1>4, <2>2 DEF View, TableIsReported
  <2> QED BY <2>1, <2>2
<1>6. Key(r, Next1(r))' = k /\ View(r, k)' = now
  BY <1>2, <1>3 DEF View, Key, Row, Next1, Pending, inputs
<1>7. View(r, Key(r, Next1(r)))' = now
  BY <1>6 DEF View
<1> QED BY <1>3, <1>5, <1>7 DEF Written

(* A commit reaches no row that another run holds, and brings in columns of *)
(* the run that commits, or what was there.                                 *)
LEMMA CommitBrings ==
  ASSUME IInv, NEW r \in Runs, Commit(r), WorkOrigins(r), LocksExclude
  PROVE  /\ \A q \in Runs \ {r} : \A k \in Keys :
              work[q][k] # Clean => table'[k] = table[k]
         /\ \A k \in Keys :
              \/ table'[k] = table[k]
              \/ /\ table'[k] = work[r][k] /\ work[r][k] # Clean /\ table'[k].run = r
                 /\ \A c \in Columns : \/ PastCell(r, work[r][k].col[c], k, c)
                                       \/ CopiedCell(work[r][k].col[c], k, c)
<1>1. pc[r] = "page" /\ \A k \in Keys : table'[k] = View(r, k)
  BY DEF Commit
<1>2. \A q \in Runs \ {r} : \A k \in Keys : work[q][k] # Clean => table'[k] = table[k]
  BY <1>1 DEF LocksExclude, View
<1>3. ASSUME NEW k \in Keys, work[r][k] # Clean
      PROVE  /\ table'[k] = work[r][k] /\ table'[k].run = r
             /\ \A c \in Columns : \/ PastCell(r, work[r][k].col[c], k, c)
                                   \/ CopiedCell(work[r][k].col[c], k, c)
  <2>1. table'[k] = work[r][k]
    BY <1>1, <1>3 DEF View
  <2>2. work[r][k].run = r
    BY <1>3 DEF IInv, RunInv, WorkIsReported, Past, Present
  <2>3. \A c \in Columns : ~PresentCell(r, work[r][k].col[c], k, c)
    BY <1>1 DEF PresentCell
  <2> QED BY <1>3, <2>1, <2>2, <2>3 DEF WorkOrigins, Origin
<1>4. \A k \in Keys : work[r][k] = Clean => table'[k] = table[k]
  BY <1>1 DEF View
<1> QED BY <1>2, <1>3, <1>4

(* Another run's step leaves this run's columns where they are.             *)
LEMMA OtherColumns ==
  ASSUME CInv, NEW r \in Runs, Step(r), NEW q \in Runs \ {r}
  PROVE  WorkOrigins(q)' /\ MarkOrigins(q)' /\ ColumnsKept(q)'
<1>1. IInv /\ ColumnInv(r) /\ ColumnInv(q) /\ LocksExclude
  BY DEF CInv, OInv, KInv
<1>2. Later(q) /\ UNCHANGED inputs /\ SameRun(q)
  BY <1>1, DoneStays, RunStep DEF OthersSame
<1>3. \A k \in Keys : work[q][k] # Clean => table'[k] = table[k]
  <2>1. Commit(r) \/ Quiet(r)
    BY <1>1, RunStep
  <2> QED BY <1>1, <2>1, CommitBrings DEF Quiet, ColumnInv
<1> USE DEF SameRun
<1>4. ASSUME NEW k \in Keys, work[q][k] # Clean, NEW cell, NEW c \in Columns
      PROVE  /\ PastCell(q, cell, k, c) => PastCell(q, cell, k, c)'
             /\ PresentCell(q, cell, k, c) => PresentCell(q, cell, k, c)'
             /\ CopiedCell(cell, k, c) => CopiedCell(cell, k, c)'
  <2>1. PastCell(q, cell, k, c) => PastCell(q, cell, k, c)'
    BY <1>1, <1>2, PastCellStays DEF IInv
  <2>2. PresentCell(q, cell, k, c) => PresentCell(q, cell, k, c)'
    <3> SUFFICES ASSUME PresentCell(q, cell, k, c)
                 PROVE  PresentCell(q, cell, k, c)'
      OBVIOUS
    <3>1. pc'[q] \in {"write", "flush"}
      BY <1>2 DEF PresentCell
    <3> QED BY <1>2, <3>1, PresentCellStays
  <2>3. CopiedCell(cell, k, c) => CopiedCell(cell, k, c)'
    BY <1>3, <1>4, CopiedStays
  <2> QED BY <2>1, <2>2, <2>3
<1>5. WorkOrigins(q)'
  <2> SUFFICES ASSUME NEW k \in Keys, work'[q][k] # Clean, NEW c \in Columns
               PROVE  Origin(q, work[q][k].col[c], k, c)'
    BY DEF WorkOrigins
  <2>1. PICK cell : cell = work[q][k].col[c]
    OBVIOUS
  <2>2. Origin(q, cell, k, c)
    BY <1>1, <1>2, <2>1 DEF ColumnInv, WorkOrigins
  <2>3. Origin(q, cell, k, c)'
    BY <1>2, <1>4, <2>2 DEF Origin
  <2> QED BY <1>2, <2>1, <2>3 DEF Origin, PastCell, PresentCell, CopiedCell
<1>6. MarkOrigins(q)'
  <2> SUFFICES ASSUME InPage(q), NEW k \in Keys, mark'[q][k] # Clean
               PROVE  /\ work'[q][k] # Clean
                      /\ \A c \in Columns : (\/ PastCell(q, mark[q][k].col[c], k, c)
                                             \/ CopiedCell(mark[q][k].col[c], k, c))'
    BY <1>2 DEF MarkOrigins, InPage
  <2>1. PICK row : row = mark[q][k]
    OBVIOUS
  <2>2. /\ work[q][k] # Clean
        /\ \A c \in Columns : PastCell(q, row.col[c], k, c) \/ CopiedCell(row.col[c], k, c)
    BY <1>1, <1>2, <2>1 DEF ColumnInv, MarkOrigins
  <2>3. \A c \in Columns : PastCell(q, row.col[c], k, c)' \/ CopiedCell(row.col[c], k, c)'
    BY <1>4, <2>2
  <2> QED BY <1>2, <2>1, <2>2, <2>3 DEF PastCell, CopiedCell
<1>7. ColumnsKept(q)'
  <2> SUFFICES ASSUME pc[q] \notin Ended, NEW k \in Keys
               PROVE  /\ PastHolds(work[q][k], q, k)' /\ PresentHolds(work[q][k], q, k)'
                      /\ InPage(q) => PastHolds(mark[q][k], q, k)'
    BY <1>2 DEF ColumnsKept, InPage, Ended
  <2>1. PICK row, saved : row = work[q][k] /\ saved = mark[q][k]
    OBVIOUS
  <2>2. /\ PastHolds(row, q, k) /\ PresentHolds(row, q, k)
        /\ InPage(q) => PastHolds(saved, q, k)
    BY <1>1, <2>1 DEF ColumnInv, ColumnsKept
  <2>3. /\ PastHolds(row, q, k)' /\ PresentHolds(row, q, k)'
        /\ InPage(q) => PastHolds(saved, q, k)'
    BY <1>2, <2>2, PastHoldsStays, PresentHoldsStays
  <2> QED BY <1>2, <2>1, <2>3 DEF PastHolds, PresentHolds
<1> QED BY <1>5, <1>6, <1>7

(* What another run brings in between a SELECT and its flush stems from a   *)
(* run that overtakes this one.                                             *)
LEMMA SeenOther ==
  ASSUME CInv, NEW r \in Runs, Step(r), NEW q \in Runs \ {r}
  PROVE  SeenIsRecent(q)'
<1>1. IInv /\ ColumnInv(r) /\ ColumnInv(q) /\ LocksExclude /\ EarlierCommitted
  BY DEF CInv, OInv, KInv
<1>2. Later(q) /\ UNCHANGED inputs /\ SameRun(q) /\ (Commit(r) \/ Quiet(r))
  BY <1>1, DoneStays, RunStep DEF OthersSame
<1>3. seen'[q] = seen[q]
  BY <1>1 DEF IInv, Shape, Step, Start, RejectPage, SkipPage, OpenPage, PrepareRow,
     RejectDuplicates, PageFault, SelectRow, WriteRow, UniqueViolation, DeadlockVictim,
     StatementFault, RowFails, Settle, ClosePage, Commit, Crash, session
<1> SUFFICES ASSUME pc[q] = "flush", seen[q] # NoRow
             PROVE  (LET now == View(q, Key(q, Next1(q)))
                     IN  /\ Written(now)
                         /\ \A c \in Columns :
                              \/ now.col[c] = seen[q].col[c]
                              \/ Overtook(now.col[c].run, q))'
  BY <1>2, <1>3 DEF SeenIsRecent, SameRun
<1>4. PICK k, now, was : k = Key(q, Next1(q)) /\ now = View(q, k) /\ was = seen[q]
  OBVIOUS
<1>5. k \in Keys
  BY <1>1, <1>4, NextIsPending, RowHasKey DEF IInv, RunInv, Position, InPage
<1>6. /\ Written(now)
      /\ \A c \in Columns : now.col[c] = was.col[c] \/ Overtook(now.col[c].run, q)
  BY <1>1, <1>4 DEF ColumnInv, SeenIsRecent
<1>7. \A p : Overtook(p, q) => Overtook(p, q)'
  BY <1>2 DEF Overtook, Later
<1>8. Key(q, Next1(q))' = k
  BY <1>2, <1>4 DEF Key, Row, Next1, Pending, SameRun, inputs
<1>9. PICK then : then = View(q, k)'
  OBVIOUS
<1>10. View(q, Key(q, Next1(q)))' = then
  BY <1>8, <1>9 DEF View
<1>11. CASE then = now
  BY <1>3, <1>4, <1>6, <1>7, <1>10, <1>11 DEF Written, Overtook
<1>12. CASE then # now
  <2>1. /\ Commit(r) /\ work[q][k] = Clean /\ now = table[k] /\ then = table'[k]
    BY <1>2, <1>4, <1>9, <1>12 DEF View, Quiet, SameRun
  <2>2. PICK row : row = work[r][k]
    OBVIOUS
  <2>3. /\ then = row /\ then.run = r
        /\ \A c \in Columns : PastCell(r, row.col[c], k, c) \/ CopiedCell(row.col[c], k, c)
    BY <1>1, <1>5, <1>12, <2>1, <2>2, CommitBrings DEF ColumnInv
  <2>4. Overtook(r, q)'
    <3>1. pc'[r] = "done" /\ pc[r] # "done"
      BY <1>1, <2>1 DEF Commit, IInv, Shape
    <3>2. r \notin earlier'[q]
      BY <1>1, <1>2, <3>1 DEF EarlierCommitted, Later
    <3> QED BY <3>1, <3>2 DEF Overtook
  <2>5. ASSUME NEW c \in Columns
        PROVE  then.col[c] = was.col[c] \/ Overtook(then.col[c].run, q)'
    <3>1. CASE PastCell(r, row.col[c], k, c)
      <4>1. then.col[c].run = r
        BY <2>3, <3>1 DEF PastCell
      <4> QED BY <2>4, <4>1 DEF Overtook
    <3>2. CASE CopiedCell(row.col[c], k, c)
      <4>1. then.col[c] = now.col[c]
        BY <2>1, <2>3, <3>2 DEF CopiedCell
      <4> QED BY <1>6, <1>7, <4>1 DEF Overtook
    <3> QED BY <2>3, <3>1, <3>2
  <2>6. Written(then)
    BY <2>3, StatsLoadAssumption DEF Written
  <2> QED BY <1>3, <1>4, <1>10, <2>5, <2>6 DEF Written, Overtook
<1> QED BY <1>11, <1>12

-----------------------------------------------------------------------------
(* Locks, and the columns of the tables.                                    *)

(* A run locks only a row that nobody holds.                                *)
LEMMA LocksStay ==
  ASSUME CInv, NEW r \in Runs, Step(r)
  PROVE  LocksExclude'
<1>1. IInv /\ ColumnInv(r) /\ LocksExclude
  BY DEF CInv, OInv, KInv
<1>2. \A q \in Runs \ {r} : work'[q] = work[q]
  BY <1>1, RunStep DEF OthersSame, SameRun
<1>3. ASSUME NEW k \in Keys, work'[r][k] # Clean
      PROVE  work[r][k] # Clean \/ \A q \in Runs \ {r} : work[q][k] = Clean
  <2>1. CASE Start(r) \/ OpenPage(r) \/ Works(r)
    BY <1>3, <2>1 DEF Start, OpenPage, Works, session
  <2>2. CASE \E e \in PageEntries : Closes(r, e)
    <3>1. work'[r] = work[r] \/ (pc[r] = "prepare" /\ work'[r] = mark[r])
      BY <1>1, <2>2 DEF Closes, IInv, Shape
    <3> QED BY <1>1, <1>3, <3>1 DEF ColumnInv, MarkOrigins, InPage
  <2>3. CASE WriteRow(r)
    BY <1>1, <1>3, <2>3 DEF WriteRow, Blocked, LockedBy, IInv, Shape
  <2>4. CASE Commit(r) \/ Crash(r)
    BY <1>1, <1>3, <2>4, RowsAreTyped DEF Commit, Crash, IInv, Shape
  <2> QED BY <1>1, <2>1, <2>2, <2>3, <2>4, Kinds
<1> QED BY <1>1, <1>2, <1>3 DEF LocksExclude

(* Runs that had committed when a run began are done.                       *)
LEMMA EarlierStay ==
  ASSUME CInv, NEW r \in Runs, Step(r)
  PROVE  EarlierCommitted'
<1>1. IInv /\ EarlierCommitted
  BY DEF CInv, OInv, KInv
<1>2. \A q \in Runs : pc[q] = "done" => pc'[q] = "done"
  BY <1>1, DoneStays
<1>3. ASSUME NEW q \in Runs, NEW p \in earlier'[q]
      PROVE  pc[p] = "done" /\ p \in Runs
  <2>1. CASE q = r /\ Start(r)
    BY <1>1, <1>3, <2>1 DEF Start, IInv, Shape
  <2>2. CASE ~(q = r /\ Start(r))
    <3>1. earlier'[q] = earlier[q]
      BY <1>1, <2>2, DoneStays DEF Later
    <3> QED BY <1>1, <1>3, <3>1 DEF EarlierCommitted, IInv, Shape
  <2> QED BY <2>1, <2>2
<1> QED BY <1>2, <1>3 DEF EarlierCommitted

(* A column that is reported stays so.                                      *)
LEMMA ReportedCellStays ==
  ASSUME UNCHANGED inputs, NEW cell, NEW k, NEW c, ReportedCell(cell, k, c),
         \A q \in Runs : pc[q] = "done" => pc'[q] = "done" /\ results'[q] = results[q]
  PROVE  ReportedCell(cell, k, c)'
<1>1. /\ cell.run \in Runs /\ pc'[cell.run] = "done"
      /\ results'[cell.run] = results[cell.run]
  BY DEF ReportedCell
<1>2. PICK n \in LoadedFrom(cell.run, cell.page, k) :
        Gives(cell.run, cell.page, n, c) = cell.is
  BY DEF ReportedCell
<1>3. n \in LoadedFrom(cell.run, cell.page, k)'
  BY <1>1, <1>2 DEF LoadedFrom, LoadedEntry, inputs
<1>4. Gives(cell.run, cell.page, n, c)' = cell.is
  BY <1>2, GivesStays
<1> QED BY <1>1, <1>3, <1>4 DEF ReportedCell

(* A commit brings reported columns into the tables.                        *)
LEMMA TableStaysReported ==
  ASSUME CInv, NEW r \in Runs, Step(r)
  PROVE  TableIsReported'
<1>1. IInv /\ ColumnInv(r) /\ LocksExclude /\ TableIsReported
  BY DEF CInv, OInv, KInv
<1>2. /\ UNCHANGED inputs /\ (Commit(r) \/ Quiet(r))
      /\ \A q \in Runs : pc[q] = "done" => pc'[q] = "done" /\ results'[q] = results[q]
  BY <1>1, DoneStays, RunStep
<1>3. ASSUME NEW k \in Keys, NEW old, old = table[k], Written(old), NEW c \in Columns,
             NEW cell, cell = old.col[c]
      PROVE  ReportedCell(cell, k, c)'
  BY <1>1, <1>2, <1>3, ReportedCellStays DEF TableIsReported
<1>4. ASSUME NEW k \in Keys, NEW new, new = table'[k]
      PROVE  /\ new = NoRow \/ Written(new)
             /\ Written(new) => \A c \in Columns : ReportedCell(new.col[c], k, c)'
  <2>1. PICK old, row : old = table[k] /\ row = work[r][k]
    OBVIOUS
  <2>2. CASE new = old
    <3>1. old = NoRow \/ Written(old)
      BY <1>1, <2>1 DEF TableIsReported
    <3> QED BY <1>3, <2>1, <2>2, <3>1
  <2>3. CASE new # old
    <3>1. /\ Commit(r) /\ new = row /\ new.run = r
          /\ \A c \in Columns : PastCell(r, row.col[c], k, c) \/ CopiedCell(row.col[c], k, c)
      BY <1>1, <1>2, <1>4, <2>1, <2>3, CommitBrings DEF Quiet, ColumnInv
    <3>2. pc'[r] = "done" /\ results'[r] = results[r]
      BY <1>1, <3>1 DEF Commit, IInv, Shape
    <3>3. Written(new)
      BY <3>1, StatsLoadAssumption DEF Written
    <3>4. ASSUME NEW c \in Columns
          PROVE  ReportedCell(new.col[c], k, c)'
      <4>1. PICK cell : cell = row.col[c]
        OBVIOUS
      <4>2. CASE PastCell(r, cell, k, c)
        <5>1. PastCell(r, cell, k, c)'
          BY <1>1, <1>2, <3>2, <4>2, PastCellStays DEF IInv
        <5>2. ReportedCell(cell, k, c)'
          BY <3>2, <5>1 DEF PastCell, ReportedCell
        <5> QED BY <3>1, <4>1, <5>2
      <4>3. CASE CopiedCell(cell, k, c)
        <5>1. Written(old) /\ cell = old.col[c]
          BY <2>1, <4>3 DEF CopiedCell
        <5> QED BY <1>3, <2>1, <3>1, <4>1, <5>1
      <4> QED BY <3>1, <4>1, <4>2, <4>3
    <3> QED BY <3>3, <3>4
  <2> QED BY <2>2, <2>3
<1>5. ASSUME NEW k \in Keys
      PROVE  /\ table'[k] = NoRow \/ Written(table[k])'
             /\ Written(table[k])' => \A c \in Columns : ReportedCell(table[k].col[c], k, c)'
  <2>1. PICK new : new = table'[k]
    OBVIOUS
  <2> QED BY <1>4, <2>1 DEF Written, ReportedCell
<1> QED BY <1>5 DEF TableIsReported, Written, ReportedCell

(* A commit takes from the tables only what its run overtook.               *)
LEMMA TableStaysKept ==
  ASSUME CInv, NEW r \in Runs, Step(r)
  PROVE  TableIsKept'
<1>1. /\ IInv /\ Kept(r) /\ ColumnInv(r) /\ LocksExclude /\ EarlierCommitted
      /\ TableIsKept
  BY DEF CInv, OInv, KInv
<1>2. /\ UNCHANGED inputs /\ (Commit(r) \/ Quiet(r)) /\ pc[r] # "done"
      /\ \A q \in Runs : pc[q] = "done" => pc'[q] = "done" /\ results'[q] = results[q]
      /\ \A q \in Runs : q # r => pc'[q] = pc[q]
  BY <1>1, DoneStays, RunStep DEF OthersSame, SameRun
<1>3. ASSUME NEW q \in Runs, pc[q] = "done", NEW k \in Keys
      PROVE  PastHolds(table[k], q, k)'
  <2>1. q # r /\ Later(q)
    BY <1>1, <1>2, <1>3, DoneStays
  <2>2. PICK old, new, row : old = table[k] /\ new = table'[k] /\ row = work[r][k]
    OBVIOUS
  <2>3. PastHolds(old, q, k)
    BY <1>1, <1>3, <2>2 DEF TableIsKept
  <2>4. PastHolds(old, q, k)'
    BY <1>2, <1>3, <2>1, <2>3, PastHoldsStays
  <2>5. CASE new = old
    BY <2>2, <2>4, <2>5 DEF PastHolds
  <2>6. CASE new # old
    <3>1. /\ Commit(r) /\ new = row
          /\ \A c \in Columns : PastCell(r, row.col[c], k, c) \/ CopiedCell(row.col[c], k, c)
      BY <1>1, <1>2, <2>2, <2>6, CommitBrings DEF Quiet, ColumnInv
    <3>2. Overtook(r, q)'
      <4>1. pc'[r] = "done"
        BY <1>1, <3>1 DEF Commit, IInv, Shape
      <4>2. r \notin earlier'[q]
        BY <1>1, <1>2, <2>1 DEF EarlierCommitted, Later
      <4> QED BY <2>1, <4>1, <4>2 DEF Overtook
    <3>3. ASSUME NEW i \in DOMAIN results'[q], NEW n \in DOMAIN results'[q][i].entries,
                 LoadedAt(q, i, n, k)', NEW c \in Columns
          PROVE  Holds(new.col[c], Gives(q, i, n, c), q, i)'
      <4>1. CASE PastCell(r, row.col[c], k, c)
        <5>1. new.col[c].run = r
          BY <3>1, <4>1 DEF PastCell
        <5> QED BY <3>2, <5>1 DEF Holds, Overtook
      <4>2. CASE CopiedCell(row.col[c], k, c)
        <5>1. new.col[c] = old.col[c]
          BY <2>2, <3>1, <4>2 DEF CopiedCell
        <5>2. Holds(old.col[c], Gives(q, i, n, c), q, i)'
          BY <2>4, <3>3 DEF PastHolds
        <5> QED BY <5>1, <5>2 DEF Holds
      <4> QED BY <3>1, <4>1, <4>2
    <3> QED BY <2>2, <3>3 DEF PastHolds
  <2> QED BY <2>5, <2>6
<1>4. ASSUME pc'[r] = "done", NEW k \in Keys
      PROVE  PastHolds(table[k], r, k)'
  <2>1. Commit(r)
    BY <1>2, <1>4 DEF Quiet
  <2>2. /\ table'[k] = View(r, k) /\ results'[r] = results[r] /\ pc[r] = "page"
    BY <1>1, <2>1 DEF Commit, IInv, Shape
  <2>3. Later(r)
    BY <1>1, <2>2, DoneStays DEF Start
  <2>4. PICK row : row = View(r, k)
    OBVIOUS
  <2>5. PastHolds(row, r, k)
    <3>1. CASE work[r][k] # Clean
      BY <1>1, <2>2, <2>4, <3>1 DEF View, ColumnInv, ColumnsKept, Ended
    <3>2. CASE work[r][k] = Clean
      <4>1. Clean.run # r
        BY StatsLoadAssumption DEF Clean, Blank
      <4>2. \A i \in DOMAIN results[r] : \A n \in DOMAIN results[r][i].entries :
              ~LoadedAt(r, i, n, k)
        BY <1>1, <2>2, <3>2, <4>1 DEF Kept, WorkIsKept, Keeps, Ended
      <4> QED BY <4>2 DEF PastHolds
    <3> QED BY <3>1, <3>2
  <2>6. PastHolds(row, r, k)'
    BY <2>2, <2>3, <2>5, PastHoldsStays
  <2> QED BY <2>2, <2>4, <2>6 DEF PastHolds
<1>5. ASSUME NEW q \in Runs, pc'[q] = "done", NEW k \in Keys
      PROVE  PastHolds(table[k], q, k)'
  BY <1>2, <1>3, <1>4, <1>5
<1> QED BY <1>5 DEF TableIsKept

-----------------------------------------------------------------------------
(* CInv holds at first.                                                     *)
LEMMA InitCInv ==
  ASSUME Init
  PROVE  CInv
<1>1. OInv
  BY InitOInv
<1>2. \A r \in Runs : ColumnInv(r)
  BY RowsAreTyped
  DEF Init, ColumnInv, WorkOrigins, MarkOrigins, SeenIsRecent, ColumnsKept, PastHolds,
      PresentHolds, InPage
<1>3. LocksExclude /\ EarlierCommitted /\ TableIsReported /\ TableIsKept
  BY RowsAreTyped
  DEF Init, LocksExclude, EarlierCommitted, TableIsReported, TableIsKept, Written, NoRow,
      Blank
<1> QED BY <1>1, <1>2, <1>3 DEF CInv

(* Every step keeps CInv.                                                   *)
LEMMA StepCInv ==
  ASSUME CInv, [Next]_vars
  PROVE  CInv'
<1>1. OInv /\ IInv /\ OInv'
  BY StepOInv DEF CInv, OInv, KInv
<1>2. ASSUME NEW r \in Runs, Step(r)
      PROVE  CInv'
  <2>1. ASSUME NEW q \in Runs
        PROVE  ColumnInv(q)'
    <3>1. CASE q = r
      BY <1>1, <1>2, <3>1, OwnColumns, SeenOwn DEF CInv, OInv, KInv, ColumnInv
    <3>2. CASE q # r
      BY <1>2, <3>2, OtherColumns, SeenOther DEF ColumnInv
    <3> QED BY <3>1, <3>2
  <2> QED
    BY <1>1, <1>2, <2>1, LocksStay, EarlierStay, TableStaysReported, TableStaysKept
    DEF CInv
<1>3. CASE LoadCore \/ UNCHANGED vars
  <2>1. UNCHANGED <<inputs, table, session, pc, cur, results, history>>
    BY <1>3 DEF LoadCore, vars
  <2>2. ASSUME NEW q \in Runs
        PROVE  ColumnInv(q)'
    <3>1. ColumnInv(q)
      BY DEF CInv
    <3>2. WorkOrigins(q)' /\ MarkOrigins(q)'
      <4>1. ASSUME NEW cell, NEW k, NEW c
            PROVE  /\ PastCell(q, cell, k, c) => PastCell(q, cell, k, c)'
                   /\ PresentCell(q, cell, k, c) => PresentCell(q, cell, k, c)'
                   /\ CopiedCell(cell, k, c) => CopiedCell(cell, k, c)'
        <5>1. UNCHANGED inputs /\ ent' = ent
          BY <2>1 DEF session
        <5>2. PastCell(q, cell, k, c) => PastCell(q, cell, k, c)'
          BY <1>1, <2>1, <5>1, PastCellStays DEF IInv
        <5>3. PresentCell(q, cell, k, c) => PresentCell(q, cell, k, c)'
          <6> SUFFICES ASSUME PresentCell(q, cell, k, c)
                       PROVE  PresentCell(q, cell, k, c)'
            OBVIOUS
          <6>1. pc'[q] \in {"write", "flush"} /\ cur'[q] = cur[q]
            BY <2>1 DEF PresentCell
          <6> QED BY <5>1, <6>1, PresentCellStays
        <5>4. CopiedCell(cell, k, c) => CopiedCell(cell, k, c)'
          BY <2>1, CopiedStays
        <5> QED BY <5>2, <5>3, <5>4
      <4>2. ASSUME NEW k, NEW row
            PROVE  /\ (\A c \in Columns : Origin(q, row.col[c], k, c))
                        => (\A c \in Columns : Origin(q, row.col[c], k, c)')
                   /\ (\A c \in Columns :
                         PastCell(q, row.col[c], k, c) \/ CopiedCell(row.col[c], k, c))
                        => (\A c \in Columns :
                              PastCell(q, row.col[c], k, c)' \/ CopiedCell(row.col[c], k, c)')
        BY <4>1 DEF Origin
      <4>3. work' = work /\ mark' = mark
        BY <2>1 DEF session
      <4>4. WorkOrigins(q)'
        <5> SUFFICES ASSUME NEW k \in Keys, work'[q][k] # Clean
                     PROVE  \A c \in Columns : Origin(q, work[q][k].col[c], k, c)'
          BY DEF WorkOrigins
        <5>1. PICK row : row = work[q][k]
          OBVIOUS
        <5>2. \A c \in Columns : Origin(q, row.col[c], k, c)'
          BY <3>1, <4>2, <4>3, <5>1 DEF ColumnInv, WorkOrigins
        <5> QED BY <4>3, <5>1, <5>2 DEF Origin, PastCell, PresentCell, CopiedCell
      <4>5. MarkOrigins(q)'
        <5> SUFFICES ASSUME InPage(q), NEW k \in Keys, mark'[q][k] # Clean
                     PROVE  /\ work'[q][k] # Clean
                            /\ \A c \in Columns :
                                 \/ PastCell(q, mark[q][k].col[c], k, c)'
                                 \/ CopiedCell(mark[q][k].col[c], k, c)'
          BY <2>1 DEF MarkOrigins, InPage
        <5>1. PICK row : row = mark[q][k]
          OBVIOUS
        <5>2. /\ work[q][k] # Clean
              /\ \A c \in Columns :
                   PastCell(q, row.col[c], k, c) \/ CopiedCell(row.col[c], k, c)
          BY <3>1, <4>3, <5>1 DEF ColumnInv, MarkOrigins
        <5>3. \A c \in Columns :
                PastCell(q, row.col[c], k, c)' \/ CopiedCell(row.col[c], k, c)'
          BY <4>2, <5>2
        <5> QED BY <4>3, <5>1, <5>2, <5>3 DEF PastCell, CopiedCell
      <4> QED BY <4>4, <4>5
    <3>3. SeenIsRecent(q)'
      BY <2>1, <3>1
      DEF ColumnInv, SeenIsRecent, View, Key, Row, Next1, Pending, Written, Overtook,
          inputs, session, history
    <3>4. ColumnsKept(q)'
      <4>1. Later(q) /\ results' = results /\ pc' = pc
        BY <2>1 DEF Later, history
      <4>2. work' = work /\ mark' = mark /\ ent' = ent
        BY <2>1 DEF session
      <4> SUFFICES ASSUME pc[q] \notin Ended, NEW k \in Keys
                   PROVE  /\ PastHolds(work[q][k], q, k)' /\ PresentHolds(work[q][k], q, k)'
                          /\ InPage(q) => PastHolds(mark[q][k], q, k)'
        BY <2>1 DEF ColumnsKept, InPage
      <4>3. PICK row, saved : row = work[q][k] /\ saved = mark[q][k]
        OBVIOUS
      <4>4. /\ PastHolds(row, q, k) /\ PresentHolds(row, q, k)
            /\ InPage(q) => PastHolds(saved, q, k)
        BY <3>1, <4>3 DEF ColumnInv, ColumnsKept
      <4>5. /\ PastHolds(row, q, k)' /\ PresentHolds(row, q, k)'
            /\ InPage(q) => PastHolds(saved, q, k)'
        BY <2>1, <4>1, <4>2, <4>4, PastHoldsStays, PresentHoldsStays
      <4> QED BY <4>2, <4>3, <4>5 DEF PastHolds, PresentHolds
    <3> QED BY <3>2, <3>3, <3>4 DEF ColumnInv
  <2>3. LocksExclude' /\ EarlierCommitted'
    BY <2>1 DEF CInv, LocksExclude, EarlierCommitted, session, history
  <2>4. TableIsReported'
    <3>1. \A k \in Keys : \A c \in Columns :
            ReportedCell(table[k].col[c], k, c) => ReportedCell(table[k].col[c], k, c)'
      <4> SUFFICES ASSUME NEW k \in Keys, NEW c \in Columns,
                          ReportedCell(table[k].col[c], k, c)
                   PROVE  ReportedCell(table[k].col[c], k, c)'
        OBVIOUS
      <4>1. PICK cell : cell = table[k].col[c]
        OBVIOUS
      <4>2. ReportedCell(cell, k, c)'
        BY <2>1, <4>1, ReportedCellStays
      <4> QED BY <2>1, <4>1, <4>2 DEF ReportedCell
    <3> QED BY <2>1, <3>1 DEF CInv, TableIsReported, Written
  <2>5. TableIsKept'
    BY <2>1 DEF CInv, TableIsKept, PastHolds, LoadedAt, LoadedEntry, Holds, Overtook,
       Gives, inputs, history
  <2> QED BY <1>1, <2>2, <2>3, <2>4, <2>5 DEF CInv
<1> QED BY <1>2, <1>3 DEF Next

-----------------------------------------------------------------------------
(***************************************************************************)
(* The theorems.                                                           *)
(***************************************************************************)

(* Every stats row is accounted for, column by column: the run that         *)
(* upserted it last did commit, and its report says that a row of that page *)
(* with this grain was loaded; so did the run that wrote a column, and a    *)
(* row that it reports as loaded says what the column holds.                *)
THEOREM Accounted == Spec => []RowsAreReported
<1>1. ASSUME CInv
      PROVE  RowsAreReported
  <2> SUFFICES ASSUME NEW k \in Keys, Written(table[k])
               PROVE  /\ pc[table[k].run] = "done"
                      /\ LoadedFrom(table[k].run, table[k].page, k) # {}
                      /\ \A c \in Columns : ReportedCell(table[k].col[c], k, c)
    BY DEF RowsAreReported, ReportedCell
  <2>1. Reported(k)
    BY <1>1 DEF CInv, OInv, KInv, IInv, UpsertsAreReported
  <2>2. \A c \in Columns : ReportedCell(table[k].col[c], k, c)
    BY <1>1 DEF CInv, TableIsReported
  <2> QED BY <2>1, <2>2 DEF Reported, LoadedAt, LoadedFrom
<1> QED BY <1>1, InitCInv, StepCInv, PTL DEF Spec

(* A row that a committed run reports as loaded is in the database.         *)
LEMMA LoadedIsThere ==
  ASSUME CInv, NEW r \in Runs, pc[r] = "done", NEW i \in DOMAIN results[r],
         NEW n \in DOMAIN results[r][i].entries, LoadedEntry(r, i, n)
  PROVE  InDatabase(r, i, n)
<1>1. PICK k : k = KeyOf(command[r], pages[r][i].rows[n])
  OBVIOUS
<1>2. k \in Keys
  BY <1>1, KeyOfReported DEF CInv, OInv, KInv, IInv, RunInv
<1>3. LoadedAt(r, i, n, k)
  BY <1>1 DEF LoadedAt
<1>4. AtLeast(table[k], r, i)
  BY <1>2, <1>3 DEF CInv, OInv, KInv, UpsertsPersist, Persists
<1>5. \A c \in Columns : Holds(table[k].col[c], Gives(r, i, n, c), r, i)
  BY <1>2, <1>3 DEF CInv, TableIsKept, PastHolds
<1> QED BY <1>1, <1>4, <1>5 DEF InDatabase

(* A row that a committed run reports as loaded is in the database: it was  *)
(* upserted last by that page, a later page, or a run that committed later, *)
(* and each of its columns holds what the page says, unless one of these or *)
(* a run that committed while r was under way wrote it.                     *)
THEOREM Persistent == Spec => []LoadedRowsPersist
<1>1. CInv => LoadedRowsPersist
  BY LoadedIsThere DEF LoadedRowsPersist
<1> QED BY <1>1, InitCInv, StepCInv, PTL DEF Spec

(* Of two rows of a page that target one grain of one table, neither wins:  *)
(* neither a stats row nor a column of it stems from that page.             *)
THEOREM NeitherWins == Spec => []DuplicatesNeitherWin
<1>1. ASSUME CInv
      PROVE  DuplicatesNeitherWin
  <2> SUFFICES ASSUME NEW r \in Runs, NEW i \in DOMAIN results[r],
                      NEW n \in DOMAIN results[r][i].entries, Collides(r, i, n),
                      NEW k, k = KeyOf(command[r], pages[r][i].rows[n]),
                      \/ table[k].run = r /\ table[k].page = i
                      \/ \E c \in Columns :
                           table[k].col[c].run = r /\ table[k].col[c].page = i
               PROVE  FALSE
    BY DEF DuplicatesNeitherWin
  <2> DEFINE entries == results[r][i].entries
  <2>1. k \in Keys /\ IInv
    BY <1>1, KeyOfReported DEF CInv, OInv, KInv, IInv, RunInv
  <2>2. Written(table[k])
    <3>1. r # NONE /\ NoRow.run = NONE /\ \A c \in Columns : NoRow.col[c].run = NONE
      BY StatsLoadAssumption DEF NoRow, Blank
    <3>2. table[k] # NoRow
      BY <3>1
    <3> QED BY <1>1, <2>1, <3>2 DEF CInv, TableIsReported
  <2>3. PICK l \in DOMAIN entries : LoadedAt(r, i, l, k)
    <3>1. CASE table[k].run = r /\ table[k].page = i
      BY <2>1, <2>2, <3>1 DEF IInv, UpsertsAreReported, Reported
    <3>2. ASSUME NEW c \in Columns, table[k].col[c].run = r, table[k].col[c].page = i
          PROVE  \E l \in DOMAIN entries : LoadedAt(r, i, l, k)
      <4>1. ReportedCell(table[k].col[c], k, c)
        BY <1>1, <2>1, <2>2 DEF CInv, TableIsReported
      <4> QED BY <3>2, <4>1 DEF ReportedCell, LoadedFrom, LoadedAt
    <3> QED BY <3>1, <3>2
  <2>4. PICK m \in DOMAIN entries \ {n} :
          /\ {entries[m].reason, entries[n].reason} \subseteq Settled
          /\ KeyOf(command[r], pages[r][i].rows[m]) = k
    BY DEF Collides, Settled
  <2>5. Sole(command[r], RowsOf(r, i), entries)
    BY <1>1 DEF CInv, OInv, Judged, ReportIsJudged
  <2>6. Chosen(entries[l]) /\ Contender(entries[m]) /\ Contender(entries[n])
    BY <2>3, <2>4 DEF LoadedAt, LoadedEntry, Chosen, Contender
  <2>7. \A x \in {m, n} : KeyOf(command[r], RowsOf(r, i)[x]) = k
    BY <2>4 DEF RowsOf
  <2>8. KeyOf(command[r], RowsOf(r, i)[l]) = k
    BY <2>3 DEF LoadedAt, RowsOf
  <2> QED BY <2>4, <2>5, <2>6, <2>7, <2>8 DEF Sole
<1> QED BY <1>1, InitCInv, StepCInv, PTL DEF Spec

(* While runs do not overlap, a stats row is one parse: the values, blanks  *)
(* included, of a row with its grain on the page that upserted it last, and *)
(* that page's lineage; nothing is left over from the row it replaced.      *)
THEOREM NothingIsMixed == Spec => []RowIsOneParse
<1>1. OInv => RowIsOneParse
  BY DEF OInv, RowIsOneParse, OneParse, Written
<1> QED BY <1>1, InitOInv, StepOInv, PTL DEF Spec

(* When a player-page command exits with code 0, every supported row of     *)
(* every page, of every season that the archive held when the run started,  *)
(* is in the database.                                                      *)
THEOREM CleanExitIsTrue == Spec => []CleanExitMeansLoaded
<1>1. ASSUME CInv
      PROVE  CleanExitMeansLoaded
  <2> SUFFICES ASSUME NEW r \in Runs, ExitsZero(r), command[r] # "stats",
                      NEW i \in DOMAIN pages[r], NEW n \in DOMAIN pages[r][i].rows,
                      Supported(command[r], pages[r][i].rows[n]),
                      pages[r][i].rows[n].season \in scope[r]
               PROVE  InDatabase(r, i, n)
    BY DEF CleanExitMeansLoaded
  <2>1. IInv /\ Judged(r) /\ pc[r] = "done"
    BY <1>1 DEF CInv, OInv, KInv, ExitsZero
  <2>2. i \in DOMAIN results[r]
    BY <2>1 DEF IInv, Shape, RunInv, Position, Judged
  <2>3. results[r][i] \in PageEntries /\ pages[r][i] \in Pages
    BY <2>1, <2>2 DEF IInv, Shape
  <2>4. n \in DOMAIN results[r][i].entries
    <3>1. Len(results[r][i].entries) = Len(pages[r][i].rows)
      BY <2>1, <2>2 DEF Judged, ReportIsJudged, RowsOf, ExitsZero
    <3> QED BY <2>3, <3>1 DEF PageEntries, Pages
  <2>5. PICK e \in Entries : e = results[r][i].entries[n]
    BY <2>3, <2>4 DEF PageEntries
  <2>6. /\ e.status # "failed" /\ ~Unresolved(r, i, n)
        /\ e.status # "prepared" /\ Counted(command[r], pages[r][i].rows[n], e)
    BY <2>1, <2>2, <2>4, <2>5
    DEF ExitsZero, Judged, ReportIsJudged, AllCounted, RowsOf
  <2>7. e.status # "skipped"
    BY <2>5, <2>6 DEF Counted, Unresolved
  <2>8. e.status = "loaded"
    BY <2>6, <2>7 DEF Entries
  <2> QED BY <1>1, <2>1, <2>2, <2>4, <2>5, <2>8, LoadedIsThere DEF LoadedEntry
<1> QED BY <1>1, InitCInv, StepCInv, PTL DEF Spec

=============================================================================
