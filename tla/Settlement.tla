----------------------------- MODULE Settlement -----------------------------
(***************************************************************************)
(* The end of a trading day.  Simutgw_Settle writes the settlement files   *)
(* of both markets from order_match and the holdings, then turns what was  *)
(* bought into available shares.  Simutgw_DayEnd moves the day's tables to *)
(* their archives.  Both run on request, while trades may still be         *)
(* recorded and AsyncDbWriter still writes holdings; any statement may     *)
(* fail and the program may end at any step, after which the operator asks *)
(* again.                                                                  *)
(*                                                                         *)
(* MySQL is external: a connection without autocommit reads the snapshot   *)
(* of its first SELECT, an UPDATE reads and locks the current row, INSERT  *)
(* ... SELECT locks what it reads, TRUNCATE commits first.                 *)
(***************************************************************************)
EXTENDS SettleFiles, Ascending

CONSTANTS Trades,      \* the rows of order_match: a function from their ids
          Late,        \* ids of the trades recorded after the start
          Orders,      \* ids of the rows of order_record and order_report
          Holdings,    \* the rows of stock_asset and stock_etf_asset
          Requested,   \* the values of in_vctSettleGroup; the empty one means all
          Syncs,       \* what trades change: a holding, and each column by how much
          MaxRequests, MaxFaults, MaxSyncs, MaxLate

\* A row of the two tables of holdings: the balance and its four parts, rdp being
\* the shares of redemptions, in stock_etf_asset those of creations.
StockRow == [id : Nat, table : {"stock_asset", "stock_etf_asset"}, market : {"SH", "SZ"},
            bal : Nat, act : Nat, stp : Nat, rdp : Nat, avl : Nat]

\* What a trade does to the columns of a row.
Change == [bal : Int, act : Int, stp : Int, rdp : Int, avl : Int]

Total(s) == s.act + s.stp + s.rdp + s.avl

ASSUME SettlementAssumption ==
    /\ IsFiniteSet(DOMAIN Trades) /\ Late \subseteq DOMAIN Trades
    /\ \A i \in DOMAIN Trades : Trades[i].id = i /\ Trades[i].type \in TradeType
    /\ IsFiniteSet(DOMAIN Holdings) /\ DOMAIN Trades \cup DOMAIN Holdings \subseteq Nat
    /\ Holdings \in [DOMAIN Holdings -> StockRow]
    /\ \A groups \in Requested : IsFiniteSet(groups)
    /\ Syncs \subseteq (DOMAIN Holdings) \X Change
    /\ {MaxRequests, MaxFaults, MaxSyncs, MaxLate} \subseteq Nat

Table == <<"order_match", "order_record", "order_report">>
Group == {Trades[i].group : i \in DOMAIN Trades}
File == ({"gh", "bc1", "zqbd", "SJSMX1", "SJSMX2", "SJSJG"} \X Group)
            \cup ({"zqye", "SJSDZ"} \X {"today", "next"})

VARIABLES live,      \* rows of the day's tables
          old,       \* archives: how often each row is in it
          stock,     \* rows of the two tables of holdings
          disk,      \* files in the directory of the day
          job,       \* the request being handled
          h,         \* the dBASE writer's handle
          out,       \* files of the present Gen_ function still to be written
          view,      \* the snapshot of the request's connection
          staged,    \* rows updated by a transaction that is not committed
          copied,    \* archive rows written and not committed
          budget,    \* requests, faults, syncs and late trades so far
          begun,     \* history: live when the last day end began
          shares,    \* history: how many shares each holding is of
          unseen,    \* history: holdings changed behind the UPDATE's condition
          result     \* of the last settlement: what it covered, whether disturbed

settlementVars == <<live, old, stock, disk, job, h, out, view, staged, copied, budget,
          begun, shares, unseen, result>>
files == <<disk, h, out>>
tables == <<live, old, copied, begun>>
holdings == <<stock, staged, shares, unseen>>

NoView == [match |-> {}, stock |-> <<>>, seen |-> <<>>]
NoJob == [pc |-> "idle", todo |-> <<>>, groups |-> {}, rows |-> <<>>, rc |-> 0]
NoResult == [ok |-> FALSE, groups |-> {}, match |-> {}, stock |-> <<>>, disturbed |-> FALSE]

Ids(t) == IF t = "order_match" THEN DOMAIN Trades ELSE Orders

SettlementInit ==
    /\ live = [t \in ToSet(Table) |-> Ids(t) \ IF t = "order_match" THEN Late ELSE {}]
    /\ old = [t \in ToSet(Table) |-> [i \in Ids(t) |-> 0]]
    /\ stock = Holdings
    /\ disk = [f \in File |-> NoFile]
    /\ job = NoJob
    /\ h = Closed
    /\ out = <<>>
    /\ view = NoView
    /\ staged = <<>>
    /\ copied = [t \in ToSet(Table) |-> {}]
    /\ budget = [requests |-> 0, faults |-> 0, syncs |-> 0, late |-> 0]
    /\ begun = [t \in ToSet(Table) |-> {}]
    /\ shares = [s \in DOMAIN Holdings |-> Total(Holdings[s])]
    /\ unseen = {}
    /\ result = NoResult

\* A call fails: one of the bounded number of faults.
Fault ==
    /\ budget.faults < MaxFaults
    /\ budget' = [budget EXCEPT !.faults = @ + 1]

\* The request returns -1, its connection is released and rolled back.
Abandon ==
    /\ job' = NoJob
    /\ h' = Closed /\ out' = <<>> /\ view' = NoView /\ staged' = <<>>
    /\ copied' = [t \in ToSet(Table) |-> {}]
    /\ result' = [result EXCEPT !.disturbed = TRUE]

-----------------------------------------------------------------------------
(* The others: trades are recorded, holdings written                       *)

\* A task of AsyncDbWriter inserts into order_match, unless INSERT ... SELECT
\* has locked it.
RecordTrade(i) ==
    /\ budget.late < MaxLate /\ i \notin live["order_match"] /\ old["order_match"][i] = 0
    /\ ~(job.pc \in {"move", "truncate"} /\ copied["order_match"] # {})
    /\ live' = [live EXCEPT !["order_match"] = @ \cup {i}]
    /\ budget' = [budget EXCEPT !.late = @ + 1]
    /\ UNCHANGED <<old, copied, begun, holdings, files, job, view, result>>

Plus(row, d) ==
    [row EXCEPT !.bal = @ + d.bal, !.act = @ + d.act, !.stp = @ + d.stp,
                !.rdp = @ + d.rdp, !.avl = @ + d.avl]

\* A trade has changed the parts of a holding and not its balance, and a
\* settlement that has read the row is still to write it.
BehindCondition(s, d) ==
    job.pc = "stock" /\ s \in ToSet(job.rows) /\ d.bal # Total(d)

\* A task of the stock cache changes a row, unless a transaction has locked it.  A
\* trade whose shares all come from the part that is used first changes that part
\* only; any other changes the balance as well (SellFroze, CreationFroze).
StockSync(s, d) ==
    /\ budget.syncs < MaxSyncs /\ s \notin DOMAIN staged
    /\ Plus(stock[s], d) \in StockRow
    /\ stock' = [stock EXCEPT ![s] = Plus(@, d)]
    /\ shares' = [shares EXCEPT ![s] = @ + Total(d)]
    /\ unseen' = IF BehindCondition(s, d) THEN unseen \cup {s} ELSE unseen
    /\ budget' = [budget EXCEPT !.syncs = @ + 1]
    /\ result' = [result EXCEPT !.disturbed = TRUE]
    /\ UNCHANGED <<tables, staged, files, job, view>>

-----------------------------------------------------------------------------
(* Settlement: the files                                                   *)

DetailSteps(g) ==
    <<<<"gh", g>>, <<"bc1", g>>, <<"zqbd", g>>, <<"SJSMXn", g>>, <<"SJSJG", g>>>>

\* MakeSettlement: the details of each group, then both summaries, then the
\* two tables of holdings.
Steps(groups) ==
    [k \in 1..5 * Cardinality(groups) |->
        DetailSteps(SetToSeq(groups)[((k - 1) \div 5) + 1])[((k - 1) % 5) + 1]]
        \o <<<<"zqye">>, <<"SJSDZ">>, <<"stock_asset">>, <<"stock_etf_asset">>>>

\* Simutgw_Settle, MakeSettlement: the directory of the day is made if there
\* is none; the request may name groups.
Simutgw_Settle(groups) ==
    /\ job.pc = "idle" /\ budget.requests < MaxRequests
    /\ budget' = [budget EXCEPT !.requests = @ + 1]
    /\ job' = IF groups = {} THEN [NoJob EXCEPT !.pc = "groups"]
              ELSE [NoJob EXCEPT !.pc = "gen", !.groups = groups, !.todo = Steps(groups)]
    /\ result' = NoResult
    /\ UNCHANGED <<tables, holdings, files, view>>

\* The consistent read of the connection.
View == IF view = NoView THEN [match |-> live["order_match"], stock |-> stock, seen |-> <<>>] ELSE view

\* GetSettleGroupNames: a failed query is no error, it gives no groups.
GetSettleGroupNames ==
    /\ job.pc = "groups"
    /\ \/ /\ view' = View
          /\ LET groups == {Trades[i].group : i \in View.match}
             IN  job' = [job EXCEPT !.pc = "gen", !.groups = groups, !.todo = Steps(groups)]
          /\ UNCHANGED budget
       \/ /\ Fault
          /\ job' = [job EXCEPT !.pc = "gen", !.todo = Steps({})]
          /\ UNCHANGED view
    /\ UNCHANGED <<tables, holdings, files, result>>

\* Rows of a group in one market, in the order of their trade_time.
Of(match, g, market, types) ==
    Ascending({i \in match : Trades[i].group = g /\ Trades[i].market = market
                              /\ Trades[i].type \in types})

AShare == {"a_trade", "margin_cash", "margin_stock"}

\* The std::map of rows by seat or account.
By(rows, field) ==
    LET keys == Ascending({Trades[i][field] : i \in ToSet(rows)})
    IN  [k \in DOMAIN keys |-> SelectSeq(rows, LAMBDA i : Trades[i][field] = keys[k])]

\* Mutant of Gen_gh: every trade of Shanghai.
Gen_gh_All(match, g) ==
    <<[file |-> <<"gh", g>>, chunks |-> By(Of(match, g, "SH", TradeType), "seat")]>>

Gen_gh(match, g) ==
    <<[file |-> <<"gh", g>>, chunks |-> By(Of(match, g, "SH", AShare), "seat")]>>

Gen_bc1(match, g) ==
    <<[file |-> <<"bc1", g>>, chunks |-> By(Of(match, g, "SH", {"b_trade"}), "account")]>>

Gen_zqbd(match, g) ==
    <<[file |-> <<"zqbd", g>>, chunks |-> <<Of(match, g, "SH", TradeType)>>]>>

\* Mutant of Gen_SJSMXn: a type is forgotten.
Gen_SJSMXn_NoMargin(match, g) ==
    <<[file |-> <<"SJSMX1", g>>,
       chunks |-> <<Of(match, g, "SZ", TradeType \ {"b_trade", "margin_cash"})>>],
      [file |-> <<"SJSMX2", g>>, chunks |-> <<Of(match, g, "SZ", {"b_trade"})>>]>>

Gen_SJSMXn(match, g) ==
    <<[file |-> <<"SJSMX1", g>>, chunks |-> <<Of(match, g, "SZ", TradeType \ {"b_trade"})>>],
      [file |-> <<"SJSMX2", g>>, chunks |-> <<Of(match, g, "SZ", {"b_trade"})>>]>>

Gen_SJSJG(match, g) ==
    <<[file |-> <<"SJSJG", g>>, chunks |-> <<Of(match, g, "SZ", EtfType)>>]>>

InMarket(st, market) == Ascending({s \in DOMAIN st : st[s].market = market})

Gen_zqye_inTwoDays(st) ==
    [d \in 1..2 |-> [file |-> <<"zqye", <<"today", "next">>[d]>>, chunks |-> <<InMarket(st, "SH")>>]]

Gen_SJSDZ(st) ==
    [d \in 1..2 |-> [file |-> <<"SJSDZ", <<"today", "next">>[d]>>, chunks |-> <<InMarket(st, "SZ")>>]]

\* What the present step writes, without the files that get no row.
Generated(step) ==
    LET g == step[2]
        all == CASE step[1] = "gh" -> Gen_gh(View.match, g)
                 [] step[1] = "bc1" -> Gen_bc1(View.match, g)
                 [] step[1] = "zqbd" -> Gen_zqbd(View.match, g)
                 [] step[1] = "SJSMXn" -> Gen_SJSMXn(View.match, g)
                 [] step[1] = "SJSJG" -> Gen_SJSJG(View.match, g)
                 [] step[1] = "zqye" -> Gen_zqye_inTwoDays(View.stock)
                 [] step[1] = "SJSDZ" -> Gen_SJSDZ(View.stock)
    IN  SelectSeq(all, LAMBDA o : \E k \in DOMAIN o.chunks : o.chunks[k] # <<>>)

IsGen(step) == step[1] \notin {"stock_asset", "stock_etf_asset"}

\* The query of a Gen_ function, read to its end before a file is touched.
Gen_Query ==
    /\ job.pc = "gen" /\ job.todo # <<>> /\ IsGen(Head(job.todo))
    /\ \/ /\ view' = View
          /\ out' = Generated(Head(job.todo))
          /\ job' = [job EXCEPT !.pc = IF out' = <<>> THEN "gen" ELSE "open",
                                !.todo = Tail(@)]
          /\ UNCHANGED <<tables, holdings, disk, h, budget, result>>
       \/ /\ Fault /\ Abandon
          /\ UNCHANGED <<live, old, begun, stock, shares, unseen, disk>>

Columns(kind) ==
    CASE kind = "gh" -> DBF_gh [] kind = "bc1" -> DBF_bc1 [] kind = "zqbd" -> DBF_zqbd
      [] kind \in {"SJSMX1", "SJSMX2"} -> DBF_SJSMXn [] kind = "SJSJG" -> DBF_SJSJG
      [] kind = "zqye" -> DBF_zqye [] kind = "SJSDZ" -> DBF_SJSDZ

Value(file, r, st) ==
    LET kind == file[1] next == file[2] = "next"
    IN  CASE kind = "gh" -> DBF_Value_gh(Trades[r])
          [] kind = "bc1" -> DBF_Value_bc1(Trades[r])
          [] kind = "zqbd" -> DBF_Value_zqbd(Trades[r])
          [] kind = "SJSMX1" -> DBF_Value_SJSMX1(Trades[r])
          [] kind = "SJSMX2" -> DBF_Value_SJSMX2(Trades[r])
          [] kind = "SJSJG" -> DBF_Value_SJSJG(Trades[r])
          [] kind = "zqye" -> DBF_Value_zqye(st[r], next)
          [] kind = "SJSDZ" -> DBF_Value_SJSDZ(st[r], next)

\* Create unless there is such a file, then Open: a file of an earlier
\* request of the day is continued.
Gen_Open ==
    /\ job.pc = "open"
    /\ LET o == Head(out)
           f == IF disk[o.file] = NoFile THEN Create(Columns(o.file[1])) ELSE disk[o.file]
       IN  /\ disk' = [disk EXCEPT ![o.file] = f]
           /\ h' = Open(Closed, f, Columns(o.file[1]))
    /\ job' = [job EXCEPT !.pc = "row", !.rows = Head(Head(out).chunks)]
    /\ UNCHANGED <<tables, holdings, out, view, budget, result>>

Skipped == Head(out).file[1] = "SJSJG" /\ SJSJG_Skips(Trades[Head(job.rows)])

\* DBF_Value_SJSJG says 1: the row is passed over, and 1 is what the function
\* returns when it was the last one.
Gen_Skip ==
    /\ job.pc = "row" /\ job.rows # <<>> /\ Skipped
    /\ job' = [job EXCEPT !.rows = Tail(@), !.rc = 1]
    /\ UNCHANGED <<tables, holdings, files, view, budget, result>>

\* Append, first write.  A closed handle can add nothing.
Append_Blank ==
    /\ job.pc = "row" /\ job.rows # <<>> /\ ~Skipped
    /\ LET f == Head(out).file
           w == WriteBlank(h, disk[f])
       IN  \/ /\ w # Failed
              /\ disk' = [disk EXCEPT ![f] = w]
              /\ job' = [job EXCEPT !.pc = "count", !.rc = 0]
              /\ UNCHANGED <<tables, holdings, h, out, view, budget, result>>
           \/ /\ w = Failed
              /\ Abandon
              /\ UNCHANGED <<live, old, begun, stock, shares, unseen, disk, budget>>
           \/ /\ w # Failed
              /\ Fault /\ Abandon
              /\ UNCHANGED <<live, old, begun, stock, shares, unseen, disk>>

\* Append, second write.
Append_Count ==
    /\ job.pc = "count"
    /\ disk' = [disk EXCEPT ![Head(out).file] = CountRecord(@)]
    /\ job' = [job EXCEPT !.pc = "fill"]
    /\ UNCHANGED <<tables, holdings, h, out, view, budget, result>>

\* Append, the values and the third write, which leaves the blank record when
\* it fails.  No value is without its column (ColumnsFound).
Append_Fill ==
    /\ job.pc = "fill"
    /\ LET f == Head(out).file
           r == Head(job.rows)
           w == FillNew(disk[f], Columns(f[1]), DOMAIN Value(f, r, View.stock), r)
       IN  \/ /\ w # Failed
              /\ disk' = [disk EXCEPT ![f] = w]
              /\ job' = [job EXCEPT !.pc = "row", !.rows = Tail(@)]
              /\ UNCHANGED <<tables, holdings, h, out, view, budget, result>>
           \/ /\ Fault /\ Abandon
              /\ UNCHANGED <<live, old, begun, stock, shares, unseen, disk>>

\* Close after each seat (gh), each account (bc1), or all rows; the next
\* seat's rows then meet a closed handle.
Gen_Close ==
    /\ job.pc = "row" /\ job.rows = <<>>
    /\ LET rest == Tail(Head(out).chunks)
       IN  \/ /\ rest # <<>>
              /\ h' = Closed
              /\ out' = <<[Head(out) EXCEPT !.chunks = rest]>> \o Tail(out)
              /\ job' = [job EXCEPT !.rows = Head(rest)]
              /\ UNCHANGED <<tables, holdings, disk, view, budget, result>>
           \/ /\ rest = <<>> /\ job.rc = 0
              /\ h' = Closed
              /\ out' = Tail(out)
              /\ job' = [job EXCEPT !.pc = IF Len(out) = 1 THEN "gen" ELSE "open"]
              /\ UNCHANGED <<tables, holdings, disk, view, budget, result>>
           \/ /\ rest = <<>> /\ job.rc # 0
              /\ Abandon
              /\ UNCHANGED <<live, old, begun, stock, shares, unseen, disk, budget>>

-----------------------------------------------------------------------------
(* Settlement: the holdings                                                *)

\* Mutant of NeedsSettling: only purchases at auction are looked at.
NeedsSettling_ActOnly(s) == s.act # 0

\* GetStock passes over rows of which everything is available.
NeedsSettling(s) == ~(s.bal = s.avl /\ s.act = 0 /\ s.stp = 0 /\ s.rdp = 0)

\* Stock_Asset_Settle, Stock_ETF_Asset_Settle: a transaction on a connection
\* of their own reads the rows to settle.
Stock_Read ==
    /\ job.pc = "gen" /\ job.todo # <<>> /\ ~IsGen(Head(job.todo))
    /\ \/ /\ job' = [job EXCEPT !.pc = "stock",
                       !.rows = Ascending({s \in DOMAIN stock :
                                           /\ stock[s].table = Head(job.todo)[1]
                                           /\ NeedsSettling(stock[s])})]
          /\ view' = [view EXCEPT !.seen = stock]
          /\ UNCHANGED <<tables, holdings, files, budget, result>>
       \/ /\ Fault /\ Abandon
          /\ UNCHANGED <<live, old, begun, stock, shares, unseen, disk>>

\* Mutant of Unchanged: the row is named by its id alone.
Unchanged_IdOnly(now, seen) == TRUE

\* The condition of the UPDATE.
Unchanged(now, seen) == now.bal = seen.bal /\ now.avl = seen.avl

SettledRow(s) == [s EXCEPT !.bal = Total(s), !.avl = Total(s), !.act = 0, !.stp = 0, !.rdp = 0]

\* Update_Stock_Asset, Update_Stock_ETF_Asset: what they return is not looked at.
Stock_Update ==
    /\ job.pc = "stock" /\ job.rows # <<>>
    /\ LET s == Head(job.rows)
           seen == view.seen[s]
       IN  \/ /\ Unchanged(stock[s], seen)
              /\ staged' = [x \in {s} \cup DOMAIN staged |-> IF x = s THEN SettledRow(seen) ELSE staged[x]]
              /\ UNCHANGED <<budget, result>>
           \/ /\ ~Unchanged(stock[s], seen)
              /\ UNCHANGED <<staged, budget, result>>
           \/ /\ Fault
              /\ result' = [result EXCEPT !.disturbed = TRUE]
              /\ UNCHANGED staged
    /\ job' = [job EXCEPT !.rows = Tail(@)]
    /\ UNCHANGED <<tables, stock, shares, unseen, files, view>>

\* The commit, whose failure goes unnoticed, then the next table or the end
\* of MakeSettlement.
Stock_Commit ==
    /\ job.pc = "stock" /\ job.rows = <<>>
    /\ \/ /\ stock' = [s \in DOMAIN stock |-> IF s \in DOMAIN staged THEN staged[s] ELSE stock[s]]
          /\ UNCHANGED <<budget, result>>
       \/ /\ Fault
          /\ result' = [result EXCEPT !.disturbed = TRUE]
          /\ UNCHANGED stock
    /\ staged' = <<>>
    /\ job' = [job EXCEPT !.pc = IF Len(job.todo) = 1 THEN "settled" ELSE "gen",
                          !.todo = Tail(@)]
    /\ UNCHANGED <<tables, shares, unseen, files, view>>

Settle_Return ==
    /\ job.pc = "settled"
    /\ result' = [result EXCEPT !.ok = TRUE, !.groups = job.groups, !.match = view.match,
                                 !.stock = view.stock]
    /\ job' = NoJob /\ view' = NoView
    /\ UNCHANGED <<tables, holdings, files, budget>>

-----------------------------------------------------------------------------
(* Day end                                                                 *)

\* Simutgw_DayEnd, BackupDb: the order of the copies and of the truncations.
MoveOrder == <<"order_match", "order_record", "order_report">>

\* Mutant of TruncateOrder: a table is forgotten.
TruncateOrder_NoReport == <<"order_record", "order_match">>

TruncateOrder == <<"order_record", "order_match", "order_report">>

Simutgw_DayEnd ==
    /\ job.pc = "idle" /\ budget.requests < MaxRequests
    /\ budget' = [budget EXCEPT !.requests = @ + 1]
    /\ job' = [NoJob EXCEPT !.pc = "move", !.todo = MoveOrder]
    /\ begun' = live
    /\ UNCHANGED <<live, old, copied, holdings, files, view, result>>

\* Mutant of MoveDbdata: a failed INSERT ... SELECT is passed over.
MoveDbdata_Unchecked ==
    /\ job.pc = "move"
    /\ LET t == Head(job.todo)
       IN  \/ copied' = [copied EXCEPT ![t] = live[t]] /\ UNCHANGED budget
           \/ Fault /\ UNCHANGED copied
    /\ job' = IF Len(job.todo) = 1 THEN [job EXCEPT !.pc = "truncate", !.todo = TruncateOrder]
                                   ELSE [job EXCEPT !.todo = Tail(@)]
    /\ UNCHANGED <<live, old, begun, holdings, files, view, result>>

\* MoveDbdata: INSERT INTO ..._old ... SELECT * FROM ...
MoveDbdata ==
    /\ job.pc = "move"
    /\ LET t == Head(job.todo)
       IN  \/ /\ copied' = [copied EXCEPT ![t] = live[t]]
              /\ job' = IF Len(job.todo) = 1
                        THEN [job EXCEPT !.pc = "truncate", !.todo = TruncateOrder]
                        ELSE [job EXCEPT !.todo = Tail(@)]
              /\ UNCHANGED <<live, old, begun, holdings, files, view, budget, result>>
           \/ /\ Fault /\ Abandon
              /\ UNCHANGED <<live, old, begun, stock, shares, unseen, disk>>

\* The archives after the copies have been committed.
Archived == [t \in ToSet(Table) |-> [i \in Ids(t) |-> old[t][i] + IF i \in copied[t] THEN 1 ELSE 0]]

\* TruncateTable: the statement commits the copies and empties the table; when
\* it fails the copies are committed or rolled back.
TruncateTable ==
    /\ job.pc = "truncate" /\ job.todo # <<>>
    /\ \/ /\ old' = Archived
          /\ copied' = [t \in ToSet(Table) |-> {}]
          /\ live' = [live EXCEPT ![Head(job.todo)] = {}]
          /\ job' = [job EXCEPT !.todo = Tail(@)]
          /\ UNCHANGED <<begun, holdings, files, view, budget, result>>
       \/ /\ Fault /\ Abandon
          /\ old' \in {old, Archived}
          /\ UNCHANGED <<live, begun, stock, shares, unseen, disk>>

\* Commit, Reset (which does nothing), and the return.
DayEnd_Return ==
    /\ job.pc = "truncate" /\ job.todo = <<>>
    /\ job' = NoJob
    /\ UNCHANGED <<tables, holdings, files, view, budget, result>>

-----------------------------------------------------------------------------

\* The program ends in the middle of a request and is started again.
Crash ==
    /\ job.pc # "idle"
    /\ Fault /\ Abandon
    /\ UNCHANGED <<live, old, begun, stock, shares, unseen, disk>>

Others ==
    \/ \E i \in Late : RecordTrade(i)
    \/ \E c \in Syncs : StockSync(c[1], c[2])

\* Clienter::ProcReqMsg_SettleAccounts and ProcReqMsg_DayEnd: a request with
\* the identity of this gateway is carried out on the client's thread, one
\* after the other; any other is answered with status 1 and changes nothing.
\* Members of settleGroup that are no strings are left out, and so is the
\* upload of the files, which follows the answer.
ProcReqMsg_SettleAccounts == \E groups \in Requested : Simutgw_Settle(groups)
ProcReqMsg_DayEnd == Simutgw_DayEnd

Settle ==
    \/ ProcReqMsg_SettleAccounts
    \/ GetSettleGroupNames
    \/ Gen_Query \/ Gen_Open \/ Gen_Skip \/ Append_Blank \/ Append_Count \/ Append_Fill \/ Gen_Close
    \/ Stock_Read \/ Stock_Update \/ Stock_Commit \/ Settle_Return

DayEnd == ProcReqMsg_DayEnd \/ MoveDbdata \/ TruncateTable \/ DayEnd_Return

SettlementNext == Others \/ Settle \/ DayEnd \/ Crash

SettlementSpec == SettlementInit /\ [][SettlementNext]_settlementVars

-----------------------------------------------------------------------------
(* Properties                                                              *)

ColumnsFound ==
    job.pc = "fill" =>
      LET f == Head(out).file
      IN  FillNew(disk[f], Columns(f[1]), DOMAIN Value(f, Head(job.rows), View.stock), Head(job.rows)) # Failed

RowId == DOMAIN Trades \cup DOMAIN Holdings

SettlementTypeOK ==
    /\ \A t \in ToSet(Table) : live[t] \subseteq Ids(t) /\ old[t] \in [Ids(t) -> 0..MaxRequests]
    /\ \A s \in DOMAIN stock : \A c \in {"bal", "act", "stp", "rdp", "avl"} : stock[s][c] \in Nat
    /\ \A f \in File : disk[f] # NoFile =>
         /\ disk[f].recs \in Seq(RowId \cup {Blank})
         /\ disk[f].num \in {Len(disk[f].recs), Len(disk[f].recs) - 1}
    /\ h # Failed /\ ColumnsFound
    /\ DOMAIN staged \subseteq DOMAIN stock

\* How often a row is among the counted records of a file.
Times(f, r) ==
    IF disk[f] = NoFile THEN 0
    ELSE Cardinality({k \in 1..disk[f].num : disk[f].recs[k] = r})

\* The files that a trade belongs to.
Belongs(i) ==
    LET t == Trades[i]
    IN  {<<k, t.group>> : k \in
          CASE t.market = "SH" /\ t.type \in AShare -> {"gh", "zqbd"}
            [] t.market = "SH" /\ t.type = "b_trade" -> {"bc1", "zqbd"}
            [] t.market = "SH" -> {"zqbd"}
            [] t.market = "SZ" /\ t.type = "b_trade" -> {"SJSMX2"}
            [] t.market = "SZ" /\ t.type \in EtfType /\ ~t.second -> {"SJSMX1", "SJSJG"}
            [] OTHER -> {"SJSMX1"}}

\* A settlement that returns 0 has put every trade of its groups that its
\* connection could see into every file the trade belongs to, although it
\* stops at the first row it cannot write (MakeSettlement).
DetailsComplete ==
    result.ok => \A i \in result.match :
        Trades[i].group \in result.groups => \A f \in Belongs(i) : Times(f, i) >= 1

\* No trade gets into a file it does not belong to, and into one it does at
\* most once for each request, whatever fails in between.
RowsBelong ==
    \A f \in File : disk[f] # NoFile /\ f[2] \in Group =>
        \A i \in ToSet(disk[f].recs) \ {Blank} :
            f \in Belongs(i) /\ Times(f, i) <= budget.requests

\* The Shenzhen detail rows of all trades.
DetailRow == [k \in {"SJSMX1", "SJSMX2"} |->
                [i \in DOMAIN Trades |-> Value(<<k, "today">>, i, Holdings)]]

\* What a customer pays and what a customer gets have opposite signs in every
\* Shenzhen detail row that has both (MXCJSL, MXSFJE), and the money of the
\* row is stated once (MXQSBJ).
MoneyAgainstShares ==
    \A f \in File : disk[f] # NoFile /\ f[1] \in DOMAIN DetailRow =>
        \A i \in ToSet(disk[f].recs) \ {Blank} :
            LET v == DetailRow[f[1]][i]
            IN  "MXSFJE" \in DOMAIN v =>
                    v["MXCJSL"] * v["MXSFJE"] < 0 /\ v["MXSFJE"] = v["MXQSBJ"]

\* The files a settlement leaves are exact: nothing is missing, nothing is in
\* the wrong place, and the sides of a row agree.
FilesExact == SettlementTypeOK /\ DetailsComplete /\ RowsBelong /\ MoneyAgainstShares

\* Settling moves shares between the parts of a holding and makes or loses
\* none, although trades write the row between the SELECT and the UPDATE, which
\* writes what the SELECT saw and whose condition leaves out three of the parts
\* (Update_Stock_Asset).  Only a trade that leaves the balance as it was, and
\* comes in between, can be undone by it.
SharesKept == \A s \in DOMAIN stock : s \in unseen \/ Total(stock[s]) = shares[s]

\* After an undisturbed settlement all shares are available and the balance is
\* again what the parts add up to, and the next day's Shenzhen file already said
\* so (DBF_Value_SJSDZ against Update_Stock_Asset).
NextDayAsSettled ==
    result.ok /\ ~result.disturbed =>
        \A s \in DOMAIN stock :
            /\ stock[s].avl = Total(stock[s]) /\ stock[s].bal = Total(stock[s])
            /\ stock[s].market = "SZ" =>
                 DBF_Value_SJSDZ(result.stock[s], TRUE).DZZYGS = stock[s].avl

\* What the settlement does to the holdings, at any time and when it is done.
HoldingsSettled == SharesKept /\ NextDayAsSettled

\* A row that was in a table when the day end began is in the table or in its
\* archive at every later moment: no failure, crash or repetition between the
\* six statements loses it (BackupDb).
NothingLost ==
    \A t \in ToSet(Table) : \A i \in begun[t] : i \in live[t] \/ old[t][i] > 0

\* A row is archived twice only if a statement failed.
ArchivedOnce ==
    budget.faults = 0 => \A t \in ToSet(Table) : \A i \in Ids(t) : old[t][i] <= 1

\* The day end keeps every row of the day, once.
DayKept == NothingLost /\ ArchivedOnce
=============================================================================
