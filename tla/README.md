# Verification of the simulated trading gateway

The program (`simutgw`) stands in for the gateways of the Shenzhen (SZ, FIX/STEP
sessions) and Shanghai (SH, tables in a database) exchanges. Clients send orders
and cancels; the program checks them, matches them against live quotations, by
rules, or in one of several simulated ways, keeps the share accounts of its
users, answers with reports, and settles the day into the files the exchanges
would send. A web server configures it. This directory holds TLA+ models of
this logic, the TLC configurations that check them, and the TLAPS proofs about
them. Paths below are relative to `src/shared_src/`.

## 1. The system

### Parts, their state and how they interact

* **Start and configuration** (`simutgw/work_manage/SystemInit`). The main thread
  goes through nine steps: license, file, databases, stored rules and packages,
  registration with the web server, configuration, connections, flows. It waits,
  with timeouts, for what the client's thread signals.
* **Web client** (`simutgw/tcp_simutgw_client/Clienter`). One thread handles what
  the web server sends, one message after the other: the identity, the
  configuration, strategies (`TradePolicyManage`), links of rules and rules
  (`match_rule`), ETF packages (`etf`), switches of the matching method. Workers
  read what it changes, each part under its own mutex or none.
* **Input.** SZ sessions (`simutgw/stgw_fix_acceptor`) and the reader of the SH
  table (`simutgw/mkt_interface`, `ordwth`) push messages into one buffer,
  `g_inMsg_buffer`. One *distribute thread* (`Proc_Distribute_InMsg`) pops them
  and gives each, as a `Task_ValidOrder`, to the least loaded thread of the
  *validating pool*.
* **Validating pool.** `Task_ValidOrder` asks Redis whether the order number is
  known (`OrderRepeatChecker`), checks the fields (`AppId_010_OrderValide`),
  freezes the shares (`PreTrade` -> `UserStockHelper`), pushes a confirmation to
  `g_outMsg_buffer`, records the number in Redis and makes a matching or cancel
  task (`GenTaskHelper`).
* **Matching pool.** Tasks are assigned by key (side * 10^7 + security) modulo the
  number of threads. The program makes both pools with one thread
  (`simutgw/stgw_config/g_values_inner.cpp:41`, `:44`). Each thread owns a
  `TaskPriorityQueue`: cancels first, then matches, checks, resting orders. A
  match task trades the order, whole or in part, and puts what is left back into
  the queue; a cancel task takes the order out of the queue of its own thread.
  An order for which the web server linked a rule is reported as the rule says.
* **Quotations.** `TgwMarketInfoProc` pops quotations, computes the volume
  traded since the last one and stores quotation and volume in Redis with two
  commands. The matching thread reads that volume, trades against it and writes back
  what is left, separately for each *trade circle* (a group of users).
* **Share accounts.** `UserStockHelper` holds for each user and security a
  `UserStockVolume`: a total and its parts (available, bought today, from
  creations, from redemptions), each an unsigned `FrozeVolume` with a frozen
  count. Orders freeze, cancels give back, trades confirm. An entry is loaded
  from the database by the first order that needs it (`DbUserInfoAsset`).
* **Database.** Trades and orders queue statements for the one thread of
  `AsyncDbWriter`; each runs as a transaction on a connection of the MySQL pool
  (`tool_mysql`), which requests and loads share.
* **Reports.** A worker takes `g_outMsg_buffer` and writes confirms (`ordwth2`) and
  trades (`cjhb`) into the Shanghai tables with two running numbers, which it
  recovers from the tables (`ReportMsg_Sh`). For SZ each client has a buffer
  (`OutMemoryManage`), an index, and flags for log-on and synchronisation
  (`SzConnection`), which the threads of the sessions set (`StgwMsgHelper`) and one
  worker reads (`StgwFixReport::Send_SZReport`) before it numbers and sends.
* **Settlement and day end** (`simutgw/settlement`). On request of the web server
  `Simutgw_Settle` writes the dBASE files of both markets (`tool_file`) from the
  day's trades and holdings and turns what was bought into available shares;
  `Simutgw_DayEnd` archives the day's tables.
* **TCP server** (`linux_epoll_server`, `tool_net`). One accepting thread, a pool of
  client threads, a table of connections by descriptor, a buffer of received
  bytes by descriptor, packets searched in it.
* **Thread pools.** `thread_pool_base` with `thread_pool_priority` (validating
  and matching) and `thread_pool_pipeline` (database): a worker loop driven by a
  condition variable with a timeout, and two ways to stop a pool.

`PROJECT.json` lists every part with its sources and what of it is not modelled.

### What is hard

Every queue and buffer has its own mutex, Redis runs one command at a time, and
everything that spans two of them is not atomic. The hazards in `PROJECT.json`
name the lines: order numbers whose record fails; a cancel against an order in
flight; confirmation and trades written by different threads; read-modify-write
of the circle's volume while quotations arrive; a guarded statement queued with
values that must still hold when it is executed; a count kept by hand; rules
changed in place while orders read them; answers of the web server that cross
with its changes; a process that ends between the marking of an order and its
report, between the registration and the storing of the identity, between the
statements of a day end, between the three writes of a record; connections lost
to a pool that counts them; descriptors that get a new owner while threads still
work with the number.

### What makes each part correct

| part | properties |
| --- | --- |
| task queue | a task is in one place; the count is exact; a most urgent task is taken; ordered tasks stay sorted |
| order path | shares are conserved between queue, trade and cancel; confirmation first, nothing after the end; a cancel gets one answer, and a right one; everything is answered |
| quotations and matching | offers never exceed what the exchange traded; trades never exceed the offer or the order |
| accounts | what is frozen is what resting orders froze; shares come and go by trades only; the row follows the cache |
| database | a connection has one user; a read is fresh; what is written is written in order and grows by trades only; lost connections do not end the service |
| thread pool | accepted tasks are processed; a stop ends when no task comes back any more, and leaves nobody at work |
| settlement | the files are complete and exact when success is reported; no row of the day is lost, and no share unless a trade has changed its holding behind the condition of the `UPDATE` (section 6) |
| TCP server | the table never names a closed connection; messages are found once, in order, by whoever sent them |
| Shenzhen interface | reports go out once, in order, and only to who asked; numbers go on from the one asked for; a client gets its reports unless the clients before it always have some |
| web client, start | rules, strategies and packages are whole, kept and not older than announced; one identity; no half configuration at work |
| Shanghai interface | numbers ascend over restarts; an order is read and answered once, up to the failures |

## 2. Modules

| module | models | state | actions |
| --- | --- | --- | --- |
| `PriorityPool` | the promise of a task queue | pending, taken, deleted and rejected tasks | `Add`, `Get`, `Delete` |
| `TaskPriorityQueue` | `thread_pool_priority/TaskPriorityQueue` | `p1_que` ... `p4_que`, the two ordered maps of deques, `m_uiTaskNums`, return code | `AddTask`, `GetTask`, `DeleteIfHaveTask`, one disjunct per queue and return code |
| `OrderFlow` | distribute thread, validating and matching pools, Redis set of order numbers, report buffer | buffers, queues, and for each thread its message and next step | `Arrive`; `Dist_*` (scan of the pool, one queue size at a time); `Valid_*`; `Match_*`, `Cancel_*`, `ABStockMatch_*` |
| `QuotMatch` | `TgwMarketInfoProc`, `MarketInfoHelper`, the `Match_*` functions of `Task_ABStockMatch` | the two Redis hashes, the quotation thread, the matching thread and its queue | `ReadRealMarketInfo`, `Store_*`; `Quot_Get`, `Match_*`, `Quot_Set` |
| `FrozeVolume`, `UserStockVolume` | the operators of one balance and of one security's balances, unsigned and counted up to a parameter `Modulus` | none | |
| `UserStockHelper` | the cache, the orders that froze shares, the queue of statements, the table | `cache`, `order`, `sql`, `db`, the `day` chosen at the start | `TradePrep`, `CreationQuery`, `UpdateAfterTrade`, `UpdateAfterCancel`, `TaskStockCacheSyn`, `DayEndCleanUp` |
| `ThreadPool` | `ThreadBase`, `ThreadPoolBase`, `PriorityThread`, `PipeLine_Thread` | per thread its queue, `m_emThreadRunOp`, `m_emThreadState`, program counter; the producers; the stopping thread | `Assign_*`, `Run_*`, `Stop_Begin`, `NotifyStopThread`, `WaitStopThread`, `StopThread`, `Stop_Clear` |
| `ConnPool`, `MySqlCnn` | `MysqlConnectionPool`; one connection with its session, snapshot and open transaction | none: operators on them | |
| `StoreAccess` | `AsyncDbWriter` and its tasks, the loading of a holding, requests that read, over one pool and the (external) server | `db`, the pool `mp` and its sessions `my`, the queue `q`, `cache`, the three users `w`, `l`, `r` | `W_*`, `L_*`, `R_*`, `NewOrder`, `Trade`, `Cancel`, `Record`; `Outage`, `Restored`, `Hour`, `Exit` |
| `DbfFile`, `SettleFiles` | the dBASE files and the writer that fills them; the columns and values of every settlement file | none: operators | |
| `Settlement` | `Settlement`, `SHSettle`, `SZSettle`, `DayEndClean` | tables, archives, holdings, files, the request being handled and its transaction | `Simutgw_Settle`, its queries, `Gen_*` row by row, `Update_Stock_Asset`, `Simutgw_DayEnd` with `BackupDb` statement by statement, failures, `Crash`, late trades, `AsyncDbWriter`'s updates |
| `PacketAssembler` | the search for packets in a byte stream | none: operators | |
| `EpollServer` | `linux_epoll_server`: acceptor, client threads, connection table, send queues, receive buffers, and the kernel's table of descriptors | as listed in the module | one per step of the acceptor and of a client thread between two mutexes or calls of the kernel |
| `Faults` | the calls to the outside that may fail, and the bound on what comes from outside | `faults`, `events` | |
| `MatchRule` | the rules in the map, their rows, the insertion in place | `mem`, `rows`, `ins` | look up, each part that is set, the row |
| `TradePolicyManage` | strategies of connections and seats, the global settings | `polSh`, `polSz`, `glob` | the set and get operations |
| `EtfContainer` | the ETF packages, their conversion, validation and transaction | `etfMem`, `etfRow`, `etfIns` | one per statement of the insertion |
| `ShConn` | the two Shanghai workers, the tables, the counters, both buffers | `ordwth`, `ordwth2`, `cjhb`, `cnt`, `dec`, `inb`, `outb`, `sqls` | reading of orders step by step, the flow behind the buffer, reporting |
| `SzConn` | the sessions' callbacks, the worker of the Shenzhen reports | `conn`, `buffer`, the worker `w`; histories of what was pushed, numbered, sent and asked for | `ProcLogOn`, `ProcLogOut`, `ReportSynchronization`, `PushBack_sz`; `W_*`, the steps of `Send_SZReport` |
| `Clienter` | every message of the web server, the gateway's requests, the connection, and the (external) web server | `srv`, the two channels, `rcv`, `id`, `conf`, `woken` | one per message type and step of its handler |
| `SystemInit` | the steps of the start, the end at any moment and the next start; composes `Faults`, `MatchRule`, `TradePolicyManage`, `EtfContainer`, `ShConn` and `Clienter` | `pc`, `mode`, `starts`, `used` | one per step |
| `Ascending` | a finite set of numbers as an ascending sequence | none | |
| `SumTheorems` | facts about sums over finite sets, counts and ascending sequences, for the proofs | | |
| `TaskPriorityQueue_proofs`, `ThreadPool_proofs`, `OrderFlow_proofs`, `QuotMatch_proofs`, `StoreAccess_proofs`, `SzConn_proofs`, `UserStockHelper_proofs` | theorems about the module of that name; `StoreAccess_proofs` also about `Settlement`, `SzConn_proofs` also about `SystemInit` with the modules it is made of | | |
| `MC...` | the instances TLC checks | | |

Granularity: a step is one access to one shared object (a queue under its mutex,
one Redis command, one SQL statement, one read or write of a volatile flag) by
one thread, with the private computation up to the next one. `UserStockHelper`
functions hold one mutex for their whole body, so each is one step. Definitions
commented as mutants (`InsertPos_PastEnd`) are plausible mistakes in the code;
each is there to show that a property would notice it and is used by no
specification.

Composition: `TaskPriorityQueue` instantiates `PriorityPool` with a refinement
mapping (`PoolSpec`). `OrderFlow` uses the queue through that promise, reduced to
the two levels its tasks have. `UserStockHelper` extends `UserStockVolume`, which
extends `FrozeVolume`. `StoreAccess` is made of `ConnPool` and `MySqlCnn`,
`Settlement` of `DbfFile` and `SettleFiles`, `EpollServer` of `PacketAssembler`.
`SystemInit` extends `Clienter`, which extends `ShConn` and `EtfContainer`; these
extend `MatchRule` and `TradePolicyManage`: each has variables and actions of its
own and says what it leaves alone.

## 3. Runs

All bounds are in the `.cfg` and `MC` files. A property in brackets is a part of
the one before it; each module's `TypeOK` is a part of the first property named,
but for the queue and the thread pool, where it is a theorem only.

| run | bounds | what it shows |
| --- | --- | --- |
| `queue_mixed` | 8 tasks of all priorities, ordered and not, 2 keys, 2 order numbers, limit 4 | `TaskInOnePlace`, `CountIsExact`, `OrderedInsert` (`PriceOrdered`, `InsertInBounds`); implements `PriorityPool` |
| `flow` | 2 + 2 threads, failing Redis, sessions that log off; an order in slices, its cancel, and one of: an order that never matches, is refused, is invalid, has the same number, or trades on the other matching thread | `QtyConserved`, `ReportsInOrder` (`ConfirmFirst`, `NothingAfterFinal`), `OneAnswerPerCancel`, `CancelMissesNothing`; `AllAnswered` (`CancelAnswered`, `OrderFinished`) under fairness |
| `pool_drain` | 2 threads, 3 tasks, one of which may put itself back any number of times, 1 producer, `StopPool_WaitAllFinish` after the last assignment | `DrainedAtExit`, `NoWorkAfterStop`, `StopReturns` |
| `pool_immediate` | as above, `StopPool` at any moment | `TaskProcessed`, `ThreadEnds` |
| `stock_trade` | one of two days: two sells competing for 5 shares in three parts, a buy, a creation; or all four kinds of ETF orders, two components, one replaceable by cash; statements may be lost; counts of 4 bits | `FrozenByOrders`, `SharesConserved`, `RowFollowsCache` (`StoredHasRow`, `DbCaughtUp`), `OnlyTradesChangeBalances` |
| `quot_offer` | 4 quotations in any order (one with lower totals, one suspension), 6 order variants of both sides, 2 circles, failing Redis commands | `QtyExact`, `WithinOffer`, `OffersInStep` (`OffersAddUp`, `NeverAhead`) |
| `quot_sides` | 2 buys and a sell of one circle, 2 quotations, type SellBuyPrice | the disagreement of section 6 |
| `store_access` | pool of 1, 4 connection identities, 2 orders, 2 reads, 1 trouble (outage, failing call, stale connection), 1 exit | `OneUser`, `FreshRead`, `WrittenInOrder` (`RowBehindCache`, `RecordsInOrder`), `RowOfTrades`; `LoadedInTheEnd` under fairness |
| `settle_day` | 8 trades of both markets and all types, 2 of them late (1 arrives), 2 groups, 2 seats, 2 holdings, 2 requests, 1 failing call or crash, 1 trade: a sale, a creation, or a sale of created shares, which leaves the balance as it was | `FilesExact` (`DetailsComplete`, `RowsBelong`, `MoneyAgainstShares`), `HoldingsSettled` (`SharesKept`, `NextDayAsSettled`), `DayKept` (`NothingLost`, `ArchivedOnce`) |
| `net_server` | 2 clients with 2 and 1 messages, 2 client threads, 2 descriptors, 2 sends that go out in part | `MapIsOpen`, `AnsweredInOrder` (`FoundInOrder`, `AnswersBelong`) |
| `web_start` | 3 modes; at most 3 events from outside in all, among them at most 2 changes at the web server, 2 orders, 1 failing call or malformed message; 2 starts; one rule for each market with 2 versions, of which the second lacks the confirm (Shanghai) or the match (Shenzhen) | `RulesKept` (`RuleOfItsVersion`, `RowsKept`), `ConfigurationWhole` (`RulesSynced`, `PolicyWhole`), `NumbersIncreasing` (`RecNumIncreasing`, `CjbhIncreasing`), `OrdersReported` (`ReportsOfOrders`, `ReadAgain`), `StartWhole` (`OneIdInUse`, `StartedConfigured`), `EtfSaved` (`EtfWhole`, `EtfKept`) |
| `sz_reports` | 2 clients; in all 2 reports of 4 kinds, 3 log-ons, 2 synchronisations, any number of log-outs, indices that nobody asked for up to 2 | `ReportsAsPushed` (`GoodOnesInOrder`, `NoneUnasked`), `ReportNumbers`; `ReportsHandled` under fairness |

Why the bounds are enough for the cases meant: the queue's limit is below the
number of tasks, so it is hit with every mixture; the flow has two threads in
each pool, more than the program's one, since the pools and the assignment by key are
written for any number; a divided
order has a remainder (5 shares in 2 slices); a pool of two has one thread stopped
before the other; an account of three parts lets an order take from one, from
two, and fail on the second; three quotations with growing totals let a circle
be one and two quotations behind. A pool of one connection is used up by one that
is lost, and replaced when its count falls below; two trades of one holding are
the least for which a row can miss one between two. Two requests of a settlement
let the second meet what the first left. Two descriptors and two clients let a
number be reused while both client threads hold it; a packet of three cells is
cut within its head and behind it. Three events let a change cross with another
one and with a failure or a process end; two versions let a rule be known and
changed; what was established by earlier days (stored rules, tables that are not
empty, an identity in the file) is an initial state, in normal mode only, because
the other modes keep nothing. Two clients let the walk over the connections be
cut short before one of them; three log-ons and two synchronisations let a
session end and begin anew, and ask anew, while the worker holds a report.

Named restrictions of `web_start`: the web server tells of changes only after it
sent the configuration; timeouts may expire at any time; a cancel arrives after
an order; a strategy has two of its five fields; a declare round that finds
nothing before the first order is left out.

Deadlock checking is off where the instance has a finite number of messages or
requests, after which the program waits for more.

Fairness. `OrderFlow` and `ThreadPool` assume weak fairness of each thread's own
step: the threads are operating system threads in endless loops, no step waits
for another thread except on a mutex held for a bounded time, and the wait of a
worker ends by its timeout. Clients need not send, the pool need not be
stopped, and a task that puts itself back may do so for ever: `StopReturns` promises the
return only where from some moment on no thread runs such a task. `StoreAccess` assumes it of the writer, of a request that has begun, of
the restart of the server after an outage, and of the loading thread. `SzConn`
assumes it of the loop thread only. A client with an endless stream of
reports starves the ones behind it, since each call of `Send_SZReport` ends after one
report and starts again at the first client (`StgwFixReport.cpp:143`):
`ReportsHandled` therefore promises a client its reports only if the clients before it
do not have one for ever (`BusyBefore`). With the finite number of reports of the run
that is never the case. The fairness of the loading thread
is an assumption about the clients too: orders for a holding that is not in the
cache keep coming, for nothing else loads it. No strong fairness is assumed, and none of the queue's choices is.

## 4. Proofs

`TaskPriorityQueue_proofs` proves, for every set of tasks, keys, order numbers and
every limit, `TypeCorrect`, `OnePlace`, `CountCorrect`, `InsertCorrect` and
`ImplementsPool` (`Spec => [](...)` and the refinement of `PriorityPool`).

They rest on one inductive invariant, `QueueInv`. `CountIsExact` is not
inductive by itself: to know that a pop removes one pending task one must know
that the task is not in another queue or elsewhere in the same one. So `QueueInv`
joins the types, "each queue has only tasks of its kind and each once"
(`OnceInItsQueue`), the exact count over the disjoint queues, and that pending,
taken, deleted and rejected tasks are disjoint. Lemmas about sequences (what
`Tail`, an insertion in the middle and a removal do to the set of elements and to
the absence of duplicates) carry each action. The refinement maps the set of
queued tasks to `pending`; each disjunct of `GetTask` takes from the first
non-empty queue, which is the most urgent class.

`InsertCorrect` (`OrderedInsert`) is about the binary search of `Deque_Insert` and the
walk that follows it. Both are recursive functions; that they are defined at all,
and what they find, is shown by induction on what is left to search (`SearchExists`,
`LastMidSplits`, `PlaceInOrder`): the last `iMid` is next to the place where the
prices change sides, and the walk passes over one task at most. The search is right
only because a deque has tasks of one side, which is why `TaskAssumption` says that
the key of an ordered task determines its side (`GenerateKey`).

`ThreadPool_proofs` proves `PoolTypeCorrect`, `Drained` and `Quiet`
(`TypeOK`, `DrainedAtExit`, `NoWorkAfterStop`) for every number of threads, every
set of tasks and producers and both ways to stop. The invariant `StopInv` adds to
the types: a thread that says STOPPED is past its loop; the threads before the
iterator of `StopPool_WaitAllFinish` are past theirs; a run operation other than
"Running" is the one of the stop in progress; a thread past its last `GetTask`
holds in its queue only tasks added since.

`OrderFlow_proofs` proves `FlowTypeCorrect`, `FlowConservesQty`,
`FlowReportsInOrder`, `FlowAnswersOnce` and `FlowCancelMissesNothing` (`TypeOK`,
`QtyConserved`, `ReportsInOrder`, `OneAnswerPerCancel`, `CancelMissesNothing`) for
every number of validating and matching threads, every set of messages and of
keys, and however often Redis fails and sessions log off. None of them is
inductive: that a trade is not reported after the cancel of the same order depends
on the order not being in a queue and in a thread's hands at once, and this on how
it came there. The invariant `FlowInv` therefore says that there is a function
from messages to places (`Located`: not sent, in the input buffer, with the
distribute thread, in the queue or the hands of a validating thread, ready to be
handed on, in a queue or the hands of a matching thread, gone), that no queue has a
message twice, that tasks are with the thread of their key (`Served`), that what is
left of an order is what the reports have not accounted for (`OpenTasks`), and that
the reports agree with the places (`Told`): what is early has not traded, what is
late is confirmed, and what has a last report or an answer is gone. An action
moves one message from one place to the next; two lemmas, `QuietMove` and
`PushMove`, say once what such a move has to respect, without and with a report,
and each action is a use of one of them. `CancelMissesNothing` needs
`KeyAssumption` besides: a cancel has the key of the order it names, because both
are made from the side and the security of the same customer order
(`GenTaskHelper`).

`StoreAccess_proofs` proves `StoreOneUser`, `StoreFreshRead`, `StoreInOrder` and
`StoreRowOfTrades` (`OneUser`, `FreshRead`, `WrittenInOrder`, `RowOfTrades`) for
pools of every size and any number of orders, requests, outages, failing calls
and restarts. `StoreInv` has the following parts, each there because the proof of
another needs it. `HasConn` and `Disjoint`: who has a connection at which step, and
that no two have the same. `FewOpen`: how many connections are open; the
pool's count is wrong after losses and double releases, and yet a new one is made
only when none is idle or in place of one, so that there are never more than three or
half the pool, and an identity is free for each. `SessionsInv`: a
connection given back has no snapshot and nothing to commit; this is what makes a
read fresh and a commit the writer's own. `TasksInv`: a queued statement adds one
trade to what the holding was and is a prefix of what the cache has; the load
of a holding is over before the first trade. `RowInv`, `NumbersInv` and `ReadInv`:
what the row, the records and a pending request have seen. `RowOfTrades` holds even for
a holding whose `SELECT` failed, because the `UPDATE` of the writer names the old
counts and does not match.

`SzConn_proofs` proves `SzReportsAsPushed` and `SzReportNumbers` (`ReportsAsPushed`,
`ReportNumbers`) for every number of clients, reports, log-ons and
synchronisations. `SzInv`: the buffer of a client is the rest of what was pushed for
it (`BufferInv`) and the worker has the last report that left it (`HandInv`); a
client that has not asked since its log-on is not synchronised, except for the one
report whose worker tested it before (`SessionInv`); every number was drawn under a
synchronisation (`DrawnInv`); and, whenever the worker may read the index for a
report, it is the one asked for or the one after the last (`IndexInv`). The last
part fails exactly while the worker has the index in its hands, which is why
`ReportNumbers` has its exception.

The second part of `StoreAccess_proofs` proves `SettlementDayKept` and
`SettlementHoldings` (`DayKept`, `HoldingsSettled`) for any trades, holdings and
groups, any number of requests, failing calls, ends of the process and late trades.
`SettlementAssumption` is what the tables ensure: a trade is stored under its id,
and there are finitely many of each; a holding's balance need not be the sum of its
parts. For the day end, `DayInv` says where `BackupDb` is in its
two orders of the three tables (`DayPlace`): a table is emptied only when the
copies of all three were made. The rows of the beginning stay in their table until
the last copy, are copied before the first truncation and archived after it
(`DayRows`); without a failed statement what is copied is not archived, and what is
archived and still in the table is to be truncated next or later in the same
`BackupDb`, which is why no second one finds it (`DayOnce`).

For the holdings, `HoldInv` says that every row, and every row the transaction has
written, has parts that add up to the holding's shares, and that a row still to be
written differs from what was read of it by what its balance differs by
(`HoldRows`): so a row whose balance is the same has the shares that were read. This
does not hold of a row in `unseen`, of which a trade changed parts and not the
balance; about those nothing is proved. It says where the settlement is in its plan
(`HoldPlace`), and how much is settled (`HoldDone`): of the table at hand the rows
still to do, the rows written and the rows that needed nothing are all there are; or
an update by `AsyncDbWriter` came between, and the settlement counts as disturbed.

The second part of `SzConn_proofs` is about the gateway: the start, the client of the
web server with the web server and both channels, the maps and tables of rules,
packages and strategies, and the two workers of the Shanghai interface. It proves
`GatewayStartWhole`, `GatewayRulesKept`, `GatewayEtfSaved`, `GatewayNumbersIncreasing`,
`GatewayOrdersReported` and `GatewayConfigurationWhole` (`StartWhole`, `RulesKept`,
`EtfSaved`, `NumbersIncreasing`, `OrdersReported`, `ConfigurationWhole`) for any sets of
rules, versions, orders, conditions, missing parts and modes, any number of starts, and whichever
calls fail. All of them follow from one inductive invariant, `GatewayInv`; it has
four parts:

* `StartInv`: which messages there can be (`WireForm`), which step has set what
  (`EarlyForm`, `ConfiguredForm`), that until the configuration is asked for at most the
  request for an identity and its answer are on the way (`QuietForm`), and that
  without two failures every identity used is the one in the file (`IdentityForm`).
  `StartWhole` needs the quiet beginning: an answer that comes late would wake the main
  thread once more and let the workers start with half a configuration.
* `KeptInv`: a row is what one document said (`RuleForm`), and so is a rule of the map,
  but for the parts the document lacked, which are not newer than the version
  (`PartsForm`), and for those the insertion under way has not set; a package is whole in
  the table and on its way there (`EtfForm`) and the map is what a restart would
  load (`EtfLoaded`, `MapForm`).
* `ReportInv`: the tables, and the statements that are still to be executed, are
  numbered in ascending order up to the counter, which is set before the first order is read (`RecForm`,
  `CjbhForm`). The readings of an order, less those that a start or a failed
  update explains, are used up only by the round at hand (`ReadForm`); the answers
  an order has and will have are no more than its readings (`AnswersForm`), counted
  over the worker's vector, both buffers, the statements and the table; and a trade
  has its confirm ahead of it wherever it is on this way (`ConfirmForm`).
* `ConfigInv`: the versions of a channel's messages ascend, from what the client
  was last given to what the web server has (`Rising`, `GivenForm` for the strategy,
  `Due`, `VersionForm` for each rule). This makes a strategy read not older than
  the one confirmed before (`DecForm`), although `Get_Sh` may be called at any time.
  `RulesSynced` is about messages that cross: a rule's time may be announced while an
  older version is on its way or asked for. `SyncedForm` says that, unless
  something failed, each rule the connection was told of is in the map in time, in
  the insertion under way, comes with a message in the channel, or is asked for
  in one the web server has not read (`Coming`), and a request is answered with the
  version of that moment, which is never behind what was announced
  (`ToldForm`). It rests on the connection being up (`UpForm`) and on no
  configuration arriving once the main thread went on (`ParamForm`, a count over both
  channels and the event).

Their assumptions are named where the constants are declared: rules of the two
markets are disjoint, finitely many, and `0` is none of them (`RulesAssumption`); the
marks for "no package", "no policy" and "no identity" are no values (`EtfAssumption`,
`PolicyAssumption`, `ClienterAssumption`); the Shanghai connection is one of the
connections, and there are Shenzhen ones besides (`ShConnAssumption`,
`ClienterAssumption`); there is at least one start. The bounds `MaxVer`,
`MaxShOrders` and `MaxStarts` are any numbers. What the properties except, a failed commit, a failed
writing of a rule, a lost report, a rule without a confirm part (`Unconfirmed`), is what
the runs except too: the code goes on as if nothing had happened (section 6).

`QuotMatch_proofs` proves `QuotQtyExact`, `QuotOffersInStep` and `QuotWithinOffer`
(`QtyExact`, `OffersInStep`, `WithinOffer`) for every set of orders, circles and
quotations, each quotation type and whichever of the other Redis commands fail. The
code keeps these promises only under conditions, which are the named hypotheses of
the theorems; each of them is necessary:

| hypothesis | theorems | without it |
| --- | --- | --- |
| `CircleWritten`: the write of a circle's rest does not fail | `QuotQtyExact`, `QuotWithinOffer` | a filled order is put back whole and trades again; the rest is traded twice |
| `QuotationRead`: the read of the last quotation does not fail | `QuotOffersInStep`, `QuotWithinOffer` | no quotation counts as the first: the whole day's volume is offered again, or an older quotation is taken |
| `TotalsKept`: the totals of a suspension are not below earlier ones | `QuotOffersInStep` | the lower totals are stored, and what follows is offered twice |
| `OneRest`: the orders' quotation type is the program's; and with the type SellBuyPrice a circle has orders of one side | `QuotWithinOffer` | the fields written are not the fields read; a sell makes an old rest of the buys look new (run `quot_sides`) |

`OrderInv` is about the orders: one that is open waits in one queue once or is in the
hands of the thread, and what it has traded and what waits is its quantity
(`QueInv`, `HandInv`, `EndInv`). `OfferInv` is about the quotations: what is offered is
known by its time, the one taken is later than those before, its totals hold what
they offered (`TakenInv`, `KnownInv`), and what a thread or a circle has of a quotation
bears a time not after the live one's (`TimesInv`). For the sum over the quotations
that is in it, `SumTheorems` proves that a sum does not depend on the order of its terms and what
adding one does to it. `CircleInv` is about a circle, with both sides' orders, and the thread: what was used
of an offer and what is left of it in the thread's hands, or in the circle when no
write is to come, are together within the offer (`ThreadKeeps`, `CircleKeeps`); and what is
later than both has not been used (`UnusedLater`), which is what makes it right to take
the live volume whole when the circle is out of step.

`UserStockHelper_proofs` proves `UserTypeCorrect`, `UserOnlyTrades`,
`UserRowFollowsCache`, `UserFrozenByOrders` and `UserSharesConserved` (`TypeOK`,
`OnlyTradesChangeBalances`, `RowFollowsCache`, `FrozenByOrders`, `SharesConserved`) for every
set of orders and days, every ETF and every `Modulus`. Three of them have named
hypotheses:

| hypothesis | theorem | without it |
| --- | --- | --- |
| `RowsThere`: on a day with redemptions every component has a row | `UserRowFollowsCache` | the INSERT for a redeemed component is wrong (`StockCacheSynHelper.cpp:503`): the entry is marked as stored and there is no row |
| `OnlySecurity`: no component may be replaced by cash | `UserFrozenByOrders`, `UserSharesConserved` | the part frozen of a short component is given back to another balance, and is frozen for the order all the same (`UserStockVolume.cpp:394`) |
| `NoWrap`: what a day's orders ask of a security, added up, is a count | `UserFrozenByOrders`, `UserSharesConserved` | the sum of what the orders have frozen is not a count |
| `NoWrapHeld`: what the day begins with of a component and buys, added up, is a count | `UserSharesConserved` | a balance wraps, and what is held is right modulo `Modulus` only |

The arithmetic comes first: a remainder may be taken at any time (`ModSum`), so that what
`Froze` moves and `Defroze` moves back, wrapping or not, leaves `Held` as it was (`Kept`).
`UserInv` joins to the types that every entry is marked as stored and that what a resting
order has frozen is in the cache (`Loaded`), without which a cancel or a trade would
work on an entry that is not there. Every step is then one of four (`StepIs`): a step without a
trade, which keeps every balance (`NoTrade`); a trade, which queues one statement for
each security it touches and writes no other entry (`TradeStep`); a statement executed;
the day end.

That no statement is refused is about all that wait at once: each expects what the one
before it wrote. `LeadsTo(s, q, d, row)` says so: there is a chain of rows from `d` to
`row`, and each statement of `q` that is about `s` matches the row it meets and makes the next.
`RowFollows` is the invariant: the waiting statements lead from the row in the database to
one that shows what the cache last wrote (`Caught`, `Shown`). A trade adds a link
at the end (`Fits`, `LeadsOn`), the writer takes one off at the front (`LeadsFrom`).

For `FrozenByOrders`, `FrozenInv` says that what is frozen of a part is the sum of what the
resting orders have frozen of it, that an order has frozen no more than it asked for,
and that a sell's two parts are what is left of it, which is why the trade that fills
it leaves nothing frozen. `FrozenStep` says once what a step of an order does to both sides;
each action is shown to be one, and `FrozenStepKeeps` does the sum.

`SharesConserved` is about the row: an entry that is not in the cache is read from it
again. `SharesInv` therefore says of every component without a lost statement that
what the entry holds, or, without one, the row it will be read from (this is
where `RowFollows` is needed), is what the day began with, with what its orders brought and
without what they took, and that what is frozen is held (`HeldWell`). A trade changes one term of the two sums (`Gone`, `Come`)
by what it moves; that nothing wraps on the way follows from `NoWrapHeld`, because an order
never takes more than it has frozen, and that is held.

`SumTheorems` is by induction on the size of a set, made from the library's fact that a
non-empty set of numbers has a least one (`LeastNumber`), since its
induction theorems, which take an operator, cannot be used here. The searches of
`TaskPriorityQueue` use the same induction.

The only assumptions are the named `ASSUME`s of the component modules; TLC
evaluates them in every run.

Only model-checked:

* all liveness properties (`AllAnswered`, `StopReturns`, `TaskProcessed`,
  `ThreadEnds`, `LoadedInTheEnd`, `ReportsHandled`), which are outside the prover's
  reach, as is `ENABLED`;
* `MapIsOpen` and `AnsweredInOrder` of `EpollServer`: the search for packets goes on at
  a position that depends on the bytes found, and is the RECURSIVE operator of
  `PacketAssembler`, in whose presence nothing arithmetic can be proved;
* `FilesExact` of `Settlement`: what a file contains is built by folds over the rows of
  the day, and what a fold computes for every input is an induction over data.

## 5. What is modelled how, and what is left out

* `OrderFlow`: a message's field checks are one verdict, `valid`. The reports are
  the values the message has when it is pushed; `SetOrderMsg` copies the message
  for the task, so the two do not share it. Rule-defined orders and ETF creations
  take other tasks and are left out; for Shanghai the former are in `ShConn`.
* `QuotMatch`: one security. All three quotation types are in the model;
  `quot_offer` uses the average price, the program's default. Left out: the 8 hour expiry of the Redis
  keys, cancels, times that cannot be compared. `MayFail` names the commands that
  can fail; a failed HMGET of the last quotation (`TgwMarketInfoProc.cpp:199`: all
  of the day's volume is offered again) and a failed write of the circle's rest
  (`Task_ABStockMatch.cpp:308`: a filled order is put back whole) break
  `OffersAddUp` and `QtyExact` and are left out of `quot_offer`.
* `UserStockHelper`: the normal mode with the check of assets; counts wrap at
  `Modulus`, which is small enough in the run to be reached. The first three properties hold on days
  without ETF sells, buys and redemptions (`OtherOrders`; section 6 says why).
  Left out: components that must be paid in cash, a day end with resting orders
  (the entry an update needs is then missing and the process ends,
  `UserStockHelper.cpp:1112`), `CreationDeFroze` and `RedemptionDeFroze` (called by
  nobody), the cancel of a queued creation or redemption.
* `ThreadPool`: a queue is a sequence; pausing, the Windows branch and failing
  thread creation are left out. `ub` records that a freed object was used.
* `StoreAccess`: the MySQL pool; the Redis pool has the same code. A holding, in the
  cache and in its row, is the sequence of its trades. The client library
  reconnects by itself unless a transaction is open. A `SELECT` that fails
  leaves counts of any value, which is the entry with `read` FALSE.
* `Settlement`: MySQL is external: a connection without autocommit reads the
  snapshot of its first `SELECT`, an `UPDATE` reads the current row, `TRUNCATE`
  commits. A value a file only copies is opaque; numbers, signs and the columns
  that a fill must find are modelled.
* `EpollServer`: a message is a packet of three cells, every message is answered.
  Left out: events with only EPOLLERR or EPOLLHUP (they end the client thread),
  failing system calls other than a send that goes out in part.
* `Clienter`: the socket of the Windows build (the Linux one is unfinished, see
  section 6). A failed reconnection is not told apart from a refused one. A malformed
  message about links ("links" of `Fails`) keeps what came before the entry at fault and
  asks for no rules (`RejectLinkRules`). Left
  out: the texts of answers, and messages whose handlers only read.
* `MatchRule`, `ShConn`: a document may lack a part (`Lacks`): a new rule then gets an
  empty one, of which no report can be made, a known one keeps the old one, the row gets
  NULL. A document may be malformed ("document" of `Fails`): the message ends there. A
  condition on a field that an order does not have ends the test with the result so far
  (`Hit`). A cancel succeeds, is rejected, or is malformed, of which nothing is written;
  one that the trade type check of the reader refuses is the last kind and not
  enumerated on its own. The times between reports are any. Left out: words that do not
  resolve, and conditions that are no regular expression.
* `SzConn`: whether a report can be made of what a flow pushed is its kind: "late"
  when what is wrong with it is found after its index was drawn (a missing field, a
  word of its rule), "early" when before (a rule that is no document), "silent" when
  the rule has no parts. The engine delivers what it was given. What
  `ReportNumbers` excepts is a synchronisation handled while the worker has the index
  in its hands (`raced`). Left out: the version of the interface with one index instead
  of partitions, synchronisations that do not convert (they change nothing), the
  counter behind the warning, the insertion of a new client into the map while the
  worker walks it (undefined), the rejects of repeated numbers, which bypass the
  buffer and have no index, the canned answers of `StgwMockerResponse` (called by
  nobody), and FIX fields. An index that nobody asked for stops at `MaxIndex`.
* Not modelled, with the reasons in `PROJECT.json`: the Windows completion port server (the twin of
  `EpollServer`), the loop workers (threads that call a body in a loop; the bodies
  are actions here), the handlers of the management messages (JSON in, JSON out),
  the start of the quotation program, the order messages and quotation formats.

Hazards that are not in the list because another one of the same kind stands for
them or no property reaches them: the pools are stopped before the distribute
thread that uses them (`sys_function.cpp:44`); the fields read and written of a
circle are chosen by different settings (`Task_ABStockMatch.cpp:270`); `Defroze` subtracts more than is frozen after it
logged the error (`FrozeVolume.h:184`).

## 6. Where the code and its comments disagree

Checked by a run of its own and listed under `findings`:

* `quot_sides`: the rests of a circle's two sides share one time, so with the
  quotation type SellBuyPrice a sell makes the buys' old rest count as one of the new
  quotation (`MarketInfoHelper.cpp:1175`).

Reproducible with TLC on the definitions named, which are kept in the modules:

* `RepeatRefused` (`OrderFlow`, `RepeatMsgs`, one thread in each pool): two orders of
  one number are both accepted when the record of the first fails, whose result is
  ignored (`RecordNewOrderHelper.cpp:80`).
* `TotalIsSum` (`UserStockHelper`, `RdpDay`): a sell covered by shares from
  redemptions is never deducted from the total (`UserStockVolume.cpp:60`).
* `TradesReported` (`QuotMatch`, `Remainder`): the part traded by an order whose
  rest is cancelled is booked and not reported (`Task_ABStockMatch.cpp:730`).
* `OffersInStep` (`QuotMatch`, without `TotalsKept`): a quotation of a suspension with
  lower totals replaces the last one, and what follows is offered a second time
  (`TgwMarketInfoProc.cpp:273`).
* `PriceTimeOrdered` (`TaskPriorityQueue`, tasks `OnePriceTasks`): "insert by price
  and time" (`TaskPriorityQueue.cpp:494`) does not order equal prices by time. No
  present task is ordered.
* `CumQtyIsTotal` (`OrderFlow`, `OneOrder`): a divided order reports the slice as
  the accumulated quantity (`Task_ABStockMatch.cpp:1087`).
* `AllTasksFinished` (`ThreadPool`, `StopPool_WaitAllFinish`, `QuietStop`): a task
  assigned before the stop can be left behind when the thread reads
  `TillTaskFinish` after it found its queue empty (`PriorityThread.cpp:206`).
* The second part of `StopReturns` without its condition: `StopPool_WaitAllFinish` does not
  return while an order that cannot trade is put back for ever (`ThreadPoolBase.h:147`),
  and the program calls it for the matching pool (`sys_function.cpp:47`).
* `ClosedByForce` (`StopPool`): "close by force" (`ThreadPoolBase.h:125`) calls
  `StopThread` without force; the threads are freed while one is in `TaskProc`.
* `ObjectOutlivesThread`: a thread that says STOPPED is not joined and still
  writes to its object (`ThreadBase.cpp:234`).
* `FrozenByOrders` without the condition `OtherOrders`, with a redemption that fails
  on its second part: the units are given back to the wrong part
  (`UserStockVolume.cpp:552`); with an ETF sell filled in one trade: nothing is
  confirmed (`UserStockHelper.cpp:936`); with a creation whose short component is replaced
  by cash: what there is of it is given back to the wrong part and counted as frozen for the
  order (`UserStockVolume.cpp:394`).
* `DbCaughtUp` without it, with an ETF buy: the statement writes the balance of
  creations (`UserStockVolume.cpp:724`); with a redemption of a component not
  yet held: the INSERT has ten values for nine columns
  (`StockCacheSynHelper.cpp:503`).

Met while modelling, as the code reads. Where a step of a model is concerned the
model does what the code does.

* Cancels. An order that the policy refuses is not confirmed, but its matching task
  waits in the queue like any other until it is reported as refused; a cancel that
  finds it there first is reported as successful without the order having been
  confirmed (`RecordNewOrderHelper.cpp:57`; hence the condition of `ConfirmFirst`).
* TCP server. A second bad head in a buffer makes `RecvPackage` search for ever with
  `m_cidMsgMutex` held; a buffer that had to be trimmed is not searched although the
  comment says the search goes on (`PacketAssembler.cpp:193`). `FailSendRestore`
  (`Epoll_SendQueue.cpp:50`) is not called: the rest of a send that went out in part is
  lost. Data that arrives between the registration with epoll and `AddConnection`
  is dropped. A `recv` of 0 is judged by an old `errno`. Descriptors are closed before
  `RemoveId`, and twice when `AddNewClient` or `SetKeepAlive` fails. The keep-idle
  option is never set (a comma expression).
* Web client, Linux build. `Send` always calls `OnDisconnect`
  (`EpollClient_Core.cpp:426`), so that after every message the connection counts as
  lost and further sends within five minutes are refused; `m_clientfd` and
  `m_iClientStatus` are never reset, so it does not really reconnect; a signal
  before the wait is lost (`Clienter.cpp:322`). Windows build: a failed connection
  calls `CleanUp`, which waits for the thread it may run on.
* Web client. The Shenzhen handler keeps link rules under the web id of the
  connection, orders look them up under its own id: `RulesSynced` is about Shanghai.
  A new Shenzhen rule takes the match part from the confirm (`MatchRule_Sz.cpp:109`).
  Conditions of an older version stay (hence "at least" in `RuleOfItsVersion`), and so
  does a part the new document lacks, which is only logged (`MatchRule_Sh.cpp:142`,
  `:152`): a rule can have an old part under a new timestamp, and after a restart none,
  because its row has NULL. Link
  rules are emptied and filled again while orders read them, and empty means every
  rule. `Get_Sz` of a connection locks another mutex than its writer. The run mode
  sent by the web server is replaced by the file's (`Clienter.cpp:2002`).
  A lost connection is only noticed, and made again, by a send.
* Start. `Sh_Conn2` is read under the name `Sh_Conn1` (`SystemInit.cpp:889`); Redis gets
  the password of the database (1357); in local mode step 8 uses the client that was
  never made; the last test of `RestartRequest` is reversed; without an identity in
  the file the one in the database is taken, and the other way round, so a failed
  reading of one of them and a failed writing give the gateway a second identity
  (hence the condition of `OneIdInUse`).
* Shanghai interface. The result of the update to P is ignored: orders are read again;
  orders set to P and not yet passed on are lost with the process; reports are lost when
  their connection fails; `FixToSHReport` overwrites the order's id with the trade
  number it draws; with an empty table the trade counter can be set back (hence the condition of
  `CjbhIncreasing`).
* Shenzhen interface. The index kept is that of the last partition, the reports carry
  the number of the first (`StgwMsgHelper.cpp:330`, `StgwFixReport.cpp:488`); the index
  counts up for clients that have not synchronised, since the test calls
  `GetRptIdex` instead of `GetRptSta` (156); a synchronisation is lost when the
  worker writes its index back after it (hence the exception in `ReportNumbers`); a
  report that cannot be converted is dropped with its number.
* ETF packages. A failed query of the ids is taken for an empty table and the result of
  the commit is ignored (hence the conditions of `EtfKept`).
* Database. `ReleaseConnection(NULL)` decrements the count of the pool, as does
  `CheckMysql` (`SystemInit.cpp:372`); connections are not released when a load's
  `SELECT` or `GetStockType` fails (`DbUserInfoAsset.cpp:954`) and in
  `MatchRule_Sz.cpp:526`; a failed load returns 0 with counts of any value; a null
  connection is used unchecked (`ProcSocketMsg.cpp:326`); results of `Commit` are
  ignored; the Redis pool with a password dereferences null;
  `OTLConn40240::Query` executes twice.
* Settlement. `Close` stands inside the loop over seats and accounts
  (`SHSettle.cpp:260`), so a second seat makes it fail; a repeated settlement appends
  the same rows; `Gen_SJSJG` fails when the last row is of a basket (1850); a failed query of
  the groups leads to success without details; `MXZQLB` is overwritten in place of
  `MXGFXZ` (`SZSettle.cpp:1522`); the next-day additions of zqye are never written;
  a process end between the blank record and its values leaves a counted blank record;
  a sale of shares of a redemption or a creation changes `stock_etf_redemption_balance`
  or the creation's column alone (`UserStockVolume.cpp:60`, `:212`), so that the
  condition of the settlement's `UPDATE` (`Settlement.cpp:445`) still matches and the
  sold shares are written back (hence `unseen` in `SharesKept`);
  numbers wider than a column are cut.
* Day end. A row recorded between the two `TRUNCATE`s is lost, a repeated `BackupDb` archives rows
  twice (hence the conditions of `DayKept`); `DayEndClean::Reset` does nothing.

## 7. Plan

Done: the queue, the thread pool, the order path, quotation matching, the accounts, the
database, the markets' interfaces, settlement and day end, the TCP server, the start with
the web client, rules, strategies and packages; of all but the TCP server and
the settlement files the safety properties are proved.

Next:

1. `Task_Etf_Match` in `OrderFlow`; the rejects of repeated numbers and the platform
   messages in `SzConn`.
2. `MapIsOpen` and `AnsweredInOrder` of `EpollServer`, whose search must become a
   function of the position first.
3. A larger `web_start`: four events.
