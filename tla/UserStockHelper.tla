--------------------------- MODULE UserStockHelper ---------------------------
(***************************************************************************)
(* The share account of one user: the cache g_mapUserStock                 *)
(* (cache/UserStockHelper.cpp), what orders do to it when they come in,    *)
(* trade and are cancelled, and the statements by which                    *)
(* simutgw/db_oper/StockCacheSynHelper.cpp carries the cache over to the   *)
(* database, which the one thread of AsyncDbWriter executes later.         *)
(*                                                                         *)
(* Every operation on the cache holds g_mapUStockMutex from beginning to   *)
(* end, so it is one step; the steps of the valid, matching and database   *)
(* threads interleave.  A statement is guarded: it says which values it    *)
(* expects to find in the row, and changes nothing when it finds others.   *)
(*                                                                         *)
(* bCheck_Assets is set and the run mode is NormalMode; otherwise nothing  *)
(* happens here.  Accounts do not interact, so there is one.               *)
(***************************************************************************)
EXTENDS UserStockVolume, Sequences, FiniteSets, Functions

CONSTANTS Order,          \* orders
          Days,           \* the days there may be: [kind, of, qty, rows] records
          Etf,            \* the ETF
          Components,     \* its vecComponents, by strUnderlyingSecurityID
          Share,          \* ui64ComponentShare of each
          Substitute,     \* iSubstituteFlag of each
          Unit,           \* ui64CreationRedemptionUnit
          WriteMayFail,   \* whether a database connection may be missing
          Nothing         \* no entry, no row

Component == {Components[i] : i \in DOMAIN Components}

Security == Component \cup {Etf}

OrderKind == {"sell", "buy", "etf_sell", "etf_buy", "etf_crt", "etf_rdp"}

\* The columns of stock_etf_asset and stock_asset
Columns(s) == {"stk", "act", "avl", "last"} \cup IF s = Etf THEN {"crt"} ELSE {"rdp"}

Row(s) == [Columns(s) -> Count]

\* An entry of g_mapUserStock
Entry == [stored : BOOLEAN, vol : Holding]

\* ValidateETF refuses creations and redemptions of less than a unit.
ASSUME UserStockAssumption ==
    /\ \A d \in Days :
         /\ d.kind \in [Order -> OrderKind] /\ d.of \in [Order -> Security] /\ d.qty \in [Order -> Count]
         /\ \A o \in Order : (d.of[o] = Etf) <=> d.kind[o] \notin {"sell", "buy"}
         /\ \A o \in Order : d.kind[o] \in {"etf_crt", "etf_rdp"} => Unit <= d.qty[o]
         /\ d.rows = [s \in Security |-> d.rows[s]]
         /\ \A s \in Security : d.rows[s] \in Row(s) \cup {Nothing}
    /\ Components \in Seq(Component) /\ Etf \notin Component
    /\ \A i, j \in DOMAIN Components : Components[i] = Components[j] => i = j
    /\ Nothing \notin Security /\ Nothing \notin Entry
    /\ \A s \in Security : Nothing \notin Row(s)
    /\ Share \in [Component -> Count]
    /\ Substitute \in [Component -> {"Only_Security", "Security_And_Cash"}]
    /\ Unit \in Nat \ {0} /\ IsFiniteSet(Order)
    /\ WriteMayFail \in BOOLEAN

VARIABLES day,        \* what the orders of the day are and the rows before the first
          cache,      \* g_mapUserStock of the account: a holding and m_bStored
          order,      \* state, ui64LeavesQty and frozen parts of each order
          sql,        \* statements waiting in AsyncDbWriter
          db,         \* the account's rows
          lost,       \* history: securities a statement was lost for
          refused     \* history: securities a statement did not fit

vars == <<day, cache, order, sql, db, lost, refused>>

Kind == day.kind     \* iTrade_type and side of each order
Of == day.of         \* strStockID
Qty == day.qty       \* ui64Orderqty_origin

NoCps == [s \in Security |-> [first |-> 0, avl |-> 0]]

Init ==
    /\ day \in Days
    /\ cache = [s \in Security |-> Nothing]
    /\ order = [o \in Order |-> [state |-> "new", leaves |-> Qty[o], cps |-> NoCps]]
    /\ sql = <<>>
    /\ db = day.rows
    /\ lost = {} /\ refused = {}

-----------------------------------------------------------------------------
(* The cache                                                               *)

CanLookUp(s) == cache[s] # Nothing \/ db[s] # Nothing

\* LookUp, LoadUserStockFromDBAndStore
LookUp(s) == IF cache[s] # Nothing THEN cache[s]
                                   ELSE [stored |-> TRUE, vol |-> Load(db[s])]

\* AddAct, AddCrt and AddRdp make an entry where there is no row.
LookUpOrNew(s) == IF CanLookUp(s) THEN LookUp(s)
                                  ELSE [stored |-> FALSE, vol |-> Empty]

\* PreTrade::TradePrep rejects an order whose shares cannot be frozen.
Reject(o) == order' = [order EXCEPT ![o].state = "rejected"]

Accept(o, cps) == order' = [order EXCEPT ![o].state = "resting", ![o].cps = cps]

-----------------------------------------------------------------------------
(* PreTrade::TradePrep                                                     *)

\* SellFroze, SellEtfFroze and RedemptionFroze of the helper.
FrozeOne(o, first, Take(_, _)) ==
    LET s == Of[o]
        n == order[o].leaves
        h == LookUp(s).vol
    IN  \/ ~CanLookUp(s) /\ Reject(o) /\ UNCHANGED cache
        \/ /\ CanLookUp(s)
           /\ cache' = [cache EXCEPT ![s] = [LookUp(s) EXCEPT !.vol = Take(h, n)]]
           /\ IF Enough(h, first, n)
              THEN Accept(o, [NoCps EXCEPT ![s] = [first |-> FromFirst(h, first, n),
                                                   avl |-> FromAvl(h, first, n)]])
              ELSE Reject(o)

TradePrep(o) ==
    /\ order[o].state = "new"
    /\ \/ Kind[o] = "sell" /\ FrozeOne(o, "rdp", SellFroze)
       \/ Kind[o] = "etf_sell" /\ FrozeOne(o, "crt", SellEtfFroze)
       \/ Kind[o] = "etf_rdp" /\ FrozeOne(o, "act", RedemptionFroze)
       \/ Kind[o] \in {"buy", "etf_buy"} /\ Accept(o, NoCps) /\ UNCHANGED cache
    /\ UNCHANGED <<day, sql, db, lost, refused>>

\* ui64Times * ui64ComponentShare
Needed(o, c) == ((Qty[o] \div Unit) * Share[c]) % Modulus

\* CreationQuery of the helper first asks for every component, and gives up at
\* the first that is missing or short; a short one may be replaced by cash, if
\* its flag, its quotation and the budget dMaxCash allow it.  Then it freezes
\* them one by one.  The quotation of a short component may be gone by then,
\* which leaves those before it frozen.
CreationQuery(o) ==
    LET short(c) == ~Enough(LookUp(c).vol, "act", Needed(o, c))
        part(c) == [first |-> FromFirst(LookUp(c).vol, "act", Needed(o, c)),
                    avl |-> FromAvl(LookUp(c).vol, "act", Needed(o, c))]
        upTo(i) == {Components[j] : j \in 1..i}
        found(s) == IF CanLookUp(s) THEN LookUp(s) ELSE Nothing
        frozen(s) == [LookUp(s) EXCEPT !.vol = CreationFroze(@, Needed(o, s))]
        passes(c) == CanLookUp(c) /\ (short(c) => Substitute[c] = "Security_And_Cash")
    IN  /\ order[o].state = "new"
        /\ Kind[o] = "etf_crt"
        /\ \/ \E i \in DOMAIN Components :
                 /\ \A c \in upTo(i - 1) : passes(c)
                 /\ (CanLookUp(Components[i]) => short(Components[i]))
                 /\ cache' = [s \in Security |-> IF s \in upTo(i) THEN found(s) ELSE cache[s]]
                 /\ Reject(o)
           \/ /\ \A c \in Component : passes(c)
              /\ cache' = [s \in Security |-> IF s \in Component THEN frozen(s) ELSE cache[s]]
              /\ Accept(o, [s \in Security |-> IF s \in Component THEN part(s) ELSE NoCps[s]])
           \/ \E i \in DOMAIN Components :
                 /\ \A c \in Component : passes(c)
                 /\ short(Components[i])
                 /\ cache' = [s \in Security |-> IF s \in upTo(i) THEN frozen(s)
                                                 ELSE IF s \in Component THEN LookUp(s)
                                                 ELSE cache[s]]
                 /\ Reject(o)
        /\ UNCHANGED <<day, sql, db, lost, refused>>

-----------------------------------------------------------------------------
(* Statements                                                              *)

\* from says which balance of the cache each column is written from.
UpdateSql(s, h, from) ==
    [op |-> "UPDATE", of |-> s,
     where |-> [c \in DOMAIN from \cup {"last"} |->
                   IF c = "last" THEN h["last"].syn ELSE h[from[c]].syn],
     set |-> [c \in DOMAIN from \cup {"last"} |->
                 IF c = "last" THEN h["stk"].syn ELSE Held(h[from[c]])]]

InsertSql(s, h, from) ==
    [op |-> "INSERT", of |-> s, where |-> <<>>,
     set |-> [c \in Columns(s) |-> IF c \in DOMAIN from THEN Held(h[from[c]]) ELSE 0]]

\* The INSERT of RdpComponentSyn gives ten values for nine columns.
WrongSql(s) == [op |-> "error", of |-> s, where |-> <<>>, set |-> <<>>]

\* Mutant of UpdateOrInsert: CheckStore is not asked.
UpdateOrInsert_NoInsert(s, e, from) == UpdateSql(s, e.vol, from)

UpdateOrInsert(s, e, from) ==
    IF e.stored THEN UpdateSql(s, e.vol, from) ELSE InsertSql(s, e.vol, from)

SellSyn(s, e) == UpdateSql(s, e.vol, [stk |-> "stk", rdp |-> "rdp", avl |-> "avl"])

SellEtfSyn(s, e) == UpdateSql(s, e.vol, [stk |-> "stk", crt |-> "crt", avl |-> "avl"])

AddSyn(s, e) == UpdateOrInsert(s, e, [stk |-> "stk", act |-> "act"])

\* UserStockVolume::AddEtfSyn returns the counts of units got by creation.
AddEtfSyn(s, e) == UpdateOrInsert(s, e, [stk |-> "stk", act |-> "crt"])

CrtEtfSyn(s, e) == UpdateOrInsert(s, e, [stk |-> "stk", crt |-> "crt"])

CrtComponentSyn(s, e) == UpdateSql(s, e.vol, [stk |-> "stk", act |-> "act", avl |-> "avl"])

RdpEtfSyn(s, e) == UpdateSql(s, e.vol, [stk |-> "stk", act |-> "act", avl |-> "avl"])

RdpComponentSyn(s, e) ==
    IF e.stored THEN UpdateSql(s, e.vol, [stk |-> "stk", rdp |-> "rdp"]) ELSE WrongSql(s)

\* The entry after its balances have been handed to a statement; the sell and
\* creation statements leave m_bStored as it is, which is then set already.
Synced(e, parts) == [stored |-> TRUE, vol |-> SynParts(e.vol, parts)]

-----------------------------------------------------------------------------
(* UpdateAfterTrade                                                        *)

\* An order that has traded in full leaves the matching queue.
Filled(o, q, cps) ==
    order' = [order EXCEPT ![o] =
                 [state |-> IF @.leaves = q THEN "filled" ELSE "resting",
                  leaves |-> @.leaves - q, cps |-> cps]]

\* A trade of the whole order's own security: its entry becomes e, which is
\* written by Syn.
Trade(o, e, parts, Syn(_, _)) ==
    /\ cache' = [cache EXCEPT ![Of[o]] = Synced(e, parts)]
    /\ sql' = Append(sql, Syn(Of[o], e))

\* UpdateTrade, a_trade, sell: the first part is used up before "avl".
UpdateTrade_Sell(o, q) ==
    LET s == Of[o]
        cps == order[o].cps[s]
        a == IF q <= cps.first THEN q ELSE cps.first
        b == IF q <= cps.first + cps.avl THEN q - a ELSE cps.avl
        e == LookUp(s)
    IN  /\ Kind[o] = "sell"
        /\ Trade(o, [e EXCEPT !.vol = SellConfirm(@, a, b)], {"rdp", "avl"}, SellSyn)
        /\ Filled(o, q, [order[o].cps EXCEPT ![s] = [first |-> cps.first - a,
                                                     avl |-> cps.avl - b]])

\* UpdateTrade, etf_sell: the trade that uses up both parts confirms the
\* sellCps of the order, which are those of another kind of order and zero.
UpdateTrade_EtfSell(o, q) ==
    LET s == Of[o]
        cps == order[o].cps[s]
        a == IF q < cps.first THEN q ELSE cps.first
        e == LookUp(s)
    IN  /\ Kind[o] = "etf_sell"
        /\ IF q < cps.first + cps.avl
           THEN /\ Trade(o, [e EXCEPT !.vol = SellEtfConfirm(@, a, q - a)],
                         {"crt", "avl"}, SellEtfSyn)
                /\ Filled(o, q, [order[o].cps EXCEPT ![s] = [first |-> cps.first - a,
                                                             avl |-> cps.avl - (q - a)]])
           ELSE /\ Trade(o, [e EXCEPT !.vol = SellEtfConfirm(@, 0, 0)],
                         {"crt", "avl"}, SellEtfSyn)
                /\ Filled(o, q, NoCps)

UpdateTrade_Buy(o, q) ==
    LET e == LookUpOrNew(Of[o])
        bought == [e EXCEPT !.vol = AddAct(@, q)]
    IN  /\ \/ Kind[o] = "buy" /\ Trade(o, bought, {"act"}, AddSyn)
           \/ Kind[o] = "etf_buy" /\ Trade(o, bought, {"crt"}, AddEtfSyn)
        /\ Filled(o, q, NoCps)

\* UpdateETFCrtRdp, etf_crt: the components go, then the units come.
UpdateETF_Crt(o) ==
    LET confirmed(c) == [LookUp(c) EXCEPT !.vol =
                            CreationConfirm(@, order[o].cps[c].first, order[o].cps[c].avl)]
        created == LET e == LookUpOrNew(Etf) IN [e EXCEPT !.vol = AddCrt(@, order[o].leaves)]
    IN  /\ Kind[o] = "etf_crt"
        /\ cache' = [s \in Security |-> IF s = Etf THEN Synced(created, {"crt"})
                                                   ELSE Synced(confirmed(s), {"act", "avl"})]
        /\ sql' = sql \o [i \in DOMAIN Components |->
                             CrtComponentSyn(Components[i], confirmed(Components[i]))]
                      \o <<CrtEtfSyn(Etf, created)>>
        /\ Filled(o, order[o].leaves, NoCps)

\* UpdateETFCrtRdp, etf_rdp: the units go, then the components come.
UpdateETF_Rdp(o) ==
    LET redeemed == [LookUp(Etf) EXCEPT !.vol =
                        RedemptionConfirm(@, order[o].cps[Etf].first, order[o].cps[Etf].avl)]
        got(c) == LET e == LookUpOrNew(c) IN [e EXCEPT !.vol = AddRdp(@, Needed(o, c))]
    IN  /\ Kind[o] = "etf_rdp"
        /\ cache' = [s \in Security |-> IF s = Etf THEN Synced(redeemed, {"act", "avl"})
                                                   ELSE Synced(got(s), {"rdp"})]
        /\ sql' = Append(sql, RdpEtfSyn(Etf, redeemed))
                  \o [i \in DOMAIN Components |-> RdpComponentSyn(Components[i], got(Components[i]))]
        /\ Filled(o, order[o].leaves, NoCps)

\* Task_ABStockMatch trades in parts, Task_Etf_Match only the whole order.
UpdateAfterTrade(o) ==
    /\ order[o].state = "resting"
    /\ \/ \E q \in 1..order[o].leaves :
             UpdateTrade_Sell(o, q) \/ UpdateTrade_EtfSell(o, q) \/ UpdateTrade_Buy(o, q)
       \/ UpdateETF_Crt(o)
       \/ UpdateETF_Rdp(o)
    /\ UNCHANGED <<day, db, lost, refused>>

-----------------------------------------------------------------------------
(* Cancelling, writing, day end                                            *)

\* UpdateCancel, when the match thread has taken the order off its queue.  The
\* parts still frozen are given back; a buy has none.
UpdateAfterCancel(o) ==
    LET s == Of[o]
        cps == order[o].cps[s]
    IN  /\ order[o].state = "resting"
        /\ \/ /\ Kind[o] = "sell"
              /\ cache' = [cache EXCEPT ![s].vol = SellDeFroze(@, cps.first, cps.avl)]
           \/ /\ Kind[o] = "etf_sell"
              /\ cache' = [cache EXCEPT ![s].vol = SellEtfDeFroze(@, cps.first, cps.avl)]
           \/ /\ Kind[o] \in {"buy", "etf_buy"}
              /\ UNCHANGED cache
        /\ order' = [order EXCEPT ![o].state = "cancelled", ![o].cps = NoCps]
        /\ UNCHANGED <<day, sql, db, lost, refused>>

\* The database: an UPDATE changes the row it describes, if there is one.
Matches(u, row) ==
    \/ /\ u.op = "UPDATE" /\ row # Nothing
       /\ \A c \in DOMAIN u.where : row[c] = u.where[c]
    \/ u.op = "INSERT" /\ row = Nothing

Written(u, row) ==
    IF u.op = "INSERT" THEN u.set
    ELSE [c \in DOMAIN row |-> IF c \in DOMAIN u.set THEN u.set[c] ELSE row[c]]

\* TaskStockCacheSyn::TaskProc: a statement that does not affect one row is
\* rolled back and forgotten, as is one for which there is no connection.
TaskStockCacheSyn ==
    /\ sql # <<>>
    /\ sql' = Tail(sql)
    /\ LET u == Head(sql)
       IN  \/ /\ Matches(u, db[u.of])
              /\ db' = [db EXCEPT ![u.of] = Written(u, db[u.of])]
              /\ UNCHANGED <<lost, refused>>
           \/ /\ ~Matches(u, db[u.of])
              /\ refused' = refused \cup {u.of}
              /\ UNCHANGED <<db, lost>>
           \/ /\ WriteMayFail
              /\ lost' = lost \cup {u.of}
              /\ UNCHANGED <<db, refused>>
    /\ UNCHANGED <<day, cache, order>>

\* The operator ends the day when the market is closed: no order is resting
\* and the statements have been executed.
DayEndCleanUp ==
    /\ \A o \in Order : order[o].state # "resting"
    /\ sql = <<>>
    /\ cache # [s \in Security |-> Nothing]
    /\ cache' = [s \in Security |-> Nothing]
    /\ UNCHANGED <<day, order, sql, db, lost, refused>>

Next ==
    \/ \E o \in Order : \/ TradePrep(o) \/ CreationQuery(o)
                        \/ UpdateAfterTrade(o) \/ UpdateAfterCancel(o)
    \/ TaskStockCacheSyn
    \/ DayEndCleanUp

Spec == Init /\ [][Next]_vars

-----------------------------------------------------------------------------
(* Properties                                                              *)

OrderState == [state : {"new", "rejected", "resting", "filled", "cancelled"},
               leaves : Count,
               cps : [Security -> [first : Count, avl : Count]]]

TypeOK ==
    /\ cache \in [Security -> Entry \cup {Nothing}]
    /\ order \in [Order -> OrderState]
    /\ \A s \in Security : db[s] \in Row(s) \cup {Nothing}
    /\ \A i \in DOMAIN sql : /\ sql[i].op \in {"UPDATE", "INSERT", "error"}
                             /\ sql[i].of \in Security
    /\ lost \subseteq Security /\ refused \subseteq Security

\* The part of a security an order of each kind uses before "avl".
FirstPart(o) == CASE Kind[o] = "sell" -> "rdp"
                  [] Kind[o] = "etf_sell" -> "crt"
                  [] Kind[o] \in {"etf_crt", "etf_rdp"} -> "act"
                  [] OTHER -> "none"

FrozenFor(o, s, p) ==
    IF order[o].state # "resting" THEN 0
    ELSE IF p = FirstPart(o) THEN order[o].cps[s].first
    ELSE IF p = "avl" THEN order[o].cps[s].avl ELSE 0

Total(f(_), S) == SumFunctionOnSet([x \in S |-> f(x)], S)

\* Sells and redemptions of an ETF give back to the wrong part and queue
\* statements for the wrong columns; the next three properties are about days
\* with orders of the other kinds.
OtherOrders == \A o \in Order : Kind[o] \in {"sell", "buy", "etf_crt"}

\* What is frozen of a part is what the resting orders have frozen of it: a
\* rejected, filled or cancelled order leaves nothing frozen behind, and no
\* share is frozen twice (SellFroze, UpdateTrade, UpdateCancel).
FrozenByOrders ==
    /\ TypeOK
    /\ OtherOrders => \A s \in Security, p \in Part :
         cache[s] # Nothing =>
             cache[s].vol[p].froze = Total(LAMBDA o : FrozenFor(o, s, p), Order)

Traded(o) == Qty[o] - order[o].leaves

\* Shares come and go only by trades: the parts of what is held together are
\* what the account began with, with all that was bought and without all that
\* was sold or given for ETF units (UpdateTrade, UpdateETFCrtRdp), whatever
\* was frozen, given back or, if no statement was lost, reloaded in between.
SharesConserved ==
    OtherOrders => \A s \in Component \ lost :
        LET gone(o) == CASE Kind[o] = "sell" /\ Of[o] = s -> Traded(o)
                         [] Kind[o] = "etf_crt" /\ Traded(o) > 0 -> Needed(o, s)
                         [] OTHER -> 0
            come(o) == IF Kind[o] = "buy" /\ Of[o] = s THEN Traded(o) ELSE 0
            rows == IF day.rows[s] # Nothing THEN Load(day.rows[s]) ELSE Empty
        IN  CanLookUp(s) =>
                Total(LAMBDA p : Held(LookUp(s).vol[p]), Part) + Total(gone, Order)
                    = Total(LAMBDA p : Held(rows[p]), Part) + Total(come, Order)

\* No guarded statement finds another value than it expects unless one for the
\* same row was lost, so that once the statements have been executed the row is
\* what the cache holds (StockCacheSynHelper, TaskStockCacheSyn).
DbCaughtUp ==
    OtherOrders =>
    /\ refused \subseteq lost
    /\ sql = <<>> => \A s \in Security \ lost : cache[s] # Nothing =>
          IF cache[s].stored
          THEN db[s] # Nothing /\ \A c \in Columns(s) \ {"last"} : db[s][c] = Held(cache[s].vol[c])
          ELSE db[s] = Nothing

\* Freezing shares, giving them back and failing to freeze them changes no
\* balance, even where the code gives them back to the wrong part: only a trade
\* does (FrozeVolume, TradePrep, UpdateCancel).
OnlyTradesChangeBalances ==
    [][(\A o \in Order : order'[o].leaves = order[o].leaves) =>
          \A s \in Security : cache[s] # Nothing /\ cache'[s] # Nothing =>
              \A b \in Balance : Held(cache'[s].vol[b]) = Held(cache[s].vol[b])]_vars

\* What the code says where it calls SetStore (StockCacheSynHelper.cpp: "there
\* is a record in the database"): there is one, or it is about to be made.
StoredHasRow ==
    \A s \in Security \ lost : cache[s] # Nothing /\ cache[s].stored =>
        db[s] # Nothing \/ \E i \in DOMAIN sql : sql[i].op = "INSERT" /\ sql[i].of = s

\* The row follows the cache: no entry is kept by UPDATEs of a row that is not
\* there, and none is refused for the value it expects.
RowFollowsCache == StoredHasRow /\ DbCaughtUp

\* What SellConfirm says it does (UserStockVolume.cpp: "will deduct the amount
\* from the frozen part"), the total included: the total stays the sum of its
\* parts.
TotalIsSum ==
    \A s \in Security : cache[s] # Nothing =>
        Held(cache[s].vol["stk"]) = Total(LAMBDA p : Held(cache[s].vol[p]), Part)
=============================================================================
