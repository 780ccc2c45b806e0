----------------------------- MODULE OrderFlow -----------------------------
(***************************************************************************)
(* The way of an order or a cancel through the simulator: input buffer,    *)
(* distribute thread, pool of validating threads, pool of matching         *)
(* threads, report buffer.                                                 *)
(*                                                                         *)
(* Every shared buffer or queue has its own mutex and Redis runs one       *)
(* command at a time, so a step of this model is one access to one of      *)
(* them by one thread; what a thread does in between is private to it.     *)
(* A matching thread's TaskPriorityQueue is its p4 and p3_unorder queue,   *)
(* the only two that the tasks of this pool reach (m_bIsMatchOrdered is    *)
(* always false); the limit of 2^64 - 11 tasks is not modelled.            *)
(* Matching against live quotations is in QuotMatch, the share accounts    *)
(* are in UserStockHelper; here an order is matched in one of the          *)
(* simulated modes.                                                        *)
(***************************************************************************)
EXTENDS Integers, Sequences, FiniteSets, SequencesExt

CONSTANTS Msg,              \* order and cancel messages that clients may send
          Clordid,          \* order numbers
          ValidThreads,     \* size of g_mtskPool_valid, 1 in the program
          MatchThreads,     \* size of g_mtskPool_match_cancel, 1 in the program
          iPart_Match_Num,  \* number of slices of SimulMatchByDivide
          RedisMayFail,     \* whether Redis calls may fail
          MayLogOff         \* whether a SZ session may be logged off

MatchMode == {"All", "Divide", "NotMatch", "Err", "Part"}

\* Clients send at most one message of each id; orig is used by cancels
\* ("F"), qty and mode by orders ("D"); valid is the verdict of the checks of
\* AppId_010_OrderValide and PreTrade on the message.
ASSUME MsgAssumption ==
    Msg \subseteq [id : Nat, type : {"D", "F"}, market : {"SZ", "SH"},
                   cl : Clordid, orig : Clordid, key : Nat,
                   qty : Nat \ {0}, mode : MatchMode, valid : BOOLEAN]

ASSUME PoolAssumption ==
    /\ ValidThreads \in Nat \ {0} /\ MatchThreads \in Nat \ {0}
    /\ iPart_Match_Num \in Nat \ {0}
    /\ RedisMayFail \in BOOLEAN /\ MayLogOff \in BOOLEAN

Order  == {x \in Msg : x.type = "D"}
Cancel == {x \in Msg : x.type = "F"}

\* A cancel names the security and the side of its order, as the interface
\* demands of clients: TaskPriorityBase::GenerateKey makes the key of both.
ASSUME KeyAssumption ==
    \A c \in Cancel, o \in Order : c.orig = o.cl => c.key = o.key

VThread == 0..ValidThreads - 1
MThread == 0..MatchThreads - 1

\* An empty hand.
None == [type |-> "none"]

VARIABLES
    g_inMsg_buffer,   \* received messages, in order of arrival
    dist,             \* the distribute thread: message in hand and its scan
    validQue,         \* queue of each validating thread
    valid,            \* message in hand and next step of each validating thread
    redis,            \* order numbers in the Redis hash of known orders
    p4_que,           \* cancel tasks of each matching thread
    p3_que,           \* match tasks of each matching thread
    match,            \* task in hand and next step of each matching thread
    g_outMsg_buffer,  \* every report pushed, in order
    arrived,          \* history: messages clients have sent
    repeated,         \* history: messages refused as repeats
    ignored,          \* history: messages of sessions not logged in
    execQty, cxlQty   \* history: shares reported traded, cancelled, per order

input   == <<g_inMsg_buffer, arrived>>
matchQs == <<p4_que, p3_que>>
reports == <<g_outMsg_buffer, execQty, cxlQty>>
refusal == <<repeated, ignored>>
vars    == <<input, dist, validQue, valid, redis, matchQs, match, reports, refusal>>

-----------------------------------------------------------------------------
(* Reports                                                                 *)

Report(x, order, kind, last, leaves, cum) ==
    [msg |-> x, order |-> order, kind |-> kind,
     last |-> last, leaves |-> leaves, cum |-> cum]

PushBack(r) ==
    /\ g_outMsg_buffer' = Append(g_outMsg_buffer, r)
    /\ execQty' = IF r.kind = "Trade"
                  THEN [execQty EXCEPT ![r.order] = @ + r.last] ELSE execQty
    /\ cxlQty' = IF r.kind = "Cancelled"
                 THEN [cxlQty EXCEPT ![r.order] = @ + r.last] ELSE cxlQty

-----------------------------------------------------------------------------
(* Clients and the distribute thread                                       *)

Idle(pc) == [msg |-> None, pc |-> pc]

Init ==
    /\ g_inMsg_buffer = <<>>
    /\ dist = [msg |-> None, next |-> 0, best |-> 0, num |-> 0]
    /\ validQue = [v \in VThread |-> <<>>]
    /\ valid = [v \in VThread |-> Idle("get")]
    /\ redis = {}
    /\ p4_que = [m \in MThread |-> <<>>]
    /\ p3_que = [m \in MThread |-> <<>>]
    /\ match = [m \in MThread |-> [msg |-> None, leaves |-> 0, pc |-> "get"]]
    /\ g_outMsg_buffer = <<>>
    /\ arrived = {} /\ repeated = {} /\ ignored = {}
    /\ execQty = [x \in Order |-> 0]
    /\ cxlQty = [x \in Order |-> 0]

\* A client sends x; it cancels only orders it has sent.
Arrive(x) ==
    /\ \A y \in arrived : y.id # x.id
    /\ x.type = "F" => \E o \in arrived : o.type = "D" /\ o.cl = x.orig
    /\ arrived' = arrived \cup {x}
    /\ g_inMsg_buffer' = Append(g_inMsg_buffer, x)
    /\ UNCHANGED <<dist, validQue, valid, redis, matchQs, match, reports, refusal>>

\* ProcInMessage takes a message and starts AssignTaskInMini.
Dist_Pop ==
    /\ dist.msg = None
    /\ g_inMsg_buffer # <<>>
    /\ dist' = [msg |-> Head(g_inMsg_buffer), next |-> 0, best |-> 0, num |-> 0]
    /\ g_inMsg_buffer' = Tail(g_inMsg_buffer)
    /\ UNCHANGED <<arrived, validQue, valid, redis, matchQs, match, reports, refusal>>

\* AssignTaskInMini reads the length of one queue, without its lock; an empty
\* queue ends the search.
Dist_Scan ==
    /\ dist.msg # None
    /\ dist.next < ValidThreads
    /\ LET v == dist.next
           uiTaskNum == Len(validQue[v])
       IN  dist' = CASE uiTaskNum = 0 ->
                          [dist EXCEPT !.best = v, !.num = 0, !.next = ValidThreads]
                     [] uiTaskNum > 0 /\ (v = 0 \/ uiTaskNum < dist.num) ->
                          [dist EXCEPT !.best = v, !.num = uiTaskNum, !.next = v + 1]
                     [] OTHER -> [dist EXCEPT !.next = v + 1]
    /\ UNCHANGED <<input, validQue, valid, redis, matchQs, match, reports, refusal>>

Dist_Assign ==
    /\ dist.msg # None
    /\ dist.next = ValidThreads
    /\ validQue' = [validQue EXCEPT ![dist.best] = Append(@, dist.msg)]
    /\ dist' = [dist EXCEPT !.msg = None]
    /\ UNCHANGED <<input, valid, redis, matchQs, match, reports, refusal>>

-----------------------------------------------------------------------------
(* Task_ValidOrder on validating thread v                                  *)

AtValid(v, pc) == valid[v].pc = pc

GoTo(v, pc) == valid' = [valid EXCEPT ![v].pc = pc]

DoneWith(v) == valid' = [valid EXCEPT ![v] = Idle("get")]

Valid_Get(v) ==
    /\ AtValid(v, "get")
    /\ validQue[v] # <<>>
    /\ valid' = [valid EXCEPT ![v] = [msg |-> Head(validQue[v]), pc |-> "check"]]
    /\ validQue' = [validQue EXCEPT ![v] = Tail(@)]
    /\ UNCHANGED <<input, dist, redis, matchQs, match, reports, refusal>>

\* CheckIfRepeatOrder: HGET; a failed call counts as a repeat.
Valid_Check(v) ==
    LET x == valid[v].msg IN
    /\ AtValid(v, "check")
    /\ \/ /\ x.cl \notin redis
          /\ GoTo(v, "validate")
          /\ UNCHANGED repeated
       \/ /\ x.cl \in redis \/ RedisMayFail
          /\ repeated' = repeated \cup {x}
          /\ DoneWith(v)
    /\ UNCHANGED <<input, dist, validQue, redis, matchQs, match, reports, ignored>>

\* Mutant of Valid_Validate: no confirmation.
Valid_Validate_Unconfirmed(v) ==
    /\ AtValid(v, "validate")
    /\ GoTo(v, "record")
    /\ UNCHANGED <<input, dist, validQue, redis, matchQs, match, reports, refusal>>

\* Valide_Record_Order up to RecordInOrderToDb_Match: a message of a session
\* that is not logged in is forgotten, an invalid one is refused.
Valid_Validate(v) ==
    LET x == valid[v].msg IN
    /\ AtValid(v, "validate")
    /\ \/ /\ x.market = "SZ" /\ MayLogOff
          /\ ignored' = ignored \cup {x}
          /\ DoneWith(v)
          /\ UNCHANGED reports
       \/ /\ ~x.valid
          /\ PushBack(Report(x, x, "Error", 0, 0, 0))
          /\ DoneWith(v)
          /\ UNCHANGED ignored
       \/ /\ x.valid
          /\ GoTo(v, IF x.type = "D" /\ x.mode # "Err" THEN "confirm" ELSE "record")
          /\ UNCHANGED <<reports, ignored>>
    /\ UNCHANGED <<input, dist, validQue, redis, matchQs, match, repeated>>

\* RecordInOrderToDb_Match, first part: the confirmation of the order.
Valid_Confirm(v) ==
    LET x == valid[v].msg IN
    /\ AtValid(v, "confirm")
    /\ PushBack(Report(x, x, "New", 0, x.qty, 0))
    /\ GoTo(v, "record")
    /\ UNCHANGED <<input, dist, validQue, redis, matchQs, match, refusal>>

\* RecordOrderInRedis: HSET; its result is not looked at.
Valid_Record(v) ==
    /\ AtValid(v, "record")
    /\ \/ redis' = redis \cup {valid[v].msg.cl}
       \/ RedisMayFail /\ UNCHANGED redis
    /\ GoTo(v, "gen")
    /\ UNCHANGED <<input, dist, validQue, matchQs, match, reports, refusal>>

\* Mutant of ThreadOf: a cancel has another key than its order.
ThreadOf_ByType(x) == (IF x.type = "F" THEN x.key + 1 ELSE x.key) % MatchThreads

\* AssignTaskWithKey: the thread that serves a key.
ThreadOf(x) == x.key % MatchThreads

\* Mutant of GenTask_Match: the whole order is queued again.
GenTask_Match_Whole(x, leaves) ==
    IF x.type = "F"
    THEN /\ p4_que' = [p4_que EXCEPT ![ThreadOf(x)] = Append(@, x)]
         /\ UNCHANGED p3_que
    ELSE /\ p3_que' = [p3_que EXCEPT ![ThreadOf(x)] =
                            Append(@, [msg |-> x, leaves |-> x.qty])]
         /\ UNCHANGED p4_que

\* Mutant of GenTask_Match: the task is pushed to the front.
GenTask_Match_Front(x, leaves) ==
    IF x.type = "F"
    THEN /\ p4_que' = [p4_que EXCEPT ![ThreadOf(x)] = Append(@, x)]
         /\ UNCHANGED p3_que
    ELSE /\ p3_que' = [p3_que EXCEPT ![ThreadOf(x)] =
                            <<[msg |-> x, leaves |-> leaves]>> \o @]
         /\ UNCHANGED p4_que

\* GenTask_Match for a message with the given open quantity.
GenTask_Match(x, leaves) ==
    IF x.type = "F"
    THEN /\ p4_que' = [p4_que EXCEPT ![ThreadOf(x)] = Append(@, x)]
         /\ UNCHANGED p3_que
    ELSE /\ p3_que' = [p3_que EXCEPT ![ThreadOf(x)] =
                            Append(@, [msg |-> x, leaves |-> leaves])]
         /\ UNCHANGED p4_que

Valid_Gen(v) ==
    LET x == valid[v].msg IN
    /\ AtValid(v, "gen")
    /\ GenTask_Match(x, x.qty)
    /\ DoneWith(v)
    /\ UNCHANGED <<input, dist, validQue, redis, match, reports, refusal>>

ValidStep(v) ==
    \/ Valid_Get(v) \/ Valid_Check(v) \/ Valid_Validate(v)
    \/ Valid_Confirm(v) \/ Valid_Record(v) \/ Valid_Gen(v)

-----------------------------------------------------------------------------
(* Matching thread m                                                       *)

AtMatch(m, pc) == match[m].pc = pc

FreeHand == [msg |-> None, leaves |-> 0, pc |-> "get"]

\* Mutant of Match_Get: matches before cancels.
Match_Get_MatchFirst(m) ==
    /\ AtMatch(m, "get")
    /\ \/ /\ p4_que[m] # <<>> /\ p3_que[m] = <<>>
          /\ match' = [match EXCEPT ![m] =
                         [msg |-> Head(p4_que[m]), leaves |-> 0, pc |-> "cancel"]]
          /\ p4_que' = [p4_que EXCEPT ![m] = Tail(@)]
          /\ UNCHANGED p3_que
       \/ /\ p3_que[m] # <<>>
          /\ match' = [match EXCEPT ![m] =
                         [msg |-> Head(p3_que[m]).msg,
                          leaves |-> Head(p3_que[m]).leaves, pc |-> "trade"]]
          /\ p3_que' = [p3_que EXCEPT ![m] = Tail(@)]
          /\ UNCHANGED p4_que
    /\ UNCHANGED <<input, dist, validQue, valid, redis, reports, refusal>>

\* GetTask: cancels before matches.
Match_Get(m) ==
    /\ AtMatch(m, "get")
    /\ \/ /\ p4_que[m] # <<>>
          /\ match' = [match EXCEPT ![m] =
                         [msg |-> Head(p4_que[m]), leaves |-> 0, pc |-> "cancel"]]
          /\ p4_que' = [p4_que EXCEPT ![m] = Tail(@)]
          /\ UNCHANGED p3_que
       \/ /\ p4_que[m] = <<>>
          /\ p3_que[m] # <<>>
          /\ match' = [match EXCEPT ![m] =
                         [msg |-> Head(p3_que[m]).msg,
                          leaves |-> Head(p3_que[m]).leaves, pc |-> "trade"]]
          /\ p3_que' = [p3_que EXCEPT ![m] = Tail(@)]
          /\ UNCHANGED p4_que
    /\ UNCHANGED <<input, dist, validQue, valid, redis, reports, refusal>>

\* DeleteIfHaveTask: the first queued task of order number c.
FirstOf(s, c) ==
    {i \in 1..Len(s) : /\ s[i].msg.cl = c
                       /\ \A j \in 1..i - 1 : s[j].msg.cl # c}

\* Mutant of Cancel_Success: the task stays in the queue.
Cancel_Success_NoErase(m) ==
    LET x == match[m].msg IN
    /\ AtMatch(m, "cancel")
    /\ \E i \in FirstOf(p3_que[m], x.orig) :
         LET t == p3_que[m][i] IN
         PushBack(Report(x, t.msg, "Cancelled", t.leaves, 0, t.msg.qty - t.leaves))
    /\ match' = [match EXCEPT ![m] = FreeHand]
    /\ UNCHANGED <<input, dist, validQue, valid, redis, matchQs, refusal>>

\* Mutant of Cancel_Success: it falls through to the refusal.
Cancel_Success_NoReturn(m) ==
    LET x == match[m].msg IN
    /\ AtMatch(m, "cancel")
    /\ \E i \in FirstOf(p3_que[m], x.orig) :
         LET t == p3_que[m][i] IN
         /\ p3_que' = [p3_que EXCEPT ![m] = RemoveAt(@, i)]
         /\ PushBack(Report(x, t.msg, "Cancelled", t.leaves, 0, t.msg.qty - t.leaves))
    /\ UNCHANGED <<input, dist, validQue, valid, redis, p4_que, match, refusal>>

\* ProcSingleCancelOrder when the order is in the queue: ProcCancelSuccess.
Cancel_Success(m) ==
    LET x == match[m].msg IN
    /\ AtMatch(m, "cancel")
    /\ \E i \in FirstOf(p3_que[m], x.orig) :
         LET t == p3_que[m][i] IN
         /\ p3_que' = [p3_que EXCEPT ![m] = RemoveAt(@, i)]
         /\ PushBack(Report(x, t.msg, "Cancelled", t.leaves, 0, t.msg.qty - t.leaves))
    /\ match' = [match EXCEPT ![m] = FreeHand]
    /\ UNCHANGED <<input, dist, validQue, valid, redis, p4_que, refusal>>

\* ... and when it is not: ProcCancelFail_OrigIsProc.
Cancel_Fail(m) ==
    LET x == match[m].msg IN
    /\ AtMatch(m, "cancel")
    /\ FirstOf(p3_que[m], x.orig) = {}
    /\ PushBack(Report(x, x, "CxlReject", 0, 0, 0))
    /\ match' = [match EXCEPT ![m] = FreeHand]
    /\ UNCHANGED <<input, dist, validQue, valid, redis, matchQs, refusal>>

\* Mutant of DivideQty: the last slice is not cut to what is left.
DivideQty_NoRest(x, leaves) ==
    LET part == x.qty \div iPart_Match_Num IN
    IF part # 0 THEN part ELSE leaves

\* Quantity of the next slice of a divided order.
DivideQty(x, leaves) ==
    LET part == x.qty \div iPart_Match_Num IN
    IF part # 0 /\ leaves >= 2 * part THEN part ELSE leaves

\* Quantity of the only trade of a partly matched order.
PartQty(x) == IF x.qty = 1 THEN 1 ELSE x.qty \div 2

\* A trade of n shares is reported with the given total; what is left goes
\* back to the queue.
Trade(m, n, cum) ==
    LET x == match[m].msg
        rest == match[m].leaves - n
    IN  /\ PushBack(Report(x, x, "Trade", n, rest, cum))
        /\ match' = [match EXCEPT ![m] =
                       IF rest = 0 THEN FreeHand
                       ELSE [msg |-> x, leaves |-> rest, pc |-> "requeue"]]

Put_Back(m) ==
    /\ match' = [match EXCEPT ![m].pc = "requeue"]
    /\ UNCHANGED reports

ABStockMatch_All(m) ==
    /\ match[m].msg.mode = "All"
    /\ Trade(m, match[m].leaves, match[m].msg.qty)

ABStockMatch_Divide(m) ==
    LET n == DivideQty(match[m].msg, match[m].leaves) IN
    /\ match[m].msg.mode = "Divide"
    /\ Trade(m, n, n)

ABStockMatch_Part(m) ==
    LET n == PartQty(match[m].msg) IN
    /\ match[m].msg.mode = "Part"
    /\ IF match[m].leaves # match[m].msg.qty THEN Put_Back(m) ELSE Trade(m, n, n)

ABStockMatch_UnMatch(m) ==
    /\ match[m].msg.mode = "NotMatch"
    /\ Put_Back(m)

\* Mutant of ABStockMatch_Error: the refused order is queued again.
ABStockMatch_Error_PutBack(m) ==
    LET x == match[m].msg IN
    /\ x.mode = "Err"
    /\ PushBack(Report(x, x, "Error", 0, 0, 0))
    /\ match' = [match EXCEPT ![m].pc = "requeue"]

ABStockMatch_Error(m) ==
    LET x == match[m].msg IN
    /\ x.mode = "Err"
    /\ IF match[m].leaves = x.qty
       THEN /\ PushBack(Report(x, x, "Error", 0, 0, 0))
            /\ match' = [match EXCEPT ![m] = FreeHand]
       ELSE Put_Back(m)

MatchOrder(m) ==
    /\ AtMatch(m, "trade")
    /\ \/ ABStockMatch_All(m) \/ ABStockMatch_Divide(m) \/ ABStockMatch_Part(m)
       \/ ABStockMatch_UnMatch(m) \/ ABStockMatch_Error(m)
    /\ UNCHANGED <<input, dist, validQue, valid, redis, matchQs, refusal>>

Match_Requeue(m) ==
    /\ AtMatch(m, "requeue")
    /\ GenTask_Match(match[m].msg, match[m].leaves)
    /\ match' = [match EXCEPT ![m] = FreeHand]
    /\ UNCHANGED <<input, dist, validQue, valid, redis, reports, refusal>>

MatchStep(m) ==
    \/ Match_Get(m) \/ Cancel_Success(m) \/ Cancel_Fail(m)
    \/ MatchOrder(m) \/ Match_Requeue(m)

-----------------------------------------------------------------------------
DistStep == Dist_Pop \/ Dist_Scan \/ Dist_Assign

Next ==
    \/ \E x \in Msg : Arrive(x)
    \/ DistStep
    \/ \E v \in VThread : ValidStep(v)
    \/ \E m \in MThread : MatchStep(m)

Spec == Init /\ [][Next]_vars

\* Every thread of the program keeps running; clients need not send.
Fairness ==
    /\ WF_vars(DistStep)
    /\ \A v \in VThread : WF_vars(ValidStep(v))
    /\ \A m \in MThread : WF_vars(MatchStep(m))

FairSpec == Spec /\ Fairness

-----------------------------------------------------------------------------
(* Properties                                                              *)

Task == [msg : Order, leaves : Nat \ {0}]

ReportKind == {"New", "Trade", "Cancelled", "CxlReject", "Error"}

TypeOK ==
    /\ g_inMsg_buffer \in Seq(Msg)
    /\ dist \in [msg : Msg \cup {None}, next : 0..ValidThreads, best : VThread, num : Nat]
    /\ validQue \in [VThread -> Seq(Msg)]
    /\ valid \in [VThread -> [msg : Msg \cup {None},
                             pc : {"get", "check", "validate", "confirm", "record", "gen"}]]
    /\ redis \subseteq Clordid
    /\ p4_que \in [MThread -> Seq(Cancel)]
    /\ p3_que \in [MThread -> Seq(Task)]
    /\ match \in [MThread -> [msg : Msg \cup {None}, leaves : Nat,
                             pc : {"get", "cancel", "trade", "requeue"}]]
    /\ g_outMsg_buffer \in Seq([msg : Msg, order : Msg, kind : ReportKind,
                                last : Nat, leaves : Nat, cum : Nat])
    /\ arrived \subseteq Msg /\ repeated \subseteq Msg /\ ignored \subseteq Msg
    /\ execQty \in [Order -> Nat] /\ cxlQty \in [Order -> Nat]

\* Shares are neither lost nor traded twice on the way between the queue, the
\* matching step, the requeue and a cancel: what is still open is what the
\* reports have not yet accounted for, and a cancelled or traded share is
\* reported once.  (GenTask_Match copies the message with the open quantity
\* of that moment, ProcCancelSuccess reports the one of the task it found.)
QtyConserved ==
    /\ TypeOK
    /\ \A x \in Order :
         /\ execQty[x] + cxlQty[x] <= x.qty
         /\ \A m \in MThread :
              /\ match[m].msg = x =>
                     match[m].leaves > 0 /\ execQty[x] + match[m].leaves = x.qty /\ cxlQty[x] = 0
              /\ \A i \in 1..Len(p3_que[m]) : p3_que[m][i].msg = x =>
                     execQty[x] + p3_que[m][i].leaves = x.qty /\ cxlQty[x] = 0

\* A trade or a successful cancel is reported after the confirmation of the
\* order, although validating and matching threads write to the report buffer
\* concurrently.  (An order that the policy refuses is not confirmed, and yet
\* waits in the queue, where a cancel may find it.)
ConfirmFirst ==
    \A j \in 1..Len(g_outMsg_buffer) :
        /\ g_outMsg_buffer[j].kind \in {"Trade", "Cancelled"}
        /\ g_outMsg_buffer[j].order.mode # "Err"
        =>
            \E i \in 1..j - 1 : /\ g_outMsg_buffer[i].kind = "New"
                               /\ g_outMsg_buffer[i].order = g_outMsg_buffer[j].order

Final(r) == r.kind \in {"Cancelled", "Error"} \/ (r.kind = "Trade" /\ r.leaves = 0)

\* Nothing is reported of an order after its last report: no trade follows a
\* successful cancel, no cancel succeeds on a filled order.
NothingAfterFinal ==
    \A i, j \in 1..Len(g_outMsg_buffer) :
        /\ i < j
        /\ Final(g_outMsg_buffer[i])
        /\ g_outMsg_buffer[j].kind # "CxlReject"
        => g_outMsg_buffer[i].order # g_outMsg_buffer[j].order

\* What a customer sees of an order: its confirmation first, and nothing
\* after its end.
ReportsInOrder == ConfirmFirst /\ NothingAfterFinal

Answered(x) ==
    \/ x \in repeated \/ x \in ignored
    \/ \E i \in 1..Len(g_outMsg_buffer) : g_outMsg_buffer[i].msg = x

\* A cancel gets at most one answer, and never both a refusal and a success.
OneAnswerPerCancel ==
    \A c \in Cancel :
        /\ Cardinality({i \in 1..Len(g_outMsg_buffer) : g_outMsg_buffer[i].msg = c}) <= 1
        /\ c \in repeated \cup ignored =>
             \A i \in 1..Len(g_outMsg_buffer) : g_outMsg_buffer[i].msg # c

\* A cancel that says "no such order, it has been processed"
\* (ProcCancelFail_OrigIsProc) is right as far as its own thread can know: no
\* task of that order number is queued there.  The order under the thread's
\* hands cannot be missed, because the thread that trades an order is the one
\* that cancels it.
CancelMissesNothing ==
    [][\A m \in MThread :
         Len(g_outMsg_buffer') > Len(g_outMsg_buffer)
           /\ Last(g_outMsg_buffer').kind = "CxlReject"
           /\ Last(g_outMsg_buffer').msg = match[m].msg
         => \A n \in MThread :
              /\ match[n].msg # None /\ match[n].pc \in {"trade", "requeue"} =>
                     match[n].msg.cl # match[m].msg.orig
              /\ \A i \in 1..Len(p3_que[n]) :
                     p3_que[n][i].msg.cl # match[m].msg.orig]_vars

\* Every cancel that reaches the program is answered, refused as a repeat or
\* belongs to a session that is not logged in, even while orders that never
\* match keep the matching thread busy for ever.
CancelAnswered ==
    \A c \in Cancel : (c \in arrived) ~> Answered(c)

Finished(x) ==
    \/ x \in repeated \/ x \in ignored
    \/ \E i \in 1..Len(g_outMsg_buffer) :
          g_outMsg_buffer[i].order = x /\ Final(g_outMsg_buffer[i])

\* An order in a mode that trades it whole is filled, cancelled or refused in
\* the end: orders put back to the queue take their turn behind it.
OrderFinished ==
    \A i \in {x.id : x \in Order} :
        (\E x \in arrived \cap Order : x.id = i /\ x.mode \in {"All", "Divide", "Err"})
          ~> (\E x \in arrived \cap Order : x.id = i /\ Finished(x))

\* Whoever sends an order or a cancel gets an end of it.
AllAnswered == CancelAnswered /\ OrderFinished

\* What the check for repeats is for (Task_ValidOrder.cpp: "check whether it
\* is a repeat"): of two orders with one number only one is accepted.
RepeatRefused ==
    \A i, j \in 1..Len(g_outMsg_buffer) :
        /\ g_outMsg_buffer[i].kind = "New" /\ g_outMsg_buffer[j].kind = "New"
        /\ g_outMsg_buffer[i].msg.cl = g_outMsg_buffer[j].msg.cl
        => i = j

\* What the comment at strCumQty says (Task_ABStockMatch.cpp: "accumulated
\* traded quantity"): a trade report carries the total traded so far.
CumQtyIsTotal ==
    \A i \in 1..Len(g_outMsg_buffer) :
        LET r == g_outMsg_buffer[i] IN
        r.kind = "Trade" => r.cum = r.order.qty - r.leaves
=============================================================================
