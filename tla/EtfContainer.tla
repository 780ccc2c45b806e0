---------------------------- MODULE EtfContainer ----------------------------
(***************************************************************************)
(* etf/ETFContainer.cpp: the ETF packages the web server sends.  A package *)
(* is its header and its components; it is built and validated aside,      *)
(* written to two tables in one transaction and then put into the map, all *)
(* under one mutex.  At a start the map is read from the tables.           *)
(*                                                                         *)
(* A part of a package is an amount of money, different in each version:   *)
(* the web server sends yuan, the map and the tables have thousandths.     *)
(***************************************************************************)
EXTENDS Faults

CONSTANTS NoEtf, NoPart,
          EtfErrors  \* what may be wrong: among "unit", "limit", "share", "count"

ASSUME EtfAssumption == NoEtf \notin [info : Nat, comps : Nat]

VARIABLES etfMem,  \* the map's package [info, comps], or NoEtf
          etfRow,  \* the rows of the two tables, likewise
          etfIns   \* the insertion: [etf, tx, stage]

etfVars == <<etfMem, etfRow, etfIns>>

NoInsert == [etf |-> NoEtf, tx |-> NoEtf, stage |-> "none"]

\* The yuan of version n.
Yuan(n) == n
\* String2UInt64MoneyInLi_strtoui64, for whole yuan.
MoneyInLi(yuan) == 1000 * yuan

EtfInit(earlier) ==
    /\ etfMem = NoEtf /\ etfIns = NoInsert
    /\ etfRow = IF earlier THEN [info |-> MoneyInLi(Yuan(1)), comps |-> MoneyInLi(Yuan(1))] ELSE NoEtf

-----------------------------------------------------------------------------
(* InsertEtf_FromWebControl.  What is wrong with a package is its `bad'.   *)

\* The fields of the header up to the record numbers, then the amounts, then
\* the limits: one that does not convert is refused.
Info_Units(doc) == doc.bad # "unit"
Info_Money(doc) == MoneyInLi(doc.info)
Info_Limits(doc) == doc.bad # "limit"
Set_ETF_Component_FromWebControl(doc) == MoneyInLi(doc.comps)

\* ValidateETF: a component without shares or money, another number of
\* components than the header says.
Validate_ETFComponent_Info(doc) == doc.bad # "share"
Validate_ETF_Info(doc) == doc.bad # "count"

Validate(doc) == /\ Info_Units(doc) /\ Info_Limits(doc)
                 /\ Validate_ETFComponent_Info(doc) /\ Validate_ETF_Info(doc)

\* A package that does not validate changes nothing.
InsertEtf(doc) ==
    etfIns' = IF ~Validate(doc) THEN NoInsert
              ELSE [etf |-> [info |-> Info_Money(doc), comps |-> Set_ETF_Component_FromWebControl(doc)],
                    tx |-> etfRow, stage |-> "info"]

\* UpdateOneEtfPackageToDb: a statement that fails rolls all back.
EtfFailed == Fails("etf") /\ etfIns' = NoInsert /\ UNCHANGED <<etfMem, etfRow>>

InfoOf(tx, etf) == IF tx = NoEtf THEN [etf EXCEPT !.comps = NoPart] ELSE [tx EXCEPT !.info = etf.info]

Update_EtfInfo ==
    /\ etfIns.stage = "info"
    /\ \/ /\ Works
          /\ etfIns' = [etfIns EXCEPT !.tx = InfoOf(@, etfIns.etf), !.stage = "comps"]
          /\ UNCHANGED <<etfMem, etfRow>>
       \/ EtfFailed

\* The old components are deleted and the new ones inserted by fifties.
Update_EtfComponent ==
    /\ etfIns.stage = "comps"
    /\ \/ /\ Works
          /\ etfIns' = [etfIns EXCEPT !.tx.comps = etfIns.etf.comps, !.stage = "commit"]
          /\ UNCHANGED <<etfMem, etfRow>>
       \/ EtfFailed

\* Mutant of EtfCommit: every statement commits by itself.
EtfCommit_Each ==
    /\ etfIns.stage \in {"comps", "commit"} /\ Works
    /\ etfRow' = etfIns.tx
    /\ etfIns' = [etfIns EXCEPT !.stage = IF @ = "comps" THEN "comps" ELSE "map"]
    /\ UNCHANGED etfMem

\* The result of Commit is not looked at.
EtfCommit ==
    /\ etfIns.stage = "commit"
    /\ \/ Works /\ etfRow' = etfIns.tx
       \/ Fails("commit") /\ UNCHANGED etfRow
    /\ etfIns' = [etfIns EXCEPT !.stage = "map"]
    /\ UNCHANGED etfMem

EtfStored ==
    /\ etfIns.stage = "map" /\ Works
    /\ etfMem' = etfIns.etf /\ etfIns' = NoInsert
    /\ UNCHANGED etfRow

EtfStep == Update_EtfInfo \/ Update_EtfComponent \/ EtfCommit \/ EtfStored

-----------------------------------------------------------------------------
(* ReloadFromDb.  A failed query for the ids is taken for an empty table;  *)
(* any other failure ends the start.                                       *)

GetFromDB_AllEtfStockIds == etfRow # NoEtf

\* Mutant of Set_ETF_Info_FromDb: converted as what the web server sends is.
Set_ETF_Info_FromDb_Yuan(amount) == MoneyInLi(amount)
\* The amounts in the tables are thousandths already.
Set_ETF_Info_FromDb(amount) == amount
Set_ETF_Component_FromDb(amount) == amount

GetFromDB_OneEtfInfo(row) == Set_ETF_Info_FromDb(row.info)
GetFromDB_OneEtfComponents(row) == Set_ETF_Component_FromDb(row.comps)
GetFromDB_OneEtfPackage(row) == [info |-> GetFromDB_OneEtfInfo(row),
                                 comps |-> GetFromDB_OneEtfComponents(row)]

ReloadEtf == IF GetFromDB_AllEtfStockIds THEN GetFromDB_OneEtfPackage(etfRow) ELSE NoEtf
=============================================================================
