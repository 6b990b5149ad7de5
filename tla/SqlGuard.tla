------------------------------ MODULE SqlGuard ------------------------------
(***************************************************************************)
(* The guard of a SQL statement and the rewrite that caps its rows         *)
(* (sqlguard.py, sqlguard.go).  A statement is what the guard reads off    *)
(* its tree: a defect it is refused for, the tables it names and under     *)
(* which alias, the names of its CTEs, the columns it reads and under      *)
(* which qualifier, and its row limit.                                     *)
(***************************************************************************)
EXTENDS ExecutorBase

CONSTANTS Schemas, AllowedSchemas, TableNames, Aliases, ColumnNames,
          NoName,          \* no schema, no qualifier, no defect
          MaxRows          \* MAX_ROWS, maxRows

ASSUME GuardAssumption == /\ AllowedSchemas \subseteq Schemas
                          /\ NoName \notin Aliases
                          /\ MaxRows \in Nat \ {0}

VARIABLES statement

Refs == [schema : Schemas \cup {NoName}, name : TableNames, alias : Aliases]
ColumnReads == [qualifier : Aliases \cup {NoName}, name : ColumnNames \cup {"*"}]

(* What it is refused for before its tables are looked at: not one SELECT, *)
(* a forbidden node, a denied call, a function or a join for a table.      *)
Defects == {"empty", "long", "unparsed", "many", "notSelect", "forbiddenNode", "into",
            "deniedCall", "functionTable", "joinNoFrom", "foreignCatalog"}

Limit(is, n) == [is |-> is, n |-> n]

NoStatement == [defect |-> "empty", refs |-> {}, ctes |-> {}, reads |-> {}, limit |-> Limit("absent", 0),
                takesTop |-> FALSE, asked |-> 0]

(* A CTE's name is a table node too, and any table node of its name is     *)
(* taken for one.                                                          *)
Bases(s) == {r \in s.refs : r.name \notin s.ctes}
TablesRead(s) == {[schema |-> r.schema, name |-> r.name] : r \in Bases(s)}

ByAlias(s, alias) == {[schema |-> r.schema, name |-> r.name] : r \in {r \in Bases(s) : r.alias = alias}}

Targets_First(s, read) ==
    IF ByAlias(s, read.qualifier) # {} THEN ByAlias(s, read.qualifier)
    ELSE {CHOOSE t \in TablesRead(s) : TRUE}

(* A qualifier that names no table, and no qualifier, may be any table's. *)
Targets(s, read) == IF ByAlias(s, read.qualifier) # {} THEN ByAlias(s, read.qualifier)
                    ELSE TablesRead(s)
ColumnsRead(s) == UNION {{[table |-> t, name |-> read.name] : t \in Targets(s, read)} : read \in s.reads}

(* The caller's maxRows: Python takes the smaller, Go one that is positive. *)
Ceiling(asked) ==
    IF impl = "py" THEN IF asked # 0 /\ asked < MaxRows THEN asked ELSE MaxRows
                   ELSE IF asked > 0 /\ asked < MaxRows THEN asked ELSE MaxRows

(* A smaller limit of the statement's own stands; a limit of no rows does  *)
(* only in Python, and one that is not a plain number in neither.          *)
OwnLimit(s) == IF s.limit.is = "count" /\ (impl = "py" \/ s.limit.n > 0) THEN s.limit.n ELSE MaxRows + 1
RowLimit(s, cap) == IF OwnLimit(s) <= cap THEN OwnLimit(s) ELSE cap

(* Read back, TOP n before a column called PERCENT is a proportion, and a  *)
(* negative number is not the literal that was meant.                      *)
ReadBack(s, limit) == IF s.takesTop \/ limit < 0 THEN Limit("other", 0) ELSE Limit("count", limit)

CeilingSurvived_Unread(s, limit) == TRUE
CeilingSurvived(s, limit) == ReadBack(s, limit) = Limit("count", limit)

Accepted(s, cap) ==
    /\ s.defect = NoName
    /\ \A r \in Bases(s) : r.schema \in AllowedSchemas
    /\ Bases(s) # {}
    /\ s.limit.is # "percent"
    /\ CeilingSurvived(s, RowLimit(s, cap))

(* The statement that is run instead. *)
Rewritten(s, cap) == [s EXCEPT !.limit = ReadBack(s, RowLimit(s, cap))]

GuardInit == statement = NoStatement

(* A statement: one scope of at most two tables, each under an alias of    *)
(* its own, and one column read.                                           *)
Selects == {refs \in SUBSET Refs : /\ Cardinality(refs) <= 2
                                  /\ \A r, q \in refs : r.alias = q.alias => r = q}
Limits == {Limit(is, 0) : is \in {"absent", "percent", "other"}}
          \cup {Limit("count", n) : n \in 0 .. MaxRows + 1}

Submit ==
    /\ statement = NoStatement
    /\ \E defect \in Defects \cup {NoName}, refs \in Selects, ctes \in SUBSET TableNames :
           /\ defect # NoName => refs = {} /\ ctes = {}
           /\ \E read \in ColumnReads, limit \in Limits, top \in BOOLEAN, asked \in -1 .. MaxRows :
                  /\ top => limit.is = "absent"
                  /\ statement' = [defect |-> defect, refs |-> refs, ctes |-> ctes,
                                   reads |-> {read}, limit |-> limit, takesTop |-> top,
                                   asked |-> asked]

Answered == statement # NoStatement /\ statement' = NoStatement

GuardNext == (Submit \/ Answered) /\ UNCHANGED <<impl, now>>
GuardSpec == BaseInit /\ GuardInit /\ [][GuardNext]_<<impl, now, statement>>

-----------------------------------------------------------------------------
Cap == Ceiling(statement.asked)

(* What the guard lets through is capped where the engine reads the cap,   *)
(* by a number of the deployment's at most; and guarded again it is the    *)
(* same statement, reading the same tables (_verify_ceiling_survived,      *)
(* _apply_limit of sqlguard.py, verifyCeilingSurvived, applyCeiling of     *)
(* sqlguard.go).                                                           *)
JudgedOnce ==
    Accepted(statement, Cap) =>
        LET run == Rewritten(statement, Cap) IN
        /\ run.limit.is = "count"
        /\ run.limit.n \in 0 .. MaxRows
        /\ RowLimit(run, Cap) = run.limit.n
        /\ TablesRead(run) = TablesRead(statement)
        /\ ColumnsRead(run) = ColumnsRead(statement)

(* The tables a column may be one of: those of its qualifier, or any of    *)
(* the scope where it has none.  A CTE has a bare name.                    *)
MayBeOf(s, read) ==
    {[schema |-> r.schema, name |-> r.name] :
        r \in {r \in s.refs : /\ read.qualifier \in {r.alias, NoName}
                              /\ r.schema # NoName \/ r.name \notin s.ctes}}

(* Whatever column of whatever table a statement reads, the access rules   *)
(* are asked about it, where no table is written with its schema and has   *)
(* the name of one of the statement's CTEs (_columns_read of sqlguard.py,  *)
(* columnsRead of sqlguard.go).                                            *)
ReadsReported ==
    /\ Accepted(statement, Cap)
    /\ \A r \in statement.refs : r.schema # NoName => r.name \notin statement.ctes
    => \A read \in statement.reads : \A t \in MayBeOf(statement, read) :
           /\ t \in TablesRead(statement)
           /\ [table |-> t, name |-> read.name] \in ColumnsRead(statement)

(* Every table of a statement that is let through is reported, says        *)
(* docs/16-go-parity.md.  That one is not: the guard takes it for the CTE. *)
TablesReported ==
    Accepted(statement, Cap) =>
        \A r \in statement.refs :
            r.schema # NoName => [schema |-> r.schema, name |-> r.name] \in TablesRead(statement)
=============================================================================
