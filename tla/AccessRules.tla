---------------------------- MODULE AccessRules ----------------------------
(***************************************************************************)
(* What a caller may read: the union of every rule that applies, denials   *)
(* subtracted last (class Rules of access.py, type Rules of access.go).    *)
(* A pattern stands for the names it matches; a name is written in lower   *)
(* case, as tags write it, or in another.  Allowances are taken to be      *)
(* written as the tables are.                                              *)
(***************************************************************************)
EXTENDS ExecutorBase

CONSTANTS Tables, Names, HeldRoles,
          AnyRole,      \* "*": the rule of every caller
          NoRole,       \* the role of a rule that names none
          AnyTable,     \* a pattern's wildcard for the table,
          AnyName       \* and for the column

VARIABLES ruling        \* the rules of a deployment and what is asked of them

Cases == {"lower", "other"}
TableColumns == [table : Tables, name : Names, case : Cases]
Stars == [table : Tables, case : Cases]
Denials == [table : Tables \cup {AnyTable}, name : Names \cup {AnyName}, case : Cases]
RulesOf(role) == [role : {role}, allow : SUBSET Tables, deny : {{}} \cup {{d} : d \in Denials}]

(* A rule for everyone, or for a role the caller holds.  One that names no *)
(* role is everyone's to Python and nobody's to Go.                        *)
Applies(rule, held) == rule.role \in held \cup {AnyRole} \cup (IF impl = "py" THEN {NoRole} ELSE {})

Applied(rules, held) == {rule \in rules : Applies(rule, held)}

(* A caller of no rule's role reads what "*" allows, if it allows some.    *)
Allowed(rules, held) ==
    LET everyones == UNION {rule.allow : rule \in {r \in rules : r.role = AnyRole}} IN
    IF everyones # {} /\ \A rule \in rules : rule.role \notin held
    THEN everyones
    ELSE UNION {rule.allow : rule \in Applied(rules, held)}

EffectiveOf(allowed, used) ==
    [allow |-> IF allowed = {} THEN Tables ELSE allowed, deny |-> UNION {rule.deny : rule \in used}]

(* A role's own rules instead of the ones of everyone. *)
ForRoles_OwnOnly(rules, held) ==
    LET own == {r \in rules : r.role \in held}
        used == IF own # {} THEN own ELSE {r \in rules : r.role = AnyRole} IN
    EffectiveOf(UNION {rule.allow : rule \in used}, used)

ForRoles(rules, held) == EffectiveOf(Allowed(rules, held), Applied(rules, held))

(* fnmatch.fnmatch compares as written, matchOne in lower case. *)
Matches(denial, column) == /\ denial.table \in {column.table, AnyTable}
                           /\ denial.name \in {column.name, AnyName}
                           /\ \/ impl = "go" \/ denial.case = column.case
                              \/ denial.table = AnyTable /\ denial.name = AnyName

(* A star is refused for a denial whose text starts with its table, as     *)
(* both are written.                                                       *)
StarHit(denial, star) == denial.table = star.table /\ denial.case = star.case

(* reads.star: the tables all of whose columns are selected. *)
Check(rules, held, reads) ==
    LET effective == ForRoles(rules, held) IN
    /\ reads.tables \subseteq effective.allow
    /\ \A denial \in effective.deny :
           /\ \A star \in reads.star : ~StarHit(denial, star)
           /\ \A column \in reads.columns : ~Matches(denial, column)

(* Candidates are for the roles named, an empty setting names nobody. *)
MayPromote(named, held) == named \cap held # {}

NoReads == [tables |-> {}, star |-> {}, columns |-> {}]
NoRuling == [rules |-> {}, held |-> {}, reads |-> NoReads]

RulesInit == ruling = NoRuling

(* What a statement reads of its one table: all of it, a column, or rows.  *)
ReadsOf(table) ==
    LET rows == [NoReads EXCEPT !.tables = {table}] IN
    {rows} \cup {[rows EXCEPT !.star = {s}] : s \in {s \in Stars : s.table = table}}
           \cup {[rows EXCEPT !.columns = {c}] : c \in {c \in TableColumns : c.table = table}}

(* A rule of everyone's, one of a role's, and a caller who holds it or not. *)
Rule(everyone, own, held, reads) ==
    ruling' = [rules |-> {everyone, own}, held |-> held, reads |-> reads]

Ruled == ruling # NoRuling /\ ruling' = NoRuling

RulesNext ==
    /\ \/ /\ ruling = NoRuling
          /\ \E everyone \in RulesOf(AnyRole) \cup RulesOf(NoRole), role \in HeldRoles :
                 \E own \in RulesOf(role), held \in SUBSET HeldRoles :
                     \E table \in Tables : \E reads \in ReadsOf(table) :
                         Rule(everyone, own, held, reads)
       \/ Ruled
    /\ UNCHANGED <<impl, now>>

RulesSpec == BaseInit /\ RulesInit /\ [][RulesNext]_<<impl, now, ruling>>

-----------------------------------------------------------------------------
(* What a denial withholds of a table, whatever letters it is written in.  *)
Withholds(denial, table, name) == /\ denial.table \in {table, AnyTable}
                                  /\ denial.name \in {name, AnyName}

WithheldFrom(caller) == UNION {rule.deny : rule \in Applied(caller.rules, caller.held)}

(* Whatever other rules apply and whatever other roles the caller holds, a *)
(* statement that is let through reads a column which a rule for it        *)
(* withholds in no way but these: written in other letters, by its name in *)
(* Python and with a star in both; and with a star, if the denial leaves   *)
(* the table open (for_roles and check of access.py, forRoles and Check of *)
(* access.go).                                                             *)
DenialStands ==
    Check(ruling.rules, ruling.held, ruling.reads) =>
        \A denial \in WithheldFrom(ruling) :
            /\ \A column \in ruling.reads.columns :
                   Withholds(denial, column.table, column.name) =>
                       impl = "py" /\ denial.case # column.case
            /\ \A star \in ruling.reads.star, name \in Names :
                   Withholds(denial, star.table, name) =>
                       denial.table = AnyTable \/ denial.case # star.case

(* As documented, SELECT * cannot be used to reach a withheld column: a    *)
(* star is refused if any column of its table is withheld                  *)
(* (docs/05-authorization.md), here with all written in the same letters.  *)
StarReachesNothing ==
    Check(ruling.rules, ruling.held, ruling.reads) =>
        \A denial \in WithheldFrom(ruling), star \in ruling.reads.star, name \in Names :
            Withholds(denial, star.table, name) => denial.case # star.case
=============================================================================
