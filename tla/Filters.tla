------------------------------- MODULE Filters -------------------------------
(***************************************************************************)
(* A filter on a row, in its two implementations: the WHERE clause the SQL *)
(* adapters compile it to, which decides what find() lists, and            *)
(* matchesWhere (query.ts), which decides for a row already in hand        *)
(* whether a scope lets its caller read or change it, and whether a        *)
(* subscription is about it.                                               *)
(*                                                                         *)
(* A filter is a set of conditions on fields, and may combine filters with *)
(* and, or.  Filters are explored to depth two.  A value is a number and   *)
(* stands for what a column of one type may hold; 0 is also the text that  *)
(* every text contains, and None is NULL, or the absent property.          *)
(***************************************************************************)
EXTENDS Naturals

CONSTANTS
  Fields,
  Values,
  None

FiltersAssumption == 0 \in Values /\ Values \subseteq Nat /\ None \notin Values

VARIABLES row, where

vars == <<row, where>>

Operands == Values \union {None}

Rows == [Fields -> Operands]

Conditions ==
  [field: Fields, op: {"equals", "not_equals", "greater_than", "greater_than_equal",
                       "less_than", "less_than_equal"}, operand: Operands]
  \union [field: Fields, op: {"in", "not_in"}, operand: SUBSET Operands]
  \union [field: Fields, op: {"like"}, operand: Values]
  \union [field: Fields, op: {"exists"}, operand: BOOLEAN]

(* The filters or and and combine: no condition, or one.                   *)
Flat == {{}} \union {{c} : c \in Conditions}

(* or is absent when it is None; present and empty, it denies all.         *)
Filter == [all: Flat, and: SUBSET Flat, or: (SUBSET Flat) \union {None}]
Filters ==
  {[all |-> {c}, and |-> {}, or |-> None] : c \in Conditions}
  \union {[all |-> {}, and |-> {a, b}, or |-> None] : a \in Flat, b \in Flat}
  \union {[all |-> {}, and |-> {}, or |-> {a, b}] : a \in Flat, b \in Flat}
  \union {[all |-> f, and |-> {}, or |-> {}] : f \in Flat}

Init == row \in Rows /\ where \in Filters

(* The row is edited while the filter stands.                              *)
Edit ==
  /\ \E f \in Fields, v \in Operands : row' = [row EXCEPT ![f] = v]
  /\ UNCHANGED where

Next == Edit

Spec == Init /\ [][Next]_vars

-----------------------------------------------------------------------------
(* matchesWhere.  A number is what compare() makes of a value: NULL is 0.  *)

Number(v) == IF v = None THEN 0 ELSE v

(* "contains" for values that are texts: every text contains 0.            *)
Includes(v, o) == o = 0 \/ v = o

MatchesCondition(c, r) ==
  LET v == r[c.field]
      o == c.operand
  IN  \/ c.op = "equals" /\ v = o
      \/ c.op = "not_equals" /\ v # o
      \/ c.op = "in" /\ v \in o
      \/ c.op = "not_in" /\ v \notin o
      \/ c.op = "greater_than" /\ Number(v) > Number(o)
      \/ c.op = "greater_than_equal" /\ Number(v) >= Number(o)
      \/ c.op = "less_than" /\ Number(v) < Number(o)
      \/ c.op = "less_than_equal" /\ Number(v) <= Number(o)
      \/ c.op = "like" /\ Includes(Number(v), o)
      \/ c.op = "exists" /\ (o <=> v # None)

MatchesAll(conditions, r) == \A c \in conditions : MatchesCondition(c, r)

(* Variant: an empty or is read as an absent one.                          *)
MatchesLax(w, r) ==
  /\ MatchesAll(w.all, r)
  /\ \A f \in w.and : MatchesAll(f, r)
  /\ w.or \notin {None, {}} => \E f \in w.or : MatchesAll(f, r)

Matches(w, r) ==
  /\ MatchesAll(w.all, r)
  /\ \A f \in w.and : MatchesAll(f, r)
  /\ w.or # None => \E f \in w.or : MatchesAll(f, r)

-----------------------------------------------------------------------------
(* The compiled clause.  Its parts are true, false or NULL.                *)

Truth(b) == IF b THEN "true" ELSE "false"
And(s) == IF "false" \in s THEN "false" ELSE IF "null" \in s THEN "null" ELSE "true"
Or(s) == IF "true" \in s THEN "true" ELSE IF "null" \in s THEN "null" ELSE "false"

(* A comparison with NULL is NULL.                                         *)
Compared(v, o, b) == IF None \in {v, o} THEN "null" ELSE Truth(b)

In(v, o) == IF o = {} THEN "false" ELSE Or({Compared(v, x, v = x) : x \in o})
Not(t) == CASE t = "true" -> "false" [] t = "false" -> "true" [] t = "null" -> "null"

(* fieldClause: equals and not_equals take care of NULL, the others do     *)
(* not.                                                                    *)
FieldClause(c, r) ==
  LET v == r[c.field]
      o == c.operand
  IN  CASE c.op = "equals" -> IF o = None THEN Truth(v = None) ELSE Compared(v, o, v = o)
        [] c.op = "not_equals" -> IF o = None THEN Truth(v # None)
                                  ELSE Or({Compared(v, o, v # o), Truth(v = None)})
        [] c.op = "in" -> In(v, o)
        [] c.op = "not_in" -> Not(In(v, o))
        [] c.op = "greater_than" -> Compared(v, o, Number(v) > Number(o))
        [] c.op = "greater_than_equal" -> Compared(v, o, Number(v) >= Number(o))
        [] c.op = "less_than" -> Compared(v, o, Number(v) < Number(o))
        [] c.op = "less_than_equal" -> Compared(v, o, Number(v) <= Number(o))
        [] c.op = "like" -> Compared(v, o, Includes(Number(v), o))
        [] c.op = "exists" -> Truth(o <=> v # None)

Clause(conditions, r) == And({FieldClause(c, r) : c \in conditions})

(* buildWhere: an empty filter has no clause and is left out of the and or *)
(* the or it is in; an or of nothing but those is left out as well.        *)
OrClause(or, r) ==
  IF or = None THEN "true"
  ELSE IF or = {} THEN "false"
  ELSE IF or = {{}} THEN "true"
  ELSE Or({Clause(f, r) : f \in or \ {{}}})

Selects(w, r) ==
  And({Clause(w.all, r), And({Clause(f, r) : f \in w.and}), OrClause(w.or, r)}) = "true"

-----------------------------------------------------------------------------
(* Properties.                                                             *)

TypeOK == row \in Rows /\ where \in Filter

(* What find() lists under a filter, the same filter as a scope lets its   *)
(* caller open and change, whatever is NULL and however it is combined.    *)
ListedIsAllowed == Selects(where, row) => Matches(where, row)

ConditionsIn(w) == w.all \union (UNION w.and) \union (UNION (IF w.or = None THEN {} ELSE w.or))

(* No NULL meets anything but equals, not_equals and exists, and no or has *)
(* an empty alternative.                                                   *)
NullFree(w, r) ==
  /\ w.or # None => {} \notin w.or
  /\ \A c \in ConditionsIn(w) :
       \/ c.op \in {"equals", "not_equals", "exists"}
       \/ /\ r[c.field] # None
          /\ IF c.op \in {"in", "not_in"} THEN None \notin c.operand ELSE c.operand # None

(* Without NULLs the two implementations agree.                            *)
AgreesWithoutNull == NullFree(where, row) => (Selects(where, row) <=> Matches(where, row))

FiltersAgree == ListedIsAllowed /\ AgreesWithoutNull
=============================================================================
