---------------------------- MODULE EnumRegistry ----------------------------
(***************************************************************************)
(* An enumeration generated by enums_gen.py (cubemap_faces in             *)
(* src/softart/softart/src/enums/cubemap_faces.cpp): a wrapper of an int  *)
(* whose debug build keeps a registry (a function-local static std::set)  *)
(* of the values its constructor has been called with.  The constructor   *)
(* asserts when its value is already registered; cast(val) asserts when   *)
(* val is not, and returns an object built by that same constructor.      *)
(*                                                                         *)
(* The program runs the static initialisers of the declared constants in  *)
(* definition order, then main may cast values.  custom_assert either     *)
(* aborts or, in a debugger, continues: an abort ends a behaviour at the  *)
(* step that fired, a prefix of the behaviours here, so every fired       *)
(* assertion is recorded in fired and the program goes on.                *)
(***************************************************************************)
EXTENDS Integers, Sequences, SequencesExt

CONSTANTS
  Declared,  \* the constants' values in definition order (invalid .. max)
  CastArgs,  \* the ints main may pass to cast
  Debug,     \* TRUE when _DEBUG is defined
  MaxCasts   \* bound on the number of casts

VARIABLES
  table,     \* get_cubemap_faces_table()
  inited,    \* how many declared constants have been constructed
  casts,     \* how many casts main has made
  result,    \* the val of the last cast's result
  fired      \* the assertions fired: [site, call], call the value asked for

vars == <<table, inited, casts, result, fired>>

\* The assertion the constructor fires for v on table t: found means fired.
CtorFires(t, v, call) ==
  IF Debug /\ v \in t THEN {[site |-> "ctor", call |-> call]} ELSE {}

\* cubemap_faces(int v): the table is created empty on first use.
Init ==
  /\ table = {}
  /\ inited = 0
  /\ casts = 0
  /\ result = "none"
  /\ fired = {}

\* The static initialiser of the next declared constant: the constructor
\* asserts on a value already in the table and otherwise inserts it.
StaticInit ==
  /\ inited < Len(Declared)
  /\ LET v == Declared[inited + 1] IN
       /\ fired' = fired \cup CtorFires(table, v, v)
       /\ table' = IF Debug THEN table \cup {v} ELSE table
  /\ inited' = inited + 1
  /\ UNCHANGED <<casts, result>>

\* cast(val): a value missing from the table asserts and is replaced by 0;
\* either way the result is built by the constructor, which checks again.
Cast(val) ==
  /\ inited = Len(Declared)
  /\ casts < MaxCasts
  /\ LET miss == Debug /\ val \notin table
         r    == IF miss THEN 0 ELSE val
     IN /\ result' = r
        /\ fired' = fired
                    \cup (IF miss THEN {[site |-> "cast", call |-> val]} ELSE {})
                    \cup CtorFires(table, r, val)
        /\ table' = IF Debug THEN table \cup {r} ELSE table
  /\ casts' = casts + 1
  /\ UNCHANGED inited

Next == StaticInit \/ \E v \in CastArgs : Cast(v)

Spec == Init /\ [][Next]_vars

-----------------------------------------------------------------------------
\* The contract the spec gives the generated enumerations: a precondition
\* check fails fast on a value that is not one of the enumeration's, so
\* neither static initialisation of the distinct constants nor cast() of a
\* declared value ever fires custom_assert.
AssertOnlyOnUndeclared ==
  \A f \in fired : f.call \notin ToSet(Declared)

=============================================================================
