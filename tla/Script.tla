------------------------------- MODULE Script -------------------------------
(***************************************************************************)
(* What POST /script answers for a statement (src/src/tessaridb/           *)
(* script.py): the outcomes of Answer, said in JSON.                       *)
(*                                                                         *)
(* An outcome in JSON is a record of the keys it has; a reader is the set  *)
(* of what it reads, empty when it raises, and what it reads has the form  *)
(* that Answer gives it, without the names, which JSON has resolved.       *)
(***************************************************************************)
EXTENDS Answer, JSONReader

NoKind == <<>>   \* nothing was declared about the values
PATHS == 0 .. ACCESS_PATHS - 1

-----------------------------------------------------------------------------
(* Reading *)

Present(node, name) == name \in DOMAIN node
GetOr(node, name, default) == IF Present(node, name) THEN node[name] ELSE default

\* Mutant: what no plan says is taken for exact.
Exactness_Truthy(plan) ==
  IF GetOr(plan, "exact", TRUE) THEN <<"exact">> ELSE <<"inexact", GetOr(plan, "inexact", <<>>)>>

\* An answer that does not say is the third state.
Exactness(plan) ==
  CASE ~Present(plan, "exact") -> <<"unstated">>
    [] Present(plan, "exact") /\ plan.exact -> <<"exact">>
    [] OTHER -> <<"inexact", GetOr(plan, "inexact", <<>>)>>

\* No key: nothing was asked. An empty list: nothing better was found.
Suggestion(node) ==
  IF ~Present(node, "suggestion") THEN <<"not consulted">>
  ELSE LET corrections == GetOr(node.suggestion, "corrections", <<>>) IN
       IF corrections = <<>> THEN <<"complete">> ELSE <<"corrections", corrections>>

ReadValueAt(node, kind) == IF kind = NoKind THEN {} ELSE ReadJSON(node, kind)

RecordsOf(node, kind) ==
  LET records == GetOr(node, "records", <<>>)
      rows == Every([i \in DOMAIN records |->
                {<<records[i].id, value>> : value \in ReadValueAt(records[i].value, kind)}])
  IN IF node.path \notin PATHS THEN {}
     ELSE {[path |-> node.path, rows |-> read, notes |-> GetOr(node, "notes", <<>>),
            only |-> GetOr(node, "only", FALSE), exactness |-> Exactness(GetOr(node, "plan", <<>>)),
            suggestion |-> Suggestion(node)] : read \in rows}

ReadResult(node, kind) ==
  CASE node.kind = "done" -> {<<"done">>}
    [] node.kind = "value" ->
         IF Present(node, "value") THEN {<<"value", value>> : value \in ReadValueAt(node.value, kind)}
         ELSE {<<"value", <<TAG_NONE>>>>}
    [] node.kind = "keys" -> {<<"keys", keys>> : keys \in Typed(node.keys, "list")}
    [] node.kind = "removed" -> {<<"removed", node.count>>}
    [] node.kind = "unknown" -> {<<"unknown">>}
    [] node.kind = "records" -> {<<"records", rec>> : rec \in RecordsOf(node, kind)}
    [] OTHER -> {}

\* One that raises leaves nothing of the answer.
ReadResults(nodes, kind) == Every([i \in DOMAIN nodes |-> ReadResult(nodes[i], kind)])

-----------------------------------------------------------------------------
(* What a node writes, an older one fewer of the keys of records *)

Key(name, given, value) == IF given THEN name :> value ELSE <<>>

WriteRecordsJSON(rec, age) ==
  LET exactness == IF rec.exactness = <<"exact">> THEN [exact |-> TRUE]
                   ELSE [exact |-> FALSE, inexact |-> rec.exactness[2]]
      corrections == IF rec.suggestion = <<"complete">> THEN <<>> ELSE rec.suggestion[2]
  IN [kind |-> "records", path |-> rec.path,
      records |-> [i \in DOMAIN rec.rows |->
                     [id |-> rec.rows[i][1], value |-> WriteJSON(rec.rows[i][2])]]]
       @@ Key("notes", age >= 1 /\ rec.notes # <<>>, rec.notes)
       @@ Key("only", age >= 2 /\ rec.only, TRUE)
       @@ Key("plan", TRUE, [access |-> rec.path] @@ (IF age >= 3 THEN exactness ELSE <<>>))
       @@ Key("suggestion", age >= 4 /\ rec.suggestion # <<"not consulted">>, [corrections |-> corrections])

WriteValueJSON(value) ==
  [kind |-> "value"] @@ Key("value", value # <<TAG_NONE>>, WriteJSON(value))

-----------------------------------------------------------------------------
(* Properties, for the modules that enumerate what is written *)

\* What JSON has of records: no names, and of the values what it leaves.
InJSON(rec) ==
  [name \in DOMAIN rec \ {"names"} |->
     IF name = "rows" THEN [i \in DOMAIN rec.rows |-> <<rec.rows[i][1], LeftOf(rec.rows[i][2])>>]
     ELSE rec[name]]

\* Records that a node of some age answers in bytes and in JSON read as the same, as
\* far as JSON says the values in them: no more exact, no further asked on one surface than on the other (script.py:3-4,
\* 208-215, 227-234).
RecordsTheSame(rec, age, kind) ==
  \A bytes \in WriteRecords(rec, age) :
    ReadResults(<<WriteRecordsJSON(rec, age), [kind |-> "done"]>>, kind)
      = {<<<<"records", InJSON(outcome[2])>>, <<"done">>>> : outcome \in Outcome(bytes)}

\* So does a value, which is no less absent on one than on the other, and is not read
\* at no kind (script.py:124-127).
ValuesTheSame(names, value) ==
  /\ Sayable(value) \/ value = <<TAG_NONE>> =>
       \A bytes \in WriteLone(names, value) :
         ReadResult(WriteValueJSON(value), KindOf(value)) = {<<"value", LeftOf(outcome[3])>> : outcome \in Outcome(bytes)}
  /\ Sayable(value) => ReadResults(<<[kind |-> "done"], WriteValueJSON(value)>>, NoKind) = {}
=============================================================================
