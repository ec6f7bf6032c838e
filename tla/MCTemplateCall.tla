---------------------------- MODULE MCTemplateCall ----------------------------
(* An instance of TemplateCall for model checking. *)
EXTENDS TemplateCall

Given == {"absent", "right", "wrong"}

CallOf(function, null, position, name, columns, tolerance) ==
  [function |-> function, null_required |-> null, by_position |-> position, by_name |-> name,
   columns |-> columns, unread |-> {}, tolerance |-> tolerance]

NoNames == [p \in {} |-> Null]

Dryruns(values) ==
  [position : {<<>>} \cup {<<v>> : v \in values}, name : {NoNames} \cup {[dryrun |-> v] : v \in values}]

Caps == {-1, 0, 1, 2}
CapsAndDryruns ==
  [position : {<<>>} \cup {<<cap>> : cap \in Caps} \cup {<<2, v>> : v \in BOOLEAN},
   name : {NoNames} \cup {[cap |-> cap] : cap \in Caps} \cup {[dryrun |-> v] : v \in BOOLEAN}
          \cup {[cap |-> 1, dryrun |-> TRUE]}]

CapsAndNulls ==
  [position : {<<>>, <<Null>>, <<1, Null>>, <<1, TRUE>>},
   name : {NoNames, [cap |-> Null], [dryrun |-> Null], [cap |-> 1, dryrun |-> TRUE]}]

\* The calls with a NULL have queries that would fail every check.
NullCalls ==
  {c \in UNION {{[CallOf(f, null, given.position, given.name, [q \in QueryColumns(f) |-> "wrong"], -1)
                    EXCEPT !.unread = Queries(f)] :
                   null \in BOOLEAN,
                   given \in IF f = "close" THEN CapsAndNulls ELSE Dryruns(BOOLEAN \cup {Null})} :
                  f \in {"extract", "degree_edges", "degree_vertices", "close"}} :
     NullInput(c)}

OtherCalls ==
  UNION {{CallOf(f, FALSE, given.position, given.name, columns, 0) :
            given \in Dryruns(BOOLEAN), columns \in [QueryColumns(f) -> Given]} :
           f \in {"extract", "degree_edges", "degree_vertices"}}
  \cup {CallOf("close", FALSE, given.position, given.name, columns, tolerance) :
            given \in CapsAndDryruns, columns \in [QueryColumns("close") -> Given],
            tolerance \in {-1, 0, 1}}

\* Queries that are no single SELECT, or do not bind.
UnreadCalls ==
  UNION {{[c EXCEPT !.unread = unread] : unread \in SUBSET Queries(c.function) \ {{}}} :
         c \in {c \in OtherCalls : c.by_position = <<>>}}

AllCalls == NullCalls \cup OtherCalls \cup UnreadCalls

Nodes == {1, 2, Null}
Edge(ids) == [id : ids, source : Nodes, target : Nodes]
SmallEdgeTables ==
  {<<>>} \cup {<<e>> : e \in Edge({1})} \cup {<<e, f>> : e \in Edge({1}), f \in Edge({1, 2})}
  \cup {<<e, f, g>> : e \in [id : {1}, source : {1, 2}, target : {1, 2}],
                     f \in [id : {2}, source : {1, 2}, target : {1, 2}],
                     g \in [id : {3}, source : {1, 2}, target : {1, Null}]}

\* A vertex twice, with edges that are not there, with a NULL list or id.
SomeVertexTables ==
  {<<[at |-> 1, id |-> 1, in_edges |-> <<1, 3>>, out_edges |-> Null],
     [at |-> 1, id |-> 1, in_edges |-> <<2>>, out_edges |-> <<1>>],
     [at |-> Null, id |-> Null, in_edges |-> Null, out_edges |-> <<1>>]>>}

SmallLineTables ==
  {{[id |-> 1, y |-> 0, from |-> ends[1], to |-> ends[2]], [id |-> 2, y |-> y, from |-> 0, to |-> 2]} :
     ends \in {<<0, 2>>, <<2, 0>>}, y \in {0, 1}}

Point(x, y) == [x |-> x, y |-> y]
SomePoints == {Point(1, 1), Point(1, 0), Point(1, -1), Point(-1, 0)}
SmallPointLists == {<<p, q>> : p \in SomePoints, q \in SomePoints} \cup {<<p>> : p \in SomePoints}

\* The calls that give dryrun both ways.
BothWays ==
  {CallOf("degree_edges", FALSE, <<by_position>>, [dryrun |-> by_name],
          [q \in QueryColumns("degree_edges") |-> "right"], 0) :
     by_position \in BOOLEAN, by_name \in BOOLEAN}

=============================================================================
