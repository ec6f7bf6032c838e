--------------------------- MODULE CallRewriteProofs ---------------------------
(******************************************************************************)
(* Proofs about CallRewrite, for any overload tables that CheckSpec accepts   *)
(* and whose rows fit their drivers (SpecsAssumption, which TLC evaluates on  *)
(* the rows of the real tables), and for any values of the arguments.         *)
(*                                                                            *)
(* What a driver finds depends on three tables that are written apart: the    *)
(* overloads, the columns SpecBindReplace writes and the keys RunOnce         *)
(* registers.  The lemmas follow a value through them: an argument is at its  *)
(* place (ArgumentIs, OptionalValuesAre), what is written into the call of    *)
(* _pgr_exec is what it reads (Arrives), the request it reads is the caller's *)
(* (PassedIs), a slot's column holds the text of its kind (RowSlotsAre), and  *)
(* the keys of the slots are those the driver looks up (LookupsAreGiven,      *)
(* RegisteredIs, GivenIsRegistered).  CInv carries this through the stages.   *)
(******************************************************************************)
EXTENDS CallRewrite, TLAPS

\* The arguments of a public call are values of their kinds.
Argued ==
  /\ spec \in Specs
  /\ inputs \in Seq(Range(inputs))
  /\ Given <= Required + Len(spec.optionals)
  /\ \A n \in 1 .. Given : inputs[n] \in Plain[KindAt(n)] \cup Odd[KindAt(n)]
  /\ DOMAIN named \subseteq {spec.optionals[n].name : n \in 1 .. Len(spec.optionals)}
  /\ \A n \in 1 .. Len(spec.optionals) :
       LET param == spec.optionals[n] IN
       param.name \in DOMAIN named =>
         named[param.name] \in Plain[param.request_field] \cup Odd[param.request_field]

\* What SpecBindReplace makes of them.
TheQuery ==
  [args |-> RequestArguments(RequestOf), null_input |-> NullInput, row |-> InputRow, rows |-> 1]

\* Before a query is bound, nothing is known of its request.
Unbound ==
  /\ request = DriverRequest
  /\ no_rows = FALSE

\* Before a query is run, nothing is known of its inputs.
Unrun ==
  /\ ids = EmptyMap
  /\ registry = EmptyMap
  /\ fetched = {}
  /\ outcome = "none"

\* What is known at each stage of the call.
Stages ==
  /\ pc = "idle" => ~Public /\ inputs = <<>> /\ named = EmptyMap
  /\ pc = "call" => Public
  /\ Public => Argued
  /\ pc \in {"idle", "call", "bind"} => Unbound
  /\ pc \in {"idle", "call", "bind", "run"} => Unrun
  /\ pc = "driver" => fetched = {} /\ outcome = "none"

\* The query that is bound is the rewritten call, or one written directly.
Rewritten ==
  pc \notin {"idle", "call"} =>
    IF Public THEN query = TheQuery /\ Given >= Required ELSE query \in DirectCalls

\* A column is a NULL of no type, rows, or a list of ids.
ColumnOK(column) ==
  /\ column.type = "NULL" => column.value = NULL
  /\ column.type = "ids" => column.value \in Seq(Int \cup {NULL}) \cup {NULL}

\* A query is run only with the request its arguments spell and with readable columns,
\* and after the checks.
BoundRight ==
  pc \in {"run", "driver"} =>
    /\ request = ReadRequestParameters(query.args)
    /\ request.driver \in DRIVERS
    /\ BindInputSlots(query.row)
    /\ BindCheck(request) # "error"
    /\ no_rows = (BindCheck(request) = "no_rows")

\* A driver is called only for one row whose slots are all registered, each text under
\* the key its driver looks up.
RunRight ==
  pc = "driver" =>
    /\ query.rows = 1 /\ ~no_rows
    /\ ~NullId /\ ~RegisteredTwice
    /\ ids = [slot \in ListsOfIds |-> query.row[slot].value]
    /\ RefuseEmptyRestrictionPaths(registry) = "run"
    /\ Public => \A slot \in Registered :
                   /\ KeyOf(slot) \in DOMAIN registry
                   /\ registry[KeyOf(slot)].query = RegistryKey(slot, request)

\* No end of a call but those the caller has brought about.
Ended ==
  /\ outcome # "misread_column"
  /\ Public => outcome # "no_such_input"
  /\ Public /\ outcome = "error" => RefusedArgument \/ PathlessRestriction
  /\ Public /\ HasNull => outcome \in {"none", "no_rows"}

\* The inductive invariant.
CInv == TypeOK /\ Stages /\ Rewritten /\ BoundRight /\ RunRight /\ Ended

-----------------------------------------------------------------------------
\* A step that leaves the caller's arguments alone leaves what they mean alone.
LEMMA CallKept ==
  ASSUME UNCHANGED callVars
  PROVE  TheQuery' = TheQuery /\ Argued' = Argued /\ Public' = Public /\ HasNull' = HasNull
         /\ Given' = Given /\ Required' = Required /\ RefusedArgument' = RefusedArgument
<1>1. TheQuery' = TheQuery
  BY DEF TheQuery, callVars, InputRow, PlainColumns, ListColumns, ArgumentColumns, ArgumentColumn,
         EdgeColumns, Argument, PositionOf, Required, Given, Takes, OptionalValues, ResolveOptional,
         NullInput, RequestOf, ArgumentValues
<1>2. Argued' = Argued
  BY DEF Argued, callVars, Given, Required, KindAt
<1>3. Public' = Public /\ HasNull' = HasNull
  BY DEF Public, HasNull, callVars
<1>4. Given' = Given /\ Required' = Required
  BY DEF Given, Required, callVars
<1>5. RefusedArgument' = RefusedArgument
  BY DEF RefusedArgument, callVars, KindAt
<1> QED BY <1>1, <1>2, <1>3, <1>4, <1>5

\* The arguments of a call are a sequence.
LEMMA LengthIs ==
  ASSUME NEW s, s \in Seq(Range(s))
  PROVE  Len(s) \in Nat /\ DOMAIN s = 1 .. Len(s)
OBVIOUS

\* So are those of the tables.
LEMMA SpecOK ==
  ASSUME NEW s \in Specs
  PROVE  /\ Len(s.args) \in Nat /\ DOMAIN s.args = 1 .. Len(s.args)
         /\ Len(s.optionals) \in Nat /\ DOMAIN s.optionals = 1 .. Len(s.optionals)
BY SpecsAssumption DEF Consistent

\* A NULL among the arguments is found.
LEMMA NullsAreFound ==
  ASSUME Argued
  PROVE  HasNull <=> NullInput
<1>1. DOMAIN inputs = 1 .. Given
  BY DEF Argued, Given
<1> QED BY <1>1 DEF Argued, HasNull, NullInput

\* A required argument is at its place.
LEMMA ArgumentIs ==
  ASSUME Argued, Given >= Required, NEW kind, Takes(kind)
  PROVE  /\ PositionOf(kind) \in 1 .. Required
         /\ spec.args[PositionOf(kind)] = kind
         /\ Argument(kind) = inputs[PositionOf(kind)]
         /\ Argument(kind) \in Plain[kind] \cup Odd[kind]
<1>1. PositionOf(kind) \in 1 .. Required /\ spec.args[PositionOf(kind)] = kind
  BY DEF Takes, PositionOf
<1>2. Required \in Nat /\ Given \in Nat
  BY SpecOK, LengthIs DEF Argued, Required, Given
<1>3. PositionOf(kind) \in 1 .. Given /\ KindAt(PositionOf(kind)) = kind
  BY <1>1, <1>2 DEF KindAt, Required
<1> QED BY <1>1, <1>3 DEF Argued, Argument

\* The value of a defaulted parameter is one the caller gave for it, or its default.
LEMMA ResolvedIs ==
  ASSUME Argued, Given >= Required, NEW n \in 1 .. Len(spec.optionals)
  PROVE  ResolveOptional(n) \in Plain[spec.optionals[n].request_field] \cup Odd[spec.optionals[n].request_field]
                                  \cup {spec.optionals[n].default}
<1>1. Required \in Nat /\ Given \in Nat /\ Required = Len(spec.args) /\ Len(spec.optionals) \in Nat
  BY SpecOK, LengthIs DEF Argued, Required, Given
<1>2. CASE Required + n <= Given
  <2>1. KindAt(Required + n) = spec.optionals[n].request_field
    BY <1>1 DEF KindAt
  <2>2. ResolveOptional(n) = inputs[Required + n] /\ Required + n \in 1 .. Given
    BY <1>1, <1>2 DEF ResolveOptional
  <2> QED BY <2>1, <2>2 DEF Argued
<1>3. CASE ~(Required + n <= Given)
  BY <1>1, <1>3 DEF ResolveOptional, Argued
<1> QED BY <1>2, <1>3

\* The defaulted parameters' values, by the request field or column each one sets.
LEMMA OptionalValuesAre ==
  ASSUME Argued, NEW list \in BOOLEAN
  PROVE  /\ \A f \in DOMAIN OptionalValues(list) :
              \E n \in 1 .. Len(spec.optionals) :
                /\ IsListType(spec.optionals[n].type) = list
                /\ spec.optionals[n].request_field = f
         /\ \A n \in 1 .. Len(spec.optionals) :
              IsListType(spec.optionals[n].type) = list =>
                /\ spec.optionals[n].request_field \in DOMAIN OptionalValues(list)
                /\ OptionalValues(list)[spec.optionals[n].request_field] = ResolveOptional(n)
<1> DEFINE chosen == {n \in 1 .. Len(spec.optionals) : IsListType(spec.optionals[n].type) = list}
           Field(n) == spec.optionals[n].request_field
<1>1. OptionalValues(list) =
        [field \in {Field(n) : n \in chosen} |-> ResolveOptional(CHOOSE n \in chosen : Field(n) = field)]
  BY DEF OptionalValues
<1>2. \A m, n \in 1 .. Len(spec.optionals) : Field(m) = Field(n) => m = n
  BY SpecOK, SpecsAssumption DEF Argued, Consistent
<1>3. ASSUME NEW n \in chosen
      PROVE  (CHOOSE m \in chosen : Field(m) = Field(n)) = n
  BY <1>2
<1>4. ASSUME NEW n \in chosen
      PROVE  Field(n) \in DOMAIN OptionalValues(list) /\ OptionalValues(list)[Field(n)] = ResolveOptional(n)
  <2> HIDE DEF Field
  <2>1. Field(n) \in {Field(m) : m \in chosen}
    OBVIOUS
  <2>2. DOMAIN OptionalValues(list) = {Field(m) : m \in chosen}
    BY <1>1
  <2>3. OptionalValues(list)[Field(n)] = ResolveOptional(CHOOSE m \in chosen : Field(m) = Field(n))
    BY <1>1, <2>1
  <2> QED BY <1>3, <2>1, <2>2, <2>3 DEF Field
<1>5. DOMAIN OptionalValues(list) = {Field(n) : n \in chosen}
  BY <1>1
<1> QED BY <1>4, <1>5

\* The columns of a public call: each of its slot's type, and its ids values of X.
SlotOK(X, slot, column) ==
  /\ column.type = "NULL" => column.value = NULL
  /\ column.type = "ids" => column.value \in Seq(X) \cup {NULL}
  /\ slot \in RowSlots => column.type \in {"NULL", "rows"}
  /\ slot \in IdSlots => column.type \in {"NULL", "ids"}

\* What holds of the columns of two rows holds of the one laid over the other.
LEMMA OverlayKeeps ==
  ASSUME NEW X, NEW f, NEW g,
         \A x \in DOMAIN f : SlotOK(X, x, f[x]), \A x \in DOMAIN g : SlotOK(X, x, g[x])
  PROVE  \A x \in DOMAIN Overlay(f, g) : SlotOK(X, x, Overlay(f, g)[x])
BY DEF Overlay

\* The three ways SpecBindReplace writes a column.
LEMMA ColumnsAre ==
  ASSUME NEW X, NEW slot, NEW v
  PROVE  /\ slot \notin IdSlots => SlotOK(X, slot, Rows(v))
         /\ SlotOK(X, slot, NullColumn)
         /\ slot \notin RowSlots /\ v \in Seq(X) \cup {NULL} => SlotOK(X, slot, Ids(v))
BY DEF SlotOK, Rows, NullColumn, Ids

\* Every column of the rewritten row has its slot's type.
LEMMA RowOK ==
  ASSUME Argued, NEW X, Int \subseteq X,
         ~NullInput =>
           /\ \A kind \in IdKinds : Takes(kind) => Argument(kind) \in X
           /\ \A kind \in ListKinds : Takes(kind) => Argument(kind) \in Seq(X)
           /\ \A n \in 1 .. Len(spec.optionals) :
                IsListType(spec.optionals[n].type) => ResolveOptional(n) \in Seq(X)
  PROVE  \A slot \in DOMAIN InputRow : SlotOK(X, slot, InputRow[slot])
<1>1. \A slot \in DOMAIN PlainColumns : SlotOK(X, slot, PlainColumns[slot])
  <2>1. <<>> \in Seq(X) /\ <<0>> \in Seq(X)
    OBVIOUS
  <2>2. DOMAIN PlainColumns = {"edges", "combinations", "starts", "ends", "roots", "via"}
    BY DEF PlainColumns
  <2>3. /\ PlainColumns["edges"] = NullColumn /\ PlainColumns["combinations"] = NullColumn
        /\ PlainColumns["starts"] = Ids(<<>>) /\ PlainColumns["ends"] = Ids(<<>>)
        /\ PlainColumns["via"] = Ids(<<>>) /\ PlainColumns["roots"] \in {Ids(<<0>>), Ids(<<>>)}
    BY DEF PlainColumns
  <2>4. {"starts", "ends", "roots", "via"} \cap RowSlots = {}
    BY DEF RowSlots, KindOf
  <2>5. \A slot : SlotOK(X, slot, NullColumn)
    BY ColumnsAre
  <2>6. \A slot \in {"starts", "ends", "roots", "via"} :
          SlotOK(X, slot, Ids(<<>>)) /\ SlotOK(X, slot, Ids(<<0>>))
    BY <2>1, <2>4, ColumnsAre
  <2> SUFFICES ASSUME NEW slot \in DOMAIN PlainColumns PROVE SlotOK(X, slot, PlainColumns[slot])
    OBVIOUS
  <2>7. CASE slot \in {"edges", "combinations"}
    BY <2>3, <2>5, <2>7
  <2>8. CASE slot \in {"starts", "ends", "via"}
    BY <2>3, <2>6, <2>8
  <2>9. CASE slot = "roots"
    BY <2>3, <2>6, <2>9
  <2> QED BY <2>2, <2>7, <2>8, <2>9
<1>2. CASE NullInput
  BY <1>1, <1>2 DEF InputRow
<1>3. CASE ~NullInput
  <2>1. \A slot \in DOMAIN ListColumns : SlotOK(X, slot, ListColumns[slot])
    <3> SUFFICES ASSUME NEW slot \in DOMAIN ListColumns PROVE SlotOK(X, slot, ListColumns[slot])
      OBVIOUS
    <3>1. CASE slot \in DOMAIN OptionalValues(TRUE)
      <4>1. PICK n \in 1 .. Len(spec.optionals) :
              IsListType(spec.optionals[n].type) = TRUE /\ spec.optionals[n].request_field = slot
        BY <3>1, OptionalValuesAre
      <4>2. ListColumns[slot] = Ids(ResolveOptional(n))
        BY <3>1, <4>1, OptionalValuesAre DEF ListColumns
      <4>3. slot \in {"methods", "forbidden"}
        BY <4>1, SpecOK, SpecsAssumption DEF Argued, CheckSpec, Consistent, IdSlots, ColumnKinds
      <4>4. slot \notin RowSlots
        BY <4>3 DEF RowSlots, KindOf
      <4> QED BY <1>3, <4>1, <4>2, <4>4, ColumnsAre
    <3>2. CASE slot \notin DOMAIN OptionalValues(TRUE)
      <4>1. ListColumns[slot] = Ids(<<spec.flags.contraction_method>>) /\ slot = "methods"
        BY <3>2 DEF ListColumns
      <4>2. spec.flags.contraction_method \in X
        BY SpecsAssumption DEF Argued, Consistent
      <4>3. <<spec.flags.contraction_method>> \in Seq(X)
        BY <4>2
      <4>4. slot \notin RowSlots
        BY <4>1 DEF RowSlots, KindOf
      <4> QED BY <4>1, <4>3, <4>4, ColumnsAre
    <3> QED BY <3>1, <3>2
  <2>2. \A slot \in DOMAIN ArgumentColumns : SlotOK(X, slot, ArgumentColumns[slot])
    <3> SUFFICES ASSUME NEW slot \in DOMAIN ArgumentColumns PROVE SlotOK(X, slot, ArgumentColumns[slot])
      OBVIOUS
    <3>1. PICK kind \in ColumnKinds[slot] : Takes(kind) /\ ArgumentColumns[slot] = ArgumentColumn(kind)
      BY DEF ArgumentColumns
    <3>2. slot \in DOMAIN ColumnKinds
      BY DEF ArgumentColumns
    <3>3. \/ slot \in {"starts", "ends", "roots", "via"} /\ kind \in IdKinds \cup ListKinds
          \/ slot \in {"combinations", "restrictions", "matrix", "coordinates"}
               /\ kind \notin IdKinds \cup ListKinds
      BY <3>1, <3>2 DEF ColumnKinds, IdKinds, ListKinds
    <3>4. slot \in {"starts", "ends", "roots", "via"} => slot \notin RowSlots
      BY DEF RowSlots, KindOf
    <3>5. slot \in {"combinations", "restrictions", "matrix", "coordinates"} => slot \notin IdSlots
      BY DEF IdSlots
    <3>6. CASE kind \in IdKinds
      <4>1. ArgumentColumn(kind) = Ids(<<Argument(kind)>>)
        BY <3>6 DEF ArgumentColumn, IdKinds, ListKinds
      <4>2. <<Argument(kind)>> \in Seq(X)
        BY <1>3, <3>1, <3>6
      <4> QED BY <3>1, <3>3, <3>4, <3>6, <4>1, <4>2, ColumnsAre
    <3>7. CASE kind \in ListKinds
      <4>1. ArgumentColumn(kind) = Ids(Argument(kind))
        BY <3>7 DEF ArgumentColumn, IdKinds, ListKinds
      <4> QED BY <1>3, <3>1, <3>3, <3>4, <3>7, <4>1, ColumnsAre
    <3>8. CASE kind \notin IdKinds \cup ListKinds
      <4>1. ArgumentColumn(kind) = Rows(<<Argument(kind)>>)
        BY <3>8 DEF ArgumentColumn
      <4> QED BY <3>1, <3>3, <3>5, <3>8, <4>1, ColumnsAre
    <3> QED BY <3>6, <3>7, <3>8
  <2>3. \A slot \in DOMAIN EdgeColumns : SlotOK(X, slot, EdgeColumns[slot])
    <3>1. \A slot \in DOMAIN EdgeColumns : slot \notin IdSlots /\ \E v : EdgeColumns[slot] = Rows(v)
      <4>1. CASE Takes("POINTS_SQL")
        BY <4>1 DEF EdgeColumns, IdSlots
      <4>2. CASE ~Takes("POINTS_SQL")
        BY <4>2 DEF EdgeColumns, EmptyMap, IdSlots
      <4> QED BY <4>1, <4>2
    <3> QED BY <3>1, ColumnsAre
  <2>4. InputRow = Overlay(Overlay(PlainColumns, ListColumns), Overlay(ArgumentColumns, EdgeColumns))
    BY <1>3 DEF InputRow
  <2> DEFINE first == Overlay(PlainColumns, ListColumns)
             second == Overlay(ArgumentColumns, EdgeColumns)
  <2>5. /\ \A slot \in DOMAIN first : SlotOK(X, slot, first[slot])
        /\ \A slot \in DOMAIN second : SlotOK(X, slot, second[slot])
    BY <1>1, <2>1, <2>2, <2>3, OverlayKeeps
  <2> HIDE DEF first, second
  <2>6. \A slot \in DOMAIN Overlay(first, second) : SlotOK(X, slot, Overlay(first, second)[slot])
    BY <2>5, OverlayKeeps
  <2> QED BY <2>4, <2>6 DEF first, second
<1> QED BY <1>2, <1>3

\* Whatever ids and lists of ids are given, their columns hold ids and NULLs.
LEMMA GivenRowOK ==
  ASSUME Argued, Given >= Required
  PROVE  \A slot \in DOMAIN InputRow : SlotOK(Int \cup {NULL}, slot, InputRow[slot])
<1> DEFINE X == Int \cup {NULL}
<1>1. Int \subseteq X /\ Seq(Int) \subseteq Seq(X)
  OBVIOUS
<1>2. ASSUME ~NullInput, NEW kind, Takes(kind)
      PROVE  Argument(kind) # NULL
  <2>1. PositionOf(kind) \in 1 .. Required /\ Argument(kind) = inputs[PositionOf(kind)]
    BY <1>2, ArgumentIs
  <2>2. Required \in Nat /\ Given \in Nat
    BY SpecOK, LengthIs DEF Argued, Required, Given
  <2> QED BY <1>2, <2>1, <2>2 DEF NullInput
<1>3. ASSUME ~NullInput, NEW n \in 1 .. Len(spec.optionals), IsListType(spec.optionals[n].type)
      PROVE  ResolveOptional(n) \in Seq(X)
  <2>1. spec.optionals[n].request_field \in {"methods", "forbidden"} /\ spec.optionals[n].default \in Seq(Int)
    BY <1>3, SpecOK, SpecsAssumption
       DEF Argued, CheckSpec, Consistent, IdSlots, ColumnKinds, IsListType, ValuesOf
  <2>2. ResolveOptional(n) \in Seq(X) \cup {NULL}
    BY <1>1, <2>1, ResolvedIs, ValuesAssumption
  <2>3. ResolveOptional(n) # NULL \/ ResolveOptional(n) = spec.optionals[n].default
    BY <1>3 DEF ResolveOptional, NullInput, Given, Required, Argued
  <2> QED BY <1>1, <2>1, <2>2, <2>3
<1>4. ASSUME ~NullInput, NEW kind \in IdKinds, Takes(kind)
      PROVE  Argument(kind) \in X
  BY <1>4, ArgumentIs, ValuesAssumption
<1>5. ASSUME ~NullInput, NEW kind \in ListKinds, Takes(kind)
      PROVE  Argument(kind) \in Seq(X)
  BY <1>2, <1>5, ArgumentIs, ValuesAssumption
<1> HIDE DEF X
<1>6. \A slot \in DOMAIN InputRow : SlotOK(X, slot, InputRow[slot])
  BY <1>1, <1>3, <1>4, <1>5, RowOK
<1> QED BY <1>6 DEF X

\* The query of a call with a NULL is neither refused nor checked, and gives no rows.
LEMMA NullQuery ==
  ASSUME Argued, NullInput, query = TheQuery
  PROVE  LET r == ReadRequestParameters(query.args) IN
         /\ r.driver \in DRIVERS
         /\ r.points_sql = Blank
         /\ BindInputSlots(query.row)
         /\ BindCheck(r) = "no_rows"
         /\ query.rows = 1
<1> DEFINE r == ReadRequestParameters(query.args)
<1>1. query.args = RequestArguments(RequestOf) /\ query.null_input /\ query.row = InputRow /\ query.rows = 1
  BY DEF TheQuery
<1>2. RequestOf = SideOfDirected(spec.flags, FixedRequest(spec.flags))
  BY DEF RequestOf
<1>3. FixedRequest(spec.flags).points_sql = Blank /\ "points_sql" \in DOMAIN FixedRequest(spec.flags)
  BY DEF FixedRequest, DriverRequest
<1>4. RequestOf["points_sql"] = Blank /\ "points_sql" \in DOMAIN RequestOf
  BY <1>2, <1>3 DEF SideOfDirected
<1>5. query.args["points_sql"] = Blank /\ "points_sql" \in DOMAIN query.args
  BY <1>1, <1>4 DEF RequestArguments, ToValue
<1>6. DriverRequest["points_sql"] = Blank /\ "points_sql" \in DOMAIN DriverRequest
  BY DEF DriverRequest
<1>7. r.points_sql = Blank
  BY <1>5, <1>6 DEF ReadRequestParameters, SetRequestParameters, FromValue
<1>10. r.driver \in DRIVERS
  <2>1. spec.flags.driver \in DRIVERS /\ spec.flags.driver # NULL
    BY SpecsAssumption DEF Argued, FitsDriver, Consistent
  <2>2. RequestOf["driver"] = spec.flags.driver /\ "driver" \in DOMAIN RequestOf
    BY <1>2 DEF SideOfDirected, FixedRequest, DriverRequest
  <2>3. query.args["driver"] = spec.flags.driver /\ "driver" \in DOMAIN query.args
    BY <1>1, <2>2 DEF RequestArguments, ToValue
  <2>4. "driver" \in DOMAIN DriverRequest
    BY DEF DriverRequest
  <2>5. r.driver = spec.flags.driver
    BY <2>1, <2>3, <2>4 DEF ReadRequestParameters, SetRequestParameters, FromValue
  <2> QED BY <2>1, <2>5
<1>8. BindInputSlots(query.row)
  BY <1>1 DEF InputRow, PlainColumns, BindInputSlots, NullColumn, Ids, RowSlots, KindOf, IdSlots
<1>9. BindCheck(r) = "no_rows"
  BY <1>1 DEF BindCheck
<1> QED BY <1>1, <1>7, <1>8, <1>9, <1>10

\* Two request parameters are never given under one field.
LEMMA ParametersApart ==
  ASSUME NEW k \in DOMAIN ParameterOf, NEW l \in DOMAIN ParameterOf, ParameterOf[k] = ParameterOf[l]
  PROVE  k = l
BY DEF ParameterOf

\* The required arguments that are no input, by the request parameter each one sets.
LEMMA ArgumentValuesAre ==
  /\ \A kind \in DOMAIN ParameterOf : Takes(kind) =>
       /\ ParameterOf[kind] \in DOMAIN ArgumentValues
       /\ ArgumentValues[ParameterOf[kind]] = Argument(kind)
  /\ \A f \in DOMAIN ArgumentValues : \E kind \in DOMAIN ParameterOf : Takes(kind) /\ ParameterOf[kind] = f
<1> DEFINE taken == {g \in DOMAIN ParameterOf : Takes(g)}
           Kind(f) == CHOOSE kind \in DOMAIN ParameterOf : Takes(kind) /\ ParameterOf[kind] = f
<1>1. ArgumentValues = [field \in {ParameterOf[kind] : kind \in taken} |-> Argument(Kind(field))]
  BY DEF ArgumentValues
<1>2. ASSUME NEW kind \in DOMAIN ParameterOf, Takes(kind)
      PROVE  Kind(ParameterOf[kind]) = kind
  BY <1>2, ParametersApart
<1>3. ASSUME NEW kind \in DOMAIN ParameterOf, Takes(kind)
      PROVE  ParameterOf[kind] \in {ParameterOf[l] : l \in taken}
  BY <1>3
<1> HIDE DEF Kind
<1>4. ASSUME NEW kind \in DOMAIN ParameterOf, Takes(kind)
      PROVE  /\ ParameterOf[kind] \in DOMAIN ArgumentValues
             /\ ArgumentValues[ParameterOf[kind]] = Argument(kind)
  BY <1>1, <1>2, <1>3, <1>4
<1>5. DOMAIN ArgumentValues = {ParameterOf[kind] : kind \in taken}
  BY <1>1
<1> QED BY <1>4, <1>5

\* A request with some of its parameters set: each field read back.
LEMMA SetIs ==
  ASSUME NEW r, NEW values
  PROVE  /\ DOMAIN SetRequestParameters(r, values) = DOMAIN r
         /\ \A f \in DOMAIN r :
              /\ f \in DOMAIN values => SetRequestParameters(r, values)[f] = FromValue(f, values[f])
              /\ f \notin DOMAIN values => SetRequestParameters(r, values)[f] = r[f]
BY DEF SetRequestParameters

\* An overload without a side drives by the edges' direction, and nothing else changes.
LEMMA SidedIs ==
  ASSUME NEW flags, NEW r, "driving_side" \in DOMAIN r
  PROVE  /\ DOMAIN SideOfDirected(flags, r) = DOMAIN r
         /\ \A f \in DOMAIN r \ {"driving_side"} : SideOfDirected(flags, r)[f] = r[f]
         /\ flags.driving_side = "FROM_DIRECTED" =>
              SideOfDirected(flags, r)["driving_side"] = IF r["directed"] THEN "r" ELSE "b"
BY DEF SideOfDirected

\* What is written into the arguments of _pgr_exec is what it reads, but for a NULL.
LEMMA Arrives ==
  ASSUME NEW R, DOMAIN R = DOMAIN DriverRequest, NEW f \in DOMAIN R
  PROVE  ReadRequestParameters(RequestArguments(R))[f]
           = IF ToValue(f, R[f]) = NULL THEN DriverRequest[f] ELSE R[f]
<1> DEFINE args == RequestArguments(R)
           given == [g \in {h \in DOMAIN args : args[h] # NULL} |-> args[g]]
<1>1. DOMAIN args = DOMAIN R /\ args[f] = ToValue(f, R[f])
  BY DEF RequestArguments
<1>2. FromValue(f, ToValue(f, R[f])) = R[f]
  <2>1. CASE f = "driving_side"
    <3>1. <<R[f]>> # <<>> /\ Head(<<R[f]>>) = R[f]
      OBVIOUS
    <3> QED BY <2>1, <3>1 DEF FromValue, ToValue
  <2>2. CASE f # "driving_side"
    BY <2>2 DEF FromValue, ToValue
  <2> QED BY <2>1, <2>2
<1>3. ReadRequestParameters(args) = SetRequestParameters(DriverRequest, given)
  BY DEF ReadRequestParameters
<1>4. CASE args[f] = NULL
  <2>1. f \notin DOMAIN given
    BY <1>4
  <2> QED BY <1>1, <1>3, <1>4, <2>1, SetIs
<1>5. CASE args[f] # NULL
  <2>1. f \in DOMAIN given /\ given[f] = args[f]
    BY <1>1, <1>5
  <2> QED BY <1>1, <1>2, <1>3, <1>5, <2>1, SetIs
<1> QED BY <1>4, <1>5

\* The request of a public call without a NULL, field by field.
LEMMA RequestIs ==
  ASSUME Argued, ~NullInput
  PROVE  /\ DOMAIN RequestOf = DOMAIN DriverRequest
         /\ \A kind \in DOMAIN ParameterOf : Takes(kind) =>
              RequestOf[ParameterOf[kind]] = FromValue(ParameterOf[kind], Argument(kind))
         /\ \A n \in 1 .. Len(spec.optionals) : ~IsListType(spec.optionals[n].type) =>
              RequestOf[spec.optionals[n].request_field] = ResolveOptional(n)
         /\ \A f \in DOMAIN DriverRequest \ {"driving_side"} :
              \/ RequestOf[f] = FixedRequest(spec.flags)[f]
              \/ \E kind \in DOMAIN ParameterOf : Takes(kind) /\ ParameterOf[kind] = f
              \/ \E n \in 1 .. Len(spec.optionals) :
                   ~IsListType(spec.optionals[n].type) /\ spec.optionals[n].request_field = f
         /\ spec.flags.driving_side = "FROM_DIRECTED" =>
              RequestOf["driving_side"] = IF RequestOf["directed"] THEN "r" ELSE "b"
<1> DEFINE F == FixedRequest(spec.flags)
           V == OptionalValues(FALSE)
           O == SetRequestParameters(F, V)
           S == SideOfDirected(spec.flags, O)
           A == ArgumentValues
           Field(n) == spec.optionals[n].request_field
           NotList(n) == ~IsListType(spec.optionals[n].type)
<1>1. RequestOf = SetRequestParameters(S, A)
  BY DEF RequestOf
<1>2. DOMAIN F = DOMAIN DriverRequest
  BY DEF FixedRequest, DriverRequest
<1>3. {"driving_side", "directed"} \subseteq DOMAIN DriverRequest
  BY DEF DriverRequest
<1>4. /\ \A f \in DOMAIN OptionalValues(FALSE) :
           \E n \in 1 .. Len(spec.optionals) : 
             IsListType(spec.optionals[n].type) = FALSE /\ spec.optionals[n].request_field = f
      /\ \A n \in 1 .. Len(spec.optionals) : IsListType(spec.optionals[n].type) = FALSE =>
           /\ spec.optionals[n].request_field \in DOMAIN OptionalValues(FALSE)
           /\ OptionalValues(FALSE)[spec.optionals[n].request_field] = ResolveOptional(n)
  BY OptionalValuesAre, Zenon
<1>5. \A n : NotList(n) <=> IsListType(spec.optionals[n].type) = FALSE
  BY DEF IsListType
<1>6. DOMAIN V \subseteq DOMAIN DriverRequest \ {ParameterOf[kind] : kind \in DOMAIN ParameterOf}
  <2> SUFFICES ASSUME NEW f \in DOMAIN V
               PROVE  f \in DOMAIN DriverRequest /\ f \notin {ParameterOf[kind] : kind \in DOMAIN ParameterOf}
    OBVIOUS
  <2>1. PICK n \in 1 .. Len(spec.optionals) : NotList(n) /\ Field(n) = f
    BY <1>4, <1>5
  <2>2. /\ CheckSpec(spec) /\ Consistent(spec) /\ n \in DOMAIN spec.optionals
    BY SpecOK, SpecsAssumption DEF Argued
  <2>3. spec.optionals[n].request_field \in DOMAIN DriverRequest
    BY <2>1, <2>2 DEF CheckSpec
  <2>4. spec.optionals[n].request_field \notin {ParameterOf[kind] : kind \in DOMAIN ParameterOf}
    BY <2>2 DEF Consistent
  <2> QED BY <2>1, <2>3, <2>4
<1>7. {ParameterOf[kind] : kind \in DOMAIN ParameterOf} \subseteq DOMAIN DriverRequest
  BY DEF ParameterOf, DriverRequest
<1>8. "driving_side" \in {ParameterOf[kind] : kind \in DOMAIN ParameterOf}
  BY DEF ParameterOf
<1>9. \A kind \in DOMAIN ParameterOf : ParameterOf[kind] # "directed"
  BY DEF ParameterOf
<1>10. \A n \in 1 .. Len(spec.optionals) : NotList(n) => Field(n) \in DOMAIN V /\ V[Field(n)] = ResolveOptional(n)
  BY <1>4, <1>5
<1>11. \A f \in DOMAIN V : \E n \in 1 .. Len(spec.optionals) : NotList(n) /\ Field(n) = f
  BY <1>4, <1>5
<1>12. ASSUME NEW f \in DOMAIN V PROVE FromValue(f, V[f]) = V[f]
  BY <1>6, <1>8, <1>12 DEF FromValue
<1> HIDE DEF F, V, O, S, A, Field, NotList
<1>13. /\ DOMAIN O = DOMAIN DriverRequest
       /\ \A f \in DOMAIN V : O[f] = V[f]
       /\ \A f \in DOMAIN DriverRequest \ DOMAIN V : O[f] = F[f]
  BY <1>2, <1>6, <1>12, SetIs DEF O
<1>14. /\ DOMAIN S = DOMAIN DriverRequest
       /\ \A f \in DOMAIN DriverRequest \ {"driving_side"} : S[f] = O[f]
       /\ spec.flags.driving_side = "FROM_DIRECTED" => S["driving_side"] = IF O["directed"] THEN "r" ELSE "b"
  BY <1>3, <1>13, SidedIs DEF S
<1>15. /\ DOMAIN RequestOf = DOMAIN DriverRequest
       /\ \A f \in DOMAIN A : f \in DOMAIN DriverRequest => RequestOf[f] = FromValue(f, A[f])
       /\ \A f \in DOMAIN DriverRequest \ DOMAIN A : RequestOf[f] = S[f]
  BY <1>1, <1>14, SetIs
<1>16. /\ \A kind \in DOMAIN ParameterOf : Takes(kind) =>
            ParameterOf[kind] \in DOMAIN A /\ A[ParameterOf[kind]] = Argument(kind)
       /\ \A f \in DOMAIN A : \E kind \in DOMAIN ParameterOf : Takes(kind) /\ ParameterOf[kind] = f
  BY ArgumentValuesAre DEF A
<1>17. \A kind \in DOMAIN ParameterOf : Takes(kind) =>
         RequestOf[ParameterOf[kind]] = FromValue(ParameterOf[kind], Argument(kind))
  BY <1>7, <1>15, <1>16
<1>18. \A f \in DOMAIN V : RequestOf[f] = V[f]
  BY <1>6, <1>8, <1>13, <1>14, <1>15, <1>16
<1>19. \A f \in DOMAIN DriverRequest \ {"driving_side"} :
         RequestOf[f] = F[f] \/ f \in DOMAIN A \/ f \in DOMAIN V
  BY <1>13, <1>14, <1>15
<1>20. "directed" \notin DOMAIN A /\ RequestOf["directed"] = O["directed"]
  BY <1>3, <1>9, <1>14, <1>15, <1>16
<1>21. spec.flags.driving_side = "FROM_DIRECTED" => "driving_side" \notin DOMAIN A
  <2>1. ASSUME "driving_side" \in DOMAIN A PROVE Takes("DRIVING_SIDE")
    BY <1>16, <2>1 DEF ParameterOf
  <2>2. Takes("DRIVING_SIDE") => \E n \in DOMAIN spec.args : spec.args[n] = "DRIVING_SIDE"
    BY SpecOK DEF Takes, Required, Argued
  <2> QED BY <2>1, <2>2, SpecsAssumption DEF Argued, FitsDriver
<1>22. spec.flags.driving_side = "FROM_DIRECTED" =>
         RequestOf["driving_side"] = IF RequestOf["directed"] THEN "r" ELSE "b"
  BY <1>3, <1>14, <1>15, <1>20, <1>21
<1>23. \A n \in 1 .. Len(spec.optionals) : NotList(n) => RequestOf[Field(n)] = ResolveOptional(n)
  BY <1>10, <1>18
<1> QED BY <1>11, <1>15, <1>16, <1>17, <1>19, <1>22, <1>23 DEF F, Field, NotList

\* A call none of whose arguments is NULL has no NULL value at all.
LEMMA NothingNull ==
  ASSUME Argued, Given >= Required, ~NullInput
  PROVE  /\ \A kind : Takes(kind) => Argument(kind) # NULL
         /\ \A n \in 1 .. Len(spec.optionals) : ResolveOptional(n) # NULL
<1>1. Required \in Nat /\ Given \in Nat
  BY SpecOK, LengthIs DEF Argued, Required, Given
<1>2. ASSUME NEW kind, Takes(kind) PROVE Argument(kind) # NULL
  <2>1. PositionOf(kind) \in 1 .. Required /\ Argument(kind) = inputs[PositionOf(kind)]
    BY <1>2, ArgumentIs
  <2> QED BY <1>1, <2>1 DEF NullInput
<1>3. ASSUME NEW n \in 1 .. Len(spec.optionals) PROVE ResolveOptional(n) # NULL
  <2>1. spec.optionals[n].default \in ValuesOf(spec.optionals[n].type)
    BY SpecOK, SpecsAssumption DEF Argued, CheckSpec
  <2>2. spec.optionals[n].default # NULL
    BY <2>1, ValuesAssumption DEF ValuesOf
  <2>3. CASE Required + n <= Given
    <3>1. Required + n \in 1 .. Given /\ ResolveOptional(n) = inputs[Required + n]
      BY <1>1, <2>3, SpecOK DEF ResolveOptional, Argued
    <3> QED BY <3>1 DEF NullInput
  <2>4. CASE ~(Required + n <= Given)
    BY <2>2, <2>4 DEF ResolveOptional, NullInput
  <2> QED BY <2>3, <2>4
<1> QED BY <1>2, <1>3

\* What the driver of a public call is passed, field by field.
LEMMA PassedIs ==
  ASSUME Argued, Given >= Required, ~NullInput,
         NEW r, r = ReadRequestParameters(RequestArguments(RequestOf))
  PROVE  /\ \A kind \in DOMAIN ParameterOf \ {"DRIVING_SIDE"} :
              r[ParameterOf[kind]] = IF Takes(kind) THEN Argument(kind) ELSE DriverRequest[ParameterOf[kind]]
         /\ r["driver"] = spec.flags.driver /\ r["algorithm"] = spec.flags.algorithm
         /\ \A n \in 1 .. Len(spec.optionals) : ~IsListType(spec.optionals[n].type) =>
              r[spec.optionals[n].request_field] = ResolveOptional(n)
         /\ Takes("DRIVING_SIDE") => r["driving_side"] = FromValue("driving_side", Argument("DRIVING_SIDE"))
         /\ spec.flags.driving_side = "FROM_DIRECTED" => r["driving_side"] = IF r["directed"] THEN "r" ELSE "b"
         /\ \A f \in {"heuristic", "factor", "epsilon", "max_depth"} :
              \/ r[f] = DriverRequest[f]
              \/ \E n \in 1 .. Len(spec.optionals) :
                   ~IsListType(spec.optionals[n].type) /\ spec.optionals[n].request_field = f
<1> DEFINE F == FixedRequest(spec.flags)
           R == RequestOf
           Field(n) == spec.optionals[n].request_field
           NotList(n) == ~IsListType(spec.optionals[n].type)
           Fields == {ParameterOf[kind] : kind \in DOMAIN ParameterOf}
<1>1. CheckSpec(spec) /\ Consistent(spec) /\ FitsDriver(spec) /\ DOMAIN spec.optionals = 1 .. Len(spec.optionals)
  BY SpecOK, SpecsAssumption DEF Argued
<1>2. \A n \in 1 .. Len(spec.optionals) :
        Field(n) \notin Fields /\ Field(n) \notin {"driver", "algorithm"}
  BY <1>1 DEF Consistent
<1>3. \A n \in 1 .. Len(spec.optionals) : NotList(n) => Field(n) \in DOMAIN DriverRequest
  BY <1>1 DEF CheckSpec
<1>4. /\ Fields \subseteq DOMAIN DriverRequest
      /\ {"driver", "algorithm", "directed", "heuristic", "factor", "epsilon", "max_depth", "driving_side"}
           \subseteq DOMAIN DriverRequest
      /\ {"driver", "algorithm", "directed", "heuristic", "factor", "epsilon", "max_depth"} \cap Fields = {}
      /\ ParameterOf["DRIVING_SIDE"] = "driving_side" /\ "DRIVING_SIDE" \in DOMAIN ParameterOf
  BY DEF ParameterOf, DriverRequest
<1>5. /\ \A f \in Fields \cup {"directed", "heuristic", "factor", "epsilon", "max_depth"} : F[f] = DriverRequest[f]
      /\ F["driver"] = spec.flags.driver /\ F["algorithm"] = spec.flags.algorithm
  <2>1. \A f \in DOMAIN DriverRequest \ {"only_cost", "normal", "n_goals", "global", "details", "which",
                                         "driver", "mst_suffix", "algorithm"} : F[f] = DriverRequest[f]
    BY DEF FixedRequest
  <2>2. Fields \cap {"only_cost", "normal", "n_goals", "global", "details", "which",
                     "driver", "mst_suffix", "algorithm"} = {}
    BY DEF ParameterOf
  <2>3. {"directed", "heuristic", "factor", "epsilon", "max_depth"} \subseteq DOMAIN DriverRequest
    BY <1>4
  <2>4. F["driver"] = spec.flags.driver /\ F["algorithm"] = spec.flags.algorithm
    BY <1>4 DEF FixedRequest
  <2> HIDE DEF F
  <2> QED BY <1>4, <2>1, <2>2, <2>3, <2>4
<1>6. DriverRequest["directed"] = TRUE
  BY DEF DriverRequest
<1>7. /\ DOMAIN R = DOMAIN DriverRequest
      /\ \A kind \in DOMAIN ParameterOf : Takes(kind) =>
           R[ParameterOf[kind]] = FromValue(ParameterOf[kind], Argument(kind))
      /\ \A n \in 1 .. Len(spec.optionals) : NotList(n) => R[Field(n)] = ResolveOptional(n)
      /\ \A f \in DOMAIN DriverRequest \ {"driving_side"} :
           \/ R[f] = F[f]
           \/ \E kind \in DOMAIN ParameterOf : Takes(kind) /\ ParameterOf[kind] = f
           \/ \E n \in 1 .. Len(spec.optionals) : NotList(n) /\ Field(n) = f
      /\ spec.flags.driving_side = "FROM_DIRECTED" =>
           R["driving_side"] = IF R["directed"] THEN "r" ELSE "b"
  BY RequestIs
<1>8. /\ \A f \in DOMAIN DriverRequest \ {"driving_side"} : r[f] = IF R[f] = NULL THEN DriverRequest[f] ELSE R[f]
      /\ r["driving_side"] = IF <<R["driving_side"]>> = NULL THEN DriverRequest["driving_side"]
                                                            ELSE R["driving_side"]
  BY <1>4, <1>7, Arrives DEF ToValue
<1>9. \A kind, l \in DOMAIN ParameterOf : ParameterOf[kind] = ParameterOf[l] => kind = l
  BY ParametersApart
<1>10. \A n \in 1 .. Len(spec.optionals) : ResolveOptional(n) # NULL
  BY NothingNull
<1> HIDE DEF F, R, Field, NotList
<1>11. ASSUME NEW kind \in DOMAIN ParameterOf \ {"DRIVING_SIDE"}
       PROVE  r[ParameterOf[kind]] = IF Takes(kind) THEN Argument(kind) ELSE DriverRequest[ParameterOf[kind]]
  <2> DEFINE f == ParameterOf[kind]
  <2>1. f \in Fields /\ f \in DOMAIN DriverRequest /\ f # "driving_side"
    BY <1>4, <1>9
  <2> HIDE DEF f
  <2>2. CASE Takes(kind)
    <3>1. R[f] = Argument(kind) /\ Argument(kind) # NULL
      BY <1>7, <2>1, <2>2, NothingNull DEF FromValue, f
    <3> QED BY <1>8, <2>1, <2>2, <3>1 DEF f
  <2>3. CASE ~Takes(kind)
    <3>1. R[f] = F[f]
      BY <1>2, <1>7, <1>9, <2>1, <2>3 DEF f
    <3> QED BY <1>5, <1>8, <2>1, <2>3, <3>1 DEF f
  <2> QED BY <2>2, <2>3
<1>12. r["driver"] = spec.flags.driver /\ r["algorithm"] = spec.flags.algorithm
  <2>1. R["driver"] = F["driver"] /\ R["algorithm"] = F["algorithm"]
    <3>1. ASSUME NEW f \in {"driver", "algorithm"}
          PROVE  R[f] = F[f]
      <4>1. f \in DOMAIN DriverRequest \ {"driving_side"}
        BY <1>4
      <4>2. \A kind \in DOMAIN ParameterOf : ParameterOf[kind] # f
        BY <1>4
      <4>3. \A n \in 1 .. Len(spec.optionals) : Field(n) # f
        BY <1>2
      <4> QED BY <1>7, <4>1, <4>2, <4>3
    <3> QED BY <3>1
  <2>2. F["driver"] # NULL /\ F["algorithm"] # NULL
    <3>1. F["driver"] = spec.flags.driver /\ F["algorithm"] = spec.flags.algorithm
      BY <1>5
    <3> QED BY <1>1, <3>1, ValuesAssumption DEF Consistent, FitsDriver
  <2> QED BY <1>4, <1>5, <1>8, <2>1, <2>2
<1>13. ASSUME NEW n \in 1 .. Len(spec.optionals), NotList(n)
       PROVE  r[Field(n)] = ResolveOptional(n)
  <2>1. Field(n) \in DOMAIN DriverRequest \ {"driving_side"}
    BY <1>2, <1>3, <1>4, <1>13
  <2> QED BY <1>7, <1>8, <1>10, <1>13, <2>1
<1>14. Takes("DRIVING_SIDE") => r["driving_side"] = FromValue("driving_side", Argument("DRIVING_SIDE"))
  <2> SUFFICES ASSUME Takes("DRIVING_SIDE")
               PROVE  r["driving_side"] = FromValue("driving_side", Argument("DRIVING_SIDE"))
    OBVIOUS
  <2>1. R["driving_side"] = FromValue("driving_side", Argument("DRIVING_SIDE"))
    BY <1>4, <1>7
  <2>2. Argument("DRIVING_SIDE") \in (Plain["DRIVING_SIDE"] \cup Odd["DRIVING_SIDE"]) \ {NULL}
    BY ArgumentIs, NothingNull
  <2>3. <<FromValue("driving_side", Argument("DRIVING_SIDE"))>> # NULL
    BY <2>2, ValuesAssumption
  <2> QED BY <1>8, <2>1, <2>3
<1>15. R["directed"] # NULL
  <2>1. CASE R["directed"] = F["directed"]
    BY <1>5, <1>6, <2>1, ValuesAssumption
  <2>2. CASE \E n \in 1 .. Len(spec.optionals) : NotList(n) /\ Field(n) = "directed"
    BY <1>7, <1>10, <2>2
  <2> QED BY <1>4, <1>7, <2>1, <2>2
<1>16. spec.flags.driving_side = "FROM_DIRECTED" => r["driving_side"] = IF r["directed"] THEN "r" ELSE "b"
  <2>1. r["directed"] = R["directed"]
    BY <1>4, <1>8, <1>15
  <2>2. <<"r">> # NULL /\ <<"b">> # NULL
    BY ValuesAssumption
  <2> QED BY <1>7, <1>8, <2>1, <2>2
<1>17. ASSUME NEW f \in {"heuristic", "factor", "epsilon", "max_depth"}
       PROVE  r[f] = DriverRequest[f] \/ \E n \in 1 .. Len(spec.optionals) : NotList(n) /\ Field(n) = f
  <2>1. f \in DOMAIN DriverRequest \ {"driving_side"} /\ f \notin Fields /\ F[f] = DriverRequest[f]
    BY <1>4, <1>5
  <2> QED BY <1>7, <1>8, <2>1
<1> QED BY <1>11, <1>12, <1>13, <1>14, <1>16, <1>17 DEF Field, NotList

\* A run is a cost run where its overload says so, and caps its goals only where the
\* overload or the caller does.
LEMMA CostRunPassed ==
  ASSUME Argued, Given >= Required, ~NullInput,
         NEW r, r = ReadRequestParameters(RequestArguments(RequestOf))
  PROVE  /\ r["only_cost"] = spec.flags.only_cost
         /\ \/ r["n_goals"] = 0
            \/ spec.flags.n_goals # 0
            \/ \E n \in DOMAIN spec.optionals : spec.optionals[n].request_field = "n_goals"
<1> DEFINE F == FixedRequest(spec.flags)
           R == RequestOf
           Fields == {ParameterOf[kind] : kind \in DOMAIN ParameterOf}
<1>1. Consistent(spec) /\ FitsProjection(spec) /\ DOMAIN spec.optionals = 1 .. Len(spec.optionals)
  BY SpecOK, SpecsAssumption DEF Argued
<1>2. /\ {"only_cost", "n_goals"} \subseteq DOMAIN DriverRequest \ {"driving_side"}
      /\ {"only_cost", "n_goals"} \cap Fields = {}
      /\ DriverRequest["n_goals"] = 0
  BY DEF ParameterOf, DriverRequest
<1>3. F["only_cost"] = spec.flags.only_cost /\ F["n_goals"] = spec.flags.n_goals
  BY <1>2 DEF FixedRequest
<1>4. F["only_cost"] # NULL
  BY <1>1, <1>3, ValuesAssumption DEF FitsProjection
<1>5. /\ DOMAIN R = DOMAIN DriverRequest
      /\ \A f \in DOMAIN DriverRequest \ {"driving_side"} :
           \/ R[f] = F[f]
           \/ \E kind \in DOMAIN ParameterOf : Takes(kind) /\ ParameterOf[kind] = f
           \/ \E n \in 1 .. Len(spec.optionals) : spec.optionals[n].request_field = f
  BY RequestIs
<1>6. \A f \in DOMAIN DriverRequest \ {"driving_side"} :
        r[f] = IF R[f] = NULL THEN DriverRequest[f] ELSE R[f]
  BY <1>5, Arrives DEF ToValue
<1>7. \A n \in 1 .. Len(spec.optionals) : spec.optionals[n].request_field # "only_cost"
  BY <1>1 DEF Consistent
<1> HIDE DEF F, R
<1>8. ASSUME NEW f \in {"only_cost", "n_goals"}
      PROVE  \/ R[f] = F[f]
             \/ \E n \in 1 .. Len(spec.optionals) : spec.optionals[n].request_field = f
  BY <1>2, <1>5
<1>9. r["only_cost"] = spec.flags.only_cost
  <2>1. R["only_cost"] = F["only_cost"]
    BY <1>7, <1>8
  <2> QED BY <1>2, <1>3, <1>4, <1>6, <2>1
<1>10. \/ r["n_goals"] = 0
       \/ spec.flags.n_goals # 0
       \/ \E n \in DOMAIN spec.optionals : spec.optionals[n].request_field = "n_goals"
  BY <1>1, <1>2, <1>3, <1>6, <1>8
<1> QED BY <1>9, <1>10

\* The SQL text each of four columns is made of.
SqlOf ==
  [combinations |-> "COMBINATIONS_SQL", restrictions |-> "RESTRICTIONS_SQL", matrix |-> "MATRIX_SQL",
   coordinates |-> "COORDINATES_SQL"]

\* The columns of the defaulted lists.
LEMMA ListColumnsAre ==
  ASSUME Argued
  PROVE  /\ DOMAIN ListColumns \subseteq {"methods", "forbidden"}
         /\ \A n \in 1 .. Len(spec.optionals) : IsListType(spec.optionals[n].type) =>
              /\ spec.optionals[n].request_field \in DOMAIN ListColumns
              /\ ListColumns[spec.optionals[n].request_field] = Ids(ResolveOptional(n))
<1> DEFINE V == OptionalValues(TRUE)
           Field(n) == spec.optionals[n].request_field
           List(n) == IsListType(spec.optionals[n].type)
           fixed == IF spec.flags.contraction_method = 0 THEN {} ELSE {"methods"}
<1>1. /\ \A f \in DOMAIN V :
           \E n \in 1 .. Len(spec.optionals) :
             IsListType(spec.optionals[n].type) = TRUE /\ spec.optionals[n].request_field = f
      /\ \A n \in 1 .. Len(spec.optionals) : IsListType(spec.optionals[n].type) = TRUE =>
           /\ spec.optionals[n].request_field \in DOMAIN V
           /\ V[spec.optionals[n].request_field] = ResolveOptional(n)
  BY OptionalValuesAre, Zenon
<1>2. \A n : List(n) <=> IsListType(spec.optionals[n].type) = TRUE
  BY DEF IsListType
<1>3. \A n \in 1 .. Len(spec.optionals) : List(n) => Field(n) \in {"methods", "forbidden"}
  <2>1. CheckSpec(spec) /\ Consistent(spec) /\ DOMAIN spec.optionals = 1 .. Len(spec.optionals)
    BY SpecOK, SpecsAssumption DEF Argued
  <2> QED BY <2>1 DEF CheckSpec, Consistent, IdSlots, ColumnKinds
<1>4. DOMAIN ListColumns = DOMAIN V \cup fixed
  BY DEF ListColumns
<1>5. \A slot \in DOMAIN V : ListColumns[slot] = Ids(V[slot])
  BY DEF ListColumns
<1> HIDE DEF V
<1> QED BY <1>1, <1>2, <1>3, <1>4, <1>5

\* The text each slot of the rewritten row holds: the argument of its kind, or nothing.
LEMMA RowSlotsAre ==
  ASSUME Argued, Given >= Required, ~NullInput
  PROVE  /\ \A slot \in DOMAIN SqlOf :
              /\ Takes(SqlOf[slot]) =>
                   slot \in DOMAIN InputRow /\ InputRow[slot] = Rows(<<Argument(SqlOf[slot])>>)
              /\ ~Takes(SqlOf[slot]) /\ slot \in DOMAIN InputRow => InputRow[slot] = NullColumn
         /\ "edges" \in DOMAIN InputRow
         /\ Takes("POINTS_SQL") =>
              LET e == Argument("EDGES_SQL")
                  p == Argument("POINTS_SQL") IN
              /\ {"points", "edges_of_points", "edges_no_points"} \subseteq DOMAIN InputRow
              /\ InputRow["edges"] = NullColumn
              /\ InputRow["points"] = Rows(<<p>>)
              /\ InputRow["edges_of_points"] = Rows(EdgesOfPoints(e, p))
              /\ InputRow["edges_no_points"] = Rows(EdgesWithoutPoints(e, p))
         /\ ~Takes("POINTS_SQL") =>
              /\ {"points", "edges_of_points", "edges_no_points"} \cap DOMAIN InputRow = {}
              /\ InputRow["edges"] = IF Takes("EDGES_SQL") THEN Rows(<<Argument("EDGES_SQL")>>) ELSE NullColumn
         /\ \A n \in 1 .. Len(spec.optionals) : IsListType(spec.optionals[n].type) =>
              /\ spec.optionals[n].request_field \in DOMAIN InputRow \cap IdSlots
              /\ InputRow[spec.optionals[n].request_field] = Ids(ResolveOptional(n))
<1> DEFINE P == PlainColumns
           L == ListColumns
           A == ArgumentColumns
           E == EdgeColumns
           derived == {"points", "edges_of_points", "edges_no_points"}
<1>1. InputRow = Overlay(Overlay(P, L), Overlay(A, E))
  BY DEF InputRow
<1>2. /\ DOMAIN P = {"edges", "combinations", "starts", "ends", "roots", "via"}
      /\ P["edges"] = NullColumn /\ P["combinations"] = NullColumn
  BY DEF PlainColumns
<1>3. DOMAIN L \subseteq {"methods", "forbidden"}
  BY ListColumnsAre
<1>4. \A slot : slot \in DOMAIN A <=>
        slot \in DOMAIN ColumnKinds /\ \E kind \in ColumnKinds[slot] : Takes(kind)
  BY DEF ArgumentColumns
<1>5. \A slot \in DOMAIN SqlOf : slot \in DOMAIN ColumnKinds /\ ColumnKinds[slot] = {SqlOf[slot]}
  BY DEF SqlOf, ColumnKinds
<1>6. DOMAIN ColumnKinds = {"starts", "ends", "roots", "via"} \cup DOMAIN SqlOf
  BY DEF SqlOf, ColumnKinds
<1>7. DOMAIN SqlOf = {"combinations", "restrictions", "matrix", "coordinates"}
  BY DEF SqlOf
<1>8. ASSUME NEW slot \in DOMAIN SqlOf, Takes(SqlOf[slot])
      PROVE  slot \in DOMAIN A /\ A[slot] = Rows(<<Argument(SqlOf[slot])>>)
  <2>1. slot \in DOMAIN A
    BY <1>4, <1>5, <1>8
  <2>2. A[slot] = ArgumentColumn(CHOOSE kind \in ColumnKinds[slot] : Takes(kind))
    BY <2>1 DEF ArgumentColumns
  <2>3. (CHOOSE kind \in ColumnKinds[slot] : Takes(kind)) = SqlOf[slot]
    BY <1>5, <1>8
  <2>4. ArgumentColumn(SqlOf[slot]) = Rows(<<Argument(SqlOf[slot])>>)
    BY DEF SqlOf, ArgumentColumn, IdKinds, ListKinds
  <2> QED BY <2>1, <2>2, <2>3, <2>4
<1>9. ASSUME NEW slot \in DOMAIN SqlOf, ~Takes(SqlOf[slot])
      PROVE  slot \notin DOMAIN A
  BY <1>4, <1>5, <1>9
<1>10. Takes("POINTS_SQL") =>
         /\ DOMAIN E = derived
         /\ E["points"] = Rows(<<Argument("POINTS_SQL")>>)
         /\ E["edges_of_points"] = Rows(EdgesOfPoints(Argument("EDGES_SQL"), Argument("POINTS_SQL")))
         /\ E["edges_no_points"] = Rows(EdgesWithoutPoints(Argument("EDGES_SQL"), Argument("POINTS_SQL")))
  BY DEF EdgeColumns
<1>11. ~Takes("POINTS_SQL") =>
         /\ DOMAIN E = IF Takes("EDGES_SQL") THEN {"edges"} ELSE {}
         /\ Takes("EDGES_SQL") => E["edges"] = Rows(<<Argument("EDGES_SQL")>>)
  BY DEF EdgeColumns, EmptyMap
<1> HIDE DEF P, L, A, E
<1>12. /\ DOMAIN InputRow = DOMAIN P \cup DOMAIN L \cup DOMAIN A \cup DOMAIN E
       /\ \A slot \in DOMAIN E : InputRow[slot] = E[slot]
       /\ \A slot \in DOMAIN A \ DOMAIN E : InputRow[slot] = A[slot]
       /\ \A slot \in DOMAIN L \ (DOMAIN A \cup DOMAIN E) : InputRow[slot] = L[slot]
       /\ \A slot \in DOMAIN P \ (DOMAIN L \cup DOMAIN A \cup DOMAIN E) : InputRow[slot] = P[slot]
  BY <1>1 DEF Overlay
<1>13. DOMAIN E \subseteq derived \cup {"edges"}
  BY <1>10, <1>11
<1>14. ASSUME NEW slot \in DOMAIN SqlOf
       PROVE  /\ Takes(SqlOf[slot]) =>
                   slot \in DOMAIN InputRow /\ InputRow[slot] = Rows(<<Argument(SqlOf[slot])>>)
              /\ ~Takes(SqlOf[slot]) /\ slot \in DOMAIN InputRow => InputRow[slot] = NullColumn
  <2>1. slot \notin DOMAIN E /\ slot \notin DOMAIN L
    BY <1>3, <1>7, <1>13
  <2>2. slot \in DOMAIN P => P[slot] = NullColumn
    BY <1>2, <1>7
  <2> QED BY <1>8, <1>9, <1>12, <2>1, <2>2
<1>15. "edges" \in DOMAIN InputRow
  BY <1>2, <1>12
<1>16. ({"edges"} \cup derived) \cap (DOMAIN L \cup DOMAIN A) = {}
  BY <1>3, <1>4, <1>6, <1>7
<1>17. Takes("POINTS_SQL") =>
         LET e == Argument("EDGES_SQL")
             p == Argument("POINTS_SQL") IN
         /\ derived \subseteq DOMAIN InputRow
         /\ InputRow["edges"] = NullColumn
         /\ InputRow["points"] = Rows(<<p>>)
         /\ InputRow["edges_of_points"] = Rows(EdgesOfPoints(e, p))
         /\ InputRow["edges_no_points"] = Rows(EdgesWithoutPoints(e, p))
  BY <1>2, <1>10, <1>12, <1>16
<1>18. ~Takes("POINTS_SQL") =>
         /\ derived \cap DOMAIN InputRow = {}
         /\ InputRow["edges"] = IF Takes("EDGES_SQL") THEN Rows(<<Argument("EDGES_SQL")>>) ELSE NullColumn
  BY <1>2, <1>11, <1>12, <1>16
<1>19. ASSUME NEW n \in 1 .. Len(spec.optionals), IsListType(spec.optionals[n].type)
       PROVE  /\ spec.optionals[n].request_field \in DOMAIN InputRow \cap IdSlots
              /\ InputRow[spec.optionals[n].request_field] = Ids(ResolveOptional(n))
  <2> DEFINE f == spec.optionals[n].request_field
  <2>1. f \in DOMAIN L /\ L[f] = Ids(ResolveOptional(n))
    BY <1>19, ListColumnsAre DEF L
  <2> HIDE DEF f
  <2>2. f \in {"methods", "forbidden"}
    BY <1>3, <2>1
  <2>3. f \notin DOMAIN A /\ f \notin DOMAIN E
    BY <1>4, <1>6, <1>7, <1>13, <2>2
  <2> QED BY <1>12, <2>1, <2>2, <2>3 DEF f, IdSlots
<1> QED BY <1>14, <1>15, <1>17, <1>18, <1>19

\* A public call that has been rewritten and bound, with no NULL in it.
Wired ==
  /\ Argued /\ Given >= Required /\ ~NullInput
  /\ query = TheQuery
  /\ request = ReadRequestParameters(query.args)

\* The slots filled from the edges and the points together.
Derived == {"points", "edges_of_points", "edges_no_points"}

\* An overload takes the inputs its driver reads, and no others.
LEMMA FitIs ==
  ASSUME Argued
  PROVE  /\ \A kind : Takes(kind) <=> \E n \in DOMAIN spec.args : spec.args[n] = kind
         /\ Takes("EDGES_SQL") <=> spec.flags.driver \notin {"TSP", "EUCLIDEAN_TSP"}
         /\ Takes("MATRIX_SQL") <=> spec.flags.driver = "TSP"
         /\ Takes("COORDINATES_SQL") <=> spec.flags.driver = "EUCLIDEAN_TSP"
         /\ Takes("RESTRICTIONS_SQL") <=> spec.flags.driver \in RestrictionDrivers
         /\ Takes("COMBINATIONS_SQL") => spec.flags.driver \in CombinationDrivers
         /\ Takes("POINTS_SQL") => spec.flags.driver \in TakesPoints
         /\ spec.flags.driver \in TakesPoints \ {"SHORTEST_PATH"} =>
              /\ Takes("POINTS_SQL")
              /\ Takes("DRIVING_SIDE") \/ spec.flags.driving_side = "FROM_DIRECTED"
         /\ spec.flags.driver \in DRIVERS
         /\ spec.flags.algorithm \in 1 .. 3
<1>1. \A kind : Takes(kind) <=> \E n \in DOMAIN spec.args : spec.args[n] = kind
  BY SpecOK DEF Takes, Required, Argued
<1>2. FitsDriver(spec)
  BY SpecsAssumption DEF Argued
<1> QED BY <1>1, <1>2 DEF FitsDriver

\* Each query text the driver finds in its request is the argument of its kind.
LEMMA TextsPassed ==
  ASSUME Wired
  PROVE  /\ request.edges_sql = IF Takes("EDGES_SQL") THEN Argument("EDGES_SQL") ELSE Blank
         /\ request.points_sql = IF Takes("POINTS_SQL") THEN Argument("POINTS_SQL") ELSE Blank
         /\ request.combinations_sql =
              IF Takes("COMBINATIONS_SQL") THEN Argument("COMBINATIONS_SQL") ELSE Blank
         /\ request.restrictions_sql =
              IF Takes("RESTRICTIONS_SQL") THEN Argument("RESTRICTIONS_SQL") ELSE Blank
         /\ request.matrix_sql = IF Takes("MATRIX_SQL") THEN Argument("MATRIX_SQL") ELSE Blank
         /\ request.coordinates_sql = IF Takes("COORDINATES_SQL") THEN Argument("COORDINATES_SQL") ELSE Blank
         /\ request.driver = spec.flags.driver
         /\ \A kind \in SqlKinds : Takes(kind) => Argument(kind) # Blank
<1>1. request = ReadRequestParameters(RequestArguments(RequestOf))
  BY DEF Wired, TheQuery
<1>2. /\ \A kind \in DOMAIN ParameterOf \ {"DRIVING_SIDE"} :
           request[ParameterOf[kind]] = IF Takes(kind) THEN Argument(kind) ELSE DriverRequest[ParameterOf[kind]]
      /\ request["driver"] = spec.flags.driver
  BY <1>1, PassedIs DEF Wired
<1>3. /\ SqlKinds \subseteq DOMAIN ParameterOf \ {"DRIVING_SIDE"}
      /\ \A kind \in SqlKinds : DriverRequest[ParameterOf[kind]] = Blank
  BY DEF SqlKinds, ParameterOf, DriverRequest
<1>4. \A kind \in SqlKinds : request[ParameterOf[kind]] = IF Takes(kind) THEN Argument(kind) ELSE Blank
  BY <1>2, <1>3
<1>5. /\ ParameterOf["EDGES_SQL"] = "edges_sql" /\ ParameterOf["POINTS_SQL"] = "points_sql"
      /\ ParameterOf["COMBINATIONS_SQL"] = "combinations_sql"
      /\ ParameterOf["RESTRICTIONS_SQL"] = "restrictions_sql"
      /\ ParameterOf["MATRIX_SQL"] = "matrix_sql" /\ ParameterOf["COORDINATES_SQL"] = "coordinates_sql"
      /\ SqlKinds = {"EDGES_SQL", "COMBINATIONS_SQL", "POINTS_SQL", "RESTRICTIONS_SQL", "MATRIX_SQL",
                     "COORDINATES_SQL"}
  BY DEF ParameterOf, SqlKinds
<1>6. \A kind \in SqlKinds : Takes(kind) => Argument(kind) # Blank
  BY ArgumentIs, NothingNull, ValuesAssumption DEF Wired
<1> QED BY <1>2, <1>4, <1>5, <1>6

\* What the driver looks up is what the caller has given.
LEMMA LookupsAreGiven ==
  ASSUME Wired
  PROVE  Lookups(request) = GivenInputs
<1> DEFINE e == Argument("EDGES_SQL")
           p == Argument("POINTS_SQL")
           Given1(kind, as) == IF Takes(kind) THEN {<<<<Argument(kind)>>, as>>} ELSE {}
           graph ==
             CASE request.driver = "TSP" -> {<<<<request.matrix_sql>>, "matrix">>}
               [] request.driver = "EUCLIDEAN_TSP" -> {<<<<request.coordinates_sql>>, "coordinates">>}
               [] PassesPoints(request) ->
                    {<<OfPointsKey(request.edges_sql, request.points_sql), "edges">>,
                     <<NoPointsKey(request.edges_sql, request.points_sql), "edges">>,
                     <<<<request.points_sql>>, "points">>}
               [] OTHER -> {<<<<request.edges_sql>>, "edges">>}
           combinations ==
             IF PassesCombinations(request) THEN {<<<<request.combinations_sql>>, "combinations">>} ELSE {}
           restrictions ==
             IF request.driver \in RestrictionDrivers
             THEN {<<<<request.restrictions_sql>>, "restrictions">>} ELSE {}
           edges ==
             IF Takes("POINTS_SQL")
             THEN {<<<<"of_points", e, p>>, "edges">>, <<<<"no_points", e, p>>, "edges">>, <<<<p>>, "points">>}
             ELSE Given1("EDGES_SQL", "edges")
<1>1. Lookups(request) = graph \cup combinations \cup restrictions
  BY DEF Lookups
<1>2. GivenInputs = edges \cup Given1("COMBINATIONS_SQL", "combinations")
                      \cup Given1("RESTRICTIONS_SQL", "restrictions")
                      \cup Given1("MATRIX_SQL", "matrix") \cup Given1("COORDINATES_SQL", "coordinates")
  BY DEF GivenInputs
<1>3. Argued
  BY DEF Wired
<1>4. PassesCombinations(request) <=> Takes("COMBINATIONS_SQL")
  BY <1>3, FitIs, TextsPassed DEF PassesCombinations, SqlKinds
<1>5. combinations = Given1("COMBINATIONS_SQL", "combinations")
  BY <1>4, TextsPassed
<1>6. restrictions = Given1("RESTRICTIONS_SQL", "restrictions")
  BY <1>3, FitIs, TextsPassed
<1>7. PassesPoints(request) <=> Takes("POINTS_SQL")
  BY <1>3, FitIs, TextsPassed DEF PassesPoints, SqlKinds
<1>8. request.driver \in {"TSP", "EUCLIDEAN_TSP"} => ~Takes("POINTS_SQL")
  BY <1>3, FitIs, TextsPassed DEF TakesPoints
<1>9. graph = edges \cup Given1("MATRIX_SQL", "matrix") \cup Given1("COORDINATES_SQL", "coordinates")
  <2>1. CASE request.driver = "TSP"
    <3>1. /\ Takes("MATRIX_SQL") /\ ~Takes("COORDINATES_SQL") /\ ~Takes("EDGES_SQL") /\ ~Takes("POINTS_SQL")
          /\ request.matrix_sql = Argument("MATRIX_SQL")
      BY <1>3, <1>8, <2>1, FitIs, TextsPassed
    <3>2. graph = {<<<<request.matrix_sql>>, "matrix">>}
      BY <1>7, <2>1, <3>1
    <3> HIDE DEF graph
    <3> QED BY <3>1, <3>2
  <2>2. CASE request.driver = "EUCLIDEAN_TSP"
    <3>1. /\ ~Takes("MATRIX_SQL") /\ Takes("COORDINATES_SQL") /\ ~Takes("EDGES_SQL") /\ ~Takes("POINTS_SQL")
          /\ request.coordinates_sql = Argument("COORDINATES_SQL")
      BY <1>3, <1>8, <2>2, FitIs, TextsPassed
    <3>2. graph = {<<<<request.coordinates_sql>>, "coordinates">>}
      BY <1>7, <2>2, <3>1
    <3> HIDE DEF graph
    <3> QED BY <3>1, <3>2
  <2>3. CASE request.driver \notin {"TSP", "EUCLIDEAN_TSP"}
    <3>1. ~Takes("MATRIX_SQL") /\ ~Takes("COORDINATES_SQL") /\ Takes("EDGES_SQL") /\ request.edges_sql = e
      BY <1>3, <2>3, FitIs, TextsPassed
    <3>2. CASE Takes("POINTS_SQL")
      <4>1. request.points_sql = p
        BY <3>2, TextsPassed
      <4>2. graph = {<<OfPointsKey(request.edges_sql, request.points_sql), "edges">>,
                     <<NoPointsKey(request.edges_sql, request.points_sql), "edges">>,
                     <<<<request.points_sql>>, "points">>}
        BY <1>7, <2>3, <3>2
      <4> HIDE DEF graph
      <4> QED BY <3>1, <3>2, <4>1, <4>2 DEF OfPointsKey, NoPointsKey
    <3>3. CASE ~Takes("POINTS_SQL")
      <4>1. graph = {<<<<request.edges_sql>>, "edges">>}
        BY <1>7, <2>3, <3>3
      <4> HIDE DEF graph
      <4> QED BY <3>1, <3>3, <4>1
    <3> QED BY <3>2, <3>3
  <2> QED BY <2>1, <2>2, <2>3
<1> HIDE DEF graph, combinations, restrictions, edges, Given1
<1> QED BY <1>1, <1>2, <1>5, <1>6, <1>9

\* Which slots are registered, and under which text.
LEMMA RegisteredIs ==
  ASSUME Wired
  PROVE  /\ \A slot : slot \in Registered <=>
              \/ slot \in DOMAIN SqlOf /\ Takes(SqlOf[slot])
              \/ slot = "edges" /\ ~Takes("POINTS_SQL") /\ Takes("EDGES_SQL")
              \/ slot \in Derived /\ Takes("POINTS_SQL")
         /\ \A slot \in Registered : query.row[slot].value = RegistryKey(slot, request)
<1> DEFINE row == query.row
<1>1. row = InputRow /\ Argued /\ Given >= Required /\ ~NullInput
  BY DEF Wired, TheQuery
<1>2. /\ RowSlots = {"edges"} \cup DOMAIN SqlOf \cup Derived
      /\ DOMAIN SqlOf = {"combinations", "restrictions", "matrix", "coordinates"}
      /\ SqlOf["combinations"] = "COMBINATIONS_SQL" /\ SqlOf["restrictions"] = "RESTRICTIONS_SQL"
      /\ SqlOf["matrix"] = "MATRIX_SQL" /\ SqlOf["coordinates"] = "COORDINATES_SQL"
  BY DEF RowSlots, KindOf, SqlOf, Derived
<1>3. /\ NullColumn.type = "NULL"
      /\ \A v : Rows(v).type = "rows" /\ Rows(v).value = v
  BY DEF NullColumn, Rows
<1>4. \A slot : slot \in Registered <=> slot \in RowSlots /\ slot \in DOMAIN row /\ row[slot].type = "rows"
  BY DEF Registered, ListsOfRows
<1>5. /\ \A slot \in DOMAIN SqlOf :
           /\ Takes(SqlOf[slot]) => slot \in DOMAIN row /\ row[slot] = Rows(<<Argument(SqlOf[slot])>>)
           /\ ~Takes(SqlOf[slot]) /\ slot \in DOMAIN row => row[slot] = NullColumn
      /\ "edges" \in DOMAIN row
      /\ Takes("POINTS_SQL") =>
           /\ Derived \subseteq DOMAIN row
           /\ row["edges"] = NullColumn
           /\ row["points"] = Rows(<<Argument("POINTS_SQL")>>)
           /\ row["edges_of_points"] = Rows(EdgesOfPoints(Argument("EDGES_SQL"), Argument("POINTS_SQL")))
           /\ row["edges_no_points"] = Rows(EdgesWithoutPoints(Argument("EDGES_SQL"), Argument("POINTS_SQL")))
      /\ ~Takes("POINTS_SQL") =>
           /\ Derived \cap DOMAIN row = {}
           /\ row["edges"] = IF Takes("EDGES_SQL") THEN Rows(<<Argument("EDGES_SQL")>>) ELSE NullColumn
  BY <1>1, RowSlotsAre DEF Derived
<1>6. Takes("POINTS_SQL") => Takes("EDGES_SQL")
  BY <1>1, FitIs DEF TakesPoints
<1> HIDE DEF row
<1>7. \A slot : slot \in Registered <=>
        \/ slot \in DOMAIN SqlOf /\ Takes(SqlOf[slot])
        \/ slot = "edges" /\ ~Takes("POINTS_SQL") /\ Takes("EDGES_SQL")
        \/ slot \in Derived /\ Takes("POINTS_SQL")
  <2> SUFFICES ASSUME NEW slot
               PROVE  slot \in Registered <=>
                        \/ slot \in DOMAIN SqlOf /\ Takes(SqlOf[slot])
                        \/ slot = "edges" /\ ~Takes("POINTS_SQL") /\ Takes("EDGES_SQL")
                        \/ slot \in Derived /\ Takes("POINTS_SQL")
    OBVIOUS
  <2>1. Derived \cap (DOMAIN SqlOf \cup {"edges"}) = {} /\ "edges" \notin DOMAIN SqlOf
    BY <1>2 DEF Derived
  <2>2. CASE slot \in DOMAIN SqlOf
    BY <1>2, <1>3, <1>4, <1>5, <2>1, <2>2
  <2>3. CASE slot = "edges"
    BY <1>2, <1>3, <1>4, <1>5, <2>1, <2>3
  <2>4. CASE slot \in Derived
    BY <1>2, <1>3, <1>4, <1>5, <2>1, <2>4 DEF Derived
  <2> QED BY <1>2, <1>4, <2>2, <2>3, <2>4
<1>8. ASSUME NEW slot \in Registered
      PROVE  row[slot].value = RegistryKey(slot, request)
  <2>1. CASE slot \in DOMAIN SqlOf /\ Takes(SqlOf[slot])
    <3>1. row[slot].value = <<Argument(SqlOf[slot])>>
      BY <1>3, <1>5, <2>1
    <3>2. RegistryKey(slot, request) = <<Argument(SqlOf[slot])>>
      BY <1>2, <2>1, TextsPassed DEF RegistryKey
    <3> QED BY <3>1, <3>2
  <2>2. CASE slot = "edges" /\ ~Takes("POINTS_SQL") /\ Takes("EDGES_SQL")
    <3>1. row[slot].value = <<Argument("EDGES_SQL")>>
      BY <1>3, <1>5, <2>2
    <3>2. RegistryKey(slot, request) = <<Argument("EDGES_SQL")>>
      BY <2>2, TextsPassed DEF RegistryKey
    <3> QED BY <3>1, <3>2
  <2>3. CASE slot \in Derived /\ Takes("POINTS_SQL")
    <3>1. request.edges_sql = Argument("EDGES_SQL") /\ request.points_sql = Argument("POINTS_SQL")
      BY <1>6, <2>3, TextsPassed
    <3>2. CASE slot = "points"
      BY <1>3, <1>5, <2>3, <3>1, <3>2 DEF RegistryKey
    <3>3. CASE slot = "edges_of_points"
      BY <1>3, <1>5, <2>3, <3>1, <3>3 DEF RegistryKey, EdgesOfPoints, OfPointsKey
    <3>4. CASE slot = "edges_no_points"
      BY <1>3, <1>5, <2>3, <3>1, <3>4 DEF RegistryKey, EdgesWithoutPoints, NoPointsKey
    <3> QED BY <2>3, <3>2, <3>3, <3>4 DEF Derived
  <2> QED BY <1>7, <2>1, <2>2, <2>3
<1> QED BY <1>7, <1>8 DEF row

\* Everything the caller has given is registered, once.
LEMMA GivenIsRegistered ==
  ASSUME Wired
  PROVE  /\ \A key \in GivenInputs : \E slot \in Registered : KeyOf(slot) = key
         /\ ~RegisteredTwice
<1> DEFINE e == Argument("EDGES_SQL")
           p == Argument("POINTS_SQL")
<1>1. Argued /\ (Takes("POINTS_SQL") => Takes("EDGES_SQL"))
  BY FitIs DEF Wired, TakesPoints
<1>2. Takes("POINTS_SQL") =>
        /\ Derived \subseteq Registered
        /\ KeyOf("points") = <<<<p>>, "points">>
        /\ KeyOf("edges_of_points") = <<<<"of_points", e, p>>, "edges">>
        /\ KeyOf("edges_no_points") = <<<<"no_points", e, p>>, "edges">>
  BY <1>1, RegisteredIs, TextsPassed DEF KeyOf, RegistryKey, KindOf, OfPointsKey, NoPointsKey
<1>3. Takes("EDGES_SQL") /\ ~Takes("POINTS_SQL") =>
        "edges" \in Registered /\ KeyOf("edges") = <<<<e>>, "edges">>
  BY RegisteredIs, TextsPassed DEF KeyOf, RegistryKey, KindOf
<1>4. /\ Takes("COMBINATIONS_SQL") =>
           /\ "combinations" \in Registered
           /\ KeyOf("combinations") = <<<<Argument("COMBINATIONS_SQL")>>, "combinations">>
      /\ Takes("RESTRICTIONS_SQL") =>
           /\ "restrictions" \in Registered
           /\ KeyOf("restrictions") = <<<<Argument("RESTRICTIONS_SQL")>>, "restrictions">>
  BY RegisteredIs, TextsPassed DEF KeyOf, RegistryKey, KindOf, SqlOf
<1>5. /\ Takes("MATRIX_SQL") =>
           "matrix" \in Registered /\ KeyOf("matrix") = <<<<Argument("MATRIX_SQL")>>, "matrix">>
      /\ Takes("COORDINATES_SQL") =>
           /\ "coordinates" \in Registered
           /\ KeyOf("coordinates") = <<<<Argument("COORDINATES_SQL")>>, "coordinates">>
  BY RegisteredIs, TextsPassed DEF KeyOf, RegistryKey, KindOf, SqlOf
<1>6. ASSUME NEW key \in GivenInputs
      PROVE  \E slot \in Registered : KeyOf(slot) = key
  <2>1. \/ Takes("POINTS_SQL") /\ key \in {<<<<"of_points", e, p>>, "edges">>,
                                           <<<<"no_points", e, p>>, "edges">>, <<<<p>>, "points">>}
        \/ Takes("EDGES_SQL") /\ ~Takes("POINTS_SQL") /\ key = <<<<e>>, "edges">>
        \/ Takes("COMBINATIONS_SQL") /\ key = <<<<Argument("COMBINATIONS_SQL")>>, "combinations">>
        \/ Takes("RESTRICTIONS_SQL") /\ key = <<<<Argument("RESTRICTIONS_SQL")>>, "restrictions">>
        \/ Takes("MATRIX_SQL") /\ key = <<<<Argument("MATRIX_SQL")>>, "matrix">>
        \/ Takes("COORDINATES_SQL") /\ key = <<<<Argument("COORDINATES_SQL")>>, "coordinates">>
    BY DEF GivenInputs
  <2> QED BY <1>2, <1>3, <1>4, <1>5, <2>1 DEF Derived
<1>7. ~RegisteredTwice
  <2> SUFFICES ASSUME NEW s \in Registered, NEW t \in Registered, KeyOf(s) = KeyOf(t), s # t
               PROVE  FALSE
    BY DEF RegisteredTwice
  <2>1. KindOf[s] = KindOf[t] /\ RegistryKey(s, request) = RegistryKey(t, request)
    BY DEF KeyOf
  <2>2. /\ s \in {"edges"} \cup Derived \cup DOMAIN SqlOf
        /\ t \in {"edges"} \cup Derived \cup DOMAIN SqlOf
    BY RegisteredIs
  <2>3. {s, t} \subseteq {"edges", "edges_of_points", "edges_no_points"}
    BY <2>1, <2>2 DEF KindOf, Derived, SqlOf
  <2>4. {s, t} = {"edges_of_points", "edges_no_points"}
    BY <2>3, RegisteredIs DEF Derived, SqlOf
  <2>5. RegistryKey("edges_of_points", request) = <<"of_points", request.edges_sql, request.points_sql>>
    BY DEF RegistryKey, OfPointsKey
  <2>6. RegistryKey("edges_no_points", request) = <<"no_points", request.edges_sql, request.points_sql>>
    BY DEF RegistryKey, NoPointsKey
  <2> QED BY <2>1, <2>4, <2>5, <2>6
<1> QED BY <1>6, <1>7

\* Where no value is NULL and none is refused, all are accepted ones.
LEMMA InnocentValues ==
  ASSUME Argued, Given >= Required, ~NullInput, ~RefusedArgument
  PROVE  /\ \A kind : Takes(kind) => kind \in ArgKinds /\ Accepted(kind, Argument(kind))
         /\ \A n \in 1 .. Len(spec.optionals) :
              Accepted(spec.optionals[n].request_field, ResolveOptional(n))
<1> DEFINE Field(n) == spec.optionals[n].request_field
<1>1. /\ Required \in Nat /\ Given \in Nat /\ Required = Len(spec.args) /\ Len(spec.optionals) \in Nat
      /\ DOMAIN inputs = 1 .. Given /\ DOMAIN spec.args = 1 .. Required
      /\ DOMAIN spec.optionals = 1 .. Len(spec.optionals)
  BY SpecOK, LengthIs DEF Argued, Required, Given
<1>2. Consistent(spec)
  BY SpecsAssumption DEF Argued
<1>3. \A n \in 1 .. Required : spec.args[n] \in ArgKinds
  BY <1>1, <1>2 DEF Consistent
<1>4. \A n \in 1 .. Given : Accepted(KindAt(n), inputs[n])
  BY <1>1 DEF RefusedArgument, Refused, NullInput
<1>5. ASSUME NEW n \in 1 .. Len(spec.optionals), spec.optionals[n].name \in DOMAIN named
      PROVE  Accepted(Field(n), named[spec.optionals[n].name])
  BY <1>5 DEF RefusedArgument, Refused, NullInput
<1>6. ASSUME NEW kind, Takes(kind)
      PROVE  kind \in ArgKinds /\ Accepted(kind, Argument(kind))
  <2>1. /\ PositionOf(kind) \in 1 .. Required /\ spec.args[PositionOf(kind)] = kind
        /\ Argument(kind) = inputs[PositionOf(kind)]
    BY <1>6, ArgumentIs
  <2>2. PositionOf(kind) \in 1 .. Given /\ KindAt(PositionOf(kind)) = kind
    BY <1>1, <2>1 DEF KindAt
  <2>3. Accepted(kind, Argument(kind))
    BY <1>4, <2>1, <2>2
  <2> QED BY <1>3, <2>1, <2>3
<1>7. ASSUME NEW n \in 1 .. Len(spec.optionals)
      PROVE  Accepted(Field(n), ResolveOptional(n))
  <2>1. Accepted(Field(n), spec.optionals[n].default)
    BY <1>1, <1>2 DEF Consistent
  <2>2. CASE Required + n <= Given
    <3>1. /\ Required + n \in 1 .. Given /\ KindAt(Required + n) = Field(n)
          /\ ResolveOptional(n) = inputs[Required + n]
      <4>1. Required + n \in 1 .. Given /\ Required + n > Required /\ (Required + n) - Required = n
        BY <1>1, <2>2
      <4>2. ResolveOptional(n) = inputs[Required + n]
        BY <2>2 DEF ResolveOptional
      <4>3. KindAt(Required + n) = spec.optionals[(Required + n) - Required].request_field
        BY <1>1, <4>1 DEF KindAt, Required
      <4>4. KindAt(Required + n) = Field(n)
        BY <4>1, <4>3
      <4> QED BY <4>1, <4>2, <4>4
    <3> HIDE DEF Field
    <3> QED BY <1>4, <3>1
  <2>3. CASE ~(Required + n <= Given)
    <3>1. \/ spec.optionals[n].name \in DOMAIN named /\ ResolveOptional(n) = named[spec.optionals[n].name]
          \/ ResolveOptional(n) = spec.optionals[n].default
      BY <2>3 DEF ResolveOptional
    <3> HIDE DEF Field
    <3> QED BY <1>5, <2>1, <3>1
  <2> QED BY <2>2, <2>3
<1> QED BY <1>6, <1>7

\* Accepted values pass the checks of the request.
LEMMA InnocentChecks ==
  ASSUME Argued, Given >= Required, ~NullInput, ~RefusedArgument,
         NEW r, r = ReadRequestParameters(RequestArguments(RequestOf))
  PROVE  CheckRequest(r) # "error"
<1>1. /\ \A kind : Takes(kind) => kind \in ArgKinds /\ Accepted(kind, Argument(kind))
      /\ \A n \in 1 .. Len(spec.optionals) : Accepted(spec.optionals[n].request_field, ResolveOptional(n))
  BY InnocentValues
<1>2. /\ \A kind \in DOMAIN ParameterOf \ {"DRIVING_SIDE"} :
           r[ParameterOf[kind]] = IF Takes(kind) THEN Argument(kind) ELSE DriverRequest[ParameterOf[kind]]
      /\ r["driver"] = spec.flags.driver /\ r["algorithm"] = spec.flags.algorithm
      /\ \A n \in 1 .. Len(spec.optionals) : ~IsListType(spec.optionals[n].type) =>
           r[spec.optionals[n].request_field] = ResolveOptional(n)
      /\ Takes("DRIVING_SIDE") => r["driving_side"] = FromValue("driving_side", Argument("DRIVING_SIDE"))
      /\ spec.flags.driving_side = "FROM_DIRECTED" => r["driving_side"] = IF r["directed"] THEN "r" ELSE "b"
      /\ \A f \in {"heuristic", "factor", "epsilon", "max_depth"} :
           \/ r[f] = DriverRequest[f]
           \/ \E n \in 1 .. Len(spec.optionals) :
                ~IsListType(spec.optionals[n].type) /\ spec.optionals[n].request_field = f
  BY PassedIs
<1>3. /\ "DISTANCE" \in DOMAIN ParameterOf \ {"DRIVING_SIDE"} /\ ParameterOf["DISTANCE"] = "distance"
      /\ "K" \in DOMAIN ParameterOf \ {"DRIVING_SIDE"} /\ ParameterOf["K"] = "k"
      /\ DriverRequest["distance"] = 0 /\ DriverRequest["k"] = 0
  BY DEF ParameterOf, DriverRequest
<1>4. r.distance >= 0 /\ r.k >= 0
  <2>1. \A v : (Accepted("DISTANCE", v) => v >= 0) /\ (Accepted("K", v) => v >= 0)
    BY DEF Accepted, IdKinds, ListKinds, IdSlots
  <2> QED BY <1>1, <1>2, <1>3, <2>1
<1>5. \A f \in {"heuristic", "factor", "epsilon", "max_depth"} : Accepted(f, r[f])
  <2>1. \A f \in {"heuristic", "factor", "epsilon", "max_depth"} : Accepted(f, DriverRequest[f])
    BY DEF Accepted, DriverRequest, NoDepthLimit, IdKinds, ListKinds, IdSlots
  <2>2. ASSUME NEW f \in {"heuristic", "factor", "epsilon", "max_depth"} PROVE Accepted(f, r[f])
    <3>1. CASE r[f] = DriverRequest[f]
      BY <2>1, <3>1
    <3>2. CASE \E n \in 1 .. Len(spec.optionals) :
                 ~IsListType(spec.optionals[n].type) /\ spec.optionals[n].request_field = f
      <4>1. PICK n \in 1 .. Len(spec.optionals) :
              ~IsListType(spec.optionals[n].type) /\ spec.optionals[n].request_field = f
        BY <3>2
      <4>2. r[f] = ResolveOptional(n) /\ Accepted(f, ResolveOptional(n))
        BY <1>1, <1>2, <4>1
      <4> QED BY <4>2
    <3> QED BY <1>2, <3>1, <3>2
  <2> QED BY <2>2
<1>6. r.heuristic \in 0 .. 5 /\ r.factor > 0 /\ r.epsilon >= 1 /\ r.max_depth >= 0
  <2>1. \A v : /\ Accepted("heuristic", v) => v \in 0 .. 5
               /\ Accepted("factor", v) => v > 0
               /\ Accepted("epsilon", v) => v >= 1
               /\ Accepted("max_depth", v) => v >= 0
    BY DEF Accepted, IdKinds, ListKinds, IdSlots
  <2> QED BY <1>5, <2>1
<1>7. r.algorithm \in 1 .. 3
  BY <1>2, FitIs
<1>8. r.driver \in TakesPoints \ {"SHORTEST_PATH"} => ValidSide(r)
  <2> SUFFICES ASSUME r.driver \in TakesPoints \ {"SHORTEST_PATH"} PROVE ValidSide(r)
    OBVIOUS
  <2>1. CASE Takes("DRIVING_SIDE")
    <3>1. \A v : Accepted("DRIVING_SIDE", v) => v # <<>> /\ Head(v) \in {"r", "l", "b", "R", "L", "B"}
      BY DEF Accepted, IdKinds, ListKinds, IdSlots
    <3>2. r.driving_side \in {"r", "l", "b", "R", "L", "B"}
      BY <1>1, <1>2, <2>1, <3>1 DEF FromValue
    <3> QED BY <3>2 DEF ValidSide
  <2>2. CASE spec.flags.driving_side = "FROM_DIRECTED"
    BY <1>2, <2>2 DEF ValidSide
  <2> QED BY <1>2, <2>1, <2>2, FitIs
<1>9. CheckOf(r.driver) \in {"WITH_POINTS_DD", "WITH_POINTS_KSP", "DRIVING_SIDE"} =>
        r.driver \in TakesPoints \ {"SHORTEST_PATH"}
  BY DEF CheckOf, TakesPoints
<1> HIDE DEF CheckOf
<1> QED BY <1>4, <1>6, <1>7, <1>8, <1>9 DEF CheckRequest, AStarParameters, TreeParameters, FlowAlgorithm

\* Accepted lists hold no NULL id.
LEMMA InnocentRow ==
  ASSUME Argued, Given >= Required, ~NullInput, ~RefusedArgument
  PROVE  \A slot \in DOMAIN InputRow : SlotOK(Int, slot, InputRow[slot])
<1>1. /\ \A kind : Takes(kind) => Accepted(kind, Argument(kind))
      /\ \A n \in 1 .. Len(spec.optionals) : Accepted(spec.optionals[n].request_field, ResolveOptional(n))
  BY InnocentValues
<1>2. \A v : /\ \A kind \in IdKinds : Accepted(kind, v) => v \in Int
             /\ \A kind \in ListKinds \cup {"methods", "forbidden"} : Accepted(kind, v) => v \in Seq(Int)
  BY DEF Accepted, IdKinds, ListKinds, IdSlots
<1>3. \A n \in 1 .. Len(spec.optionals) :
        IsListType(spec.optionals[n].type) => spec.optionals[n].request_field \in {"methods", "forbidden"}
  <2>1. CheckSpec(spec) /\ Consistent(spec) /\ DOMAIN spec.optionals = 1 .. Len(spec.optionals)
    BY SpecOK, SpecsAssumption DEF Argued
  <2> QED BY <2>1 DEF CheckSpec, Consistent, IdSlots, ColumnKinds
<1>4. /\ \A kind \in IdKinds : Takes(kind) => Argument(kind) \in Int
      /\ \A kind \in ListKinds : Takes(kind) => Argument(kind) \in Seq(Int)
      /\ \A n \in 1 .. Len(spec.optionals) :
           IsListType(spec.optionals[n].type) => ResolveOptional(n) \in Seq(Int)
  BY <1>1, <1>2, <1>3
<1> QED BY <1>4, RowOK

\* Where no argument is NULL, the row can be read and points are for drivers that take them.
LEMMA BoundWell ==
  ASSUME Argued, Given >= Required, ~NullInput,
         NEW r, r = ReadRequestParameters(RequestArguments(RequestOf))
  PROVE  /\ BindInputSlots(InputRow)
         /\ r.driver \in DRIVERS
         /\ r.driver \notin TakesPoints => r.points_sql = Blank
<1>1. BindInputSlots(InputRow)
  BY GivenRowOK, RowSlotsAre DEF SlotOK, BindInputSlots
<1>2. /\ "POINTS_SQL" \in DOMAIN ParameterOf \ {"DRIVING_SIDE"} /\ ParameterOf["POINTS_SQL"] = "points_sql"
      /\ DriverRequest["points_sql"] = Blank
  BY DEF ParameterOf, DriverRequest
<1>3. r["driver"] = spec.flags.driver /\ (~Takes("POINTS_SQL") => r["points_sql"] = Blank)
  BY <1>2, PassedIs
<1> QED BY <1>1, <1>3, FitIs

\* The list registered under a slot's key is the list of the query the key stands for.
LEMMA InputsAre ==
  ASSUME Wired, NEW cells, NEW slot \in Registered
  PROVE  /\ KeyOf(slot) \in DOMAIN Inputs(cells)
         /\ Inputs(cells)[KeyOf(slot)].query = RegistryKey(slot, request)
<1> DEFINE Owner(key) == CHOOSE s \in Registered : KeyOf(s) = key
<1>1. Owner(KeyOf(slot)) \in Registered /\ KeyOf(Owner(KeyOf(slot))) = KeyOf(slot)
  OBVIOUS
<1>2. RegistryKey(Owner(KeyOf(slot)), request) = RegistryKey(slot, request)
  BY <1>1 DEF KeyOf
<1>3. KeyOf(slot) \in {KeyOf(s) : s \in Registered}
  OBVIOUS
<1>4. Inputs(cells) = [key \in {KeyOf(s) : s \in Registered} |->
                        [query |-> query.row[Owner(key)].value, cell |-> cells[Owner(key)]]]
  BY DEF Inputs
<1> HIDE DEF Owner
<1>5. KeyOf(slot) \in DOMAIN Inputs(cells) /\ Inputs(cells)[KeyOf(slot)].query = query.row[Owner(KeyOf(slot))].value
  BY <1>3, <1>4
<1> QED BY <1>1, <1>2, <1>5, RegisteredIs

-----------------------------------------------------------------------------
\* A call starts with nothing known of it.
LEMMA InitHolds == Init => CInv
<1> SUFFICES ASSUME Init PROVE CInv
  OBVIOUS
<1>1. TypeOK
  BY DEF Init, TypeOK, EmptyMap
<1>2. Stages
  BY SpecsAssumption DEF Init, Stages, Public, Unbound, Unrun
<1>3. Rewritten /\ BoundRight /\ RunRight
  BY DEF Init, Rewritten, BoundRight, RunRight
<1>4. Ended
  BY DEF Init, Ended
<1> QED BY <1>1, <1>2, <1>3, <1>4 DEF CInv

\* The caller writes.
LEMMA CallOverloadKeeps == CInv /\ CallOverload => CInv'
<1> SUFFICES ASSUME CInv, CallOverload PROVE CInv'
  OBVIOUS
<1>1. /\ pc = "idle" /\ inputs = <<>> /\ named = EmptyMap /\ Unbound /\ Unrun
      /\ pc' = "call" /\ spec' \in Specs
      /\ UNCHANGED <<inputs, named, query, request, no_rows, ids, registry, fetched, outcome>>
  BY DEF CInv, Stages, CallOverload
<1>2. TypeOK'
  BY <1>1 DEF CInv, TypeOK
<1>3. Argued'
  <2>1. Len(spec'.args) \in Nat /\ Len(spec'.optionals) \in Nat
    BY <1>1, SpecOK
  <2>2. inputs' = <<>> /\ named' = EmptyMap /\ spec' \in Specs /\ DOMAIN EmptyMap = {}
    BY <1>1 DEF EmptyMap
  <2>3. inputs' \in Seq(Range(inputs')) /\ Len(inputs') = 0
    BY <2>2
  <2>4. Given' = 0 /\ Required' \in Nat
    BY <2>1, <2>3 DEF Given, Required
  <2> HIDE DEF EmptyMap
  <2> QED BY <2>1, <2>2, <2>3, <2>4 DEF Argued
<1>4. Stages'
  BY <1>1, <1>3, SpecsAssumption DEF Stages, Public, Unbound, Unrun
<1>5. Rewritten' /\ BoundRight' /\ RunRight' /\ Ended'
  BY <1>1 DEF Rewritten, BoundRight, RunRight, Ended, Unrun
<1> QED BY <1>2, <1>4, <1>5 DEF CInv

\* Another argument of a kind the overload takes there.
LEMMA WriteArgumentKeeps == CInv /\ WriteArgument => CInv'
<1> SUFFICES ASSUME CInv, WriteArgument PROVE CInv'
  OBVIOUS
<1>1. PICK v \in Plain[KindAt(Given + 1)] \cup Odd[KindAt(Given + 1)] : inputs' = Append(inputs, v)
  BY DEF WriteArgument
<1>2. /\ pc = "call" /\ Public /\ Argued /\ Unbound /\ Unrun /\ named = EmptyMap
      /\ Given < Required + Len(spec.optionals)
      /\ UNCHANGED <<pc, spec, named, query, request, no_rows, ids, registry, fetched, outcome>>
  BY DEF CInv, Stages, WriteArgument
<1>3. TypeOK'
  BY <1>2 DEF CInv, TypeOK
<1>4. Argued'
  <2>1. Required \in Nat /\ Len(spec.optionals) \in Nat /\ Given \in Nat /\ Given = Len(inputs)
    BY <1>2, SpecOK, LengthIs DEF Argued, Required, Given
  <2>2. /\ inputs \in Seq(Range(inputs) \cup {v})
        /\ inputs' \in Seq(Range(inputs) \cup {v})
        /\ Len(inputs') = Given + 1
        /\ \A n \in 1 .. Given : inputs'[n] = inputs[n]
        /\ inputs'[Given + 1] = v
    <3> DEFINE S == Range(inputs) \cup {v}
    <3>1. inputs \in Seq(S) /\ v \in S
      BY <1>2 DEF Argued
    <3> HIDE DEF S
    <3>2. /\ inputs' \in Seq(S) /\ Len(inputs') = Len(inputs) + 1
          /\ \A n \in 1 .. Len(inputs) : inputs'[n] = inputs[n]
          /\ inputs'[Len(inputs) + 1] = v
      BY <1>1, <3>1
    <3> QED BY <2>1, <3>1, <3>2 DEF S
  <2>3. inputs' \in Seq(Range(inputs'))
    <3>1. \A n \in 1 .. Len(inputs') : inputs'[n] \in Range(inputs')
      BY <2>2 DEF Range
    <3> QED BY <2>2, <3>1
  <2>4. Given' = Given + 1 /\ Required' = Required
    BY <1>2, <2>1, <2>2 DEF Given, Required
  <2>5. ASSUME NEW n \in 1 .. Given + 1
        PROVE  inputs'[n] \in Plain[KindAt(n)'] \cup Odd[KindAt(n)']
    <3>1. KindAt(n)' = KindAt(n)
      BY <1>2 DEF KindAt
    <3>2. CASE n \in 1 .. Given
      BY <1>2, <2>2, <3>1, <3>2 DEF Argued
    <3>3. CASE n = Given + 1
      BY <2>2, <3>1, <3>3
    <3> QED BY <2>1, <3>2, <3>3
  <2> QED BY <1>2, <2>1, <2>3, <2>4, <2>5 DEF Argued
<1>5. Stages'
  BY <1>2, <1>4 DEF Stages, Public, Unbound, Unrun
<1>6. Rewritten' /\ BoundRight' /\ RunRight' /\ Ended'
  BY <1>2 DEF Rewritten, BoundRight, RunRight, Ended, Unrun
<1> QED BY <1>3, <1>5, <1>6 DEF CInv

\* A parameter given by name.
LEMMA NameArgumentKeeps == CInv /\ NameArgument => CInv'
<1> SUFFICES ASSUME CInv, NameArgument PROVE CInv'
  OBVIOUS
<1>1. PICK n \in 1 .. Len(spec.optionals) :
        \E v \in Plain[spec.optionals[n].request_field] \cup Odd[spec.optionals[n].request_field] :
          named' = [p \in DOMAIN named \cup {spec.optionals[n].name} |->
                      IF p = spec.optionals[n].name THEN v ELSE named[p]]
  BY DEF NameArgument
<1>2. PICK v \in Plain[spec.optionals[n].request_field] \cup Odd[spec.optionals[n].request_field] :
        named' = [p \in DOMAIN named \cup {spec.optionals[n].name} |->
                    IF p = spec.optionals[n].name THEN v ELSE named[p]]
  BY <1>1
<1>3. /\ pc = "call" /\ Public /\ Argued /\ Unbound /\ Unrun
      /\ UNCHANGED <<pc, spec, inputs, query, request, no_rows, ids, registry, fetched, outcome>>
  BY DEF CInv, Stages, NameArgument
<1>4. TypeOK'
  BY <1>3 DEF CInv, TypeOK
<1>5. Argued'
  <2>1. DOMAIN named' \subseteq {spec.optionals[m].name : m \in 1 .. Len(spec.optionals)}
    BY <1>2, <1>3 DEF Argued
  <2>2. ASSUME NEW m \in 1 .. Len(spec.optionals), spec.optionals[m].name \in DOMAIN named'
        PROVE  named'[spec.optionals[m].name]
                 \in Plain[spec.optionals[m].request_field] \cup Odd[spec.optionals[m].request_field]
    <3>1. CASE m = n
      BY <1>2, <2>2, <3>1
    <3>2. CASE m # n
      <4>1. spec.optionals[m].name # spec.optionals[n].name
        BY <1>3, <3>2, SpecOK, SpecsAssumption DEF Argued, Consistent
      <4> QED BY <1>2, <1>3, <2>2, <4>1 DEF Argued
    <3> QED BY <3>1, <3>2
  <2>3. /\ Given' = Given /\ Required' = Required /\ \A m : KindAt(m)' = KindAt(m)
        /\ spec' = spec /\ inputs' = inputs
    BY <1>3 DEF Given, Required, KindAt
  <2> QED BY <1>3, <2>1, <2>2, <2>3 DEF Argued
<1>6. Stages'
  BY <1>3, <1>5 DEF Stages, Public, Unbound, Unrun
<1>7. Rewritten' /\ BoundRight' /\ RunRight' /\ Ended'
  BY <1>3 DEF Rewritten, BoundRight, RunRight, Ended, Unrun
<1> QED BY <1>4, <1>6, <1>7 DEF CInv

\* The rewrite: only here does the query come to be that of the arguments.
LEMMA BindReplaceKeeps == CInv /\ SpecBindReplace => CInv'
<1> SUFFICES ASSUME CInv, SpecBindReplace PROVE CInv'
  OBVIOUS
<1>1. /\ pc = "call" /\ pc' = "bind" /\ Given >= Required /\ Public /\ Argued /\ Unbound /\ Unrun
      /\ query' = TheQuery
      /\ UNCHANGED <<callVars, request, no_rows, ids, registry, fetched, outcome>>
  BY DEF CInv, Stages, SpecBindReplace, TheQuery
<1>2. TypeOK'
  BY <1>1 DEF CInv, TypeOK, callVars
<1>3. /\ TheQuery' = TheQuery /\ Argued' = Argued /\ Public' = Public
      /\ Given' = Given /\ Required' = Required
  BY <1>1, CallKept
<1>4. Stages'
  BY <1>1, <1>3 DEF Stages, Unbound, Unrun
<1>5. Rewritten' /\ BoundRight' /\ RunRight' /\ Ended'
  BY <1>1, <1>3 DEF Rewritten, BoundRight, RunRight, Ended, Unrun
<1> QED BY <1>2, <1>4, <1>5 DEF CInv

\* A call of _pgr_exec written directly.
LEMMA CallExecKeeps == CInv /\ CallExec => CInv'
<1> SUFFICES ASSUME CInv, CallExec PROVE CInv'
  OBVIOUS
<1>1. /\ pc = "idle" /\ pc' = "bind" /\ ~Public /\ Unbound /\ Unrun
      /\ query' \in DirectCalls
      /\ UNCHANGED <<callVars, request, no_rows, ids, registry, fetched, outcome>>
  BY DEF CInv, Stages, CallExec
<1>2. TypeOK'
  BY <1>1 DEF CInv, TypeOK, callVars
<1>3. Public' = Public
  BY <1>1, CallKept
<1>4. Stages'
  BY <1>1, <1>3 DEF Stages, Unbound, Unrun
<1>5. Rewritten' /\ BoundRight' /\ RunRight' /\ Ended'
  BY <1>1, <1>3 DEF Rewritten, BoundRight, RunRight, Ended, Unrun
<1> QED BY <1>2, <1>4, <1>5 DEF CInv

\* A bound call that would not run without rows has no NULL.
LEMMA NullStops ==
  ASSUME CInv, pc \in {"run", "driver"}, ~no_rows
  PROVE  ~(Public /\ HasNull)
<1> SUFFICES ASSUME Public, HasNull PROVE FALSE
  OBVIOUS
<1>1. query = TheQuery /\ Argued
  BY DEF CInv, Stages, Rewritten
<1>2. NullInput
  BY <1>1, NullsAreFound
<1>3. BindCheck(request) = "no_rows"
  BY <1>1, <1>2, NullQuery DEF CInv, BoundRight
<1> QED BY <1>3 DEF CInv, BoundRight

\* A public call that comes to run is wired.
LEMMA RunsWired ==
  ASSUME CInv, pc \in {"run", "driver"}, ~no_rows, Public
  PROVE  Wired
<1>1. query = TheQuery /\ Argued /\ Given >= Required /\ request = ReadRequestParameters(query.args)
  BY DEF CInv, Stages, Rewritten, BoundRight
<1>2. ~NullInput
  BY <1>1, NullStops, NullsAreFound
<1> QED BY <1>1, <1>2 DEF Wired

\* Binding reads the request, the columns and the checks.
LEMMA ExecBindKeeps == CInv /\ ExecBind => CInv'
<1> SUFFICES ASSUME CInv, ExecBind PROVE CInv'
  OBVIOUS
<1> DEFINE r == ReadRequestParameters(query.args)
           refused == \/ r.driver \notin DRIVERS
                      \/ r.driver \notin TakesPoints /\ r.points_sql # Blank
                      \/ ~BindInputSlots(query.row)
<1>1. /\ pc = "bind" /\ Unbound /\ Unrun
      /\ UNCHANGED <<callVars, query, ids, registry, fetched>>
  BY DEF CInv, Stages, ExecBind
<1>2. /\ TheQuery' = TheQuery /\ Argued' = Argued /\ Public' = Public /\ HasNull' = HasNull
      /\ Given' = Given /\ Required' = Required /\ RefusedArgument' = RefusedArgument
  BY <1>1, CallKept
<1>3. Rewritten'
  BY <1>1, <1>2 DEF CInv, Rewritten, ExecBind, Finish
<1>4. DOMAIN r = DOMAIN DriverRequest
  BY DEF ReadRequestParameters, SetRequestParameters
<1>5. CASE refused \/ BindCheck(r) = "error"
  <2>1. pc' = "done" /\ outcome' = "error" /\ UNCHANGED <<request, no_rows>>
    BY <1>5 DEF ExecBind, Finish
  <2>2. ~(Public /\ HasNull)
    <3> SUFFICES ASSUME Public, HasNull PROVE FALSE
      OBVIOUS
    <3>1. query = TheQuery /\ Argued /\ NullInput
      BY <1>1, NullsAreFound DEF CInv, Stages, Rewritten
    <3> QED BY <1>5, <3>1, NullQuery
  <2>3. Public => RefusedArgument
    <3> SUFFICES ASSUME Public, ~RefusedArgument PROVE FALSE
      OBVIOUS
    <3>1. /\ Argued /\ Given >= Required /\ query.args = RequestArguments(RequestOf) /\ query.row = InputRow
          /\ query = TheQuery
      BY <1>1 DEF CInv, Stages, Rewritten, TheQuery
    <3>2. ~NullInput
      BY <2>2, <3>1, NullsAreFound
    <3>3. ~query.null_input
      BY <3>1, <3>2 DEF TheQuery
    <3>4. ~refused /\ CheckRequest(r) # "error"
      BY <3>1, <3>2, BoundWell, InnocentChecks
    <3> QED BY <1>5, <3>3, <3>4 DEF BindCheck
  <2>4. TypeOK'
    BY <1>1, <2>1 DEF CInv, TypeOK, callVars
  <2>5. Stages' /\ BoundRight' /\ RunRight' /\ Ended'
    BY <1>1, <1>2, <2>1, <2>2, <2>3 DEF CInv, Stages, BoundRight, RunRight, Ended
  <2> QED BY <1>3, <2>4, <2>5 DEF CInv
<1>6. CASE ~(refused \/ BindCheck(r) = "error")
  <2>1. /\ pc' = "run" /\ request' = r /\ no_rows' = (BindCheck(r) = "no_rows")
        /\ outcome' = outcome
    BY <1>6 DEF ExecBind
  <2> HIDE DEF r
  <2>2. TypeOK'
    BY <1>1, <1>4, <2>1 DEF CInv, TypeOK, callVars
  <2>3. Stages' /\ RunRight' /\ Ended'
    BY <1>1, <1>2, <2>1 DEF CInv, Stages, RunRight, Ended, Unrun
  <2>4. BoundRight'
    BY <1>1, <1>6, <2>1 DEF BoundRight, BindCheck, r
  <2> QED BY <1>3, <2>2, <2>3, <2>4 DEF CInv
<1> QED BY <1>5, <1>6

\* What a bound query's columns are.
LEMMA QueryColumnsOK ==
  ASSUME CInv, pc \notin {"idle", "call"}
  PROVE  \A slot \in DOMAIN query.row : ColumnOK(query.row[slot])
<1>1. CASE Public
  <2>1. query.row = InputRow /\ Argued /\ Given >= Required
    BY <1>1 DEF CInv, Stages, Rewritten, TheQuery
  <2> QED BY <2>1, GivenRowOK DEF SlotOK, ColumnOK
<1>2. CASE ~Public
  BY <1>2, DirectCallsAssumption DEF CInv, Rewritten, ColumnOK
<1> QED BY <1>1, <1>2

\* No column is read as what it is not.
LEMMA ColumnsReadable ==
  ASSUME CInv, pc = "run"
  PROVE  /\ ~Unreadable
         /\ \A slot \in ListsOfIds : query.row[slot].value \in Seq(Int \cup {NULL})
<1>1. BindInputSlots(query.row)
  BY DEF CInv, BoundRight
<1>2. \A slot \in ListsOfIds : ColumnOK(query.row[slot]) /\ query.row[slot].type \in {"NULL", "ids"}
  BY <1>1, QueryColumnsOK DEF ListsOfIds, BindInputSlots
<1>3. \A slot \in ListsOfIds : query.row[slot].type = "ids" /\ query.row[slot].value \in Seq(Int \cup {NULL})
  BY <1>2 DEF ListsOfIds, ColumnOK
<1> QED BY <1>1, <1>3 DEF Unreadable, ListsOfRows, BindInputSlots

\* The registry is filled from the slots that BindInputSlots has let through.
LEMMA RunOnceKeeps == CInv /\ RunOnce => CInv'
<1> SUFFICES ASSUME CInv, RunOnce PROVE CInv'
  OBVIOUS
<1>1. /\ pc = "run" /\ Unrun
      /\ UNCHANGED <<callVars, query, request, no_rows, fetched>>
  BY DEF CInv, Stages, RunOnce
<1>2. /\ TheQuery' = TheQuery /\ Argued' = Argued /\ Public' = Public /\ HasNull' = HasNull
      /\ Given' = Given /\ Required' = Required /\ RefusedArgument' = RefusedArgument
  BY <1>1, CallKept
<1>3. ~Unreadable /\ \A slot \in ListsOfIds : query.row[slot].value \in Seq(Int \cup {NULL})
  BY <1>1, ColumnsReadable
<1>4. Public => query.rows = 1
  BY <1>1 DEF CInv, Rewritten, TheQuery
<1>5. BindCheck(request)' = BindCheck(request) /\ BindInputSlots(query.row)' = BindInputSlots(query.row)
  BY <1>1 DEF BindCheck
<1>6. CASE /\ pc' = "done" /\ UNCHANGED <<ids, registry>>
           /\ outcome' \in {"error", "no_rows"}
           /\ outcome' = "error" => ~(Public /\ HasNull) /\ (Public => RefusedArgument)
  <2>1. TypeOK'
    BY <1>1, <1>6 DEF CInv, TypeOK, callVars
  <2>2. Stages' /\ Rewritten' /\ BoundRight' /\ RunRight' /\ Ended'
    BY <1>1, <1>2, <1>6 DEF CInv, Stages, Rewritten, BoundRight, RunRight, Ended
  <2> QED BY <2>1, <2>2 DEF CInv
<1>7. CASE \E cells : /\ query.rows = 1 /\ ~no_rows /\ ~NullId /\ ~RegisteredTwice
                     /\ MaterializeInputSlots(cells)
                     /\ LET refusal == RefuseEmptyRestrictionPaths(Inputs(cells)) IN
                        IF refusal = "run" THEN pc' = "driver" /\ UNCHANGED outcome ELSE Finish(refusal)
  <2>1. PICK cells : /\ query.rows = 1 /\ ~no_rows /\ ~NullId /\ ~RegisteredTwice
                     /\ MaterializeInputSlots(cells)
                     /\ LET refusal == RefuseEmptyRestrictionPaths(Inputs(cells)) IN
                        IF refusal = "run" THEN pc' = "driver" /\ UNCHANGED outcome ELSE Finish(refusal)
    BY <1>7
  <2>2. ids' = [slot \in ListsOfIds |-> query.row[slot].value] /\ registry' = Inputs(cells)
    BY <2>1 DEF MaterializeInputSlots
  <2>3. DOMAIN ids' \subseteq IdSlots /\ \A slot \in DOMAIN ids' : \A n \in DOMAIN ids'[slot] : ids'[slot][n] \in Int
    <3>1. \A slot \in ListsOfIds : \A n \in DOMAIN query.row[slot].value : query.row[slot].value[n] # NULL
      BY <2>1 DEF NullId, Range
    <3> QED BY <1>3, <2>2, <3>1 DEF ListsOfIds
  <2>4. ~(Public /\ HasNull)
    BY <1>1, <2>1, NullStops
  <2>5. RefuseEmptyRestrictionPaths(registry)' = RefuseEmptyRestrictionPaths(Inputs(cells))
    BY <1>1, <2>2 DEF RefuseEmptyRestrictionPaths, RestrictionsKey
  <2>6. RefuseEmptyRestrictionPaths(Inputs(cells)) \in {"run", "error", "no_such_input"}
    BY DEF RefuseEmptyRestrictionPaths
  <2>7. /\ NullId' = NullId /\ RegisteredTwice' = RegisteredTwice /\ ListsOfIds' = ListsOfIds
    BY <1>1 DEF NullId, RegisteredTwice, ListsOfIds, Registered, ListsOfRows, KeyOf
  <2>8. CASE RefuseEmptyRestrictionPaths(Inputs(cells)) = "run"
    <3>1. pc' = "driver" /\ outcome' = outcome
      BY <2>1, <2>8
    <3>2. TypeOK'
      BY <1>1, <2>3, <3>1 DEF CInv, TypeOK, callVars, Unrun
    <3>3. Stages' /\ Rewritten' /\ BoundRight' /\ Ended'
      BY <1>1, <1>2, <1>5, <3>1 DEF CInv, Stages, Rewritten, BoundRight, Ended, Unrun
    <3>4. Public => \A slot \in Registered :
                       /\ KeyOf(slot) \in DOMAIN Inputs(cells)
                       /\ Inputs(cells)[KeyOf(slot)].query = RegistryKey(slot, request)
      BY <1>1, <2>1, RunsWired, InputsAre
    <3>5. /\ Registered' = Registered
          /\ \A slot : KeyOf(slot)' = KeyOf(slot) /\ RegistryKey(slot, request)' = RegistryKey(slot, request)
      BY <1>1 DEF Registered, ListsOfRows, KeyOf
    <3>6. RunRight'
      BY <1>1, <1>2, <2>1, <2>2, <2>5, <2>7, <2>8, <3>4, <3>5 DEF RunRight
    <3> QED BY <3>2, <3>3, <3>6 DEF CInv
  <2>9. CASE RefuseEmptyRestrictionPaths(Inputs(cells)) # "run"
    <3>1. pc' = "done" /\ outcome' \in {"error", "no_such_input"}
      BY <2>1, <2>6, <2>9 DEF Finish
    <3>2. TypeOK'
      BY <1>1, <2>3, <3>1 DEF CInv, TypeOK, callVars, Unrun
    <3>3. request.driver = "TURN_RESTRICTED_PATH"
      BY <2>9 DEF RefuseEmptyRestrictionPaths
    <3>4. Public => PathlessRestriction' /\ outcome' # "no_such_input"
      <4> SUFFICES ASSUME Public PROVE PathlessRestriction' /\ outcome' # "no_such_input"
        OBVIOUS
      <4>1. Wired /\ Argued
        BY <1>1, <2>1, RunsWired DEF Wired
      <4>2. spec.flags.driver = "TURN_RESTRICTED_PATH"
        BY <3>3, <4>1, TextsPassed
      <4>3. Takes("RESTRICTIONS_SQL")
        BY <4>1, <4>2, FitIs DEF RestrictionDrivers
      <4>4. "restrictions" \in Registered
        BY <4>1, <4>3, RegisteredIs DEF SqlOf
      <4>5. RestrictionsKey \in DOMAIN Inputs(cells)
        BY <4>1, <4>4, InputsAre DEF RestrictionsKey, KeyOf, RegistryKey, KindOf
      <4>6. RefuseEmptyRestrictionPaths(Inputs(cells)) # "no_such_input"
        BY <4>5 DEF RefuseEmptyRestrictionPaths
      <4>7. Inputs(cells)[RestrictionsKey].cell = "pathless"
        BY <2>9, <4>5 DEF RefuseEmptyRestrictionPaths
      <4>8. RestrictionsKey' = RestrictionsKey /\ request' = request /\ registry' = Inputs(cells)
        BY <1>1, <2>2 DEF RestrictionsKey
      <4>9. PathlessRestriction'
        BY <3>3, <4>5, <4>7, <4>8 DEF PathlessRestriction
      <4> QED BY <2>1, <2>9, <4>6, <4>9 DEF Finish
    <3>5. Stages' /\ Rewritten' /\ BoundRight' /\ RunRight' /\ Ended'
      BY <1>1, <1>2, <2>4, <3>1, <3>4 DEF CInv, Stages, Rewritten, BoundRight, RunRight, Ended
    <3> QED BY <3>2, <3>5 DEF CInv
  <2> QED BY <2>8, <2>9
<1>8. \/ /\ pc' = "done" /\ UNCHANGED <<ids, registry>>
         /\ outcome' \in {"error", "no_rows"}
         /\ outcome' = "error" => query.rows # 1 \/ (~no_rows /\ (NullId \/ RegisteredTwice))
      \/ \E cells : /\ query.rows = 1 /\ ~no_rows /\ ~NullId /\ ~RegisteredTwice
                     /\ MaterializeInputSlots(cells)
                     /\ LET refusal == RefuseEmptyRestrictionPaths(Inputs(cells)) IN
                        IF refusal = "run" THEN pc' = "driver" /\ UNCHANGED outcome ELSE Finish(refusal)
  BY <1>1, <1>3 DEF RunOnce, Finish, CInv, TypeOK
<1>9. ASSUME Public, ~no_rows, NullId \/ RegisteredTwice PROVE RefusedArgument
  <2> SUFFICES ASSUME ~RefusedArgument PROVE FALSE
    OBVIOUS
  <2>1. Wired
    BY <1>1, <1>9, RunsWired
  <2>2. query.row = InputRow /\ Argued /\ Given >= Required /\ ~NullInput
    BY <2>1 DEF Wired, TheQuery
  <2>3. NullId
    BY <1>9, <2>1, GivenIsRegistered
  <2>4. PICK slot \in ListsOfIds : NULL \in Range(query.row[slot].value)
    BY <2>3 DEF NullId
  <2>5. SlotOK(Int, slot, InputRow[slot]) /\ query.row[slot].type = "ids" /\ query.row[slot].value # NULL
    BY <1>3, <2>2, <2>4, InnocentRow DEF ListsOfIds, Unreadable
  <2>6. query.row[slot].value \in Seq(Int)
    BY <2>2, <2>5 DEF SlotOK
  <2>7. NULL \in Int
    BY <2>4, <2>6 DEF Range
  <2> QED BY <2>7, ValuesAssumption
<1> QED BY <1>1, <1>4, <1>6, <1>7, <1>8, <1>9, NullStops

\* The driver of a public call finds each query the caller gave.
LEMMA FoundAtDriver ==
  ASSUME CInv, pc = "driver", Public
  PROVE  /\ Wired
         /\ Lookups(request) = GivenInputs
         /\ \A key \in Lookups(request) : key \in DOMAIN registry /\ registry[key].query = key[1]
<1>1. Wired
  BY RunsWired DEF CInv, RunRight
<1>2. Lookups(request) = GivenInputs
  BY <1>1, LookupsAreGiven
<1>3. ASSUME NEW key \in Lookups(request)
      PROVE  key \in DOMAIN registry /\ registry[key].query = key[1]
  <2>1. PICK slot \in Registered : KeyOf(slot) = key
    BY <1>1, <1>2, GivenIsRegistered
  <2>2. key \in DOMAIN registry /\ registry[key].query = RegistryKey(slot, request)
    BY <2>1 DEF CInv, RunRight
  <2>3. key[1] = RegistryKey(slot, request)
    BY <2>1 DEF KeyOf
  <2> QED BY <2>2, <2>3
<1> QED BY <1>1, <1>2, <1>3

\* The driver finds what it looks up.
LEMMA RunDriverKeeps == CInv /\ RunDriver => CInv'
<1> SUFFICES ASSUME CInv, RunDriver PROVE CInv'
  OBVIOUS
<1>1. /\ pc = "driver" /\ pc' = "done" /\ outcome' \in {"no_such_input", "rows", "driver_failed", "driver_assertion"}
      /\ fetched' \subseteq DOMAIN registry
      /\ UNCHANGED <<callVars, query, request, no_rows, ids, registry>>
  BY DEF RunDriver, Finish
<1>2. /\ TheQuery' = TheQuery /\ Argued' = Argued /\ Public' = Public /\ HasNull' = HasNull
      /\ Given' = Given /\ Required' = Required /\ RefusedArgument' = RefusedArgument
  BY <1>1, CallKept
<1>3. ~(Public /\ HasNull)
  BY <1>1, NullStops DEF CInv, RunRight
<1>4. TypeOK'
  BY <1>1 DEF CInv, TypeOK, callVars
<1>5. Public => outcome' # "no_such_input"
  <2> SUFFICES ASSUME Public PROVE outcome' # "no_such_input"
    OBVIOUS
  <2>1. Lookups(request) \subseteq DOMAIN registry
    BY <1>1, FoundAtDriver
  <2>2. Lookups(request) \ DOMAIN registry = {}
    BY <2>1
  <2> QED BY <2>2 DEF RunDriver, Finish
<1>6. Stages' /\ Rewritten' /\ BoundRight' /\ RunRight' /\ Ended'
  BY <1>1, <1>2, <1>3, <1>5 DEF CInv, Stages, Rewritten, BoundRight, RunRight, Ended
<1> QED BY <1>4, <1>6 DEF CInv

\* Nothing changes.
LEMMA StutterKeeps == CInv /\ UNCHANGED vars => CInv'
<1> SUFFICES ASSUME CInv, UNCHANGED vars PROVE CInv'
  OBVIOUS
<1>1. /\ UNCHANGED <<pc, callVars, query, request, no_rows, ids, registry, fetched, outcome>>
  BY DEF vars, callVars
<1>2. /\ TheQuery' = TheQuery /\ Argued' = Argued /\ Public' = Public /\ HasNull' = HasNull
      /\ Given' = Given /\ Required' = Required /\ RefusedArgument' = RefusedArgument
  BY <1>1, CallKept
<1>3. TypeOK'
  BY <1>1 DEF CInv, TypeOK, callVars
<1>4. Stages' /\ Rewritten' /\ Ended'
  <2>1. PathlessRestriction' = PathlessRestriction
    BY <1>1 DEF PathlessRestriction, RestrictionsKey
  <2> QED BY <1>1, <1>2, <2>1 DEF CInv, Stages, Rewritten, Ended, callVars, Unbound, Unrun
<1>5. BoundRight'
  BY <1>1 DEF CInv, BoundRight, BindCheck
<1>6. RunRight'
  <2>1. /\ NullId' = NullId /\ RegisteredTwice' = RegisteredTwice /\ ListsOfIds' = ListsOfIds
        /\ RefuseEmptyRestrictionPaths(registry)' = RefuseEmptyRestrictionPaths(registry)
    BY <1>1 DEF NullId, RegisteredTwice, ListsOfIds, Registered, ListsOfRows, KeyOf,
                RefuseEmptyRestrictionPaths, RestrictionsKey
  <2>2. /\ Registered' = Registered
        /\ \A slot : KeyOf(slot)' = KeyOf(slot) /\ RegistryKey(slot, request)' = RegistryKey(slot, request)
    BY <1>1 DEF Registered, ListsOfRows, KeyOf
  <2> QED BY <1>1, <1>2, <2>1, <2>2 DEF CInv, RunRight
<1> QED BY <1>3, <1>4, <1>5, <1>6 DEF CInv

\* The invariant: a rewritten call carries its arguments through binding, checks and the
\* registry to its driver, for any tables that pass CheckSpec and fit their drivers.
THEOREM RewriteInvariance == Spec => []CInv
<1>1. CInv /\ [Next]_vars => CInv'
  BY CallOverloadKeeps, WriteArgumentKeeps, NameArgumentKeeps, BindReplaceKeeps, CallExecKeeps,
     ExecBindKeeps, RunOnceKeeps, RunDriverKeeps, StutterKeeps DEF Next
<1> QED BY <1>1, InitHolds, PTL DEF Spec

\* The variables have the types of the bind and global states of exec_function.cpp.
THEOREM RewriteTypes == Spec => []TypeOK
<1>1. CInv => TypeOK
  BY DEF CInv
<1> QED BY <1>1, RewriteInvariance, PTL

\* A NULL anywhere in a public call yields no rows and no driver run: the functions are
\* strict, as the PostgreSQL ones they stand for.
THEOREM NullsAreStrict == Spec => []StrictNulls
<1>1. CInv => StrictNulls
  BY NullStops DEF CInv, StrictNulls, Ended, RunRight, AtDriver
<1> QED BY <1>1, RewriteInvariance, PTL

\* No call, rewritten or direct, reads a column as a type it does not have, so the only
\* InternalException left is the one for an assertion of pgRouting that fails.
THEOREM OnlyAssertionsInvalidate == Spec => []OnlyAssertionsAreInternal
<1>1. CInv => OnlyAssertionsAreInternal
  BY DEF CInv, Ended, OnlyAssertionsAreInternal
<1> QED BY <1>1, RewriteInvariance, PTL

\* A driver is only run on a request of which every parameter its C entry checks is in the
\* range that entry takes, whoever has made the call.
THEOREM DriversAreChecked == Spec => []CheckedFirst
<1>1. CInv => CheckedFirst
  <2> SUFFICES ASSUME CInv, pc = "driver" PROVE CheckedFirst
    BY DEF CheckedFirst, AtDriver
  <2>1. CheckRequest(request) \in {"run", "error", "no_rows"}
    BY DEF CheckRequest
  <2>2. CheckRequest(request) = "run"
    BY <2>1 DEF CInv, BoundRight, RunRight, BindCheck
  <2>3. RefuseEmptyRestrictionPaths(registry) = "run"
    BY DEF CInv, RunRight
  <2>4. request.driver = "TURN_RESTRICTED_PATH" => registry[RestrictionsKey].cell # "pathless"
    BY <2>3 DEF RefuseEmptyRestrictionPaths
  <2>5. request.driver \in DRIVERS
    BY DEF CInv, BoundRight
  <2>6. request.driver \in {"KSP", "WITH_POINTS_KSP", "TURN_RESTRICTED_PATH"} => request.k >= 0
    BY <2>2 DEF CheckRequest, CheckOf
  <2>7. request.driver \in TakesPoints \ {"SHORTEST_PATH"} =>
          request.driving_side \in {"r", "R", "l", "L", "b", "B"}
    BY <2>2 DEF CheckRequest, CheckOf, TakesPoints, ValidSide
  <2>8. request.driver \in {"DRIVING_DISTANCE", "WITH_POINTS_DD"} => request.distance >= 0
    BY <2>2 DEF CheckRequest, CheckOf
  <2>9. request.driver \in {"BREADTH_FIRST_SEARCH", "DEPTH_FIRST_SEARCH"} => request.max_depth >= 0
    BY <2>2 DEF CheckRequest, CheckOf
  <2>10. request.driver \in {"KRUSKAL", "PRIM"} =>
           /\ request.mst_suffix = "DD" => request.distance >= 0
           /\ request.mst_suffix \in {"BFS", "DFS"} => request.max_depth >= 0
    BY <2>2 DEF CheckRequest, CheckOf, TreeParameters
  <2>11. request.driver = "CONTRACTION" => request.cycles >= 1
    BY <2>2 DEF CheckRequest, CheckOf
  <2>12. request.driver \in {"ASTAR", "BD_ASTAR"} =>
           request.heuristic \in 0 .. 5 /\ request.factor > 0 /\ request.epsilon >= 1
    BY <2>2 DEF CheckRequest, CheckOf, AStarParameters
  <2>13. request.driver = "MAX_FLOW" => request.algorithm \in 1 .. 3
    BY <2>2 DEF CheckRequest, CheckOf, FlowAlgorithm
  <2> QED BY <2>4, <2>5, <2>6, <2>7, <2>8, <2>9, <2>10, <2>11, <2>12, <2>13 DEF CheckedFirst
<1> QED BY <1>1, RewriteInvariance, PTL

\* The driver of a public call finds each input it looks up, filled from the query the
\* caller gave for it: the keys RunOnce registers are those the driver asks for.
THEOREM InputsAreFound == Spec => []InputsArrive
<1>1. CInv => InputsArrive
  BY FoundAtDriver DEF CInv, Ended, InputsArrive, AtDriver
<1> QED BY <1>1, RewriteInvariance, PTL

\* A public call fails before its driver only where an argument of it is refused, or where
\* the restrictions the caller's query gave for a turn-restricted path have one without a path.
THEOREM CallersErrAlone == Spec => []ErrorsAreTheCallers
<1>1. CInv => ErrorsAreTheCallers
  BY DEF CInv, Ended, ErrorsAreTheCallers, OnlyAssertionsAreInternal
<1> QED BY <1>1, RewriteInvariance, PTL

\* Every value a caller gives, in whatever position or by name, reaches the driver as the
\* parameter it was given for, and a defaulted parameter it has not given has its default.
THEOREM ParametersAreGiven == Spec => []ParametersArrive
<1>1. CInv => ParametersArrive
  <2> SUFFICES ASSUME CInv, Public, pc = "driver" PROVE ParametersArrive
    BY DEF ParametersArrive, AtDriver
  <2>1. Wired /\ Argued /\ Given >= Required /\ ~NullInput /\ query.row = InputRow
    BY FoundAtDriver DEF Wired, TheQuery
  <2>2. request = ReadRequestParameters(RequestArguments(RequestOf))
    BY <2>1 DEF Wired, TheQuery
  <2>3. ASSUME NEW n \in 1 .. Len(spec.optionals)
        PROVE  (IF IsListType(spec.optionals[n].type) THEN ids[spec.optionals[n].request_field]
                                                      ELSE request[spec.optionals[n].request_field])
                 = ResolveOptional(n)
    <3> DEFINE f == spec.optionals[n].request_field
    <3>1. CASE IsListType(spec.optionals[n].type)
      <4>1. f \in DOMAIN InputRow \cap IdSlots /\ InputRow[f] = Ids(ResolveOptional(n))
        BY <2>1, <3>1, RowSlotsAre
      <4>2. InputRow[f].value = ResolveOptional(n) /\ ResolveOptional(n) # NULL
        BY <2>1, <4>1, NothingNull DEF Ids
      <4> HIDE DEF f
      <4>3. f \in ListsOfIds
        BY <2>1, <4>1, <4>2 DEF ListsOfIds
      <4>4. ids = [slot \in ListsOfIds |-> query.row[slot].value]
        BY DEF CInv, RunRight
      <4>5. ids[f] = ResolveOptional(n)
        BY <2>1, <4>2, <4>3, <4>4
      <4> QED BY <3>1, <4>5 DEF f
    <3>2. CASE ~IsListType(spec.optionals[n].type)
      BY <2>1, <2>2, <3>2, PassedIs
    <3> QED BY <3>1, <3>2
  <2>4. ASSUME NEW kind \in DOMAIN ParameterOf, Takes(kind)
        PROVE  request[ParameterOf[kind]] = FromValue(ParameterOf[kind], Argument(kind))
    <3>1. CASE kind = "DRIVING_SIDE"
      BY <2>1, <2>2, <2>4, <3>1, PassedIs DEF ParameterOf
    <3>2. CASE kind # "DRIVING_SIDE"
      <4>1. ParameterOf[kind] # "driving_side"
        BY <2>4, <3>2 DEF ParameterOf
      <4>2. request[ParameterOf[kind]] = Argument(kind)
        BY <2>1, <2>2, <2>4, <3>2, PassedIs
      <4> QED BY <4>1, <4>2 DEF FromValue
    <3> QED BY <3>1, <3>2
  <2>5. spec.flags.driving_side = "FROM_DIRECTED" =>
          request.driving_side = IF request.directed THEN "r" ELSE "b"
    BY <2>1, <2>2, PassedIs
  <2> QED BY <2>3, <2>4, <2>5 DEF ParametersArrive, ResolveOptional
<1> QED BY <1>1, RewriteInvariance, PTL

\* What an overload selects fits how its driver was run: the flags a row of the tables sets
\* reach the driver through the rewrite, the arguments of _pgr_exec and their reading, and
\* nothing on the way changes them, so what fits in the tables (FitsProjection) fits in a run.
THEOREM CostsAreOfCostRuns == Spec => []OneRowPerPair
<1>1. CInv => OneRowPerPair
  <2> SUFFICES ASSUME CInv, Public, pc = "driver" PROVE OneRowPerPair
    BY DEF OneRowPerPair, AtDriver
  <2>1. Wired /\ Argued /\ Given >= Required /\ ~NullInput
    BY FoundAtDriver DEF Wired, TheQuery
  <2>2. request = ReadRequestParameters(RequestArguments(RequestOf))
    BY <2>1 DEF Wired, TheQuery
  <2>3. CheckSpec(spec) /\ FitsProjection(spec)
    BY <2>1, SpecsAssumption DEF Argued
  <2>4. request.driver = spec.flags.driver
    BY <2>1, <2>2, PassedIs
  <2>5. /\ request.only_cost = spec.flags.only_cost
        /\ \/ request.n_goals = 0
           \/ spec.flags.n_goals # 0
           \/ \E n \in DOMAIN spec.optionals : spec.optionals[n].request_field = "n_goals"
    BY <2>1, <2>2, CostRunPassed
  <2>6. spec.flags.projection \in {"COST", "COST_SORTED"} => request.only_cost
    BY <2>3, <2>5, Zenon DEF FitsProjection
  <2>7. request.n_goals # 0 => ~request.only_cost
    BY <2>3, <2>5, Zenon DEF FitsProjection
  <2>8. /\ spec.flags.projection \in {"COST", "COST_SORTED", "COST_OF_PATH"} => ShapeOf(request.driver) = "PATH"
        /\ spec.flags.projection = "EDGE_COST" => ShapeOf(request.driver) = "MST"
    BY <2>3, <2>4 DEF CheckSpec
  <2> QED BY <2>6, <2>7, <2>8 DEF OneRowPerPair
<1> QED BY <1>1, RewriteInvariance, PTL

=============================================================================
