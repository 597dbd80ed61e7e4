---------------------------- MODULE ClientSchema -----------------------------
(****************************************************************************)
(* The schema for API tests (api-schema.ts), what api-validate-codegen.ts   *)
(* accepts of it, and what api-client.ts and api-spec-writer.ts make of it. *)
(* Expressions are those of PageSchema; `new` is one that constructs the    *)
(* builder its text names, `bare` an identifier that is declared nowhere.   *)
(*                                                                          *)
(* A method is [name, path, params, body]: path is [slash, holes], body     *)
(* says whether it takes one.  A call is [fixture, call, args, capture,     *)
(* asserts]: a capture is None or [as, field], an assert is None (the       *)
(* matcher takes no argument) or an expression.                             *)
(****************************************************************************)
EXTENDS PageSchema, TLC

(*------------------------ what the tool lets through ----------------------*)
ClientShape(client) ==
  /\ client.owner \in DOMAIN CamelOf
  /\ IsSequence(client.fixtures) /\ client.fixtures # <<>>
  /\ IsSequence(client.methods) /\ client.methods # <<>>
  /\ \A m \in Range(client.methods) : m.body \in BOOLEAN

ApiCallShape(call) ==
  /\ call.asserts # <<>>
  /\ call.capture # None => call.capture.as # None

ApiSchemaShape(schema) ==
  /\ IsSequence(schema.clients) /\ schema.clients # <<>>
  /\ \A client \in Range(schema.clients) : ClientShape(client)
  /\ IsSequence(schema.builders)
  /\ \A builder \in Range(schema.builders) : builder.fields # <<>>
  /\ CasesShape(schema.spec.cases)
  /\ \A case \in Range(schema.spec.cases) : \A call \in Range(case.body) :
       ApiCallShape(call)

(*------------------------------- validation -------------------------------*)
NoLeadingSlash(method) == ~method.path.slash

PathParamsAgree(method) == method.path.holes = Range(method.params)

(* Every fixture is declared once, over all clients and within one.          *)
FixturesUnique(clients) ==
  LET Places == UNION {{<<i, k>> : k \in DOMAIN clients[i].fixtures} : i \in DOMAIN clients}
  IN  \A p, q \in Places :
        clients[p[1]].fixtures[p[2]] = clients[q[1]].fixtures[q[2]] => p = q

ClientsFit(schema, feature) ==
  LET clients == schema.clients
  IN  /\ IsInjective([i \in DOMAIN clients |-> clients[i].class])
      /\ FixturesUnique(clients)
      /\ \A client \in Range(clients) :
           /\ client.owner = feature
           /\ IsInjective([i \in DOMAIN client.methods |-> client.methods[i].name])
           /\ \A method \in Range(client.methods) :
                NoLeadingSlash(method) /\ PathParamsAgree(method)

StringExpression(expr) ==
  expr.kind \in {"string", "path", "glob", "quotedEnv", "env", "expected"}

(* The default of a string field is pasted as it stands.                     *)
BuildersFit(schema) ==
  \A builder \in Range(schema.builders) : \A field \in Range(builder.fields) :
    /\ field.string => StringExpression(field.default)
    /\ Parses(field.default)

ApiCalls(cases) == UNION {Range(cases[i].body) : i \in DOMAIN cases}
AssertsOf(call) == Range(call.asserts) \ {None}

ApiExpectedFits(schema) ==
  /\ ExpectedShapeFits(schema.expected)
  /\ \A call \in ApiCalls(schema.spec.cases) :
       \A expr \in Range(call.args) \cup AssertsOf(call) :
         ExpectedRefsFit(expr, schema.expected)

(* Path parameters first, then the body.                                     *)
Arity(method) == Len(method.params) + (IF method.body THEN 1 ELSE 0)
ClientMethods(client) == {<<m.name, Arity(m)>> : m \in Range(client.methods)}

(* The first client that declares the fixture.                               *)
ClientOf(schema, fixture) ==
  LET given == {i \in DOMAIN schema.clients : fixture \in Range(schema.clients[i].fixtures)}
  IN  IF given = {} THEN None ELSE schema.clients[Min(given)]

ApiCallFits(schema, call) ==
  /\ ClientOf(schema, call.fixture) # None
  /\ <<call.call, Len(call.args)>> \in ClientMethods(ClientOf(schema, call.fixture))
  /\ \A expr \in Range(call.args) : Parses(expr) /\ ~QuotedEnv(expr)
  /\ \A expr \in AssertsOf(call) : Parses(expr)

(* The variable that holds the answer of a test's i-th call.                 *)
ResponseVar(i) == IF i = 1 THEN "response" ELSE "response" \o ToString(i)

CaptureNames(calls) ==
  LET captures == SelectSeq(calls, LAMBDA c : c.capture # None)
  IN  [i \in DOMAIN captures |-> captures[i].capture.as]

(* A captured value is a const of the test, beside the answers' variables.   *)
NamesDistinct(calls) ==
  IsInjective([i \in DOMAIN calls |-> ResponseVar(i)] \o CaptureNames(calls))

CapturesFit(calls) ==
  /\ NamesDistinct(calls)
  /\ \A i \in DOMAIN calls : calls[i].capture # None =>
       /\ calls[i].capture.as # "1st"
       /\ calls[i].capture.field \notin {"body_json", "status_text"}

ApiCrossReferencesFit(schema) ==
  LET cases == schema.spec.cases
  IN  /\ IsInjective([i \in DOMAIN cases |-> cases[i].id])
      /\ \A i \in DOMAIN cases : cases[i].prefixed /\ CapturesFit(cases[i].body)
      /\ \A call \in ApiCalls(cases) : ApiCallFits(schema, call)

ApiValid(schema, feature) ==
  /\ ClientsFit(schema, feature)
  /\ BuildersFit(schema)
  /\ ApiExpectedFits(schema)
  /\ ApiCrossReferencesFit(schema)

(*------------------------- what the writers produce -----------------------*)
(* A hole of the path with no parameter stays a brace; a parameter with no   *)
(* hole is merely unused.                                                    *)
ClientFile(client) ==
  [kind    |-> "client",
   class   |-> client.class,
   methods |-> [i \in DOMAIN client.methods |-> client.methods[i].name],
   offers  |-> ClientMethods(client),
   open    |-> \E m \in Range(client.methods) :
                 ~(m.path.holes \subseteq Range(m.params)),
   absolute |-> \E m \in Range(client.methods) : m.path.slash]

ClientCompiles(file) ==
  /\ IsInjective(file.methods)
  /\ ~file.open /\ ~file.absolute

(* Nothing is imported for the defaults: an identifier, or a key of expected,*)
(* is bound to nothing.                                                      *)
BuilderFile(builder) ==
  LET fields == Range(builder.fields)
  IN  [kind   |-> "builder",
       class  |-> builder.class,
       client |-> builder.client,
       parses |-> \A f \in fields : Parses(f.default),
       loose  |-> {[string |-> f.string, kind |-> f.default.kind] :
                     f \in {g \in fields : g.default.kind = "bare" \/ g.default.keys # {}}}]

BuilderCompiles(file) == file.parses /\ file.loose = {}

Constructed(calls) ==
  {e.text : e \in {x \in UNION {Range(c.args) : c \in calls} : x.kind = "new"}}

Classes(defs) == {d.class : d \in Range(defs)}

(* A builder is imported when an argument constructs it.                     *)
ApiSpecFile(schema, feature) ==
  LET cases == schema.spec.cases
      calls == ApiCalls(cases)
      exprs == UNION {Range(c.args) \cup AssertsOf(c) : c \in calls}
  IN  [kind     |-> "spec",
       asks     |-> Asked(calls),
       ids      |-> [i \in DOMAIN cases |-> cases[i].id],
       keys     |-> KeysIn(exprs),
       parses   |-> \A e \in exprs : Parses(e),
       imports  |-> IF HasExpected(schema.expected) THEN feature ELSE None,
       builds   |-> Constructed(calls),
       builders |-> Constructed(calls) \cap Classes(schema.builders),
       captures |-> \A i \in DOMAIN cases : NamesDistinct(cases[i].body)]

AppendApiCases(spec, cases) ==
  LET exprs == UNION {Range(c.args) \cup AssertsOf(c) : c \in ApiCalls(cases)}
  IN  [spec EXCEPT
         !.asks     = @ \cup Asked(ApiCalls(cases)),
         !.ids      = @ \o [i \in DOMAIN cases |-> cases[i].id],
         !.keys     = @ \cup KeysIn(exprs),
         !.parses   = @ /\ \A e \in exprs : Parses(e),
         !.builds   = @ \cup Constructed(ApiCalls(cases)),
         !.captures = @ /\ \A i \in DOMAIN cases : NamesDistinct(cases[i].body)]
==============================================================================
