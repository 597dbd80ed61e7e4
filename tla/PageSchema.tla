----------------------------- MODULE PageSchema ------------------------------
(****************************************************************************)
(* The schema a caller hands to vindicate_generate_code for browser tests   *)
(* (schema.ts), what validate-codegen.ts accepts of it, and what the        *)
(* writers (page-object.ts, spec-writer.ts) turn it into.                   *)
(*                                                                          *)
(* A validator is a predicate: no error.  A TypeScript expression is        *)
(* [kind, keys, text]: its kind, the keys of `expected` it reads, and the   *)
(* value of a literal.  A written file is what other files and the compiler *)
(* see of it: fields, methods, imports, calls.                              *)
(****************************************************************************)
EXTENDS LocatorSource, Functions, FiniteSetsExt

CONSTANTS
  LowerFirst,     \* class name -> the same with a small first letter
  StepNames,      \* names of methods that begin with step_
  VerifyNames,    \* ... and with verify_
  CredentialRefs, \* refs that read like a credential
  CamelOf,        \* feature -> its slug in camel case, [-_] folded
  DashCamelOf     \* feature -> its slug with only dashes folded

ASSUME NamesAssumption ==
  /\ StepNames \cap VerifyNames = {}
  /\ DOMAIN DashCamelOf = DOMAIN CamelOf
  /\ \A feature \in DOMAIN CamelOf :
       None \notin {feature, CamelOf[feature], DashCamelOf[feature]}

IsSequence(s) == Len(s) \in Nat /\ DOMAIN s = 1..Len(s)

FixtureOf(class) == LowerFirst[class]

Refs(page) == {page.elements[i].ref : i \in DOMAIN page.elements}

(*------------------------ what the tool lets through ----------------------*)
RefVerbs == {"fill", "type", "click", "click_if_visible", "hover", "check", "uncheck",
             "select", "upload", "dblclick", "drag", "scroll"}
Verbs == RefVerbs \cup {"navigate", "waitForPageLoad", "waitForURL", "waitForResponse",
                        "press", "accept_dialog", "dismiss_dialog"}
Matchers == {"toBeVisible", "toBeHidden", "toBeDisabled", "toBeEnabled", "toBeChecked",
             "toContainText", "toHaveText", "toHaveValue", "toHaveCount",
             "toHaveAttribute", "toHaveClass", "toHaveURL", "toHaveTitle", "toHaveCSS",
             "toBeEmpty", "toBeFocused"}

ElementShape(element) == element.ref # None /\ element.tag # None

ActionShape(action) ==
  /\ action.do \in Verbs
  /\ (action.ref # None) = (action.do \in RefVerbs)
  /\ (action.to # None) = (action.do = "drag")
  /\ (action.pattern # None) = (action.do \in {"waitForURL", "waitForResponse"})
  /\ action.value # None \/ action.param # None =>
       action.do \in {"fill", "select", "type"}

AssertionShape(assertion) ==
  /\ assertion.subject \in {"page", "element"} /\ assertion.matcher \in Matchers
  /\ (assertion.ref # None) = (assertion.subject = "element")

StepShape(step) ==
  /\ step.name \in StepNames
  /\ step.actions # <<>> /\ \A a \in Range(step.actions) : ActionShape(a)
VerifyShape(verify) ==
  /\ verify.name \in VerifyNames
  /\ verify.assertions # <<>> /\ \A a \in Range(verify.assertions) : AssertionShape(a)

PageShape(page) ==
  /\ page.class \in DOMAIN LowerFirst /\ page.owner \in DOMAIN CamelOf
  /\ page.panel \in BOOLEAN /\ page.path \in BOOLEAN
  /\ IsSequence(page.elements) /\ IsSequence(page.steps) /\ IsSequence(page.verifies)
  /\ \A e \in Range(page.elements) : ElementShape(e)
  /\ \A s \in Range(page.steps) : StepShape(s)
  /\ \A v \in Range(page.verifies) : VerifyShape(v)

CasesShape(cases) ==
  /\ IsSequence(cases) /\ cases # <<>>
  /\ \A c \in Range(cases) : c.body # <<>>

SchemaShape(schema) ==
  /\ IsSequence(schema.pages) /\ schema.pages # <<>>
  /\ \A page \in Range(schema.pages) : PageShape(page)
  /\ CasesShape(schema.spec.cases)

(*------------------------------ expressions -------------------------------*)
Parses(expr) == expr.kind # "broken"
QuotedEnv(expr) == expr.kind = "quotedEnv"
MalformedGlob(pattern) == pattern = "malformed"
UnsafeGlob(expr) == expr.kind = "glob"
InlineString(expr) == expr.kind \in {"string", "glob", "quotedEnv"}

HasExpected(expected) == expected # None /\ DOMAIN expected # {}

(* A literal in an expression: with no `expected` it should be there; with   *)
(* one, it should not repeat what is there.  Paths are no test data.         *)
NoInlineData(expr, expected) ==
  InlineString(expr) \/ expr.kind = "regex" =>
    /\ HasExpected(expected)
    /\ \A key \in DOMAIN expected : expected[key] # expr.text

ExpectedRefsFit(expr, expected) ==
  expr.keys # {} => expected # None /\ expr.keys \subseteq DOMAIN expected

ExpectedShapeFits(expected) ==
  expected # None => DOMAIN expected # {} /\ IsInjective(expected)

(*--------------------------------- a page ---------------------------------*)
RefsUnique(page) ==
  /\ IsInjective([i \in DOMAIN page.elements |-> page.elements[i].ref])
  /\ IsInjective([i \in DOMAIN page.elements |-> FieldName(page.elements[i])])

RefArgsFit(page, ref, args) ==
  \A i \in DOMAIN page.elements :
    page.elements[i].ref = ref =>
      /\ Len(args) = Len(page.elements[i].dynamic)
      /\ \A j \in DOMAIN args : Parses(args[j])

ValueOrParam(step, action) ==
  /\ (action.value = None) # (action.param = None)
  /\ action.param # None =>
       \E i \in DOMAIN step.params : step.params[i] = action.param

SecretInStep(action) ==
  /\ action.value # None
  /\ action.ref \in CredentialRefs \/ action.value = "email"

(* A slip: where something is dragged to is not looked up. *)
ActionFitsButDrag(page, step, action) ==
  /\ action.ref # None => /\ action.ref \in Refs(page)
                          /\ RefArgsFit(page, action.ref, action.args)
  /\ action.do \in {"fill", "select", "type"} =>
       ValueOrParam(step, action) /\ ~SecretInStep(action)
  /\ action.do = "waitForURL" => ~MalformedGlob(action.pattern)

ActionFits(page, step, action) ==
  /\ action.ref # None => /\ action.ref \in Refs(page)
                          /\ RefArgsFit(page, action.ref, action.args)
  /\ action.do = "drag" => /\ action.to \in Refs(page)
                           /\ RefArgsFit(page, action.to, action.toArgs)
  /\ action.do \in {"fill", "select", "type"} =>
       ValueOrParam(step, action) /\ ~SecretInStep(action)
  /\ action.do = "waitForURL" => ~MalformedGlob(action.pattern)

AssertionFits(page, assertion) ==
  /\ assertion.subject = "element" =>
       /\ assertion.ref \in Refs(page)
       /\ RefArgsFit(page, assertion.ref, assertion.args)
  /\ assertion.arg # None =>
       /\ Parses(assertion.arg)
       /\ assertion.subject = "page" /\ assertion.matcher = "toHaveURL" =>
            ~UnsafeGlob(assertion.arg)

MethodNamesUnique(page) ==
  /\ IsInjective([i \in DOMAIN page.steps |-> page.steps[i].name])
  /\ IsInjective([i \in DOMAIN page.verifies |-> page.verifies[i].name])

PlaceholdersAgree(element) ==
  CheckedHoles(element) = Range(element.dynamic)

ElementFits(element) ==
  /\ LocatorDerives(element)
  /\ element.locator # None /\ element.locator.container # None =>
       element.locator.strategy = "scoped"
  /\ PlaceholdersAgree(element)

PathFits(page) == page.panel # page.path

PageFits(page) ==
  /\ RefsUnique(page)
  /\ \A i \in DOMAIN page.steps : \A j \in DOMAIN page.steps[i].actions :
       ActionFits(page, page.steps[i], page.steps[i].actions[j])
  /\ \A i \in DOMAIN page.verifies :
       \A j \in DOMAIN page.verifies[i].assertions :
         AssertionFits(page, page.verifies[i].assertions[j])
  /\ MethodNamesUnique(page)
  /\ \A i \in DOMAIN page.elements : ElementFits(page.elements[i])
  /\ PathFits(page)

(*-------------------------------- the spec --------------------------------*)
Bodies(spec) == {spec.before} \cup {spec.cases[i].body : i \in DOMAIN spec.cases}
CallsOf(spec) == UNION {Range(body) : body \in Bodies(spec)}
SpecFixtures(spec) == {call.fixture : call \in CallsOf(spec)}

(* The last page whose class gives the fixture must be the feature's own.    *)
OwnedByFits(schema, feature) ==
  LET fixtures == [i \in DOMAIN schema.pages |-> FixtureOf(schema.pages[i].class)]
  IN  \A i \in DOMAIN schema.pages :
        /\ fixtures[i] \in SpecFixtures(schema.spec)
        /\ \A j \in DOMAIN schema.pages : j > i => fixtures[j] # fixtures[i]
        => schema.pages[i].owner = feature

PageMethods(page) ==
  {<<m.name, Len(m.params)>> : m \in Range(page.steps) \cup Range(page.verifies)}

(* pages.find: the first page whose class gives the fixture.                 *)
PageOf(schema, fixture) ==
  LET given == {i \in DOMAIN schema.pages : FixtureOf(schema.pages[i].class) = fixture}
  IN  IF given = {} THEN None ELSE schema.pages[Min(given)]

BodyCallFits(schema, call) ==
  /\ PageOf(schema, call.fixture) # None
  /\ <<call.call, Len(call.args)>> \in PageMethods(PageOf(schema, call.fixture))
  /\ \A i \in DOMAIN call.args : Parses(call.args[i]) /\ ~QuotedEnv(call.args[i])

AssertionArgs(page) ==
  {a.arg : a \in UNION {Range(v.assertions) : v \in Range(page.verifies)}} \ {None}

ExpectedFits(schema) ==
  LET exprs == (UNION {AssertionArgs(page) : page \in Range(schema.pages)})
                 \cup UNION {Range(call.args) : call \in CallsOf(schema.spec)}
  IN  /\ ExpectedShapeFits(schema.expected)
      /\ \A expr \in exprs : /\ ExpectedRefsFit(expr, schema.expected)
                             /\ NoInlineData(expr, schema.expected)

(* A waited-for response must be one that was seen in the live application.  *)
WaitsFit(schema) ==
  \A page \in Range(schema.pages) : \A step \in Range(page.steps) :
    \A action \in Range(step.actions) :
      action.do = "waitForResponse" => action.pattern \in schema.observed

CrossReferencesFit(schema) ==
  LET cases == schema.spec.cases
  IN  /\ IsInjective([i \in DOMAIN cases |-> cases[i].id])
      /\ \A i \in DOMAIN cases : cases[i].prefixed
      /\ \A call \in CallsOf(schema.spec) : BodyCallFits(schema, call)

StructureFits(schema, feature) ==
  /\ \A i \in DOMAIN schema.pages : PageFits(schema.pages[i])
  /\ OwnedByFits(schema, feature)

Valid(schema, feature) ==
  /\ StructureFits(schema, feature)
  /\ ExpectedFits(schema)
  /\ WaitsFit(schema)
  /\ CrossReferencesFit(schema)

(*------------------------- what the writers produce -----------------------*)
(* deduplicateFieldNames: a name taken before gets a number; of two elements *)
(* with one ref the later one's name is written for both.                    *)
FieldOf(page, ref) ==
  LET Base(i) == FieldName(page.elements[i])
      last == Max({i \in DOMAIN page.elements : page.elements[i].ref = ref})
  IN  <<Base(last), Cardinality({j \in 1..(last - 1) : Base(j) = Base(last)})>>

Actions(page) == UNION {Range(step.actions) : step \in Range(page.steps)}
Assertions(page) == UNION {Range(v.assertions) : v \in Range(page.verifies)}

(* The refs the methods go through, each with the arguments it is given.     *)
RefUses(page) ==
  {<<a.ref, a.args>> : a \in {x \in Actions(page) : x.ref # None}}
    \cup {<<a.to, a.toArgs>> : a \in {x \in Actions(page) : x.do = "drag"}}
    \cup {<<a.ref, a.args>> : a \in {x \in Assertions(page) :
                                       x.subject = "element"}}

(* makeLocate: a field for a static element, a call for a dynamic one, and   *)
(* the bare ref for what is no element at all.                               *)
Located(page, use) ==
  LET ref == use[1]
      dynamic == \E e \in Range(page.elements) : e.ref = ref /\ IsDynamic(e)
      field == IF ref \in Refs(page) THEN FieldOf(page, ref) ELSE <<<<ref>>, 0>>
  IN  <<field, IF dynamic THEN Len(use[2]) ELSE 0>>

DynamicArgs(page) ==
  UNION {Range(use[2]) : use \in {u \in RefUses(page) :
    \E e \in Range(page.elements) : e.ref = u[1] /\ IsDynamic(e)}}

(* A value that is neither a literal nor a parameter of its step.            *)
Unbound(step) ==
  \E a \in Range(step.actions) :
    /\ a.do \in {"fill", "select", "type"}
    /\ IF a.param = None THEN a.value = None
                         ELSE a.param \notin Range(step.params)

KeysIn(exprs) == UNION {expr.keys : expr \in exprs}

(* The page object, with `expected` imported under the barrel's name when a  *)
(* verify reads it.                                                          *)
PageFile(page, barrel) ==
  [kind    |-> "page",
   class   |-> page.class,
   fields  |-> [i \in DOMAIN page.elements |->
                  [name   |-> FieldOf(page, page.elements[i].ref),
                   params |-> page.elements[i].dynamic,
                   reads  |-> WrittenHoles(page.elements[i])]],
   methods |-> [i \in DOMAIN page.steps |-> page.steps[i].name]
                 \o [i \in DOMAIN page.verifies |-> page.verifies[i].name],
   offers  |-> PageMethods(page),
   uses    |-> {Located(page, use) : use \in RefUses(page)},
   bound   |-> \A step \in Range(page.steps) : ~Unbound(step),
   parses  |-> \A e \in AssertionArgs(page) \cup DynamicArgs(page) : Parses(e),
   keys    |-> KeysIn(AssertionArgs(page)),
   refKeys |-> KeysIn(DynamicArgs(page)),
   imports |-> IF KeysIn(AssertionArgs(page)) = {} THEN None ELSE barrel]

BarrelFor(schema, feature) ==
  IF schema.expected = None THEN None ELSE CamelOf[feature]

(* What the compiler asks of a page object by itself.                        *)
PageCompiles(file) ==
  /\ IsInjective([i \in DOMAIN file.fields |-> file.fields[i].name])
  /\ IsInjective(file.methods)
  /\ file.uses \subseteq {<<f.name, Len(f.params)>> : f \in Range(file.fields)}
  /\ \A f \in Range(file.fields) : f.reads \subseteq Range(f.params)
  /\ file.bound /\ file.parses
  /\ file.keys \cup file.refKeys # {} => file.imports # None

Asked(calls) == {<<c.fixture, c.call, Len(c.args)>> : c \in calls}
ArgsOf(calls) == UNION {Range(c.args) : c \in calls}

(* The spec imports `expected` by the name the slug has when only its dashes *)
(* are folded.                                                               *)
SpecFile(schema, feature) ==
  [kind    |-> "spec",
   asks    |-> Asked(CallsOf(schema.spec)),
   ids     |-> [i \in DOMAIN schema.spec.cases |-> schema.spec.cases[i].id],
   keys    |-> KeysIn(ArgsOf(CallsOf(schema.spec))),
   parses  |-> \A e \in ArgsOf(CallsOf(schema.spec)) : Parses(e),
   imports |-> IF HasExpected(schema.expected) THEN DashCamelOf[feature] ELSE None,
   builds  |-> {}, builders |-> {}, captures |-> TRUE]

(* auth.setup.ts: the first case again, its pages imported by class.         *)
AuthSetupFile(schema, feature) ==
  LET calls == Range(schema.spec.cases[1].body)
  IN  [kind    |-> "setup",
       asks    |-> Asked(calls),
       classes |-> {PageOf(schema, c.fixture).class : c \in calls},
       imports |-> IF HasExpected(schema.expected) THEN CamelOf[feature] ELSE None]

(* New tests go before the end of the describe block, whatever they call.    *)
AppendCases(spec, calls, ids) ==
  [spec EXCEPT !.asks = @ \cup Asked(calls), !.ids = @ \o ids,
               !.keys = @ \cup KeysIn(ArgsOf(calls)),
               !.parses = @ /\ \A e \in ArgsOf(calls) : Parses(e)]

SpecCompiles(spec) ==
  /\ spec.parses
  /\ spec.keys # {} => spec.imports # None
  /\ IsInjective(spec.ids)
  /\ spec.builds \subseteq spec.builders
  /\ spec.captures
==============================================================================
