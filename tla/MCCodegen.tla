------------------------------ MODULE MCCodegen ------------------------------
(****************************************************************************)
(* Codegen on a project of three features: two good browser schemas, one    *)
(* with every flaw the validator knows, their API twins, and the calls that *)
(* add to what is there.                                                    *)
(****************************************************************************)
EXTENDS Codegen

CONSTANTS c1, c2
MCSymmetry == Permutations({c1, c2})

MCLowerFirst == [class \in {"Login", "Menu"} |->
                   IF class = "Login" THEN "login" ELSE "menu"]
MCStepNames == {"step_enter"}
MCVerifyNames == {"verify_told"}
MCCredentialRefs == {"password"}
MCCamelOf == [f \in {"auth", "reauth", "user_profile"} |->
                CASE f = "user_profile" -> "userProfile" [] OTHER -> f]
MCDashCamelOf == [f \in {"auth", "reauth", "user_profile"} |-> f]
MCSaidInside == {<<"auth", "reauth">>}

Text(word, holes) == [word |-> word, holes |-> holes]
Expr(kind, keys, text) == [kind |-> kind, keys |-> keys, text |-> text]
Code == Expr("code", {}, None)
Key(k) == Expr("expected", {k}, None)

(*-------------------------------- elements --------------------------------*)
Plain(ref) ==
  [ref |-> ref, plainRef |-> TRUE, tag |-> "Input", testid |-> None, attr |-> FALSE,
   role |-> None, name |-> None, dynamic |-> <<>>,
   locator |-> [Locator("label") EXCEPT !.value = Text(ref, {})]]
Row == [Plain("row") EXCEPT
          !.dynamic = <<"id">>,
          !.locator = [Locator("scoped") EXCEPT
            !.role = "button", !.name = Text("delete", {"id"}),
            !.container = [role |-> "row", name |-> Text("row", {})]]]

Act(do, ref) ==
  [do |-> do, ref |-> ref, args |-> <<>>, to |-> None, toArgs |-> <<>>,
   value |-> None, param |-> None, pattern |-> None]
Method(name, params, actions) == [name |-> name, params |-> params, actions |-> actions]
Verify(name, params, assertions) ==
  [name |-> name, params |-> params, assertions |-> assertions]
Claim(ref, arg) ==
  [subject |-> "element", ref |-> ref, args |-> <<>>, matcher |-> "toHaveText", arg |-> arg]

Call(fixture, call, args) == [fixture |-> fixture, call |-> call, args |-> args]
Case(id, body) == [id |-> id, prefixed |-> TRUE, body |-> body]

(* A page with a field to fill, a row to press, and a text to expect.        *)
Page(class, owner, arg) ==
  [class |-> class, owner |-> owner, panel |-> FALSE, path |-> TRUE,
   elements |-> <<Plain("user"), Row>>,
   steps |-> << Method("step_enter", <<"who">>,
                  << [Act("fill", "user") EXCEPT !.param = "who"],
                     [Act("click", "row") EXCEPT !.args = <<Code>>],
                     [Act("waitForResponse", None) EXCEPT !.pattern = "seen"] >>) >>,
   verifies |-> << Verify("verify_told", <<>>, <<Claim("user", arg)>>) >>]

Schema(page, expected) ==
  LET fixture == FixtureOf(page.class)
      given == IF expected = None THEN Code ELSE Key("who")
  IN  [pages |-> <<page>>, expected |-> expected, observed |-> {"seen"},
       spec |-> [setup |-> FALSE, before |-> <<>>,
                 cases |-> <<Case("AC-1", <<Call(fixture, "step_enter", <<given>>),
                                            Call(fixture, "verify_told", <<>>)>>)>>]]

Two == [k \in {"who", "told"} |-> k]
Auth == Schema(Page("Login", "auth", Key("told")), Two)
Reauth == Schema(Page("Menu", "reauth", None), [k \in {"who"} |-> "me"])
Profile == Schema(Page("Menu", "user_profile", Key("told")), Two)

Create(feature, schema, overwrite) ==
  [mode |-> "create", feature |-> feature, schema |-> schema, overwrite |-> overwrite]

(*------------------- one flaw each, in page and in spec -------------------*)
FlawedPage(flaw) ==
  LET page == Page("Login", "auth", Key("told"))
      step == page.steps[1]
      WithAction(a) == [page EXCEPT !.steps[1].actions = Append(@, a)]
      WithElement(e) == [page EXCEPT !.elements = Append(@, e)]
      WithAssert(a) == [page EXCEPT !.verifies[1].assertions = Append(@, a)]
  IN  CASE flaw = "ref twice"     -> WithElement([Plain("user") EXCEPT
                                       !.name = Text("other", {})])
        [] flaw = "ghost ref"     -> WithAction(Act("click", "nobody"))
        [] flaw = "ghost drag"    -> WithAction([Act("drag", "user") EXCEPT !.to = "nobody"])
        [] flaw = "ghost assert"  -> WithAssert(Claim("nobody", None))
        [] flaw = "no args"       -> WithAction(Act("click", "row"))
        [] flaw = "no param"      -> WithAction([Act("fill", "user") EXCEPT !.param = "whom"])
        [] flaw = "no value"      -> WithAction(Act("type", "user"))
        [] flaw = "method twice"  -> [page EXCEPT !.steps = <<step, step>>]
        [] flaw = "verify twice"  -> [page EXCEPT !.verifies = @ \o @]
        [] flaw = "hole"          -> WithElement([Row EXCEPT !.ref = "cell",
                                       !.locator.name = Text("delete", {"nr"})])
        [] flaw = "broken arg"    -> WithAssert(Claim("user", Expr("broken", {}, None)))
        [] flaw = "no locator"    -> WithElement([Plain("bare") EXCEPT !.locator = None])
        [] flaw = "no path"       -> [page EXCEPT !.path = FALSE]
        [] flaw = "other's page"  -> [page EXCEPT !.owner = "reauth"]

FlawedPages == {"ref twice", "ghost ref", "ghost drag", "ghost assert", "no args",
  "no param", "no value", "method twice", "verify twice", "hole", "broken arg",
  "no locator", "no path", "other's page"}

FlawedSpec(flaw) ==
  LET case == Auth.spec.cases[1]
      WithCall(call) == [Auth EXCEPT !.spec.cases[1].body = Append(@, call)]
  IN  CASE flaw = "no fixture"  -> WithCall(Call("menu", "step_enter", <<Code>>))
        [] flaw = "no method"   -> WithCall(Call("login", "step_leave", <<>>))
        [] flaw = "arity"       -> WithCall(Call("login", "step_enter", <<>>))
        [] flaw = "no key"      -> WithCall(Call("login", "step_enter", <<Key("when")>>))
        [] flaw = "quoted env"  -> WithCall(Call("login", "step_enter",
                                              <<Expr("quotedEnv", {}, "env")>>))
        [] flaw = "broken"      -> WithCall(Call("login", "step_enter",
                                              <<Expr("broken", {}, None)>>))
        [] flaw = "case twice"  -> [Auth EXCEPT !.spec.cases = <<case, case>>]
        [] flaw = "no block"    -> [Auth EXCEPT !.expected = None]
        [] flaw = "unseen wait" -> [Auth EXCEPT !.observed = {"other"}]

FlawedSpecs == {"no fixture", "no method", "arity", "no key", "quoted env", "broken",
  "case twice", "no block", "unseen wait"}

(*------------------------------- the API layer ----------------------------*)
Route(name, holes, params, body) ==
  [name |-> name, path |-> [slash |-> FALSE, holes |-> holes], params |-> params,
   body |-> body]
Client(class, owner, fixtures) ==
  [class |-> class, owner |-> owner, fixtures |-> fixtures,
   methods |-> <<Route("add", {}, <<>>, TRUE), Route("get", {"id"}, <<"id">>, FALSE)>>]
ApiCall(fixture, call, args, as) ==
  [fixture |-> fixture, call |-> call, args |-> args, asserts |-> <<None>>,
   capture |-> IF as = None THEN None ELSE [as |-> as, field |-> "id"]]
NewPet == [class |-> "NewPet", client |-> "Pets",
           fields |-> <<[string |-> TRUE, default |-> Expr("string", {}, "cat")]>>]
ApiSchema(client, builders, expected) ==
  LET fixture == client.fixtures[1]
      made == IF builders = <<>> THEN Code ELSE Expr("new", {}, "NewPet")
  IN  [clients |-> <<client>>, builders |-> builders, expected |-> expected,
       spec |-> [auth |-> FALSE, cases |-> <<Case("AC-1",
         <<ApiCall(fixture, "add", <<made>>, "made"),
           ApiCall(fixture, "get",
                   <<IF expected = None THEN Code ELSE Key("nobody")>>, None)>>)>>]]
Pets == ApiSchema(Client("Pets", "auth", <<"pets", "petsAsGuest">>), <<NewPet>>,
                  [k \in {"nobody"} |-> 9])
Stores == ApiSchema(Client("Stores", "reauth", <<"stores">>), <<>>, None)
Thief == [Stores EXCEPT
            !.clients[1].fixtures = <<"pets">>,
            !.clients[1].methods = Append(@, Route("all", {}, <<>>, FALSE)),
            !.spec.cases[1].body = <<ApiCall("pets", "all", <<>>, None)>>]

CreateApi(feature, schema, overwrite) ==
  [mode |-> "create_api", feature |-> feature, schema |-> schema, overwrite |-> overwrite]

FlawedApi(flaw) ==
  LET WithCall(call) == [Pets EXCEPT !.spec.cases[1].body = Append(@, call)]
      WithRoute(route) == [Pets EXCEPT !.clients[1].methods = Append(@, route)]
  IN  CASE flaw = "class twice"   -> [Pets EXCEPT !.clients =
                                        <<@[1], [@[1] EXCEPT !.fixtures = <<"more">>]>>]
        [] flaw = "fixture twice" -> [Pets EXCEPT !.clients =
                                        <<@[1], [@[1] EXCEPT !.class = "Stores"]>>]
        [] flaw = "route twice"   -> WithRoute(Route("get", {"id"}, <<"id">>, FALSE))
        [] flaw = "slash"         -> WithRoute([Route("all", {}, <<>>, FALSE)
                                                 EXCEPT !.path.slash = TRUE])
        [] flaw = "open path"     -> WithRoute(Route("put", {"id"}, <<>>, TRUE))
        [] flaw = "bare default"  -> [Pets EXCEPT !.builders[1].fields[1].default =
                                        Expr("bare", {}, "cat")]
        [] flaw = "api: no fixture"    -> WithCall(ApiCall("dogs", "get", <<Code>>, None))
        [] flaw = "no route"      -> WithCall(ApiCall("pets", "del", <<Code>>, None))
        [] flaw = "api: arity"         -> WithCall(ApiCall("pets", "get", <<>>, None))
        [] flaw = "api: no key"        -> WithCall(ApiCall("pets", "get", <<Key("who")>>, None))
        [] flaw = "name twice"    -> WithCall(ApiCall("pets", "get", <<Code>>, "made"))
        [] flaw = "answer's name" -> WithCall(ApiCall("pets", "get", <<Code>>, "response2"))
        [] flaw = "api: case twice"    -> [Pets EXCEPT !.spec.cases = <<@[1], @[1]>>]

FlawedApis == {"class twice", "fixture twice", "route twice", "slash", "open path",
  "bare default", "api: no fixture", "no route", "api: arity", "api: no key", "name twice",
  "answer's name", "api: case twice"}

(*--------------------------------- inputs ---------------------------------*)
Panel == [Page("Login", "reauth", None) EXCEPT !.panel = TRUE, !.path = FALSE]

MCInputs ==
  [n \in {"auth", "auth again", "reauth", "profile", "panel", "page", "cases",
          "pets", "pets again", "stores", "thief", "client", "api cases"} |->
     CASE n = "auth"       -> Create("auth", [Auth EXCEPT !.spec.setup = TRUE], FALSE)
       [] n = "auth again" -> Create("auth", Auth, TRUE)
       [] n = "reauth"     -> Create("reauth", Reauth, FALSE)
       [] n = "profile"    -> Create("user_profile", Profile, FALSE)
       [] n = "panel"      -> Create("reauth", Schema(Panel, None), FALSE)
       [] n = "page"       -> [mode |-> "register_page", feature |-> "reauth",
                               page |-> Page("Menu", "reauth", None)]
       [] n = "cases"      -> [mode |-> "add_test_cases", feature |-> "auth",
                               cases |-> <<Case("AC-2", <<Call("menu", "step_enter",
                                                               <<Code>>)>>)>>]
       [] n = "pets"       -> CreateApi("auth", [Pets EXCEPT !.spec.auth = TRUE], FALSE)
       [] n = "pets again" -> CreateApi("auth", Pets, TRUE)
       [] n = "stores"     -> CreateApi("reauth", [Stores EXCEPT !.spec.auth = TRUE], FALSE)
       [] n = "thief"      -> CreateApi("reauth", Thief, FALSE)
       [] n = "client"     -> [mode |-> "register_client", feature |-> "reauth",
                               client |-> Client("Stores", "reauth", <<"stores">>)]
       [] n = "api cases"  -> [mode |-> "add_api_test_cases", feature |-> "auth",
                               cases |-> <<Case("AC-2", <<ApiCall("pets", "get",
                                                            <<Code>>, None)>>)>>]]
  @@ [n \in FlawedPages |-> Create("auth", [Auth EXCEPT !.pages[1] = FlawedPage(n)], FALSE)]
  @@ [n \in FlawedSpecs |-> Create("auth", FlawedSpec(n), FALSE)]
  @@ [n \in FlawedApis |-> CreateApi("auth", FlawedApi(n), FALSE)]
==============================================================================
