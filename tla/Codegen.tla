------------------------------- MODULE Codegen -------------------------------
(****************************************************************************)
(* vindicate_generate_code at work on a test project: generator.ts for the  *)
(* browser layer and api-generator.ts for the API layer, over the files     *)
(* they read and write one by one (codegen-fs.ts).  Calls may overlap, for  *)
(* nothing locks the project.  A file is written in place (project-fs.ts):  *)
(* from when it is opened until its last byte is there it is torn, and it   *)
(* stays so if the write fails or the server ends.                          *)
(*                                                                          *)
(* A file is its content as PageSchema and ClientSchema see it.  A loader   *)
(* is the classes it exports, each with the path it takes it from, and the  *)
(* features whose expected.json it exports; a config is the pairs of a      *)
(* fixture and the class it constructs.                                     *)
(****************************************************************************)
EXTENDS ClientSchema

CONSTANTS
  Callers,    \* tool calls that may run at once
  Inputs,     \* name -> the arguments of a call, as the tool's schema lets through
  SaidInside, \* pairs of features: the first one's export name is inside the second's
  MaxCalls,   \* bound: calls that get past validation
  LastAlone,  \* bound: so many calls, the last, begin beside no other
  MaxFaults   \* bound: calls cut short

(* The arguments have passed the tool's own schema.                          *)
Creating == {"create", "create_api"}
Registering == {"register_page", "register_client"}
Appending == {"add_test_cases", "add_api_test_cases"}

InputShape(input) ==
  /\ input.feature \in DOMAIN CamelOf
  /\ input.mode \in Creating \cup Registering \cup Appending
  /\ CASE input.mode = "create"          -> SchemaShape(input.schema)
       [] input.mode = "register_page"   -> PageShape(input.page)
       [] input.mode = "create_api"      -> ApiSchemaShape(input.schema)
       [] input.mode = "register_client" -> ClientShape(input.client)
       [] input.mode \in Appending       -> CasesShape(input.cases)

ASSUME InputsAssumption ==
  /\ MaxCalls \in Nat /\ LastAlone \in Nat /\ MaxFaults \in Nat
  /\ None \notin DOMAIN Inputs
  /\ \A name \in DOMAIN Inputs : InputShape(Inputs[name])

VARIABLES
  files,  \* path -> what was last written there whole
  torn,   \* paths that hold part of a text, or parts of two: being written, or left so
  doing,  \* caller -> what it is doing
  open,   \* callers in the midst of writing the first of their files
  mixed,  \* those of them whose file another call had open meanwhile
  notes,  \* caller -> [cut: files it read torn, ran: the specs that ran when it began]
  left,   \* calls that may still begin
  faults  \* calls cut short so far

filesVars == <<files, torn, doing, open, mixed, notes, left, faults>>

Layers == {"ui", "api"}
Features == DOMAIN CamelOf

LoaderPath(layer) == <<layer, "loader">>
ConfigPath(layer) == <<layer, "config">>
SpecPath(layer, feature) == <<layer, "spec", feature>>
DataPath(feature) == <<"data", feature>>
SetupPath == <<"auth.setup">>
PagePath(page) == <<IF page.panel THEN "panels" ELSE "pages", page.class>>
ClientPath(client) == <<"clients", client.class>>
BuilderPath(builder) == <<"builders", builder.class>>

(* The m-th of a set of places.                                              *)
Nth(places, m) == CHOOSE i \in places : Cardinality({j \in places : j <= i}) = m

OwnedPages(input) ==
  LET pages == input.schema.pages
      owned == {i \in DOMAIN pages : pages[i].owner = input.feature}
  IN  [m \in 1..Cardinality(owned) |-> pages[Nth(owned, m)]]

(*------------------------------- validation -------------------------------*)
(* A page is validated inside a schema with one call of its first method.    *)
PageAlone(page) ==
  LET first == Head(page.steps \o page.verifies)
      one   == [kind |-> "code", keys |-> {}, text |-> None]
      call  == [fixture |-> FixtureOf(page.class), call |-> first.name,
                args |-> [i \in DOMAIN first.params |-> one]]
  IN  [pages |-> <<page>>, expected |-> None, observed |-> {},
       spec |-> [setup |-> FALSE, before |-> <<>>,
                 cases |-> <<[id |-> "AC-0", prefixed |-> TRUE, body |-> <<call>>]>>]]

PageRegistrable(page, feature) ==
  /\ page.owner = feature
  /\ page.steps \o page.verifies # <<>>
  /\ Valid(PageAlone(page), feature)

ClientAlone(client) ==
  LET first == Head(client.methods)
      one   == [kind |-> "code", keys |-> {}, text |-> None]
      call  == [fixture |-> Head(client.fixtures), call |-> first.name,
                args |-> [i \in 1..Arity(first) |-> one],
                capture |-> None, asserts |-> <<None>>]
  IN  [clients |-> <<client>>, builders |-> <<>>, expected |-> None,
       spec |-> [auth |-> FALSE,
                 cases |-> <<[id |-> "AC-0", prefixed |-> TRUE, body |-> <<call>>]>>]]

ClientRegistrable(client, feature) ==
  client.owner = feature /\ ApiValid(ClientAlone(client), feature)

(* Cases that are appended are held against nothing.                         *)
Accepted(input) ==
  CASE input.mode = "create"          -> Valid(input.schema, input.feature)
    [] input.mode = "register_page"   -> PageRegistrable(input.page, input.feature)
    [] input.mode = "create_api"      -> ApiValid(input.schema, input.feature)
    [] input.mode = "register_client" ->
         ClientRegistrable(input.client, input.feature)
    [] OTHER -> TRUE

LayerOf(input) ==
  IF input.mode \in {"create", "register_page", "add_test_cases"} THEN "ui" ELSE "api"

(* The files whose presence refuses the call, in the order they are tried.   *)
Guarded(input) ==
  LET specAnd(paths) == <<SpecPath(LayerOf(input), input.feature)>> \o paths
      owned == OwnedPages(input)
      clients == input.schema.clients
      builders == input.schema.builders
  IN  CASE input.mode = "create" ->
             IF input.overwrite THEN <<>>
             ELSE specAnd([i \in DOMAIN owned |-> PagePath(owned[i])])
        [] input.mode = "create_api" ->
             IF input.overwrite THEN <<>>
             ELSE specAnd([i \in DOMAIN clients |-> ClientPath(clients[i])]
                           \o [i \in DOMAIN builders |-> BuilderPath(builders[i])])
        [] input.mode = "register_page"   -> <<PagePath(input.page)>>
        [] input.mode = "register_client" -> <<ClientPath(input.client)>>

(*------------------------- the loader and the config ----------------------*)
(* A slip: the loader is written for this feature alone. *)
WithPagesAlone(loader, pages, feature, hasExpected) ==
  [exports |-> {<<p.class, PagePath(p)>> : p \in Range(pages)},
   data    |-> IF hasExpected THEN {feature} ELSE {}]

(* A class that is exported already, from wherever, is not exported again;   *)
(* nor is an expected.json whose name occurs in the file.                    *)
WithPages(loader, pages, feature, hasExpected) ==
  LET known == {e[1] : e \in loader.exports}
      fresh == {p \in Range(pages) : p.class \notin known}
      said  == \E other \in loader.data :
                 other = feature \/ <<feature, other>> \in SaidInside
  IN  [exports |-> loader.exports \cup {<<p.class, PagePath(p)>> : p \in fresh},
       data    |-> IF hasExpected /\ ~said THEN loader.data \cup {feature}
                                           ELSE loader.data]

WithPageFixtures(config, pages) ==
  config \cup {<<FixtureOf(p.class), p.class>> : p \in Range(pages)}

WithClients(loader, clients) ==
  [loader EXCEPT !.exports = @ \cup {<<c.class, ClientPath(c)>> : c \in Range(clients)}]

(* The login that is set up first serves all features.                       *)
AuthFixtures == {<<"authApiRequest", "APIRequestContext">>, <<"authToken", "string">>,
                 <<"authenticatedRequest", "APIRequestContext">>}
WithAuth(config, auth) ==
  IF auth /\ \A old \in config : old[1] # "authApiRequest"
  THEN config \cup AuthFixtures ELSE config

FixturesOf(clients) ==
  UNION {{<<f, c.class>> : f \in Range(c.fixtures)} : c \in Range(clients)}

(* A fixture that has an entry keeps it.                                     *)
WithClientFixtures(config, clients) ==
  config \cup {e \in FixturesOf(clients) : \A old \in config : old[1] # e[1]}

(* A slip: an entry with the fixture's name is taken for its own. *)
NoFixtureCollides(config, clients) == FALSE

FixtureCollides(config, clients) ==
  \E old \in config, e \in FixturesOf(clients) : old[1] = e[1] /\ old[2] # e[2]

(*------------------------------- the writes -------------------------------*)
Put(fs, path, content) ==
  [p \in DOMAIN fs \cup {path} |-> IF p = path THEN content ELSE fs[p]]

FileEntry(path, content) == [path |-> path, content |-> content]

ExpectedEntry(input) ==
  IF HasExpected(input.schema.expected)
  THEN <<FileEntry(DataPath(input.feature), DOMAIN input.schema.expected)>> ELSE <<>>

CreateWrites(input, loader, config) ==
  LET feature == input.feature
      schema == input.schema
      owned == OwnedPages(input)
  IN  [i \in DOMAIN owned |->
         FileEntry(PagePath(owned[i]), PageFile(owned[i], BarrelFor(schema, feature)))]
      \o << FileEntry(LoaderPath("ui"), WithPages(loader, owned, feature,
                                              HasExpected(schema.expected))),
            FileEntry(ConfigPath("ui"), WithPageFixtures(config, owned)),
            FileEntry(SpecPath("ui", feature), SpecFile(schema, feature)) >>
      \o (IF schema.spec.setup
          THEN <<FileEntry(SetupPath, AuthSetupFile(schema, feature))>> ELSE <<>>)
      \o ExpectedEntry(input)

CreateApiWrites(input, loader, config) ==
  LET feature == input.feature
      schema == input.schema
  IN  [i \in DOMAIN schema.clients |->
         FileEntry(ClientPath(schema.clients[i]), ClientFile(schema.clients[i]))]
      \o [i \in DOMAIN schema.builders |->
            FileEntry(BuilderPath(schema.builders[i]), BuilderFile(schema.builders[i]))]
      \o << FileEntry(LoaderPath("api"), WithClients(loader, schema.clients)),
            FileEntry(ConfigPath("api"), WithAuth(WithClientFixtures(config, schema.clients),
                                               schema.spec.auth)),
            FileEntry(SpecPath("api", feature), ApiSpecFile(schema, feature)) >>
      \o ExpectedEntry(input)

(* expected.json may be there, but a page that reads it is never accepted.   *)
RegisterPageWrites(input, loader, config) ==
  << FileEntry(PagePath(input.page), PageFile(input.page, None)),
     FileEntry(LoaderPath("ui"), WithPages(loader, <<input.page>>, input.feature, FALSE)),
     FileEntry(ConfigPath("ui"), WithPageFixtures(config, <<input.page>>)) >>

RegisterClientWrites(input, loader, config) ==
  << FileEntry(ClientPath(input.client), ClientFile(input.client)),
     FileEntry(LoaderPath("api"), WithClients(loader, <<input.client>>)),
     FileEntry(ConfigPath("api"), WithClientFixtures(config, <<input.client>>)) >>

(* What passes validation; a call that does not pass changes nothing.        *)
AcceptedNames == {name \in DOMAIN Inputs : Accepted(Inputs[name])}

ClientsIn(input) ==
  IF input.mode = "create_api" THEN input.schema.clients
  ELSE IF input.mode = "register_client" THEN <<input.client>> ELSE <<>>

Writes(input, loader, config) ==
  CASE input.mode = "create"          -> CreateWrites(input, loader, config)
    [] input.mode = "create_api"      -> CreateApiWrites(input, loader, config)
    [] input.mode = "register_page"   -> RegisterPageWrites(input, loader, config)
    [] input.mode = "register_client" -> RegisterClientWrites(input, loader, config)

(*--------------------------------- a call ---------------------------------*)
Idle == [pc |-> "idle", input |-> None, todo |-> <<>>, loader |-> None,
         writes |-> <<>>, met |-> FALSE]
NoNotes == [cut |-> {}, ran |-> {}]

FilesInit ==
  /\ files = [path \in {LoaderPath(l) : l \in Layers} \cup {ConfigPath(l) : l \in Layers} |->
                IF path[2] = "loader" THEN [exports |-> {}, data |-> {}] ELSE {}]
  /\ torn = {}
  /\ doing = [c \in Callers |-> Idle]
  /\ open = {} /\ mixed = {}
  /\ notes = [c \in Callers |-> NoNotes]
  /\ left = MaxCalls
  /\ faults = 0

(*--------------------------- whether a spec runs --------------------------*)
ClassesBound(config, fixture) == {e[2] : e \in {x \in config : x[1] = fixture}}
PathsOf(loader, class) == {e[2] : e \in {x \in loader.exports : x[1] = class}}

(* A call of a test finds, by config and loader, one file with the method.   *)
AskResolves(fs, layer, ask) ==
  \E class \in ClassesBound(fs[ConfigPath(layer)], ask[1]) :
    /\ ClassesBound(fs[ConfigPath(layer)], ask[1]) = {class}
    /\ \E path \in PathsOf(fs[LoaderPath(layer)], class) :
         /\ path \in DOMAIN fs
         /\ <<ask[2], ask[3]>> \in fs[path].offers

(* The keys a file reads are in the expected.json its import leads to: by    *)
(* the loader in the browser layer, by the path in the API layer.            *)
KeysResolve(fs, layer, import, keys) ==
  import # None =>
    \E f \in Features :
      /\ IF layer = "api" THEN f = import
         ELSE f \in fs[LoaderPath("ui")].data /\ CamelOf[f] = import
      /\ DataPath(f) \in DOMAIN fs
      /\ keys \subseteq fs[DataPath(f)]

BuilderResolves(fs, class) ==
  /\ <<"builders", class>> \in DOMAIN fs
  /\ LET client == fs[<<"builders", class>>].client
     IN  client # None => <<"clients", client>> \in DOMAIN fs

(* The spec of a feature runs: its calls, its data, its builders are there.  *)
Resolves(fs, layer, feature) ==
  LET spec == fs[SpecPath(layer, feature)]
  IN  /\ SpecPath(layer, feature) \in DOMAIN fs
      /\ SpecCompiles(spec)
      /\ \A ask \in spec.asks : AskResolves(fs, layer, ask)
      /\ KeysResolve(fs, layer, spec.imports, spec.keys)
      /\ \A class \in spec.builders : BuilderResolves(fs, class)

(* What a spec is loaded with: its own file, the config, the loader and all   *)
(* that the loader takes up, which fails for every spec if one file is amiss; *)
(* in the API layer its builders, their clients and its expected.json.       *)
Exported(loader) == {e[2] : e \in loader.exports} \cup {DataPath(f) : f \in loader.data}

Needed(fs, layer, feature) ==
  LET spec == fs[SpecPath(layer, feature)]
      built == {<<"builders", class>> : class \in spec.builders}
      clients == {fs[path].client : path \in built} \ {None}
  IN  {SpecPath(layer, feature), LoaderPath(layer), ConfigPath(layer)}
      \cup Exported(fs[LoaderPath(layer)])
      \cup built \cup {<<"clients", client>> : client \in clients}
      \cup (IF layer = "api" /\ spec.imports # None THEN {DataPath(spec.imports)} ELSE {})

Runs(fs, broken, layer, feature) ==
  /\ Resolves(fs, layer, feature)
  /\ Needed(fs, layer, feature) \subseteq DOMAIN fs \ broken

Running == {s \in Layers \X Features : Runs(files, torn, s[1], s[2])}

(*--------------------------------- the steps ------------------------------*)
Busy(c) == doing[c].pc # "idle"
InputOf(c) == Inputs[doing[c].input]
Appends(input) == input.mode \in Appending

(* A torn file is there as well as a whole one.                              *)
Present == DOMAIN files \cup torn

(* The call has read some files; of those that were torn it keeps a note,    *)
(* until it is over.                                                         *)
Notes(c, read) ==
  notes' = [notes EXCEPT ![c] =
    IF doing'[c] = Idle THEN NoNotes ELSE [notes[c] EXCEPT !.cut = @ \cup (torn \cap read)]]

Enter(c, name) ==
  LET others == {d \in Callers : Busy(d)}
      input == Inputs[name]
  IN  /\ ~Busy(c)
      /\ left > (IF others = {} THEN 0 ELSE LastAlone)
      /\ left' = left - 1
      /\ doing' = [d \in Callers |->
           IF d = c THEN [pc     |-> IF Appends(input) THEN "append" ELSE "check",
                          input  |-> name,
                          todo   |-> IF Appends(input) THEN <<>> ELSE Guarded(input),
                          loader |-> None, writes |-> <<>>, met |-> others # {}]
           ELSE [doing[d] EXCEPT !.met = @ \/ d \in others]]
      /\ notes' = [notes EXCEPT ![c] = [cut |-> {}, ran |-> Running]]
      /\ UNCHANGED <<files, torn, open, mixed, faults>>

(* One look at a file that must not exist yet.                               *)
Check(c) ==
  LET call == doing[c]
  IN  /\ call.pc = "check" /\ call.todo # <<>>
      /\ doing' = [doing EXCEPT ![c] =
           IF Head(call.todo) \in Present THEN Idle
                                          ELSE [call EXCEPT !.todo = Tail(call.todo)]]
      /\ Notes(c, {})
      /\ UNCHANGED <<files, torn, open, mixed, left, faults>>

(* A torn loader, or a torn config, is refused when an anchor is missing;    *)
(* else what is missing goes unnoticed, and what it says is not relied on.   *)
ReadLoader(c) ==
  LET path == LoaderPath(LayerOf(InputOf(c)))
  IN  /\ doing[c].pc = "check" /\ doing[c].todo = <<>>
      /\ \/ doing' = [doing EXCEPT ![c].pc = "config", ![c].loader = files[path]]
         \/ path \in torn /\ doing' = [doing EXCEPT ![c] = Idle]
      /\ Notes(c, {path})
      /\ UNCHANGED <<files, torn, open, mixed, left, faults>>

(* The config is the last file read; then everything to write is known.      *)
ReadConfig(c) ==
  LET input == InputOf(c)
      path == ConfigPath(LayerOf(input))
      collides == FixtureCollides(files[path], ClientsIn(input))
  IN  /\ doing[c].pc = "config"
      /\ \E refused \in {collides} \cup (IF path \in torn THEN BOOLEAN ELSE {}) :
           doing' = [doing EXCEPT ![c] =
             IF refused THEN Idle
             ELSE [doing[c] EXCEPT !.pc = "write",
                                   !.writes = Writes(input, doing[c].loader, files[path]),
                                   !.loader = None]]
      /\ Notes(c, {path})
      /\ UNCHANGED <<files, torn, open, mixed, left, faults>>

(* add_test_cases reads the spec and appends to what it read, before the end *)
(* of its last block: a text cut short has none, a text of two may.          *)
ReadSpec(c) ==
  LET input == InputOf(c)
      path == SpecPath(LayerOf(input), input.feature)
      grown == IF LayerOf(input) = "ui"
               THEN AppendCases(files[path], UNION {Range(k.body) : k \in Range(input.cases)},
                                [i \in DOMAIN input.cases |-> input.cases[i].id])
               ELSE AppendApiCases(files[path], input.cases)
  IN  /\ doing[c].pc = "append"
      /\ \E refused \in {path \notin DOMAIN files} \cup (IF path \in torn THEN {TRUE} ELSE {}) :
           doing' = [doing EXCEPT ![c] =
             IF refused THEN Idle
             ELSE [doing[c] EXCEPT !.pc = "write", !.writes = <<FileEntry(path, grown)>>]]
      /\ Notes(c, {path})
      /\ UNCHANGED <<files, torn, open, mixed, left, faults>>

(* flushWrites: one file after the other.  writeFile empties the file first. *)
Writing(path) == {c \in open : Head(doing[c].writes).path = path}

Open(c) ==
  LET path == Head(doing[c].writes).path
  IN  /\ doing[c].pc = "write" /\ c \notin open
      /\ torn' = torn \cup {path}
      /\ open' = open \cup {c}
      /\ mixed' = IF Writing(path) = {} THEN mixed ELSE mixed \cup Writing(path) \cup {c}
      /\ UNCHANGED <<files, doing, notes, left, faults>>

(* The last byte is written.  The file is whole, unless another call has it  *)
(* open too, or had and may have written between; or it is made from what    *)
(* was read torn.                                                            *)
Write(c) ==
  LET call == doing[c]
      entry == Head(call.writes)
      whole == Writing(entry.path) = {c} /\ entry.path \notin notes[c].cut
  IN  /\ call.pc = "write" /\ c \in open
      /\ files' = Put(files, entry.path, entry.content)
      /\ \/ whole /\ torn' = torn \ {entry.path}
         \/ (~whole \/ c \in mixed) /\ torn' = torn
      /\ doing' = [doing EXCEPT ![c] =
           IF Len(call.writes) = 1 THEN Idle ELSE [call EXCEPT !.writes = Tail(call.writes)]]
      /\ open' = open \ {c} /\ mixed' = mixed \ {c}
      /\ Notes(c, {})
      /\ UNCHANGED <<left, faults>>

(* A write that fails, or the end of the server: what is open stays torn,    *)
(* and the rest is never written.                                            *)
Fault(c) ==
  /\ Busy(c)
  /\ faults < MaxFaults
  /\ faults' = faults + 1
  /\ doing' = [doing EXCEPT ![c] = Idle]
  /\ open' = open \ {c} /\ mixed' = mixed \ {c}
  /\ Notes(c, {})
  /\ UNCHANGED <<files, torn, left>>

FilesNext == \E c \in Callers :
  \/ \E name \in AcceptedNames : Enter(c, name)
  \/ Check(c) \/ ReadLoader(c) \/ ReadConfig(c) \/ ReadSpec(c)
  \/ Open(c) \/ Write(c) \/ Fault(c)

FilesSpec == FilesInit /\ [][FilesNext]_filesVars

(*-------------------------------- properties ------------------------------*)
FilesTypeOK ==
  /\ \A layer \in Layers : {LoaderPath(layer), ConfigPath(layer)} \subseteq DOMAIN files
  /\ \A layer \in Layers, feature \in Features :
       SpecPath(layer, feature) \in DOMAIN files =>
         files[SpecPath(layer, feature)].kind = "spec"
  /\ \A c \in Callers : /\ doing[c].pc \in {"idle", "check", "config", "append", "write"}
                        /\ (doing[c].pc = "write") = (doing[c].writes # <<>>)
                        /\ Busy(c) = (doing[c].input # None)
  /\ \A c \in open : doing[c].pc = "write" /\ Head(doing[c].writes).path \in torn
  /\ mixed \subseteq open
  /\ left \in 0..MaxCalls /\ faults \in 0..MaxFaults

(* What the validator does not look at.  In a page: the keys of `expected`   *)
(* in the arguments of a dynamic element, and the placeholders of a container*)
(* or a frame.  In a builder: a default that is an identifier, unless the    *)
(* field is a string, and one that reads `expected`.                         *)
PageUnlooked(file) ==
  \/ file.refKeys # {} /\ file.imports = None
  \/ \E f \in Range(file.fields) : ~(f.reads \subseteq Range(f.params))
BuilderUnlooked(file) ==
  file.parses /\ \A l \in file.loose : ~l.string \/ l.kind # "bare"

Compiles(path, file) ==
  CASE path[1] \in {"pages", "panels"} -> PageCompiles(file) \/ PageUnlooked(file)
    [] path[1] = "clients"  -> ClientCompiles(file)
    [] path[1] = "builders" -> BuilderCompiles(file) \/ BuilderUnlooked(file)
    [] OTHER -> TRUE

(* Whatever a caller hands in, every page object, client and builder that is *)
(* written to its end compiles by itself: each ref it uses is a field with as*)
(* many parameters as it is given arguments, no name is there twice, nothing *)
(* is read that is not bound (validate-codegen.ts, api-validate-codegen.ts). *)
(* Of a file that is torn nothing is said: half a class does not compile.    *)
CodegenInv ==
  FilesTypeOK /\ \A path \in DOMAIN files \ torn : Compiles(path, files[path])

Creates(input) == input.mode \in Creating

(* The step is the last write of c's call.                                   *)
Ends(c) == /\ doing[c].pc = "write" /\ Len(doing[c].writes) = 1
           /\ doing'[c].pc = "idle" /\ faults' = faults

(* What is accepted and does not run, though nobody came between.  In the    *)
(* browser layer: a slug with an underscore (spec-writer.ts folds dashes     *)
(* only, the loader both), a slug whose export is taken for there because    *)
(* another one ends in it, a class that the loader exports from the other of *)
(* pages/ and panels/, one the schema has twice, one whose fixture belongs   *)
(* to another class.                                                         *)
MistakenPages(input) ==
  LET pages == input.schema.pages
      loader == files[LoaderPath("ui")]
  IN  \/ /\ HasExpected(input.schema.expected)
         /\ \/ CamelOf[input.feature] # DashCamelOf[input.feature]
            \/ \E other \in loader.data : <<input.feature, other>> \in SaidInside
      \/ ~IsInjective([i \in DOMAIN pages |-> FixtureOf(pages[i].class)])
      \/ \E page \in Range(OwnedPages(input)) :
           \/ ~(PathsOf(loader, page.class) \subseteq {PagePath(page)})
           \/ ~(ClassesBound(files[ConfigPath("ui")], FixtureOf(page.class))
                   \subseteq {page.class})

(* In the API layer: a builder of a client that is not there, a constructor  *)
(* of no builder, a fixture with a name the login set-up takes.              *)
MistakenClients(input) ==
  LET schema == input.schema
  IN  \/ \E builder \in Range(schema.builders) :
           builder.client # None
           /\ <<"clients", builder.client>> \notin DOMAIN files \ torn
      \/ ~(Constructed(ApiCalls(schema.spec.cases)) \subseteq Classes(schema.builders))
      \/ schema.spec.auth /\ \E client \in Range(schema.clients), e \in AuthFixtures :
                                e[1] \in Range(client.fixtures)

Mistaken(input) ==
  \/ input.mode = "create" /\ MistakenPages(input)
  \/ input.mode = "create_api" /\ MistakenClients(input)

(* A file the loader takes up, and the call does not write, is missing or     *)
(* torn: what a call that was cut short has left.                            *)
Lame(input) ==
  LET layer == LayerOf(input)
      loader == files[LoaderPath(layer)]
      own == {e.path : e \in Range(Writes(input, loader, files[ConfigPath(layer)]))}
  IN  \E path \in Exported(loader) \ own : path \notin DOMAIN files \ torn

(* A create that comes to its end, with no other call beside it, leaves a    *)
(* spec that runs, whatever else earlier calls left half done, half a file of*)
(* its own among it: generate.md says it wires loader, config and            *)
(* expected.json.  What it cannot mend is a loader or a config that it read  *)
(* torn, and another feature's file that the loader takes up.                *)
EndsResolved ==
  [][\A c \in Callers :
       /\ Ends(c) /\ ~doing[c].met
       /\ Creates(InputOf(c)) /\ ~Mistaken(InputOf(c))
       /\ notes[c].cut = {} /\ ~Lame(InputOf(c))
       => Runs(files', torn', LayerOf(InputOf(c)), InputOf(c).feature)]_filesVars

Overwrites(input) == Creates(input) /\ input.overwrite
Over(c) == Busy(c) /\ doing'[c].pc = "idle"

(* The expected.json a spec reads may be that of a feature whose slug comes  *)
(* to the same name.                                                         *)
ReadBy(spec, feature) ==
  {DataPath(f) : f \in {feature} \cup {g \in Features : CamelOf[g] = spec.imports}}

BringsDataOf(input, layer, feature) ==
  /\ Creates(input) /\ HasExpected(input.schema.expected)
  /\ DataPath(input.feature) \in ReadBy(files[SpecPath(layer, feature)], feature)

(* The call binds a fixture of the spec to a second class: two classes that  *)
(* differ in the case of the first letter only, or a fixture with a name the *)
(* login set-up takes.                                                       *)
PagesIn(input) ==
  IF input.mode = "create" THEN OwnedPages(input)
  ELSE IF input.mode = "register_page" THEN <<input.page>> ELSE <<>>

Binds(input) ==
  {<<FixtureOf(p.class), p.class>> : p \in Range(PagesIn(input))} \cup AuthFixtures

Rebinds(fs, input, layer, feature) ==
  \E ask \in fs[SpecPath(layer, feature)].asks, e \in Binds(input) :
    /\ layer = LayerOf(input) /\ e[1] = ask[1]
    /\ e[2] \in ClassesBound(fs[ConfigPath(layer)], ask[1])
    /\ ClassesBound(fs[ConfigPath(layer)], ask[1]) # {e[2]}

(* The call was cut short in the loader or the config, or before the         *)
(* expected.json was whole that the loader takes up already.                 *)
CutShort(c, layer) ==
  /\ faults' # faults /\ doing[c].pc = "write"
  /\ \/ c \in open /\ Head(doing[c].writes).path \in {LoaderPath(layer), ConfigPath(layer)}
     \/ /\ DataPath(InputOf(c).feature) \in {e.path : e \in Range(doing[c].writes)}
        /\ InputOf(c).feature \in files[LoaderPath(layer)].data

(* A spec that ran when a call began, and nobody came beside, runs when it   *)
(* is over, refused, done or cut short: unless the call was told to          *)
(* overwrite, appended to that spec, brought the expected.json that is read  *)
(* there, bound a fixture anew, or was cut short in a file all specs share.  *)
OthersStand ==
  [][\A c \in Callers :
       Over(c) /\ ~doing[c].met /\ ~Overwrites(InputOf(c)) =>
         \A s \in notes[c].ran :
           LET input == InputOf(c)
           IN  \/ Runs(files', torn', s[1], s[2])
               \/ Appends(input) /\ s = <<LayerOf(input), input.feature>>
               \/ BringsDataOf(input, s[1], s[2])
               \/ Rebinds(files', input, s[1], s[2])
               \/ CutShort(c, s[1])]_filesVars
==============================================================================
