----------------------------- MODULE PageCapture -----------------------------
(****************************************************************************)
(* What browser_read makes of a document (interactive-capture.evaluate.ts,  *)
(* iframe-host-locator.evaluate.ts): the rows it reports, the ref and the   *)
(* locator of each, and what the worker's resolver makes of the locator     *)
(* (ref-resolver.ts).                                                       *)
(*                                                                          *)
(* A document is a record.  els is 1..n in the order the composed tree is   *)
(* walked; parent and host give an element's parent and the host of the     *)
(* shadow root it lives in (None: the document).  attrs[el] maps attribute  *)
(* names to values, an empty or blank one left out.  words[el] is its text  *)
(* with a space at each element boundary, raw[el] without; labelledBy[el]   *)
(* the element aria-labelledby leads to.  noPointer, tiny, unseen, cursor,  *)
(* shown and boxed are the elements whose style or box has pointer-events   *)
(* none, a pixel's size, no visibility, the click cursor, a place in the    *)
(* viewport, any extent; z their stacking order.  A digest is what it is    *)
(* taken of.                                                                *)
(****************************************************************************)
EXTENDS LocatorSource, SequencesExt

CONSTANTS Candidates,      \* the test-id attributes, the project's own first
          GeneratedIds,    \* ids, names and titles that look generated
          Instrumented,    \* a list this long is folded if half of it has test-ids
          Uninstrumented,  \* ... and this long in any case
          Flood,           \* an overlay with so many rows is folded
          MaxNodes         \* rows of one answer

ASSUME CaptureAssumption ==
  Candidates \in Seq(STRING) /\ Candidates # <<>> /\ MaxNodes \in Nat

At(page, el, attr) ==
  IF attr \in DOMAIN page.attrs[el] THEN page.attrs[el][attr] ELSE None

FirstOf(els) == IF els = {} THEN None ELSE Min(els)
InOrder(els) ==
  [k \in 1..Cardinality(els) |->
     CHOOSE el \in els : Cardinality({e \in els : e <= el}) = k]

(*--------------------------------- the tree -------------------------------*)
Shadowed(page, el) == page.host[el] # None
Light(page) == {el \in page.els : ~Shadowed(page, el)}
Children(page, el) == {c \in page.els : page.parent[c] = el}

Up(page, el) == IF page.parent[el] # None THEN page.parent[el] ELSE page.host[el]

(* An element and its ancestors, through the hosts of shadow roots.          *)
Above(page, el) ==
  LET above[e \in page.els] ==
        {e} \cup IF Up(page, e) = None THEN {} ELSE above[Up(page, e)]
  IN  above[el]

Encloses(page, outer, el) ==
  outer \in Above(page, el) /\ page.host[outer] = page.host[el]

AriaHidden(page, el) ==
  \E a \in Above(page, el) : At(page, a, "aria-hidden") = "true"

VisuallyHidden(page, el) == Above(page, el) \cap page.unseen # {}

(* The way down to an element, each step a tag and a number among the        *)
(* siblings of that tag.  In a shadow root the way begins below the root.    *)
PathTo(page, el) ==
  LET Nth(e) == Cardinality({c \in Children(page, page.parent[e]) :
                               page.tag[c] = page.tag[e] /\ c <= e})
      path[e \in page.els] ==
        CASE page.parent[e] # None ->
               Append(path[page.parent[e]], <<page.tag[e], Nth(e)>>)
          [] page.parent[e] = None /\ Shadowed(page, e) -> <<>>
          [] OTHER -> << <<page.tag[e], 1>> >>
  IN  path[el]

(*------------------------------ roles and names ---------------------------*)
TagRole == [button |-> "button", textarea |-> "textbox", select |-> "combobox",
            option |-> "option", summary |-> "button", h |-> "heading"]
InputRole == [checkbox |-> "checkbox", radio |-> "radio", range |-> "slider",
              number |-> "spinbutton"]

RoleOf(page, el) ==
  LET tag == page.tag[el]
      type == At(page, el, "type")
  IN  CASE At(page, el, "role") # None -> At(page, el, "role")
        [] At(page, el, "role") = None /\ tag = "input" ->
             IF type \in DOMAIN InputRole THEN InputRole[type] ELSE "textbox"
        [] At(page, el, "role") = None /\ tag = "a" ->
             IF At(page, el, "href") # None THEN "link" ELSE "generic"
        [] OTHER -> IF tag \in DOMAIN TagRole THEN TagRole[tag] ELSE "generic"

Interactive(page, el) ==
  \/ page.tag[el] \in {"button", "a", "input", "select", "textarea", "option", "summary"}
  \/ At(page, el, "role") \in
       {"button", "link", "textbox", "checkbox", "radio", "tab", "menuitem", "option",
        "combobox", "listbox", "slider", "spinbutton", "switch", "menuitemcheckbox",
        "menuitemradio"}
  \/ At(page, el, "onclick") # None
  \/ At(page, el, "tabindex") = "0"
  \/ At(page, el, "aria-haspopup") \in {"true", "menu", "listbox", "tree", "grid", "dialog"}

Testid(page, el) ==
  LET had == {i \in DOMAIN Candidates : At(page, el, Candidates[i]) # None}
      attr == Candidates[Min(had)]
  IN  IF had = {} THEN None ELSE [attr |-> attr, value |-> At(page, el, attr)]

StableId(page, el) ==
  IF At(page, el, "id") \in GeneratedIds THEN None ELSE At(page, el, "id")

Label(page, el) ==
  FirstOf({l \in Light(page) : /\ page.tag[l] = "label" /\ At(page, el, "id") # None
                               /\ At(page, l, "for") = At(page, el, "id")})

TextAt(text, el) == IF el = None THEN None ELSE text[el]

(* The sources of a name, in order, with the text of elements as given.      *)
NameFrom(page, el, text) ==
  FirstPresent(<< TextAt(text, page.labelledBy[el]), At(page, el, "aria-label"),
                  TextAt(text, Label(page, el)), At(page, el, "placeholder"),
                  At(page, el, "title"), text[el] >>)

(* The name that is shown: a test-id may stand in for it.                    *)
ShownName(page, el) ==
  FirstPresent(<< TextAt(page.words, page.labelledBy[el]), At(page, el, "aria-label"),
                  TextAt(page.raw, Label(page, el)), At(page, el, "placeholder"),
                  At(page, el, "title"),
                  IF Testid(page, el) = None THEN None ELSE Testid(page, el).value,
                  page.words[el] >>)

LocatorName(page, el) == NameFrom(page, el, page.words)

NameFromContent ==
  {"button", "link", "heading", "menuitem", "menuitemcheckbox", "menuitemradio",
   "option", "radio", "checkbox", "switch", "tab", "treeitem", "cell", "gridcell",
   "columnheader", "rowheader", "row", "tooltip"}

HasAuthorName(page, el) ==
  \/ \E a \in {"aria-label", "aria-labelledby", "title", "placeholder"} :
       At(page, el, a) # None
  \/ Label(page, el) # None

(*------------------------------ what XPath finds --------------------------*)
(* An expression names a tag ("*": any), attributes and their values, the    *)
(* normalised text of a sibling, or a way down.                              *)
XPath(tag, attrs) == [tag |-> tag, attrs |-> attrs, beside |-> None, path |-> None]

Beside(page, el) == Children(page, page.parent[el]) \ {el}

(* XPath reads the document alone, and text as it is.                        *)
Found(page, xpath) ==
  {el \in Light(page) :
     /\ xpath.tag \in {"*", page.tag[el]}
     /\ \A pair \in xpath.attrs : At(page, el, pair[1]) = pair[2]
     /\ xpath.beside # None =>
          /\ page.parent[el] # None
          /\ \E s \in Beside(page, el) : page.raw[s] = xpath.beside
     /\ xpath.path # None => PathTo(page, el) = xpath.path}

(* A slip: the first of several will do. *)
FoundAtAll(page, xpath) == Found(page, xpath) # {}

FoundOnce(page, xpath) == Cardinality(Found(page, xpath)) = 1

(*------------------------- from an element to a locator -------------------*)
(* Each tier gives a locator, or None.                                       *)
ByTestid(page, el) ==
  LET id == Testid(page, el)
  IN  IF /\ id # None /\ id.attr = Candidates[1]
         /\ Cardinality({x \in page.els : /\ page.host[x] = page.host[el]
                                          /\ At(page, x, id.attr) = id.value}) = 1
      THEN [Locator("testid") EXCEPT !.attr = id.attr, !.value = id.value]
      ELSE None

(* An XPath tier holds for an element of the document its path finds alone.  *)
OnXPath(page, el, strategy, xpath) ==
  IF ~Shadowed(page, el) /\ FoundOnce(page, xpath)
  THEN [Locator(strategy) EXCEPT !.xpath = xpath] ELSE None

ByOtherTestid(page, el) ==
  LET id == Testid(page, el)
  IN  IF id = None \/ id.attr = Candidates[1] THEN None
      ELSE OnXPath(page, el, "testid_xpath", XPath("*", {<<id.attr, id.value>>}))

ById(page, el) ==
  IF StableId(page, el) = None THEN None
  ELSE OnXPath(page, el, "dom_id", XPath("*", {<<"id", At(page, el, "id")>>}))

(* unique: no other row of this read has the element's ref.                  *)
ByRoleAndName(page, el, unique) ==
  IF /\ LocatorName(page, el) # None /\ unique
     /\ RoleOf(page, el) \in NameFromContent \/ HasAuthorName(page, el)
  THEN [Locator("role_name") EXCEPT !.role = RoleOf(page, el),
                                    !.name = LocatorName(page, el)]
  ELSE None

ByRole(page, el) ==
  LET role == At(page, el, "role")
  IN  IF /\ ~Shadowed(page, el) /\ role # None /\ role # "generic"
         /\ FoundOnce(page, XPath("*", {<<"role", role>>}))
      THEN [Locator("role_name") EXCEPT !.role = role] ELSE None

ByNameSource(page, el) ==
  LET From(strategy, value) ==
        IF value = None THEN None ELSE [Locator(strategy) EXCEPT !.value = value]
  IN  IF RoleOf(page, el) # "generic" THEN None
      ELSE FirstPresent(<< From("placeholder", At(page, el, "placeholder")),
                           From("label", At(page, el, "aria-label")),
                           From("text", NameFrom(page, el, page.raw)) >>)

AttrPairs(page, el, attrs) ==
  {<<a, At(page, el, a)>> : a \in {b \in attrs : At(page, el, b) # None}}

ByAttributes(page, el, attrs) ==
  LET pairs == AttrPairs(page, el, attrs)
  IN  IF pairs = {} THEN None
      ELSE OnXPath(page, el, "attr_combo", XPath(page.tag[el], pairs))

InContainer(page, el, container) ==
  IF container = None \/ LocatorName(page, el) = None THEN None
  ELSE [Locator("scoped") EXCEPT !.role = RoleOf(page, el),
                                 !.name = LocatorName(page, el),
                                 !.container = container]

(* One sibling with a text, and nothing to press: it labels the element.     *)
BySibling(page, el) ==
  LET labels == {s \in Beside(page, el) : ~Interactive(page, s) /\ page.words[s] # None}
      label == CHOOSE s \in labels : TRUE
  IN  IF \/ LocatorName(page, el) # None \/ page.parent[el] = None
         \/ Cardinality(labels) # 1
      THEN None
      ELSE OnXPath(page, el, "sibling_text",
                   [XPath(page.tag[el], {}) EXCEPT !.beside = page.words[label]])

ByPosition(page, el) ==
  IF Shadowed(page, el) THEN None
  ELSE [Locator("nth") EXCEPT
          !.xpath = [XPath("*", {}) EXCEPT !.path = PathTo(page, el)]]

Derive(page, el, container, unique) ==
  FirstPresent(<< ByTestid(page, el), ByOtherTestid(page, el), ById(page, el),
                  ByRoleAndName(page, el, unique), ByRole(page, el),
                  ByNameSource(page, el),
                  ByAttributes(page, el, {"type", "name", "placeholder"}),
                  InContainer(page, el, container), BySibling(page, el),
                  ByPosition(page, el) >>)

(* The host of a frame: a boundary, found by what is written on it.  Nothing *)
(* here asks whether the host itself is in a shadow root.                    *)
HostLocator(page, el) ==
  LET id == Testid(page, el)
      Once(strategy, xpath) ==
        IF FoundOnce(page, xpath) THEN [Locator(strategy) EXCEPT !.xpath = xpath]
                                  ELSE None
      ByTest == IF id = None THEN None
                ELSE LET xpath == XPath("*", {<<id.attr, id.value>>})
                     IN  IF id.attr # Candidates[1] THEN Once("testid_xpath", xpath)
                         ELSE IF ~FoundOnce(page, xpath) THEN None
                         ELSE [Locator("testid") EXCEPT !.attr = id.attr,
                                                        !.value = id.value]
      named == {pair \in AttrPairs(page, el, {"name", "title"}) :
                  pair[2] \notin GeneratedIds}
  IN  FirstPresent(<< ByTest,
        IF StableId(page, el) = None THEN None
          ELSE Once("dom_id", XPath("*", {<<"id", At(page, el, "id")>>})),
        IF named = {} THEN None ELSE Once("attr_combo", XPath(page.tag[el], named)),
        [Locator("nth") EXCEPT
           !.xpath = [XPath("*", {}) EXCEPT !.path = PathTo(page, el)]] >>)

(*----------------------------------- rows ---------------------------------*)
Digest(tag) ==
  [tag |-> tag, key |-> None, role |-> None, name |-> None, path |-> <<>>,
   row |-> None, frames |-> <<>>, dup |-> 1]

Ref(page, el) ==
  LET plain == Digest(page.tag[el])
      Key(key) == IF key = None THEN None ELSE [plain EXCEPT !.key = key]
  IN  FirstPresent(<<
        IF Testid(page, el) = None THEN None ELSE Key(Testid(page, el).value),
        Key(StableId(page, el)),
        IF ShownName(page, el) = None THEN None
          ELSE [plain EXCEPT !.role = RoleOf(page, el), !.name = ShownName(page, el)],
        [plain EXCEPT !.path = PathTo(page, el)] >>)

(* The row of a table or list an element is in, if it has a name.            *)
Container(page, el) ==
  LET above == {a \in Above(page, el) \ {el} : Encloses(page, a, el)}
      Anchor(a) == IF ShownName(page, a) = None THEN None
                   ELSE [role |-> IF At(page, a, "role") # None THEN At(page, a, "role")
                                  ELSE IF page.tag[a] = "li" THEN "listitem" ELSE "row",
                         name |-> ShownName(page, a)]
      rows == {a \in above : \/ page.tag[a] \in {"tr", "li"}
                             \/ At(page, a, "role") \in {"row", "listitem"}}
  IN  IF rows = {} THEN None ELSE Anchor(Max(rows))

Score(page, el, interactive) ==
  LET depth == Cardinality({a \in page.els : Encloses(page, a, el)})
      cost == IF 2 * depth > 10 THEN 10 ELSE 2 * depth
  IN  (IF interactive THEN 50 ELSE 0) + (IF ShownName(page, el) # None THEN 20 ELSE 0)
        + (IF el \in page.shown THEN 20 ELSE 0)
        + (IF Testid(page, el) # None THEN 10 ELSE 0) - cost
Topmost == 1000   \* the score of an overlay: above any other

CapturedRow(el, score, folded) == [el |-> el, score |-> score, folded |-> folded]

Candidate(page, opts, el) ==
  /\ Interactive(page, el) \/ Testid(page, el) # None
  /\ ~AriaHidden(page, el)
  /\ opts.viewportOnly => el \in page.shown

Verifiable(page) ==
  LET heard == {el \in Light(page) : ~AriaHidden(page, el)}
  IN  InOrder({el \in heard : page.tag[el] = "h" /\ page.raw[el] # None})
        \o InOrder({el \in heard : At(page, el, "role") \in {"alert", "status"}})

(* Plain text, in a read that is narrowed to a part of the page.             *)
ScopedText(page, root) ==
  LET leaves == {el \in page.els : Encloses(page, root, el) /\ Children(page, el) = {}}
      textless == {"script", "style", "noscript", "svg", "path", "img", "iframe"}
  IN  InOrder({el \in leaves \ {root} :
                 /\ page.raw[el] # None /\ ~AriaHidden(page, el)
                 /\ page.tag[el] \notin textless
                 /\ \A other \in leaves \ {el} : page.raw[other] # page.raw[el]})

(* What may be pressed, then what may be read: the latter only under a ref   *)
(* that is not there yet.                                                    *)
Rows(page, opts, root) ==
  LET walked == InOrder({el \in page.els : /\ root \in Above(page, el)
                                           /\ Candidate(page, opts, el)})
      all == walked \o (IF opts.verifiable THEN Verifiable(page) ELSE <<>>)
                    \o (IF root # 1 THEN ScopedText(page, root) ELSE <<>>)
      kept == InOrder({i \in DOMAIN all :
                         \/ i <= Len(walked)
                         \/ \A j \in 1..(i - 1) : Ref(page, all[j]) # Ref(page, all[i])})
  IN  [k \in DOMAIN kept |->
         CapturedRow(all[kept[k]], Score(page, all[kept[k]], kept[k] <= Len(walked)), 0)]

Fingerprint(page, el) ==
  LET children == InOrder(Children(page, el))
      three == SubSeq(children, 1, IF Len(children) < 3 THEN Len(children) ELSE 3)
  IN  [i \in DOMAIN three |-> page.tag[three[i]]]

(* Rows alike among siblings: a long list shrinks to its best row.           *)
Collapsed(page, rows) ==
  LET Kind(i) == LET el == rows[i].el
                 IN  <<page.parent[el], page.tag[el], RoleOf(page, el),
                       Fingerprint(page, el)>>
      kinds == [i \in DOMAIN rows |-> Kind(i)]
      Like(i) == {j \in DOMAIN rows : kinds[j] = kinds[i]}
      Limit(group) ==
        IF 2 * Cardinality({j \in group : Testid(page, rows[j].el) # None})
             >= Cardinality(group)
        THEN Instrumented ELSE Uninstrumented
      Long(i) == Cardinality(Like(i)) >= Limit(Like(i))
      Best(i) == \A j \in Like(i) \ {i} :
                   \/ rows[i].score > rows[j].score
                   \/ rows[i].score = rows[j].score /\ i < j
      kept == InOrder({i \in DOMAIN rows : Long(i) => Best(i)})
  IN  [k \in DOMAIN kept |->
         IF Long(kept[k])
         THEN [rows[kept[k]] EXCEPT !.folded = Cardinality(Like(kept[k])) - 1]
         ELSE rows[kept[k]]]

(*--------------------------------- overlays -------------------------------*)
IsOverlay(page, el) ==
  \/ At(page, el, "aria-modal") = "true"
  \/ At(page, el, "role") \in {"dialog", "alertdialog", "listbox", "menu"}
  \/ At(page, el, "popover") # None

(* Of those shown, the highest; of equals the later.                         *)
TopOverlay(page) ==
  LET open == {el \in Light(page) : IsOverlay(page, el) /\ el \in page.boxed}
      highest == {el \in open : \A o \in open : page.z[o] <= page.z[el]}
  IN  IF open = {} THEN None ELSE Max(highest)

(* An overlay with much in it becomes one row; another gets a row of its own.*)
WithOverlay(page, opts, root, working) ==
  LET overlay == TopOverlay(page)
      inside == {i \in DOMAIN working : Encloses(page, overlay, working[i].el)}
      outside == InOrder(DOMAIN working \ inside)
  IN  IF \/ overlay = None \/ opts.scope.by = "ref" \/ overlay = root
      THEN working
      ELSE IF ~Encloses(page, root, overlay) THEN working
      ELSE IF Cardinality(inside) >= Flood
      THEN Append([k \in DOMAIN outside |-> working[outside[k]]],
                  CapturedRow(overlay, Topmost, Cardinality(inside)))
      ELSE IF \E i \in DOMAIN working : working[i].el = overlay THEN working
      ELSE Append(working, CapturedRow(overlay, Topmost, 0))

Blocking(page, el) ==
  At(page, el, "aria-modal") = "true" \/ RoleOf(page, el) = "alertdialog"

Announced(page) ==
  LET overlay == TopOverlay(page)
  IN  IF overlay = None THEN None
      ELSE [ref |-> Ref(page, overlay), modal |-> Blocking(page, overlay)]

Alerts(page) ==
  {page.raw[el] : el \in {l \in Light(page) :
     /\ \/ At(page, l, "role") \in {"alert", "status", "log"}
        \/ At(page, l, "aria-live") \in {"polite", "assertive"}
     /\ ~AriaHidden(page, l) /\ page.raw[l] # None}}

(*--------------------------------- a capture ------------------------------*)
(* Where a click meant for an element that cannot take one ends up.          *)
Blocked(page, el) == el \in page.noPointer \cup page.tiny
MaxClimb == 6

Delegate(page, el) ==
  LET near == {a \in Above(page, el) \ {el} :
                 Cardinality(Above(page, el)) - Cardinality(Above(page, a)) <= MaxClimb}
      takers == {a \in near : a \notin page.noPointer /\ a \in page.cursor}
  IN  IF takers = {} THEN None ELSE Max(takers)

RefCount(page, rows, ref) ==
  Cardinality({i \in DOMAIN rows : Ref(page, rows[i].el) = ref})

(* The row as it leaves the page.  target is what its locator is made for.   *)
Wire(page, rows, row) ==
  LET el == row.el
      count == RefCount(page, rows, Ref(page, el))
      container == IF count > 1 /\ Testid(page, el) = None THEN Container(page, el)
                                                           ELSE None
      target == IF Blocked(page, el) THEN Delegate(page, el) ELSE el
  IN  [ref |-> IF container = None THEN Ref(page, el)
               ELSE [Digest(page.tag[el]) EXCEPT !.role = RoleOf(page, el),
                                                 !.name = ShownName(page, el),
                                                 !.row = container.name],
       el |-> el, role |-> RoleOf(page, el), name |-> ShownName(page, el),
       target |-> target, folded |-> row.folded, container |-> container,
       visible |-> ~VisuallyHidden(page, el),
       locator |->
         CASE target = None -> None
           [] target # None /\ target = el -> Derive(page, el, container, count <= 1)
           [] OTHER -> Derive(page, target, Container(page, target), FALSE)]

(* The element a scoped read means by the descriptor of a ref.               *)
ScopeHit(page, scope) ==
  LET Has(attr, value) == {el \in Light(page) : At(page, el, attr) = value}
      Named(els) == {el \in els : ShownName(page, el) = scope.name}
      like == {el \in Light(page) :
                 /\ page.tag[el] = scope.tag
                 /\ scope.type # None => At(page, el, "type") = scope.type
                 /\ scope.placeholder # None =>
                      At(page, el, "placeholder") = scope.placeholder}
      implied == {el \in Light(page) :
                    /\ page.tag[el] \in {"button", "a", "input", "select", "textarea"}
                    /\ RoleOf(page, el) = scope.role}
  IN  FirstOf(
        IF scope.testid # None THEN Has(scope.attr, scope.testid)
        ELSE IF scope.domId # None THEN Has("id", scope.domId)
        ELSE IF scope.role # None /\ scope.name # None
        THEN IF Named(Has("role", scope.role)) # {} THEN Named(Has("role", scope.role))
                                                    ELSE Named(implied)
        ELSE IF Cardinality(like) > 1 /\ scope.name # None THEN Named(like) ELSE like)

(* An overlay is read itself; of anything else, what it stands in.           *)
RootOf(page, scope) ==
  CASE scope.by = "none" -> 1
    [] scope.by = "css" -> FirstOf(scope.els)
    [] scope.by = "ref" ->
         LET hit == ScopeHit(page, scope)
         IN  IF hit = None THEN None
             ELSE IF IsOverlay(page, hit) \/ page.parent[hit] = None THEN hit
             ELSE page.parent[hit]

ByScore(rows) ==
  LET Place(i) == Cardinality({j \in DOMAIN rows :
                     \/ rows[j].score > rows[i].score
                     \/ rows[j].score = rows[i].score /\ j <= i})
  IN  [k \in DOMAIN rows |-> rows[CHOOSE i \in DOMAIN rows : Place(i) = k]]

(* captureInteractiveSnapshot; None stands for its two errors.               *)
Capture(page, opts) ==
  LET root == RootOf(page, opts.scope)
      rows == Rows(page, opts, root)
      working == WithOverlay(page, opts, root,
                             IF opts.collapse THEN Collapsed(page, rows) ELSE rows)
      sorted == ByScore(working)
      slice == SubSeq(sorted, 1, IF Len(sorted) < MaxNodes THEN Len(sorted) ELSE MaxNodes)
  IN  IF root = None THEN None
      ELSE [elements |-> [i \in DOMAIN slice |-> Wire(page, rows, slice[i])],
            truncated |-> Len(working) > MaxNodes,
            alerts |-> Alerts(page), overlay |-> Announced(page)]

(*------------------------ from the page to the session --------------------*)
(* Rows of a frame carry the way to it in their ref and their locator.       *)
WithFramePath(row, frames) ==
  [row EXCEPT !.ref.frames = frames,
              !.locator = IF @ = None THEN None ELSE [@ EXCEPT !.frames = frames]]

(* The first to bear a ref keeps it; the later are numbered.                 *)
Occurrence(rows, i) == Cardinality({j \in 1..i : rows[j].ref = rows[i].ref})

DisambiguateDuplicateRefs(rows) ==
  [i \in DOMAIN rows |->
     IF Occurrence(rows, i) = 1 THEN rows[i]
     ELSE [rows[i] EXCEPT !.ref.dup = Occurrence(rows, i)]]

(* What the worker's resolver finds for a locator whose rendering is XPath:  *)
(* a test-id among them.                                                     *)
WorkerFinds(page, locator) ==
  IF locator.strategy = "testid"
  THEN Found(page, XPath("*", {<<locator.attr, locator.value>>}))
  ELSE Found(page, locator.xpath)

(* Before an action: one match goes on, several are refused, none is waited  *)
(* for.                                                                      *)
ResolveRef(page, locator) ==
  LET found == WorkerFinds(page, locator)
  IN  CASE locator = None -> "no locator"
        [] locator # None /\ Cardinality(found) > 1 -> "ambiguous"
        [] OTHER -> found

-----------------------------------------------------------------------------
(* A document the browser can hold: numbered in the order it is walked, an   *)
(* element after its parent and its host; a shadow root has its own elements,*)
(* the document one root.                                                    *)
DocumentOK(page) ==
  /\ page.els \subseteq Nat /\ IsFiniteSet(page.els)
  /\ page.cursor \subseteq page.els /\ None \notin page.els
  /\ \A el \in page.els :
       /\ page.parent[el] \in {e \in page.els : e < el} \cup {None}
       /\ page.host[el] \in {e \in page.els : e < el} \cup {None}
       /\ page.parent[el] # None => page.host[page.parent[el]] = page.host[el]
       /\ page.z[el] \in Int
  /\ \A a, b \in Light(page) : page.parent[a] = None /\ page.parent[b] = None => a = b

(* The element's siblings bear their texts undivided: a text split over      *)
(* child elements is spaced at capture, and XPath does not space it.         *)
PlainLabels(page, el) == \A s \in Beside(page, el) : page.raw[s] = page.words[s]

(* An attribute, an id, a combination or a label found unique at capture     *)
(* takes the worker's resolver back to the element the row is for, and to no *)
(* other.  Left out: a test-id inside a shadow root, whose uniqueness is     *)
(* checked in that root while the resolver's XPath sees the document only.   *)
HitsTarget(page, row) ==
  /\ row.locator # None
  /\ row.locator.strategy \in XPathTiers \cup {"testid"}
  /\ row.locator.strategy = "testid" => ~Shadowed(page, row.target)
  /\ row.locator.strategy = "sibling_text" => PlainLabels(page, row.target)
  => WorkerFinds(page, row.locator) = {row.target}

(* No two rows of an answer share a ref: a ref is the key of the descriptor  *)
(* an action is resolved by.                                                 *)
RefsApart(rows) ==
  \A i, j \in DOMAIN rows : rows[i].ref = rows[j].ref => i = j
==============================================================================
