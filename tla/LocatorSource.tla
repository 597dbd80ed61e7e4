---------------------------- MODULE LocatorSource ----------------------------
(****************************************************************************)
(* The one vocabulary of locators the worker captures and code generation   *)
(* renders: locator.ts of the protocol package and locator-derive.ts.       *)
(*                                                                          *)
(* A text is None (absent or empty) or [word, holes]: what is left of it in *)
(* camel case when its placeholders are taken out, and the parameters the   *)
(* placeholders name.  A role is a string or None.  An element is           *)
(* [ref, plainRef, tag, testid, attr, role, name, dynamic, locator]:        *)
(* plainRef says that the ref is itself a good field name, tag stands for   *)
(* the suffix its tag gives, dynamic is the sequence of its parameters.     *)
(****************************************************************************)
EXTENDS Naturals, Sequences, FiniteSets

CONSTANT None

(* Live regions have no name of their own text. *)
NameProhibited == {"alert", "status", "log", "timer", "marquee", "alertdialog"}

XPathTiers == {"testid_xpath", "dom_id", "attr_combo", "sibling_text", "nth"}
ValueTiers == {"testid", "label", "placeholder", "text"}
RoleTiers == {"role_name", "scoped"}

IsDynamic(element) == element.dynamic # <<>>

FirstPresent(options) ==
  LET present == {i \in DOMAIN options : options[i] # None}
  IN  IF present = {} THEN None
      ELSE options[CHOOSE i \in present : \A j \in present : i <= j]

(* The name of the private field a page object keeps the element under.      *)
FieldName(element) ==
  LET Named(text) == IF text = None THEN None ELSE <<text.word, element.tag>>
  IN  FirstPresent(<< Named(element.testid),
                      Named(element.name),
                      IF element.plainRef THEN <<element.ref>> ELSE None,
                      IF element.role # None THEN <<element.role, element.tag>>
                                             ELSE None,
                      <<element.tag, element.tag>> >>)

Locator(strategy) ==
  [strategy |-> strategy, attr |-> None, value |-> None, xpath |-> None,
   role |-> None, name |-> None, container |-> None, frames |-> <<>>]

(* The captured locator, else one made of the legacy fields, tier by tier.   *)
StructuredLocator(element) ==
  FirstPresent(<<
    element.locator,
    IF element.testid # None /\ element.attr
      THEN [Locator("testid") EXCEPT !.value = element.testid] ELSE None,
    IF element.role # None
      THEN [Locator("role_name") EXCEPT
              !.role = element.role,
              !.name = IF element.role \in NameProhibited THEN None
                                                          ELSE element.name]
      ELSE None,
    IF element.name # None
      THEN [Locator("text") EXCEPT !.value = element.name] ELSE None >>)

(* The getByRole calls of a role locator: its own, after its container's.    *)
RoleChain(locator) ==
  LET own == [role |-> locator.role, name |-> locator.name]
  IN  CASE locator.role # None /\ locator.strategy = "role_name" -> <<own>>
        [] /\ locator.role # None /\ locator.strategy = "scoped"
           /\ locator.container # None -> <<locator.container, own>>
        [] OTHER -> <<>>

(* A frame is a structural boundary: only attributes and positions reach it. *)
FrameRenders(hop) ==
  \/ hop.strategy = "testid"
  \/ hop.strategy \in XPathTiers \ {"sibling_text"} /\ hop.xpath # None

(* renderLocatorExpr writes an expression rather than throw.                 *)
Renders(locator) ==
  /\ \A i \in DOMAIN locator.frames : FrameRenders(locator.frames[i])
  /\ locator.strategy \in ValueTiers => locator.value # None
  /\ locator.strategy \in RoleTiers => RoleChain(locator) # <<>>
  /\ locator.strategy \in XPathTiers => locator.xpath # None

LocatorDerives(element) ==
  /\ StructuredLocator(element) # None
  /\ Renders(StructuredLocator(element))

HolesOf(text) == IF text = None THEN {} ELSE text.holes

(* The slot of the locator the validator looks for placeholders in.          *)
CheckedHoles(element) ==
  LET locator == StructuredLocator(element)
  IN  CASE locator = None -> {}
        [] locator # None /\ locator.strategy \in RoleTiers ->
             HolesOf(locator.name)
        [] locator # None /\ locator.strategy \in XPathTiers ->
             HolesOf(locator.xpath)
        [] OTHER -> HolesOf(locator.value)

(* The parameters the written source reads: every text of a dynamic element *)
(* becomes a template, the container's name and the frames' too.            *)
WrittenHoles(element) ==
  LET locator == StructuredLocator(element)
  IN  IF ~IsDynamic(element) \/ locator = None THEN {}
      ELSE CheckedHoles(element)
             \cup (IF locator.container = None THEN {}
                   ELSE HolesOf(locator.container.name))
             \cup UNION {HolesOf(locator.frames[i].xpath) :
                           i \in DOMAIN locator.frames}
==============================================================================
