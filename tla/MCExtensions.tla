---------------------------- MODULE MCExtensions ----------------------------
(* The browser and the mail extension.  The host runs one of them at a time and *)
(* they share nothing, so a behaviour is about one; the browser's are taken     *)
(* twice, with bounds for what is read of a page and for the browsers' life.   *)
EXTENDS Browser, Gmail, TLC

CONSTANTS
    x, y,
    Parts       \* the parts that a run looks at: "pages", "life", "setup"

VARIABLE part

Item(section, key, el) == [section |-> section, key |-> key, el |-> el]

\* A page with a double and an element in two sections, and one so sparse that
\* the accessibility tree is read, twice.
FullPages ==
    {[items |-> <<Item("button", "k", x), Item("button", "k", y), Item("product", "p", x),
                  Item("result", "r", None)>>,
      sparse |-> FALSE, nodes |-> <<>>, allNodes |-> <<>>],
     [items |-> <<Item("map", "k", y)>>,
      sparse |-> TRUE, nodes |-> <<y>>, allNodes |-> <<x>>]}

BlankPages == {[items |-> <<>>, sparse |-> FALSE, nodes |-> <<>>, allNodes |-> <<>>]}

MCContent == FullPages \cup BlankPages

Contents == {docs[p].content : p \in DOMAIN docs}

\* One browser, whose launch and close nothing disturbs, and one tab, with pages that
\* have something on them.
PagesBound ==
    /\ Cardinality(BrowserId \ Fresh) <= 1 /\ raced \cup unclosed = {}
    /\ tabCounter <= 1
    /\ Contents \subseteq FullPages

\* Browsers that come and go in any way, with pages that are blank.
LifeBound == Contents \subseteq BlankPages

MCInit == part \in Parts /\ BrowserInit /\ GmailInit

MCNext ==
    \/ part = "pages" /\ BrowserNext /\ PagesBound' /\ UNCHANGED <<gmailVars, part>>
    \/ part = "life" /\ BrowserNext /\ LifeBound' /\ UNCHANGED <<gmailVars, part>>
    \/ part = "setup" /\ GmailNext /\ UNCHANGED <<browserVars, part>>

MCSpec == MCInit /\ [][MCNext]_<<browserVars, gmailVars, part>>

MCSymmetry == Permutations(ToolCall) \cup Permutations(BrowserId) \cup Permutations(Page)
=============================================================================
