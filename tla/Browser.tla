------------------------------ MODULE Browser ------------------------------
(***************************************************************************)
(* The process of the browser extension: client.mjs, utils/snapshot.mjs and   *)
(* the tools under extensions/browser/src/tools.  The runner of extensions   *)
(* starts a handler for every `execute` it is sent (extension-runner.js:70)    *)
(* and the host forgets a call after thirty seconds while its handler goes on, *)
(* so calls overlap at their awaits: each await is a stage of the call, and     *)
(* what may go wrong at it an outcome of the step that leaves the stage.       *)
(*                                                                         *)
(* A tab is its number ("tab1").  An open page is what playwright keeps of it: *)
(* its browser, the tab its listeners were made for, what its document shows   *)
(* and the refs written into it.                                             *)
(***************************************************************************)
EXTENDS Snapshot, FiniteSets, FiniteSetsExt

CONSTANTS
    ToolCall,    \* calls that can be under way together
    BrowserId,   \* bound on the browsers that are launched or remembered at a time
    Page,        \* bound on the pages open at a time
    MaxTabs,     \* bound on the tabs opened between two quits
    MaxStart     \* bound on the ref from which a walk counts: snapshots that overlap
                 \* hand their counters on to each other

ASSUME BrowserAssumption ==
    /\ MaxTabs \in Nat /\ MaxStart \in Nat
    /\ None \notin BrowserId \cup Page

VARIABLES
    browser, context,   \* client.mjs; a context is the browser it belongs to
    pages,              \* tab |-> page
    activePage,
    tabCounter,
    refMap,             \* ref |-> [el, dom]
    refCounter,
    alive,              \* the browsers that run
    docs,               \* the open pages |-> [browser, tab, content, attrs]
    calls,              \* where each call waits, and with what
    holders,            \* calls that walk with the map that refMap still is
    raced,              \* history: browsers launched while another call was about to
                        \* put something else in the variable
    unclosed,           \* history: browsers that would not close
    alone,              \* history: calls whose snapshot no other call has disturbed
    answer              \* history: the last answer with a snapshot: [refs, page, alone]

lifecycle == <<browser, context, alive, raced, unclosed>>
tabs == <<pages, activePage, tabCounter, docs>>
refs == <<refMap, refCounter, holders, alone, answer>>
browserVars == <<browser, context, pages, activePage, tabCounter, refMap, refCounter,
                 alive, docs, calls, holders, raced, unclosed, alone, answer>>

Tab == 1..MaxTabs
Idle == [at |-> "idle"]
NoAnswer == [refs |-> {}, page |-> None, alone |-> FALSE]

Entry == [ref : Nat \ {0}, el : Element, dom : BOOLEAN]

\* The stages of a call, named after what is awaited.
Waiting ==
    {Idle} \cup [at : {"launch", "addInitScript", "cookies"}]
    \cup [at : {"newContext", "newPage", "close"}, browser : BrowserId]
    \cup [at : {"goto", "act"}, page : Page, tab : Tab \cup {None}]
    \cup [at : {"closePage", "ready"}, page : Page]
    \cup [at : {"walk"}, page : Page, start : Nat]
    \cup [at : {"tree"}, page : Page, texts : SUBSET SUBSET Entry]
    \cup [at : {"fullTree"}, page : Page, texts : SUBSET SUBSET Entry, tree : SUBSET Entry]

BrowserTypeOK ==
    /\ browser \in BrowserId \cup {None} /\ context \in BrowserId \cup {None}
    /\ alive \subseteq BrowserId /\ raced \subseteq BrowserId /\ unclosed \subseteq BrowserId
    /\ tabCounter \in 0..MaxTabs
    /\ DOMAIN docs \subseteq Page
    /\ \A p \in DOMAIN docs :
           docs[p] \in [browser : alive, tab : Tab, content : Content, attrs : [Element -> Nat]]
    /\ DOMAIN pages \subseteq Tab /\ \A t \in DOMAIN pages : pages[t] \in DOMAIN docs
    /\ activePage \in DOMAIN docs \cup {None}
    /\ DOMAIN refMap \subseteq Nat \ {0}
    /\ \A n \in DOMAIN refMap : refMap[n] \in [el : Element, dom : BOOLEAN]
    /\ refCounter \in Nat
    /\ calls \in [ToolCall -> Waiting]
    /\ holders \subseteq ToolCall /\ alone \subseteq ToolCall
    /\ answer \in [refs : SUBSET Entry, page : Page \cup {None}, alone : BOOLEAN]

BrowserInit ==
    /\ browser = None /\ context = None /\ alive = {} /\ raced = {} /\ unclosed = {}
    /\ pages = <<>> /\ activePage = None /\ tabCounter = 0 /\ docs = <<>>
    /\ refMap = <<>> /\ refCounter = 0 /\ holders = {}
    /\ calls = [c \in ToolCall |-> Idle]
    /\ alone = {} /\ answer = NoAnswer

-----------------------------------------------------------------------------

Waits(c, stage) == calls' = [calls EXCEPT ![c] = stage]

\* The handler returns or throws; index.mjs makes an answer of either.
Ends(c) == Waits(c, Idle)

\* An await of the call fails, and nothing else changes.
Fails(c) == Ends(c) /\ UNCHANGED <<lifecycle, tabs, refs>>

\* The pages are kept in the order in which they were opened.
FirstPage(open) == IF DOMAIN open = {} THEN None ELSE open[Min(DOMAIN open)]

getActivePage == IF activePage # None THEN activePage ELSE FirstPage(pages)

\* The pages that stay in the map when those of a set close: each listener deletes
\* the tab it was made for, whatever page is there by now.
Left(closed) ==
    [t \in DOMAIN pages \ {docs[p].tab : p \in closed} |-> pages[t]]

\* Mutant: the listener leaves the tab in the map.
ClosedKeepsTab(closed) ==
    /\ docs' = [p \in DOMAIN docs \ closed |-> docs[p]]
    /\ pages' = pages
    /\ activePage' = IF activePage \in closed THEN None ELSE activePage

\* The listeners of the close events of a set of pages.
Closed(closed) ==
    /\ docs' = [p \in DOMAIN docs \ closed |-> docs[p]]
    /\ pages' = Left(closed)
    /\ activePage' = IF activePage \in closed THEN None ELSE activePage

PagesOf(b) == {p \in DOMAIN docs : docs[p].browser = b}

-----------------------------------------------------------------------------
(* client.mjs: ensureBrowser and openTab.                                  *)

\* Mutant: a browser without a context of its own is launched again.
isConnectedWithContext == browser # None /\ browser \in alive /\ context = browser

isConnected == browser # None /\ browser \in alive

\* context.newPage(), which throws at once without a context.
AsksForPage(c) ==
    IF context = None THEN Ends(c) ELSE Waits(c, [at |-> "newPage", browser |-> context])

\* ensureBrowser up to its launch, or openTab up to newPage without one.
EnsureBrowser(c) ==
    /\ IF isConnected THEN AsksForPage(c) ELSE Waits(c, [at |-> "launch"])
    /\ UNCHANGED <<lifecycle, tabs, refs>>

\* A browser object that nothing refers to.
Fresh == BrowserId \ (alive \cup {browser, context}
                        \cup {calls[d].browser : d \in {d \in ToolCall :
                                calls[d].at \in {"newContext", "newPage", "close"}}})

\* The calls that will put another browser, or null, in the place of this one.
Rivals(c) == {d \in ToolCall \ {c} : calls[d].at \in {"launch", "close"}}

Launched(c) ==
    /\ calls[c].at = "launch"
    /\ \E b \in Fresh :
           /\ browser' = b
           /\ alive' = alive \cup {b}
           /\ raced' = IF Rivals(c) = {} THEN raced \ {b} ELSE raced \cup {b}
           /\ unclosed' = unclosed \ {b}
           /\ Waits(c, [at |-> "newContext", browser |-> b])
    /\ UNCHANGED <<context, tabs, refs>>

ContextMade(c) ==
    /\ calls[c].at = "newContext" /\ calls[c].browser \in alive
    /\ context' = calls[c].browser
    /\ Waits(c, [at |-> "addInitScript"])
    /\ UNCHANGED <<browser, alive, raced, unclosed, tabs, refs>>

ScriptsAdded(c) ==
    /\ calls[c].at = "addInitScript"
    /\ AsksForPage(c)
    /\ UNCHANGED <<lifecycle, tabs, refs>>

NewPages == Page \ (DOMAIN docs \cup {calls[d].page : d \in {d \in ToolCall :
                calls[d].at \in {"goto", "act", "closePage", "ready", "walk", "tree", "fullTree"}}})

PageOpened(c, content) ==
    /\ calls[c].at = "newPage" /\ calls[c].browser \in alive
    /\ tabCounter < MaxTabs
    /\ tabCounter' = tabCounter + 1
    /\ \E p \in NewPages :
           /\ docs' = [q \in DOMAIN docs \cup {p} |->
                         IF q = p THEN [browser |-> calls[c].browser, tab |-> tabCounter',
                                        content |-> content, attrs |-> NoAttrs]
                         ELSE docs[q]]
           /\ pages' = [t \in DOMAIN pages \cup {tabCounter'} |->
                          IF t = tabCounter' THEN p ELSE pages[t]]
           /\ activePage' = p
           /\ Waits(c, [at |-> "goto", page |-> p, tab |-> tabCounter'])
    /\ UNCHANGED <<lifecycle, refs>>

\* goto has the document; smartWait swallows what goes wrong after it.
Loaded(c, content) ==
    LET p == calls[c].page
    IN  /\ calls[c].at = "goto" /\ p \in DOMAIN docs
        /\ docs' = [docs EXCEPT ![p].content = content, ![p].attrs = NoAttrs]
        /\ Waits(c, [at |-> "act", page |-> p, tab |-> calls[c].tab])
        /\ UNCHANGED <<lifecycle, pages, activePage, tabCounter, refs>>

-----------------------------------------------------------------------------
(* The tools, up to their first await.                                     *)

Open(c) == EnsureBrowser(c)

Navigate(c) ==
    LET p == getActivePage
    IN  \/ p = None /\ EnsureBrowser(c)
        \/ /\ p # None
           /\ activePage' = p
           /\ Waits(c, [at |-> "goto", page |-> p, tab |-> None])
           /\ UNCHANGED <<lifecycle, pages, tabCounter, docs, refs>>

\* browser-snapshot, -wait, -scroll and -press; also -click and -type, once they
\* know the ref.  What they do to the document is PageChanges.
Act(c) ==
    LET p == getActivePage
    IN  /\ p # None
        /\ activePage' = p
        /\ Waits(c, [at |-> "act", page |-> p, tab |-> None])
        /\ UNCHANGED <<lifecycle, pages, tabCounter, docs, refs>>

Click(c, ref) == ref \in DOMAIN refMap /\ Act(c)

Switch(c, tab) ==
    /\ tab \in DOMAIN pages
    /\ activePage' = pages[tab]
    /\ Waits(c, [at |-> "act", page |-> pages[tab], tab |-> None])
    /\ UNCHANGED <<lifecycle, pages, tabCounter, docs, refs>>

\* browser-evaluate runs the agent's code in the page, which may do to the
\* document what the page's own scripts may.
Evaluate(content) ==
    LET p == getActivePage
    IN  /\ p # None
        /\ activePage' = p
        /\ docs' = [docs EXCEPT ![p].content = content]
        /\ UNCHANGED <<lifecycle, pages, tabCounter, refs, calls>>

\* browser-tabs.
ListTabs ==
    /\ DOMAIN pages # {}
    /\ activePage' = getActivePage
    /\ UNCHANGED <<lifecycle, pages, tabCounter, docs, refs, calls>>

CloseTab(c) ==
    LET p == getActivePage
    IN  /\ p # None
        /\ activePage' = p
        /\ Waits(c, [at |-> "closePage", page |-> p])
        /\ UNCHANGED <<lifecycle, pages, tabCounter, docs, refs>>

\* The answer names the tab that is next.
TabClosed(c) ==
    LET closed == {calls[c].page} \cap DOMAIN docs
    IN  /\ calls[c].at = "closePage"
        /\ docs' = [p \in DOMAIN docs \ closed |-> docs[p]]
        /\ pages' = Left(closed)
        /\ activePage' = IF activePage \in closed \cup {None} THEN FirstPage(Left(closed))
                         ELSE activePage
        /\ Ends(c)
        /\ UNCHANGED <<lifecycle, tabCounter, refs>>

-----------------------------------------------------------------------------
(* browser-quit: closeBrowser.                                             *)

\* Without a browser it has nothing to do.
Quit(c) ==
    /\ browser # None
    /\ Waits(c, IF context = None THEN [at |-> "close", browser |-> browser]
                ELSE [at |-> "cookies"])
    /\ UNCHANGED <<lifecycle, tabs, refs>>

\* The cookies are saved or not; another quit may have set the variable to null.
CookiesSaved(c) ==
    /\ calls[c].at = "cookies"
    /\ IF browser = None THEN Ends(c) ELSE Waits(c, [at |-> "close", browser |-> browser])
    /\ UNCHANGED <<lifecycle, tabs, refs>>

\* What closeBrowser does once close has settled, whatever the variables hold by now.
Forget ==
    /\ browser' = None /\ context' = None
    /\ pages' = <<>> /\ activePage' = None /\ tabCounter' = 0
    /\ refMap' = <<>> /\ refCounter' = 0
    /\ alone' = {} /\ answer' = NoAnswer

\* A failing close is swallowed: the browser may live on.
BrowserClosed(c) ==
    LET b == calls[c].browser
    IN  /\ calls[c].at = "close"
        /\ \/ /\ alive' = alive \ {b}
              /\ docs' = [p \in DOMAIN docs \ PagesOf(b) |-> docs[p]]
              /\ UNCHANGED unclosed
           \/ /\ unclosed' = unclosed \cup {b}
              /\ UNCHANGED <<alive, docs>>
        /\ Forget
        /\ Ends(c)
        /\ UNCHANGED <<raced, holders>>

-----------------------------------------------------------------------------
(* utils/snapshot.mjs: getSnapshot, with which most tools end.             *)

InSnapshot(c) == calls[c].at \in {"ready", "walk", "tree", "fullTree"}

\* After openTab, the page is the one that the map has under the tab.
PageOf(call) ==
    IF call.tab = None THEN call.page
    ELSE IF call.tab \in DOMAIN pages THEN pages[call.tab] ELSE None

\* resetRefs puts a new map in the place of the old one.
StartSnapshot(c) ==
    /\ calls[c].at = "act"
    /\ PageOf(calls[c]) # None
    /\ Waits(c, [at |-> "ready", page |-> PageOf(calls[c])])
    /\ refMap' = <<>> /\ refCounter' = 0 /\ holders' = {}
    /\ alone' = IF \E d \in ToolCall \ {c} : InSnapshot(d) THEN {} ELSE {c}
    /\ answer' = NoAnswer
    /\ UNCHANGED <<lifecycle, tabs>>

\* extractPage takes the map and the counter along; without it, when the page could
\* not be scrolled, the accessibility tree is the last resort.
PageReady(c) ==
    LET p == calls[c].page
    IN  /\ calls[c].at = "ready"
        /\ \/ /\ refCounter <= MaxStart
              /\ Waits(c, [at |-> "walk", page |-> p, start |-> refCounter])
              /\ holders' = holders \cup {c}
           \/ /\ Waits(c, [at |-> "tree", page |-> p, texts |-> {}])
              /\ UNCHANGED holders
        /\ UNCHANGED <<lifecycle, tabs, refMap, refCounter, alone, answer>>

\* The text goes to the agent.
Answers(c, text) ==
    /\ answer' = [refs |-> text, page |-> calls[c].page, alone |-> c \in alone]
    /\ Ends(c)

\* The walk runs in the page, and its refs go into the map it took along.  Replies
\* come in the order of the walks, so the two are one step.  A sparse page has its
\* accessibility tree read as well.
PageWalked(c) ==
    LET p == calls[c].page
        found == extractPage(calls[c].start, docs[p].attrs, docs[p].content)
        text == Range(found.printed)
    IN  /\ calls[c].at = "walk" /\ p \in DOMAIN docs
        /\ docs' = [docs EXCEPT ![p].attrs = found.attrs]
        /\ refMap' = IF c \in holders THEN Known(refMap, found.printed) ELSE refMap
        /\ refCounter' = found.ref
        /\ IF docs[p].content.sparse
           THEN Waits(c, [at |-> "tree", page |-> p, texts |-> {text}]) /\ UNCHANGED answer
           ELSE Answers(c, text)
        /\ holders' = holders \ {c}
        /\ UNCHANGED <<lifecycle, pages, activePage, tabCounter, alone>>

\* The document went away under the walk.
WalkFailed(c) ==
    /\ calls[c].at = "walk"
    /\ Waits(c, [at |-> "tree", page |-> calls[c].page, texts |-> {}])
    /\ holders' = holders \ {c}
    /\ UNCHANGED <<lifecycle, tabs, refMap, refCounter, alone, answer>>

\* Mutant: flattenA11yTree counts on, and does not say how far.
RegistersWithoutCounter(entries) ==
    /\ refMap' = Known(refMap, entries)
    /\ UNCHANGED refCounter

\* flattenA11yTree registers with the map and the counter of the moment.
Registers(entries) ==
    /\ refMap' = Known(refMap, entries)
    /\ refCounter' = refCounter + Len(entries)

\* The interactive nodes, and when they are few those of the full tree.  The longest
\* text is printed.
TreeRead(c) ==
    LET p == calls[c].page
        entries == flattenA11yTree(refCounter, docs[p].content.nodes)
        tree == Range(entries)
    IN  /\ calls[c].at = "tree" /\ p \in DOMAIN docs
        /\ Registers(entries)
        /\ IF docs[p].content.allNodes = <<>>
           THEN \E text \in calls[c].texts \cup {tree} : Answers(c, text)
           ELSE /\ Waits(c, [at |-> "fullTree", page |-> p, texts |-> calls[c].texts,
                             tree |-> tree])
                /\ UNCHANGED answer
        /\ UNCHANGED <<lifecycle, tabs, holders, alone>>

FullTreeRead(c) ==
    LET p == calls[c].page
        entries == flattenA11yTree(refCounter, docs[p].content.allNodes)
    IN  /\ calls[c].at = "fullTree" /\ p \in DOMAIN docs
        /\ Registers(entries)
        /\ \E text \in calls[c].texts \cup {calls[c].tree, Range(entries)} : Answers(c, text)
        /\ UNCHANGED <<lifecycle, tabs, holders, alone>>

\* The error is the text of the tree.
TreeFailed(c) ==
    /\ calls[c].at \in {"tree", "fullTree"}
    /\ \E text \in calls[c].texts \cup {{}} : Answers(c, text)
    /\ UNCHANGED <<lifecycle, tabs, refMap, refCounter, holders, alone>>

-----------------------------------------------------------------------------
(* What happens to the browsers, their pages and the process.              *)

\* A browser that ends takes its pages along, each with its close event.
Crash(b) ==
    /\ alive' = alive \ {b}
    /\ Closed(PagesOf(b))
    /\ UNCHANGED <<browser, context, raced, unclosed, tabCounter, refs, calls>>

\* A page closes itself, or the user closes its window.
PageCloses(p) ==
    /\ Closed({p})
    /\ UNCHANGED <<lifecycle, tabCounter, refs, calls>>

\* A script changes the document; what was written into it stays.  A link or a
\* script moves on to another one.
PageChanges(p, content) ==
    /\ \E attrs \in {docs[p].attrs, NoAttrs} :
           docs' = [docs EXCEPT ![p].content = content, ![p].attrs = attrs]
    /\ UNCHANGED <<lifecycle, pages, activePage, tabCounter, refs, calls>>

\* The process of the extension ends, and playwright's browsers with it; the next
\* one starts with nothing.
Restart ==
    /\ alive' = {} /\ raced' = {} /\ unclosed' = {}
    /\ docs' = <<>>
    /\ calls' = [c \in ToolCall |-> Idle]
    /\ holders' = {}
    /\ Forget

Begin(c) ==
    /\ calls[c] = Idle
    /\ \/ Open(c) \/ Navigate(c) \/ Act(c) \/ CloseTab(c) \/ Quit(c)
       \/ \E ref \in DOMAIN refMap : Click(c, ref)
       \/ \E tab \in DOMAIN pages : Switch(c, tab)
       \/ ListTabs \/ \E content \in Content : Evaluate(content)

Continue(c) ==
    \/ Launched(c) \/ ContextMade(c) \/ ScriptsAdded(c)
    \/ \E content \in Content : PageOpened(c, content) \/ Loaded(c, content)
    \/ TabClosed(c) \/ CookiesSaved(c) \/ BrowserClosed(c)
    \/ StartSnapshot(c) \/ PageReady(c) \/ PageWalked(c) \/ WalkFailed(c)
    \/ TreeRead(c) \/ FullTreeRead(c) \/ TreeFailed(c)
    \/ /\ calls[c].at \in {"launch", "newContext", "addInitScript", "newPage", "goto", "act",
                           "closePage"}
       /\ Fails(c)

BrowserNext ==
    \/ \E c \in ToolCall : Begin(c) \/ Continue(c)
    \/ \E b \in alive : Crash(b)
    \/ \E p \in DOMAIN docs :
           PageCloses(p) \/ \E content \in Content : PageChanges(p, content)
    \/ Restart

BrowserSpec == BrowserInit /\ [][BrowserNext]_browserVars

-----------------------------------------------------------------------------
(* What the extension promises.                                            *)

\* The entries of a text are known to resolveRef, each as the element it is printed
\* beside.
AreKnown(text) ==
    \A entry \in text : entry.ref \in DOMAIN refMap
                        /\ refMap[entry.ref] = [el |-> entry.el, dom |-> entry.dom]

\* A ref that the agent has read in the last answer is known to resolveRef, and as
\* the element it was printed beside, whichever of the ways to read the page was
\* taken: the accessibility tree goes on counting where the walk of the DOM stopped
\* (setRefCounter, snapshot.mjs:523).  This holds of an answer whose snapshot no
\* other call's snapshot overlapped: one that did takes the map away under the walk
\* (getRefMap, 138; resetRefs, 34; refMap.set, 514).
PrintedRefsAreKnown == answer.alone => AreKnown(answer.refs)

\* The extension loses sight of a browser only if it launched it while another call
\* was launching or closing one (the check, client.mjs:35, and the assignment, 63,
\* lie on two sides of an await), or if the browser would not close (157): whatever
\* crashes, failed launches and earlier quits came before, any other browser that
\* runs is the one that browser-quit closes.
NoLostBrowser == alive \ {browser} \subseteq raced \cup unclosed

\* README.md:289, "Refs reset on each new snapshot.": no element carries one of this
\* snapshot's refs from an earlier one, so that looking the ref up by its attribute
\* (resolveRef) finds the element it was printed for.
RefsAreReset ==
    answer.page \in DOMAIN docs =>
        \A entry \in answer.refs : \A el \in Element :
            entry.dom /\ docs[answer.page].attrs[el] = entry.ref => el = entry.el
=============================================================================
