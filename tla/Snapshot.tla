------------------------------ MODULE Snapshot ------------------------------
(***************************************************************************)
(* What the agent gets to see of a page, and the refs ("e1", "e2", ...) by  *)
(* which it points at it: extensions/browser/src/utils/snapshot.mjs.        *)
(*                                                                         *)
(* The content of a page is a record:                                       *)
(*   items    what the DOM walk finds, in the order of its sections: records *)
(*            [section, key, el] of what passed the tests of visibility and  *)
(*            length; key is the text that tells doubles, el the element     *)
(*            that gets the ref, None for a search result without a link     *)
(*   sparse   fewer than 100 characters of text were found                  *)
(*   nodes    the interactive nodes of the accessibility tree               *)
(*   allNodes those of the full tree, which is read when the first is short,  *)
(*            <<>> when it is not; it is printed when it is the longer one   *)
(* Ref "e<n>" is the number n.  In the map of refs, `dom` tells whether a ref *)
(* is looked up by its data-bq-ref attribute (isDomRef) or by role and name. *)
(* attrs are these attributes, 0 for an element without one.                *)
(***************************************************************************)
EXTENDS Naturals, Sequences, Functions

CONSTANTS Element, Content, None

ASSUME SnapshotAssumption ==
    /\ None \notin Element
    /\ \A content \in Content :
           /\ content.items \in Seq(Range(content.items))
           /\ \A item \in Range(content.items) : item.el \in Element \cup {None}
           /\ content.nodes \in Seq(Element) /\ content.allNodes \in Seq(Element)

NoAttrs == [el \in Element |-> 0]

\* Text inputs and selects are printed however often they occur.
Deduplicated == {"button", "link", "clickable", "product", "result"}

\* Of the map results, the code asks whether one was seen and forgets to say so.
IsDouble(seen, item) ==
    item.section \in Deduplicated /\ <<item.section, item.key>> \in seen

\* addRef, and the item the section pushes.
Extract(found, item) ==
    LET seen == found.seen \cup {<<item.section, item.key>>}
        n == found.ref + 1
    IN  IF IsDouble(found.seen, item) THEN found
        ELSE IF item.el = None THEN [found EXCEPT !.seen = seen]
        ELSE [seen |-> seen, ref |-> n,
              attrs |-> [found.attrs EXCEPT ![item.el] = n],
              printed |-> Append(found.printed, [ref |-> n, el |-> item.el, dom |-> TRUE])]

\* What a loop over the items, from what was found so far, has found in the end.
Walked(start, items) ==
    LET found[k \in 0..Len(items)] ==
            IF k = 0 THEN start ELSE Extract(found[k - 1], items[k])
    IN  found[Len(items)]

\* refMap.set for each of the entries.
Known(map, entries) ==
    LET upTo[k \in 0..Len(entries)] ==
            IF k = 0 THEN map
            ELSE LET p == entries[k]
                 IN  [n \in DOMAIN upTo[k - 1] \cup {p.ref} |->
                        IF n = p.ref THEN [el |-> p.el, dom |-> p.dom] ELSE upTo[k - 1][n]]
    IN  upTo[Len(entries)]

\* The walk of the DOM, which counts on from the ref it is given and writes the
\* refs into the document.
extractPage(start, attrs, content) ==
    Walked([seen |-> {}, ref |-> start, attrs |-> attrs, printed |-> <<>>], content.items)

\* The entries that flattenA11yTree registers for the interactive nodes of a tree.
flattenA11yTree(start, nodes) ==
    [i \in 1..Len(nodes) |-> [ref |-> start + i, el |-> nodes[i], dom |-> FALSE]]
=============================================================================
