----------------------------- MODULE ScriptDom -----------------------------
(* The DOM mutations script can make (raikiri-js runtime/tree.rs, node.rs and
   webidl.rs) over the arena of DomTree and the records of NodeGraph.  A
   binding borrows the runtime state once or several times; after each borrow
   the records are synchronised, and the collector may run anywhere.  Script
   itself does not run inside a binding: what it passed stays rooted in
   call.args.

   A variadic argument is a node id, or 0 for a string, which becomes a text
   node.  A call that throws before it changed anything is not a step, nor is one the
   node budget refuses: it aborts the run. *)
EXTENDS NodeGraph

CONSTANTS Kinds,      \* the kinds of node script creates
          MaxHeld,    \* script variables
          MaxItems    \* arguments of a variadic call

ASSUME ScriptAssumption == /\ Kinds \subseteq {"element", "text", "comment", "fragment", "template"}
                           /\ MaxHeld \in Nat /\ MaxItems \in Nat

\* The page script finds is within the limit: parsing it counts no nodes.
ASSUME PageAssumption == MaxNodes >= 3

Reachable == Reach(doc, Roots)
Idle      == call = NoCall

\* note_child_list_change: the elements whose sheet is replaced, were they
\* style elements, when these nodes have moved.  A call replaces a sheet once.
SheetsReplaced(new, moved) ==
    {m \in Ids(new) : /\ IsElement(new, m)
                      /\ \E n \in moved : \/ m \in {ParentOf(doc, n), ParentOf(new, n)}
                                          \/ IsAncestorOrSelf(new, n, m)}
      \ call.sheets

\* A binding's borrow leaves the arena as "new" and the call at "next".
BorrowNoting(new, next, moved) ==
    /\ doc' = new
    /\ call' = [next EXCEPT !.sheets = SheetsReplaced(new, moved)]
    /\ UNCHANGED <<graphVars, held>>

Borrow(new, next) == BorrowNoting(new, next, new.changed \cap Ids(doc))

\* Gathering notes only what it takes from a parent.
Gather(new, next) ==
    BorrowNoting(new, next, {n \in new.changed \cap Ids(doc) : ParentOf(doc, n) # None})

Returning(args) == [NoCall EXCEPT !.then = "return", !.args = args]
Wrapping(args, n) == [NoCall EXCEPT !.then = "wrap", !.args = args, !.node = n]

----------------------------------------------------------------------------
(* The node budget. *)

FitsBudget(count) == Len(doc.nodes) + count <= MaxNodes

\* nodes_into_a_node: a text node per string, a fragment unless there is
\* exactly one argument
Additional(items) ==
    Cardinality({i \in DOMAIN items : items[i] = None}) + (IF Len(items) = 1 THEN 0 ELSE 1)

----------------------------------------------------------------------------
(* Bindings of one borrow. *)

InsertBefore(p, n, before) ==
    /\ MayPreInsert(doc, p, n, before)
    /\ Borrow(PreInserted(doc, p, n, before), Returning({p, n, before} \ {None}))

RemoveChild(n) ==
    /\ ParentOf(doc, n) # None
    /\ MayRemove(doc, ParentOf(doc, n), n)
    /\ Borrow(PreRemoved(doc, n), Returning({n, ParentOf(doc, n)}))

ReplaceChild(p, n, child) ==
    /\ MayReplace(doc, p, n, child)
    /\ n # child
    /\ Borrow(Replaced(doc, p, n, child), Returning({p, n, child}))

SetTextContent(p, kinds) ==
    /\ IsElement(doc, p)
    /\ FitsBudget(Cardinality(kinds))
    /\ Borrow(Filled(doc, p, kinds), Returning({p}))

SetInnerHTML(p, kinds) ==
    /\ IsElement(doc, p)
    /\ FitsBudget(Cardinality(kinds) + Cardinality(kinds \cap {"template"}))
    /\ Borrow(Filled(doc, MarkupTarget(doc, p), kinds), Returning({p}))

----------------------------------------------------------------------------
(* Bindings that make a node and wrap it for script. *)

Create(kind) ==
    /\ FitsBudget(IF kind = "template" THEN 2 ELSE 1)
    /\ Borrow(Added(doc, kind),
              [Wrapping({}, Len(doc.nodes) + 1) EXCEPT
                 !.then = IF kind = "template" THEN "contents" ELSE "wrap"])

AddContents ==
    /\ call.then = "contents"
    /\ Synced
    /\ Borrow(WithContents(doc, call.node), Wrapping({}, call.node))

CloneNode(n, deep) ==
    /\ n # Root
    /\ FitsBudget(Cardinality(Copied(doc, n, deep)))
    /\ Borrow(Cloned(doc, n, deep), Wrapping({n}, Len(doc.nodes) + 1))

SplitText(n) ==
    LET made == Added(doc, "text")
        p    == ParentOf(doc, n)
    IN  /\ doc.nodes[n].kind = "text"
        /\ FitsBudget(1)
        /\ Borrow(IF p = None THEN made
                  ELSE PreInserted(made, p, Newest(made), NextSibling(doc, n)),
                  Wrapping({n}, Newest(made)))

Wrap ==
    /\ call.then = "wrap"
    /\ Synced
    /\ records' = Recorded(call.node)
    /\ held' = held \cup {call.node}
    /\ call' = NoCall
    /\ UNCHANGED <<doc, known, todo, kept>>

----------------------------------------------------------------------------
(* The variadic bindings: append, prepend and replaceChildren of a parent;
   before, after and replaceWith of a child. *)

FirstNotIn(seq, given) ==
    LET fits == {i \in DOMAIN seq : seq[i] \notin given}
    IN  IF fits = {} THEN None ELSE seq[CHOOSE i \in fits : \A j \in fits : i <= j]

Position(d, n) == CHOOSE i \in DOMAIN Kids(d, ParentOf(d, n)) : Kids(d, ParentOf(d, n))[i] = n
Preceding(d, n) == SubSeq(Kids(d, ParentOf(d, n)), 1, Position(d, n) - 1)
Following(d, n) == SubSeq(Kids(d, ParentOf(d, n)), Position(d, n) + 1, Len(Kids(d, ParentOf(d, n))))

\* Mutant of ViablePrevious: the arguments are not skipped.
PreviousAnyway(n, given) == FirstNotIn(Reverse(Preceding(doc, n)), {})

ViablePrevious(n, given) == FirstNotIn(Reverse(Preceding(doc, n)), given)
ViableNext(n, given) == FirstNotIn(Following(doc, n), given)

\* The strings made text nodes, in order.
Indices(items) ==
    [i \in DOMAIN items |->
       IF items[i] # None THEN items[i]
       ELSE Len(doc.nodes) + Cardinality({j \in 1..i : items[j] = None})]

\* nodes_into_a_node: what was moved into the fragment stays there when a
\* later argument is refused.
Gathered(items) ==
    LET texts  == Cardinality({i \in DOMAIN items : items[i] = None})
        given  == Indices(items)
        made   == [doc EXCEPT !.nodes = @ \o [i \in 1..texts |-> New("text")]]
        holder == Len(doc.nodes) + texts + 1
        filled[k \in 0..Len(items)] ==
          IF k = 0 THEN [doc |-> Added(made, "fragment"), node |-> holder, ok |-> TRUE]
          ELSE LET sofar == filled[k - 1]
               IN  IF sofar.ok /\ MayPreInsert(sofar.doc, holder, given[k], None)
                   THEN [sofar EXCEPT !.doc = PreInserted(sofar.doc, holder, given[k], None)]
                   ELSE [sofar EXCEPT !.ok = FALSE]
    IN  IF Len(items) = 1 THEN [doc |-> made, node |-> given[1], ok |-> TRUE]
        ELSE filled[Len(items)]

\* What the DOM standard asks of the parent's children, from the arguments
\* alone: the nodes given, fragments opened, in argument order; and around
\* them the children that were there and are not among them.
Opened(items) ==
    LET given == Indices(items)
        nodes(n) == IF n \in Ids(doc) THEN Moved(doc, n) ELSE <<n>>
        taken[k \in 0..Len(items)] ==
          IF k = 0 THEN <<>>
          ELSE LET sofar == taken[k - 1]
                   more  == IF given[k] \in Ids(doc) /\ IsFragment(doc, given[k])
                            THEN Without(nodes(given[k]), ToSet(sofar))
                            ELSE <<given[k]>>
               IN  Without(sofar, ToSet(more)) \o more
    IN  taken[Len(items)]

Asked(op, this, p, items) ==
    LET some  == Opened(items)
        Stay(seq) == Without(seq, ToSet(some))
    IN  CASE op = "append"          -> Stay(Kids(doc, p)) \o some
          [] op = "prepend"         -> some \o Stay(Kids(doc, p))
          [] op = "replaceChildren" -> some
          [] op = "before"          -> Stay(Preceding(doc, this)) \o some
                                         \o Stay(<<this>> \o Following(doc, this))
          [] op = "after"           -> Stay(Append(Preceding(doc, this), this)) \o some
                                         \o Stay(Following(doc, this))
          [] op = "replaceWith"     -> Stay(Preceding(doc, this)) \o some
                                         \o Stay(Following(doc, this))

ParentOps == {"append", "prepend", "replaceChildren"}
ChildOps  == {"before", "after", "replaceWith"}

\* The node before is to go in front of, asked for once the node is built.
Reference(c) ==
    CASE c.op \in {"append", "replaceChildren"} -> None
      [] c.op \in {"after", "replaceWith"} -> c.viable
      [] c.op = "before" /\ c.viable # None -> NextSibling(doc, c.viable)
      [] OTHER -> FirstNotIn(Kids(doc, c.parent), {})

StillChild(c) == ParentOf(doc, c.this) = c.parent

\* replace_all
ReplacedAll(p, n) ==
    DetachedAll(PreInserted(doc, p, n, None), p, ToSet(Kids(doc, p)) \ {n})

\* The last borrow: the node is put in its place, or the call throws.
Finished(c) ==
    CASE c.op = "replaceWith" /\ StillChild(c) /\ MayReplace(doc, c.parent, c.node, c.this)
           -> Replaced(doc, c.parent, c.node, c.this)
      [] c.op = "replaceChildren" /\ MayPreInsert(doc, c.parent, c.node, None)
           -> ReplacedAll(c.parent, c.node)
      [] /\ c.op # "replaceChildren" /\ ~(c.op = "replaceWith" /\ StillChild(c))
         /\ MayPreInsert(doc, c.parent, c.node, Reference(c))
           -> PreInserted(doc, c.parent, c.node, Reference(c))
      [] OTHER -> doc

Place(c) ==
    /\ Finished(c) # doc
    /\ Borrow(Finished(c), [Returning(c.args) EXCEPT !.parent = c.parent, !.asked = c.asked,
                                                     !.gathered = c.gathered])

PlaceNode ==
    /\ call.then = "place"
    /\ Synced
    /\ Place(call) \/ (Finished(call) = doc /\ Borrow(doc, NoCall))

\* What a call knows, by index, when it starts.
Started(op, this, items) ==
    LET given == ToSet(items) \ {None}
        p     == IF op \in ParentOps THEN this ELSE ParentOf(doc, this)
    IN  [then     |-> "place",
         op       |-> op,
         args     |-> given \cup {this},
         this     |-> this,
         parent   |-> p,
         node     |-> Gathered(items).node,
         viable   |-> CASE op = "before" -> ViablePrevious(this, given)
                        [] op \in {"after", "replaceWith"} -> ViableNext(this, given)
                        [] OTHER -> None,
         gathered |-> Len(items) # 1,
         asked    |-> Asked(op, this, p, items),
         sheets   |-> {}]

\* The first borrow that changes something makes one node of the arguments.
\* A node given alone is that node, and is placed at once.
Variadic(op, this, items) ==
    LET built == Gathered(items)
        c     == Started(op, this, items)
    IN  /\ IF op \in ParentOps THEN IsParent(doc, this)
           ELSE IsChild(doc, this) /\ ParentOf(doc, this) # None
        /\ FitsBudget(Additional(items))
        /\ \/ Additional(items) = 0 /\ Place(c)
           \/ Additional(items) # 0 /\ built.ok /\ Gather(built.doc, c)
           \/ ~built.ok /\ Gather(built.doc, Returning(c.args))

\* textContent of a fragment makes a text node first, unless it is empty.
SetFragmentText(p, empty) ==
    /\ IsFragment(doc, p)
    /\ \/ empty /\ Borrow(Emptied(doc, p), Returning({p}))
       \/ /\ ~empty /\ FitsBudget(1)
          /\ Borrow(Added(doc, "text"), Started("replaceChildren", p, <<None>>))

----------------------------------------------------------------------------
(* Script. *)

Hold(n) ==
    /\ n \notin held \cup {Root}
    /\ Cardinality(held) < MaxHeld
    /\ records' = Recorded(n)
    /\ held' = held \cup {n}
    /\ UNCHANGED <<doc, known, todo, kept, call>>

Drop(n) ==
    /\ n \in held
    /\ held' = held \ {n}
    /\ UNCHANGED <<doc, graphVars, call>>

Items == UNION {[1..k -> Reachable \cup {None}] : k \in 0..MaxItems}

Mutates ==
    \/ \E p, n \in Reachable : \E before \in ToSet(Kids(doc, p)) \cup {None} :
         InsertBefore(p, n, before)
    \/ \E n \in Reachable : RemoveChild(n)
    \/ \E p, n, child \in Reachable : ReplaceChild(p, n, child)
    \/ \E p \in Reachable : \E kinds \in {{}, {"text"}} : SetTextContent(p, kinds)
    \/ \E p \in Reachable : \E kinds \in {{}} \cup {{k} : k \in Kinds \ {"fragment"}} :
         SetInnerHTML(p, kinds)
    \/ \E items \in Items : \E this \in Reachable, op \in ParentOps \cup ChildOps :
         Variadic(op, this, items)
    \/ \E p \in Reachable, empty \in BOOLEAN : SetFragmentText(p, empty)

Makes ==
    /\ Cardinality(held) < MaxHeld
    /\ \/ \E kind \in Kinds : Create(kind)
       \/ \E n \in Reachable, deep \in BOOLEAN : CloneNode(n, deep)
       \/ \E n \in Reachable : SplitText(n)

Script ==
    /\ Idle
    /\ \/ Mutates
       \/ Makes
       \/ \E n \in Reachable : Hold(n)
       \/ \E n \in held : Drop(n)

\* A page that was parsed: a document, its element and one child of it.
Init ==
    /\ doc = [nodes |-> <<[New("document") EXCEPT !.children = <<2>>],
                          [New("element") EXCEPT !.parent = Root, !.children = <<3>>],
                          [New("element") EXCEPT !.parent = 2]>>,
              changed |-> {}]
    /\ known = 3
    /\ todo = {}
    /\ kept = {}
    /\ records = [n \in 1..3 |-> [parent   |-> doc.nodes[n].parent,
                                  children |-> ToSet(doc.nodes[n].children),
                                  contents |-> None]]
    /\ held = {}
    /\ call = NoCall

Next ==
    \/ Script
    \/ AddContents \/ Wrap \/ PlaceNode
    \/ Synchronize
    \/ Collect

Spec == Init /\ [][Next]_vars

----------------------------------------------------------------------------
(* Properties. *)

\* The arena stays a forest with one document element under every sequence of
\* calls, and never outgrows the node limit (ensure_insertion_validity,
\* move_node, replace_child, nodes_into_a_node, guard_node_budget_for).
TreeIsForest ==
    /\ IsForest(doc)
    /\ doc.changed \subseteq Ids(doc)
    /\ Cached \subseteq Ids(doc) /\ held \subseteq Cached
    /\ Len(doc.nodes) <= MaxNodes

\* A variadic call that succeeds leaves its parent with exactly the children
\* the DOM standard asks for, although it first moves the arguments away into
\* a fragment, and finds its reference node before or after that.
PlacedAsAsked ==
    call.then = "return" /\ call.parent # None => Kids(doc, call.parent) = call.asked
=============================================================================
