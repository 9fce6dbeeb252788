------------------------------ MODULE DomTree ------------------------------
(* The node arena of raikiri-dom's Document and the tree operations of DOM
   4.2.3 on it (raikiri-dom document.rs, document/mutation.rs and
   document/tree_changes.rs), as operators on a document value

     [nodes   |-> the arena, a sequence indexed by node id,
      changed |-> the ids noted since the last take_tree_changes]

   Node 1 is the Document.  Slots are never freed: a removed node stays in the
   arena without a parent.  What a node holds besides its links (names,
   attributes, text, layout data) is left out. *)
EXTENDS Naturals, Sequences, FiniteSets, SequencesExt, Retain

None == 0      \* no node
Root == 1

New(kind) == [kind |-> kind, parent |-> None, children |-> <<>>, contents |-> None]

IsElement(doc, n)  == doc.nodes[n].kind \in {"element", "template"}
IsFragment(doc, n) == doc.nodes[n].kind = "fragment"
IsParent(doc, n)   == IsElement(doc, n) \/ doc.nodes[n].kind \in {"document", "fragment"}
IsChild(doc, n)    == doc.nodes[n].kind \notin {"document", "fragment"}
Ids(doc)           == DOMAIN doc.nodes
ParentOf(doc, n)   == doc.nodes[n].parent
Kids(doc, n)       == doc.nodes[n].children

----------------------------------------------------------------------------
(* Creation. *)

Added(doc, kind) == [doc EXCEPT !.nodes = Append(@, New(kind))]
Newest(doc)      == Len(doc.nodes)

\* A template gets its contents fragment in the next slot, and is noted.
WithContents(doc, template) ==
    LET fragment == Len(doc.nodes) + 1
    IN  [nodes   |-> Append([doc.nodes EXCEPT ![template].contents = fragment],
                            New("fragment")),
         changed |-> doc.changed \cup {template}]

----------------------------------------------------------------------------
(* Links. *)

Detached(doc, n) ==
    LET p == ParentOf(doc, n)
    IN  IF p = None THEN doc
        ELSE [nodes   |-> [doc.nodes EXCEPT ![p].children = Without(@, {n}),
                                            ![n].parent = None],
              changed |-> doc.changed \cup {n}]

DetachedAll(doc, p, some) ==
    LET gone == {n \in some : ParentOf(doc, n) = p}
    IN  [nodes   |-> [n \in Ids(doc) |->
                        IF n \in gone THEN [doc.nodes[n] EXCEPT !.parent = None]
                        ELSE IF n = p THEN [doc.nodes[n] EXCEPT !.children = Without(@, gone)]
                        ELSE doc.nodes[n]],
         changed |-> doc.changed \cup gone]

Spliced(seq, before, some) ==
    IF before \in ToSet(seq)
    THEN LET at == CHOOSE i \in DOMAIN seq : seq[i] = before
         IN  SubSeq(seq, 1, at - 1) \o some \o SubSeq(seq, at, Len(seq))
    ELSE seq \o some

\* The nodes an insertion of n moves: the children of a fragment, else n.
Moved(doc, n) == IF IsFragment(doc, n) THEN Kids(doc, n) ELSE <<n>>

\* attach_child (before = None) and insert_child_before
Linked(doc, p, n, before) ==
    LET moved   == Moved(doc, n)
        emptied == IF IsFragment(doc, n)
                   THEN [doc.nodes EXCEPT ![n].children = <<>>] ELSE doc.nodes
        linked  == [emptied EXCEPT ![p].children = Spliced(@, before, moved)]
    IN  [nodes   |-> [k \in DOMAIN linked |->
                        IF k \in ToSet(moved) THEN [linked[k] EXCEPT !.parent = p]
                        ELSE linked[k]],
         changed |-> doc.changed \cup ToSet(moved)]

NextSibling(doc, n) ==
    LET p == ParentOf(doc, n)
    IN  IF p = None THEN None
        ELSE LET kids == Kids(doc, p)
                 at   == CHOOSE i \in DOMAIN kids : kids[i] = n
             IN  IF at < Len(kids) THEN kids[at + 1] ELSE None

----------------------------------------------------------------------------
(* Validity. *)

\* The ids reached from n through children and template contents.
Below(doc, n) ==
    LET down[k \in 0..Len(doc.nodes)] ==
          IF k = 0 THEN {n}
          ELSE LET found == down[k - 1]
               IN  found \cup (UNION {ToSet(Kids(doc, m)) : m \in found})
                         \cup ({doc.nodes[m].contents : m \in found} \ {None})
    IN  down[Len(doc.nodes)]

\* is_ancestor_or_self, through parents only
IsAncestorOrSelf(doc, a, n) ==
    LET below[m \in Ids(doc)] == m = a \/ (ParentOf(doc, m) # None /\ below[ParentOf(doc, m)])
    IN  below[n]

\* The walk is skipped for an element without a parent: only a fragment has
\* a host above it.
IsInclusiveAncestor(doc, n, p) ==
    \/ n = p
    \/ /\ ~(IsElement(doc, p) /\ ParentOf(doc, p) = None)
       /\ p \in Below(doc, n)

HasElementExcluding(doc, p, exclude) ==
    \E m \in ToSet(Kids(doc, p)) \ {exclude} : IsElement(doc, m)

\* A Document takes no text, and one element over all its children.
FitsDocument(doc, n, exclude) ==
    LET moved    == ToSet(Moved(doc, n))
        elements == {m \in moved : IsElement(doc, m)}
    IN  /\ \A m \in moved : doc.nodes[m].kind # "text"
        /\ Cardinality(elements) <= 1
        /\ elements # {} => ~HasElementExcluding(doc, Root, exclude)

MayInsert(doc, p, n, reference, exclude) ==
    /\ IsParent(doc, p)
    /\ ~IsInclusiveAncestor(doc, n, p)
    /\ reference # None => ParentOf(doc, reference) = p
    /\ doc.nodes[n].kind # "document"
    /\ p = Root => FitsDocument(doc, n, exclude)

----------------------------------------------------------------------------
(* The three entry points; the caller has asked MayInsert, MayRemove or
   MayReplace first and leaves the document alone when the answer is no. *)

MayPreInsert(doc, p, n, before) == MayInsert(doc, p, n, before, None)
PreInserted(doc, p, n, before) ==
    LET reference == IF before # None /\ before = n THEN NextSibling(doc, n) ELSE before
    IN  Linked(Detached(doc, n), p, n, reference)

MayRemove(doc, p, n) == ParentOf(doc, n) = p
PreRemoved(doc, n)   == Detached(doc, n)

MayReplace(doc, p, n, child) == MayInsert(doc, p, n, child, child)
Replaced(doc, p, n, child) ==
    LET next      == NextSibling(doc, child)
        reference == IF next = n THEN NextSibling(doc, n) ELSE next
    IN  IF n = child THEN doc
        ELSE Linked(Detached(Detached(doc, child), n), p, n, reference)

----------------------------------------------------------------------------
(* Copies: clone_node allocates one slot for each node copied, and a template
   always gets contents of its own. *)

Copied(doc, n, deep) ==
    IF deep THEN Below(doc, n) ELSE {n} \cup ({doc.nodes[n].contents} \ {None})

Cloned(doc, n, deep) ==
    LET order == <<n>> \o SetToSeq(Copied(doc, n, deep) \ {n})   \* the copy of n comes first
        copy  == [m \in ToSet(order) |->
                    Len(doc.nodes) + CHOOSE i \in DOMAIN order : order[i] = m]
        Of(m) == IF m \in ToSet(order) THEN copy[m] ELSE None
        Node(m) == [kind     |-> doc.nodes[m].kind,
                    parent   |-> IF m = n \/ ~deep THEN None ELSE Of(ParentOf(doc, m)),
                    children |-> IF deep THEN [i \in DOMAIN Kids(doc, m) |-> Of(Kids(doc, m)[i])]
                                 ELSE <<>>,
                    contents |-> Of(doc.nodes[m].contents)]
    IN  [nodes   |-> doc.nodes \o [i \in DOMAIN order |-> Node(order[i])],
         changed |-> doc.changed \cup
                       {copy[m] : m \in {k \in ToSet(order) :
                                          \/ Node(k).parent # None
                                          \/ Node(k).contents # None}}]

----------------------------------------------------------------------------
(* set_element_text_content and replace_children_from: the children are taken
   off and at most one node of the given kind is put in their place; markup
   for a template goes into its contents. *)

Emptied(doc, p) == DetachedAll(doc, p, ToSet(Kids(doc, p)))

Filled(doc, p, kinds) ==
    IF kinds = {} THEN Emptied(doc, p)
    ELSE LET kind == CHOOSE k \in kinds : TRUE
             made == Added(Emptied(doc, p), kind)
             put  == Linked(made, p, Newest(made), None)
         IN  IF kind = "template" THEN WithContents(put, Newest(made)) ELSE put

MarkupTarget(doc, p) ==
    IF doc.nodes[p].contents # None THEN doc.nodes[p].contents ELSE p

----------------------------------------------------------------------------
(* The arena is a forest: parents and child lists agree, nothing is its own
   descendant (template contents included), each contents fragment has one
   host, a fragment is nobody's child, only parents have children, and the
   Document holds at most one element and no text. *)
IsForest(doc) ==
    /\ \A n \in Ids(doc) :
         /\ IsInjective(Kids(doc, n))
         /\ ToSet(Kids(doc, n)) = {m \in Ids(doc) : ParentOf(doc, m) = n}
         /\ Kids(doc, n) # <<>> => IsParent(doc, n)
         /\ \A m \in ToSet(Kids(doc, n)) \cup ({doc.nodes[n].contents} \ {None}) :
              n \notin Below(doc, m)
         /\ ~IsChild(doc, n) => ParentOf(doc, n) = None
         /\ doc.nodes[n].contents # None =>
              /\ doc.nodes[n].kind = "template"
              /\ IsFragment(doc, doc.nodes[n].contents)
              /\ \A m \in Ids(doc) \ {n} : doc.nodes[m].contents # doc.nodes[n].contents
    /\ Cardinality({n \in ToSet(Kids(doc, Root)) : IsElement(doc, n)}) <= 1
    /\ \A n \in ToSet(Kids(doc, Root)) : doc.nodes[n].kind # "text"
=============================================================================
