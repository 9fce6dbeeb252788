----------------------------- MODULE NodeGraph -----------------------------
(* Ownership of DOM nodes by the script collector (raikiri-js
   runtime/node_gc.rs).  A node that script or the document can reach has a
   NodeRecord, which carries its wrapper, expandos and listeners; the lookup
   table of records is weak, and only the document's record is a permanent
   root.  A record keeps alive the records of its parent, its children and its
   template contents, along edges that follow the arena only when
   synchronize has run: with_state runs it after every native borrow of the
   runtime state.

   The domain of "records" is the set of nodes whose record is alive; losing
   a record is losing what script has stored on the node. *)
EXTENDS DomTree

CONSTANT MaxNodes          \* Limits::max_nodes
ASSUME MaxNodesAssumption == MaxNodes \in Nat \ {0}

VARIABLES
    doc,        \* the arena with its pending change notes
    records,    \* node -> its traced edges, for every live record
    known,      \* slots of the lookup table
    todo,       \* changed nodes synchronize has still to look at
    kept,       \* records synchronize holds on its stack meanwhile (_roots)
    held,       \* nodes whose wrapper a script variable holds
    call        \* the native call under way

graphVars == <<records, known, todo, kept>>
vars == <<doc, records, known, todo, kept, held, call>>

NoEdges == [parent |-> None, children |-> {}, contents |-> None]
NoCall  == [then |-> "none", op |-> "none", args |-> {}, this |-> None,
            parent |-> None, node |-> None, viable |-> None, gathered |-> FALSE,
            asked |-> <<>>, sheets |-> {}]

Cached   == DOMAIN records
Roots    == {Root} \cup held \cup call.args
Synced   == todo = {} /\ doc.changed = {} /\ known = Len(doc.nodes)

----------------------------------------------------------------------------
(* The collector.  Some operators take the live records as an argument: a
   restore may collect before it looks anything up. *)

\* What is traced from the document's record, from wrappers script holds,
\* from the arguments on the stack and from the records synchronize holds.
Traced ==
    LET edges(n) == {records[n].parent, records[n].contents} \cup records[n].children
        reached[k \in 0..MaxNodes] ==
          IF k = 0 THEN (Roots \cup kept) \cap Cached
          ELSE LET found == reached[k - 1]
               IN  found \cup ((UNION {edges(n) : n \in found}) \cap Cached)
    IN  reached[MaxNodes]

Survivors == [n \in Traced |-> records[n]]

\* Inside a borrow, after the arena changed and before the records follow, the
\* rules of the style elements named by note_child_list_change are detached.
\* A rule lives as long as the record of its element.
DetachesRules ==
    /\ todo = {} /\ doc.changed # {}
    /\ call.sheets \cap Traced # {}

\* The collector runs when something is allocated: while script runs, when a
\* node is wrapped, and when rules are detached.
Collect ==
    /\ (call.then \in {"none", "wrap"} /\ todo = {}) \/ DetachesRules
    /\ Traced # Cached
    /\ records' = Survivors
    /\ UNCHANGED <<doc, known, todo, kept, held, call>>

----------------------------------------------------------------------------
(* Restoring and refreshing. *)

\* refresh_edges for a set of nodes, which get records first if they have
\* none: a record whose parent edge is out of date leaves the old parent's
\* children and joins the new parent's.
Refreshed(recs, some) ==
    LET live    == DOMAIN recs \cup some
        before  == [n \in live |-> IF n \in DOMAIN recs THEN recs[n] ELSE NoEdges]
        adopted == {n \in some : before[n].parent # ParentOf(doc, n)}
    IN  [n \in live |->
           [parent   |-> IF n \in some THEN ParentOf(doc, n) ELSE before[n].parent,
            children |-> (before[n].children \ adopted)
                           \cup {m \in adopted : ParentOf(doc, m) = n},
            contents |-> IF n \in some THEN doc.nodes[n].contents ELSE before[n].contents]]

\* Mutant of Component: the walk up stops at the node asked for.
ComponentBelow(recs, n) == Below(doc, n)

\* record restores the highest ancestor below a cached one, with all that is
\* below it.
Component(recs, n) ==
    LET top[m \in Ids(doc)] ==
          IF ParentOf(doc, m) \in DOMAIN recs \cup {None} THEN m ELSE top[ParentOf(doc, m)]
    IN  Below(doc, top[n])

Recorded(n) == IF n \in Cached THEN records ELSE Refreshed(records, Component(records, n))

\* Mutant of Touched: a node without a record stays without one.
TouchedAlone(recs, n) == IF n \in DOMAIN recs THEN {n} ELSE {}

\* The nodes one round of synchronize refreshes: a node with a record, and
\* the components of a parent and of contents that have none yet; or a node
\* without one under a parent with one, and all below it.
Touched(recs, n) ==
    IF n \in DOMAIN recs
    THEN {n} \cup UNION {Component(recs, m) :
                           m \in {ParentOf(doc, n), doc.nodes[n].contents}
                                   \ (DOMAIN recs \cup {None})}
    ELSE IF ParentOf(doc, n) \in DOMAIN recs THEN Below(doc, n) ELSE {}

SyncRoots(changed) == changed \cap Cached

StartSync ==
    /\ todo = {}
    /\ ~Synced
    /\ LET changed == doc.changed \cup (known + 1 .. Len(doc.nodes))
       IN  /\ todo' = changed
           /\ kept' = SyncRoots(changed)
    /\ doc' = [doc EXCEPT !.changed = {}]
    /\ known' = Len(doc.nodes)
    /\ call' = CASE call.then = "return" -> [call EXCEPT !.parent = None, !.asked = <<>>,
                                                        !.sheets = {}]
                 [] call.then = "place"  -> call
                 [] OTHER -> [call EXCEPT !.sheets = {}]
    /\ UNCHANGED <<records, held>>

\* One round of synchronize's loop, in any order.  New records are allocated,
\* so the collector may run first; a parent it takes is restored with the
\* node it was looked up for.  The last round lets go of the records held
\* and, at the end of a call, returns to script.
SyncNode(n) ==
    /\ n \in todo
    /\ \/ records' = Refreshed(records, Touched(records, n))
       \/ /\ Touched(records, n) \ Cached # {}
          /\ Traced # Cached
          /\ LET some == Touched(records, n)
                 lost == UNION {Component(Survivors, m) :
                                  m \in {ParentOf(doc, k) : k \in some}
                                          \ (Traced \cup some \cup {None})}
             IN  records' = Refreshed(Survivors, some \cup lost)
    /\ todo' = todo \ {n}
    /\ kept' = IF todo' = {} THEN {} ELSE kept
    /\ call' = IF todo' = {} /\ call.then = "return" THEN NoCall ELSE call
    /\ UNCHANGED <<doc, known, held>>

\* A call that has noted nothing returns at once.
NothingToSync ==
    /\ call.then = "return" /\ Synced
    /\ call' = NoCall
    /\ UNCHANGED <<doc, graphVars, held>>

Synchronize == StartSync \/ (\E n \in todo : SyncNode(n)) \/ NothingToSync

----------------------------------------------------------------------------
(* Properties. *)

\* What script can get at from where it stands: through parentNode,
\* childNodes and template.content from the document and its variables.
Reach(d, from) ==
    LET near(n) == ({d.nodes[n].parent, d.nodes[n].contents} \ {None}) \cup ToSet(Kids(d, n))
        reached[k \in 0..MaxNodes] ==
          IF k = 0 THEN from
          ELSE LET found == reached[k - 1] IN found \cup UNION {near(n) : n \in found}
    IN  reached[MaxNodes]

\* Between native borrows every live record owns exactly what the arena
\* says: its parent, its children and its contents, all alive
\* (NodeGraph::synchronize, restore_subtree).
RecordsFollowTree ==
    Synced => \A n \in Cached :
                /\ records[n] = [parent   |-> ParentOf(doc, n),
                                 children |-> ToSet(Kids(doc, n)),
                                 contents |-> doc.nodes[n].contents]
                /\ records[n].children \cup ({records[n].parent, records[n].contents}
                                               \ {None}) \subseteq Cached

\* A node script can reach never loses its record, whenever the collector
\* runs, while edges are out of date, and in whatever order a batch is
\* reconnected (record, synchronize): wrapper identity, expandos and listeners
\* survive moves.  WrapperIsUnique is what interfaces.rs says of wrap and
\* node_gc.rs of detached components; IdentityKept leaves out the variadic
\* calls that gather their arguments in a fragment nobody holds, or take the
\* last record away from a parent they know by its index only: they break it.
KeepsReachable == Cached \cap Reach(doc', Roots') \subseteq DOMAIN records'

WrapperIsUnique == [][KeepsReachable]_vars
IdentityKept    == [][~call.gathered => KeepsReachable]_vars
=============================================================================
