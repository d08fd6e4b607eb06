------------------------------ MODULE OverlapC -------------------------------
(***************************************************************************)
(* examples/C/overlap_algo.c: the overlap algorithm over a doubly linked   *)
(* list of malloced edges, kept sorted by insertion.  Every memory         *)
(* allocation of overlap_insert may fail.  One action per iteration of the *)
(* loops.  Two things differ from the Python code it is a port of: a new   *)
(* edge goes in front of the edges of equal value, whatever their chime,   *)
(* and chime, an int, is compared with _wanted, an unsigned.               *)
(***************************************************************************)
EXTENDS Ranges, EdgesC

CONSTANTS
  Node,       \* addresses malloc may return
  NULL,
  MaxFailures \* bound on the failing allocations of one run

\* malloc finds memory for two edges a range, unless it is made to fail.
ASSUME NodeAssumption ==
  IsFiniteSet(Node) /\ NULL \notin Node /\ Cardinality(Node) >= 2 * MaxRanges
ASSUME UIntModAssumption == UIntMod \in Nat /\ UIntMod > 2 * MaxRanges
ASSUME MaxFailuresAssumption == MaxFailures \in Nat

VARIABLES
  heap,        \* the allocated edges: address -> struct overlap_edge
  head, tail,  \* _head, _tail
  wanted,      \* _wanted
  pc,          \* "idle", "insert", "search", "low", "high", "test", "del", "gone"
  todo,        \* the edges the running overlap_add has yet to insert
  ptr,         \* the loop pointer of overlap_insert and overlap_find
  chime,       \* local variable of overlap_find
  loEdge, hiEdge,
  added,       \* what the last overlap_add returned
  answer,      \* what the last overlap_find returned and wrote to *lo, *hi
  ranges,      \* the ranges added since overlap_new
  failures,    \* allocations that failed since overlap_new
  before,      \* history: the edges along the list when the running overlap_add was called
  asked        \* history: _wanted when the running overlap_find was called

list   == <<heap, head, tail>>
locals == <<todo, ptr, chime, loEdge, hiEdge>>
vars   == <<list, wanted, pc, locals, added, answer, ranges, failures, before, asked>>

-----------------------------------------------------------------------------
EdgeStruct == [prev : Node \cup {NULL}, next : Node \cup {NULL},
               value : Value, chime : {-1, 1}]

FreeNode == CHOOSE n \in Node : n \notin DOMAIN heap

\* The addresses along next from hd, as many as hp holds edges, and the edges
\* at addresses s of hp.
Nodes(hp, hd) ==
  LET n == Cardinality(DOMAIN hp)
      walk[k \in 1..n] ==
        IF k = 1 THEN hd
        ELSE IF walk[k - 1] \in DOMAIN hp THEN hp[walk[k - 1]].next ELSE NULL
  IN  walk

EdgesAt(hp, s) ==
  [k \in DOMAIN s |-> [value |-> hp[s[k]].value, chime |-> hp[s[k]].chime]]

Along == EdgesAt(heap, Nodes(heap, head))

\* overlap_new
Init ==
  /\ heap = [n \in {} |-> NULL]
  /\ head = NULL /\ tail = NULL
  /\ wanted = 0
  /\ pc = "idle"
  /\ todo = <<>> /\ ptr = NULL /\ chime = 0
  /\ loEdge = NULL /\ hiEdge = NULL
  /\ added = 1
  /\ answer = NoOverlap
  /\ ranges = <<>>
  /\ failures = 0
  /\ before = <<>> /\ asked = 0

\* overlap_add; a range with hi < lo returns 0 at once.
AddRefused(l, h) ==
  /\ pc = "idle"
  /\ h < l
  /\ added' = 0
  /\ UNCHANGED <<list, wanted, pc, locals, answer, ranges, failures, before, asked>>

AddStart(l, h) ==
  /\ pc = "idle"
  /\ Len(ranges) < MaxRanges
  /\ l <= h
  /\ todo' = <<Edge(l, -1), Edge(h, 1)>>
  /\ pc' = "insert"
  /\ ranges' = Append(ranges, [lo |-> l, hi |-> h])
  /\ before' = Along
  /\ UNCHANGED <<list, wanted, ptr, chime, loEdge, hiEdge, added, answer, failures, asked>>

\* A new edge between p and n, either of which may be NULL.
NewEdge(p, n) == [prev |-> p, next |-> n,
                  value |-> Head(todo).value, chime |-> Head(todo).chime]

\* Variation: the result of malloc is used without a test.
MallocUnchecked ==
  /\ pc = "insert"
  /\ todo # <<>>
  /\ failures < MaxFailures
  /\ failures' = failures + 1
  /\ heap' = [n \in DOMAIN heap \cup {NULL} |-> IF n = NULL THEN NewEdge(tail, NULL) ELSE heap[n]]
  /\ todo' = Tail(todo)
  /\ UNCHANGED <<head, tail, wanted, pc, ptr, chime, loEdge, hiEdge, added, answer, ranges, before, asked>>

\* overlap_insert returns 0, which overlap_add does not look at.
MallocFails ==
  /\ pc = "insert"
  /\ todo # <<>>
  /\ failures < MaxFailures
  /\ failures' = failures + 1
  /\ todo' = Tail(todo)
  /\ UNCHANGED <<list, wanted, pc, ptr, chime, loEdge, hiEdge, added, answer, ranges, before, asked>>

InsertFirst ==
  /\ pc = "insert"
  /\ todo # <<>>
  /\ head = NULL
  /\ LET e == FreeNode
     IN  /\ heap' = [n \in DOMAIN heap \cup {e} |-> IF n = e THEN NewEdge(NULL, NULL) ELSE heap[n]]
         /\ head' = e /\ tail' = e
  /\ todo' = Tail(todo)
  /\ UNCHANGED <<wanted, pc, ptr, chime, loEdge, hiEdge, added, answer, ranges, failures, before, asked>>

SearchStart ==
  /\ pc = "insert"
  /\ todo # <<>>
  /\ head # NULL
  /\ ptr' = head
  /\ pc' = "search"
  /\ UNCHANGED <<list, wanted, todo, chime, loEdge, hiEdge, added, answer, ranges, failures, before, asked>>

\* Variation: the new edge goes behind the edges of equal value.
StopsAbove == heap[ptr].value > Head(todo).value

\* Where the search for the place of the new edge ends.
Stops == heap[ptr].value >= Head(todo).value

SearchStep ==
  /\ pc = "search"
  /\ ptr # NULL
  /\ ~Stops
  /\ ptr' = heap[ptr].next
  /\ UNCHANGED <<list, wanted, pc, todo, chime, loEdge, hiEdge, added, answer, ranges, failures, before, asked>>

\* Variation: the edge before the new one keeps its next.
LinkBeforeOneWay ==
  /\ pc = "search"
  /\ ptr # NULL
  /\ Stops
  /\ LET e == FreeNode
         p == heap[ptr].prev
     IN  /\ heap' = [n \in DOMAIN heap \cup {e} |->
                       CASE n = e -> NewEdge(p, ptr)
                         [] n = ptr -> [heap[n] EXCEPT !.prev = e]
                         [] OTHER -> heap[n]]
         /\ head' = IF p = NULL THEN e ELSE head
  /\ pc' = "insert"
  /\ todo' = Tail(todo)
  /\ UNCHANGED <<tail, wanted, ptr, chime, loEdge, hiEdge, added, answer, ranges, failures, before, asked>>

\* The search stopped at an edge that is not lower: link the new one before it.
LinkBefore ==
  /\ pc = "search"
  /\ ptr # NULL
  /\ Stops
  /\ LET e == FreeNode
         p == heap[ptr].prev
     IN  /\ heap' = [n \in DOMAIN heap \cup {e} |->
                       CASE n = e -> NewEdge(p, ptr)
                         [] n = ptr -> [heap[n] EXCEPT !.prev = e]
                         [] n = p /\ n # ptr -> [heap[n] EXCEPT !.next = e]
                         [] OTHER -> heap[n]]
         /\ head' = IF p = NULL THEN e ELSE head
  /\ pc' = "insert"
  /\ todo' = Tail(todo)
  /\ UNCHANGED <<tail, wanted, ptr, chime, loEdge, hiEdge, added, answer, ranges, failures, before, asked>>

LinkLast ==
  /\ pc = "search"
  /\ ptr = NULL
  /\ LET e == FreeNode
     IN  /\ heap' = [n \in DOMAIN heap \cup {e} |->
                       CASE n = e -> NewEdge(tail, NULL)
                         [] n = tail -> [heap[n] EXCEPT !.next = e]
                         [] OTHER -> heap[n]]
         /\ tail' = e
  /\ pc' = "insert"
  /\ todo' = Tail(todo)
  /\ UNCHANGED <<head, wanted, ptr, chime, loEdge, hiEdge, added, answer, ranges, failures, before, asked>>

AddReturn ==
  /\ pc = "insert"
  /\ todo = <<>>
  /\ wanted' = (wanted + 1) % UIntMod
  /\ added' = 1
  /\ pc' = "idle"
  /\ before' = <<>>
  /\ UNCHANGED <<list, locals, answer, ranges, failures, asked>>

-----------------------------------------------------------------------------
\* overlap_find

\* No candidate left: *lo and *hi stay as they are.
FindNothing ==
  /\ pc = "idle"
  /\ wanted = 0
  /\ answer' = [answer EXCEPT !.count = 0]
  /\ UNCHANGED <<list, wanted, pc, locals, added, ranges, failures, before, asked>>

FindStart ==
  /\ pc = "idle"
  /\ wanted > 0
  /\ pc' = "low"
  /\ asked' = wanted
  /\ ptr' = head /\ chime' = 0 /\ loEdge' = NULL
  /\ UNCHANGED <<list, wanted, todo, hiEdge, added, answer, ranges, failures, before>>

LowStep ==
  /\ pc = "low"
  /\ ptr # NULL
  /\ ~Reached(chime - heap[ptr].chime, wanted)
  /\ chime' = chime - heap[ptr].chime
  /\ ptr' = heap[ptr].next
  /\ UNCHANGED <<list, wanted, pc, todo, loEdge, hiEdge, added, answer, ranges, failures, before, asked>>

\* Variation: chime is not reset for the downward scan.
LowEndCounting ==
  /\ pc = "low"
  /\ ptr # NULL => Reached(chime - heap[ptr].chime, wanted)
  /\ loEdge' = ptr
  /\ pc' = "high"
  /\ ptr' = tail /\ hiEdge' = NULL
  /\ UNCHANGED <<list, wanted, chime, todo, added, answer, ranges, failures, before, asked>>

\* The upward scan ends, at an edge or behind the last one.
LowEnd ==
  /\ pc = "low"
  /\ ptr # NULL => Reached(chime - heap[ptr].chime, wanted)
  /\ loEdge' = ptr
  /\ pc' = "high"
  /\ ptr' = tail /\ chime' = 0 /\ hiEdge' = NULL
  /\ UNCHANGED <<list, wanted, todo, added, answer, ranges, failures, before, asked>>

HighStep ==
  /\ pc = "high"
  /\ ptr # NULL
  /\ ~Reached(chime + heap[ptr].chime, wanted)
  /\ chime' = chime + heap[ptr].chime
  /\ ptr' = heap[ptr].prev
  /\ UNCHANGED <<list, wanted, pc, todo, loEdge, hiEdge, added, answer, ranges, failures, before, asked>>

HighEnd ==
  /\ pc = "high"
  /\ ptr # NULL => Reached(chime + heap[ptr].chime, wanted)
  /\ hiEdge' = ptr
  /\ pc' = "test"
  /\ UNCHANGED <<list, wanted, todo, ptr, chime, loEdge, added, answer, ranges, failures, before, asked>>

BothFound == loEdge # NULL /\ hiEdge # NULL

Return ==
  /\ pc = "test"
  /\ BothFound
  /\ answer' = [count |-> wanted, lo |-> heap[loEdge].value, hi |-> heap[hiEdge].value]
  /\ pc' = "idle"
  /\ asked' = 0
  /\ UNCHANGED <<list, wanted, locals, added, ranges, failures, before>>

\* Variation: _wanted is not lowered.
RetrySame ==
  /\ pc = "test"
  /\ ~BothFound
  /\ pc' = "low"
  /\ ptr' = head /\ chime' = 0 /\ loEdge' = NULL
  /\ UNCHANGED <<list, wanted, todo, hiEdge, added, answer, ranges, failures, before, asked>>

Retry ==
  /\ pc = "test"
  /\ ~BothFound
  /\ wanted' = wanted - 1
  /\ IF wanted' = 0
     THEN /\ pc' = "idle"
          /\ answer' = [answer EXCEPT !.count = 0]
          /\ asked' = 0
          /\ UNCHANGED locals
     ELSE /\ pc' = "low"
          /\ ptr' = head /\ chime' = 0 /\ loEdge' = NULL
          /\ UNCHANGED <<todo, hiEdge, answer, asked>>
  /\ UNCHANGED <<list, added, ranges, failures, before>>

-----------------------------------------------------------------------------
\* overlap_del, then overlap_new again.

DelStart ==
  /\ pc = "idle"
  /\ pc' = "del"
  /\ answer' = NoOverlap
  /\ UNCHANGED <<list, wanted, locals, added, ranges, failures, before, asked>>

\* Variation: the list is left over prev, which the first edge does not have.
DelStepBackwards ==
  /\ pc = "del"
  /\ head # NULL
  /\ head' = heap[head].prev
  /\ heap' = [n \in DOMAIN heap \ {head} |-> heap[n]]
  /\ UNCHANGED <<tail, wanted, pc, locals, added, answer, ranges, failures, before, asked>>

DelStep ==
  /\ pc = "del"
  /\ head # NULL
  /\ head' = heap[head].next
  /\ heap' = [n \in DOMAIN heap \ {head} |-> heap[n]]
  /\ UNCHANGED <<tail, wanted, pc, locals, added, answer, ranges, failures, before, asked>>

DelEnd ==
  /\ pc = "del"
  /\ head = NULL
  /\ pc' = "gone"
  /\ UNCHANGED <<list, wanted, locals, added, answer, ranges, failures, before, asked>>

\* A new instance; malloc does not clean what overlap_del left behind.
New ==
  /\ pc = "gone"
  /\ head' = NULL /\ tail' = NULL
  /\ wanted' = 0
  /\ pc' = "idle"
  /\ added' = 1
  /\ ranges' = <<>> /\ failures' = 0
  /\ todo' = <<>> /\ ptr' = NULL /\ chime' = 0
  /\ loEdge' = NULL /\ hiEdge' = NULL
  /\ UNCHANGED <<heap, answer, before, asked>>

AddStep  == MallocFails \/ InsertFirst \/ SearchStart \/ SearchStep
              \/ LinkBefore \/ LinkLast \/ AddReturn
FindStep == LowStep \/ LowEnd \/ HighStep \/ HighEnd \/ Return \/ Retry
Step     == AddStep \/ FindStep \/ DelStep \/ DelEnd

Next ==
  \/ \E l, h \in Value : AddRefused(l, h) \/ AddStart(l, h)
  \/ FindNothing \/ FindStart
  \/ DelStart \/ New
  \/ Step

Spec == Init /\ [][Next]_vars

\* A call that was made runs to its end: the program is sequential.
FairSpec == Spec /\ WF_vars(Step)

-----------------------------------------------------------------------------
(* Properties *)

\* Every variable holds a value of its type.
TypeOK ==
  /\ DOMAIN heap \subseteq Node
  /\ heap \in [DOMAIN heap -> EdgeStruct]
  /\ head \in Node \cup {NULL} /\ tail \in Node \cup {NULL}
  /\ wanted \in 0..UIntMod - 1
  /\ pc \in {"idle", "insert", "search", "low", "high", "test", "del", "gone"}
  /\ todo \in Seq([value : Value, chime : {-1, 1}])
  /\ ptr \in Node \cup {NULL} /\ chime \in Int
  /\ loEdge \in Node \cup {NULL} /\ hiEdge \in Node \cup {NULL}
  /\ added \in {0, 1}
  /\ answer \in Answers
  /\ ranges \in Seq(Interval)
  /\ failures \in 0..MaxFailures
  /\ before \in Seq([value : Value, chime : {-1, 1}])
  /\ asked \in Nat

\* The links of the list agree in both directions, the ends are the ends and
\* values never fall along next, whichever allocations failed
\* (overlap_algo.c:47-74).
ListOK ==
  pc \notin {"del", "gone"} =>
    /\ head = NULL <=> DOMAIN heap = {}
    /\ tail = NULL <=> DOMAIN heap = {}
    /\ head # NULL => head \in DOMAIN heap /\ heap[head].prev = NULL
    /\ tail # NULL => tail \in DOMAIN heap /\ heap[tail].next = NULL
    /\ \A n \in DOMAIN heap :
         LET next == heap[n].next
             prev == heap[n].prev
         IN  /\ IF next = NULL THEN n = tail
                ELSE next \in DOMAIN heap /\ heap[next].prev = n /\ heap[n].value <= heap[next].value
             /\ IF prev = NULL THEN n = head
                ELSE prev \in DOMAIN heap /\ heap[prev].next = n

\* No pointer that a step is about to follow points to freed or never
\* allocated memory, and overlap_del leaves nothing allocated
\* (the valgrind run of C/README.md:13-14).
MemorySafe ==
  /\ pc \in {"search", "low", "high"} /\ ptr # NULL => ptr \in DOMAIN heap
  /\ pc = "test" => {loEdge, hiEdge} \subseteq DOMAIN heap \cup {NULL}
  /\ pc = "del" /\ head # NULL => head \in DOMAIN heap
  /\ pc = "gone" => DOMAIN heap = {}

\* A range ends where a range added earlier, or the range itself, begins: the
\* high edge is then in front of the low one although the ranges touch.
EndsAtLow == \E i, j \in DOMAIN ranges : i <= j /\ ranges[i].lo = ranges[j].hi

Answering == pc = "test" /\ pc' = "idle"

\* Unless a range ends at an earlier low end or an allocation failed, find
\* gives the answer of the Python implementation, from a count that the finds
\* before it have lowered (overlap_algo.c:92-128, C/README.md:3-4).
MatchesPython == [][Answering /\ failures = 0 /\ ~EndsAtLow => answer' = Best(ranges)]_vars

\* find never counts more ranges than have a point in common: it returns
\* "the number of ranges in the returned overlap" (overlap_algo.h:82).
CountsOverlaps == [][Answering /\ failures = 0 => answer'.count <= MaxDepth(ranges)]_vars

\* Linking and unlinking pointers does what inserting into a sorted sequence
\* and scanning it from both ends would do (overlap_algo.c:36-128); the edges
\* of an unfinished overlap_add and the counts an unfinished overlap_find has
\* tried are not visible yet.
AsList == CASE pc \in {"del", "gone"}      -> <<>>
            [] pc \in {"insert", "search"} -> before
            [] OTHER                       -> Along
Listed == INSTANCE OverlapList WITH
            edges  <- AsList,
            wanted <- IF pc \in {"del", "gone"} THEN 0
                      ELSE IF pc \in {"low", "high", "test"} THEN asked ELSE wanted,
            out    <- answer
RefinesList == Listed!Spec

\* Every call returns.
CallsReturn == pc \in {"insert", "search", "low", "high", "test", "del"} ~> pc \in {"idle", "gone"}
=============================================================================
