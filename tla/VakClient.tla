------------------------------ MODULE VakClient ------------------------------
(***************************************************************************)
(* main of examples/C/vak_client.c: shuffle the servers, query one after   *)
(* the other, feed the ranges to the overlap algorithm and stop as soon as *)
(* a majority of the responses, enough of them, agree closely enough.      *)
(*                                                                         *)
(* query_server is seen through its result, no range or one range: that of *)
(* a truthful server holds the true adjustment (QueryServer, TruthInRange),*)
(* that of a falseticker is any.  The overlap algorithm is the C one, with *)
(* its allocations succeeding (OverlapC, through EdgesC).                  *)
(***************************************************************************)
EXTENDS Ranges, EdgesC

CONSTANTS
  NrServers,          \* length of server_list
  Falsetickers,       \* the positions of falsetickers in server_list
  LowEnds, HighEnds,  \* the low and the high ends a range may have
  Truth,              \* the true adjustment
  WantedOverlaps,     \* WANTED_OVERLAPS
  WantedUncertainty   \* WANTED_UNCERTAINTY

ASSUME ServersAssumption ==
  /\ NrServers \in Nat \ {0}
  /\ Falsetickers \subseteq 1..NrServers
  /\ NrServers <= MaxRanges
\* Measured ends are real numbers: a low end never equals a high end.
ASSUME EndsAssumption ==
  /\ LowEnds \subseteq Value /\ HighEnds \subseteq Value /\ LowEnds \cap HighEnds = {}
  /\ Truth \in Int
\* An unsigned can count the edges of all servers.
ASSUME UIntModAssumption == UIntMod \in Nat /\ UIntMod > 2 * NrServers
ASSUME WantedAssumption == WantedOverlaps \in Nat \ {0} /\ WantedUncertainty \in Nat

VARIABLES
  pc,           \* "shuffle", "new", "query", "success", "failure", "error"
  servers,      \* randomized_servers, as positions in server_list
  i,            \* the loop variable of either loop
  nrResponses,  \* nr_responses
  edges,        \* the edge list of algo
  wanted,       \* algo->_wanted
  found,        \* nr_overlaps, lo and hi after the last overlap_find
  ranges,       \* history: the ranges of the responses
  repliers      \* history: the servers that sent them

algo == <<edges, wanted>>
vars == <<pc, servers, i, nrResponses, algo, found, ranges, repliers>>

-----------------------------------------------------------------------------
Init ==
  /\ pc = "shuffle"
  /\ servers = [k \in 1..NrServers |-> k]
  /\ i = NrServers
  /\ nrResponses = 0
  /\ edges = <<>> /\ wanted = 0
  /\ found = NoOverlap
  /\ ranges = <<>>
  /\ repliers = <<>>

\* An array of which element b gets the value of c, then element c what a held.
Rotated(s, a, b, c) == [[s EXCEPT ![b] = s[c]] EXCEPT ![c] = s[a]]

\* randomized_servers[i-i], the first element, takes the place of [i-1].
Shuffle(j) ==
  /\ pc = "shuffle"
  /\ i > 0
  /\ servers' = Rotated(servers, i, 1, j)
  /\ i' = i - 1
  /\ UNCHANGED <<pc, nrResponses, algo, found, ranges, repliers>>

Shuffled ==
  /\ pc = "shuffle"
  /\ i = 0
  /\ pc' = "new"
  /\ UNCHANGED <<servers, i, nrResponses, algo, found, ranges, repliers>>

\* getentropy or overlap_new fails: exit(1) without a query.
GiveUp ==
  /\ pc = "new" \/ (pc = "shuffle" /\ i = NrServers)
  /\ pc' = "error"
  /\ UNCHANGED <<servers, i, nrResponses, algo, found, ranges, repliers>>

NewAlgo ==
  /\ pc = "new"
  /\ pc' = "query"
  /\ i' = 1
  /\ UNCHANGED <<servers, nrResponses, algo, found, ranges, repliers>>

\* query_server returned 0.
NoResponse ==
  /\ pc = "query"
  /\ i <= NrServers
  /\ i' = i + 1
  /\ UNCHANGED <<pc, servers, nrResponses, algo, found, ranges, repliers>>

\* Variation: half of the responses will do, as in the MicroPython client.
EnoughHalf(f, responses) ==
  /\ f.count >= responses \div 2
  /\ f.count >= WantedOverlaps
  /\ f.hi - f.lo <= WantedUncertainty

\* A strict majority of the responses, enough of them, in a range that is
\* narrow enough; nr_responses / 2 is an integer division.
Enough(f, responses) ==
  /\ f.count > responses \div 2
  /\ f.count >= WantedOverlaps
  /\ f.hi - f.lo <= WantedUncertainty

\* Variation: overlap_add leaves _wanted alone.
HopedSame == IF wanted = 0 THEN 1 ELSE wanted

\* What overlap_add makes of _wanted.
Hoped == wanted + 1

\* A range, overlap_add, overlap_find and the test for success.
Response(l, h) ==
  LET n == FoundCount(edges', Hoped)
  IN  /\ pc = "query"
      /\ i <= NrServers
      /\ l <= h
      /\ servers[i] \notin Falsetickers => l <= Truth /\ Truth <= h
      /\ nrResponses' = nrResponses + 1
      /\ edges' = AddEdges(edges, l, h, {"lo", "hi"})
      /\ wanted' = n
      /\ found' = [count |-> n, lo |-> IF n = 0 THEN l ELSE FoundLo(edges', n),
                                hi |-> IF n = 0 THEN h ELSE FoundHi(edges', n)]
      /\ ranges' = Append(ranges, [lo |-> l, hi |-> h])
      /\ repliers' = Append(repliers, servers[i])
      /\ IF Enough(found', nrResponses')
         THEN pc' = "success" /\ i' = i
         ELSE pc' = pc /\ i' = i + 1
      /\ UNCHANGED servers

\* Variation: the end of the list is missed by one.
NoServerLeftLate ==
  /\ pc = "query"
  /\ i > NrServers + 1
  /\ pc' = "failure"
  /\ UNCHANGED <<servers, i, nrResponses, algo, found, ranges, repliers>>

\* Every server was asked: exit(1).
NoServerLeft ==
  /\ pc = "query"
  /\ i > NrServers
  /\ pc' = "failure"
  /\ UNCHANGED <<servers, i, nrResponses, algo, found, ranges, repliers>>

Ended == pc \in {"success", "failure", "error"}
Done  == Ended /\ UNCHANGED vars

Step ==
  \/ \E j \in 1..i : Shuffle(j)
  \/ Shuffled \/ NewAlgo \/ GiveUp
  \/ NoResponse
  \/ \E l \in LowEnds, h \in HighEnds : Response(l, h)
  \/ NoServerLeft

Next == Step \/ Done

Spec == Init /\ [][Next]_vars

\* Every call of main returns (query_server: QueryServer, QueryReturns).
FairSpec == Spec /\ WF_vars(Step)

-----------------------------------------------------------------------------
(* Properties *)

\* Success means what the comment says: a majority of the responses share a
\* point, enough of them, and every point that as many share lies within the
\* printed range, which is narrow (vak_client.c:342-344, 354).
SuccessIsMajority ==
  pc = "success" =>
    LET n == MaxDepth(ranges)
    IN  /\ 2 * n > Len(ranges) /\ n >= WantedOverlaps
        /\ \A x \in Value : Depth(ranges, x) = n => found.lo <= x /\ x <= found.hi
        /\ found.lo <= found.hi /\ found.hi - found.lo <= WantedUncertainty

False == {k \in DOMAIN repliers : repliers[k] \in Falsetickers}

\* While falsetickers are at most half of the responses, they cannot move the
\* printed range away from what some truthful server said: each of its ends
\* lies in the range of one (vak_client.c:51-53, 354).
TruthfulSupport ==
  pc = "success" /\ 2 * Cardinality(False) <= Len(ranges) =>
    \A x \in {found.lo, found.hi} :
      \E k \in DOMAIN ranges \ False : ranges[k].lo <= x /\ x <= ranges[k].hi

\* No agreement is overlooked: when the program gives up, no prefix of the
\* responses was good enough, although find resumes each time from the count
\* the finds before have lowered (vak_client.c:352-357, overlap_algo.c:87-124).
NothingOverlooked ==
  pc = "failure" =>
    \A k \in 1..Len(ranges) : ~Enough(Best(SubSeq(ranges, 1, k)), k)

\* "Create a list of servers with the order randomized" (vak_client.c:322):
\* every server is in it.
EveryServerListed == pc = "query" => \A s \in 1..NrServers : \E k \in 1..NrServers : servers[k] = s

\* The program ends.
Ends == <>Ended
=============================================================================
