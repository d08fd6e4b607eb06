-------------------------------- MODULE Esp32 --------------------------------
(***************************************************************************)
(* examples/esp32/sketch_aug16b/sketch_aug16b.ino: loop, which asks every  *)
(* server in turn and sets the clock, and WiFiEvent, which runs in a task  *)
(* of its own and shares the variable connected with it.                   *)
(***************************************************************************)
EXTENDS Clustering

CONSTANTS
  NServers,        \* servers in the list
  Needed,          \* needed_answers
  Boot,            \* the time when the device starts, in microseconds
  MaxUptime,       \* bound on the time it runs
  Second,          \* 1000000 microseconds
  Usec,            \* what 0*10^6 makes of the rest of a second: 6, as ^ is XOR in C
  Errors,          \* how far a truthful server's adjustment is off, at most
  Uncertainties,   \* uncertainties of the answers
  FalseBy,         \* how far the false answers are off
  MaxFalse,        \* false answers in a synchronisation, at most
  MaxFailures,     \* failed allocations, at most
  MaxSyncs         \* connections to the network, at most

ASSUME NeededAssumption == Needed \in Nat \ {0} /\ NServers \in Nat
ASSUME AnswerAssumption ==
  /\ Boot \in Int /\ MaxUptime \in Nat /\ Second \in Nat \ {0} /\ Usec \in Nat
  /\ Errors \subseteq Int /\ Uncertainties \subseteq Nat /\ FalseBy \subseteq Int

VARIABLES
  link,        \* whether there is a connection
  connected,   \* the variable of the sketch
  phase,       \* "loop", "doit", "wait" or "set"
  asked,       \* servers asked
  cluster,     \* server_cluster_data
  now,         \* the time
  clock,       \* what gettimeofday returns on the device: it runs, from 0 at the start
  inFlight,    \* the query or its answer is under way
  given,       \* the ranges given to find_overlap since loop created the cluster
  falses,      \* how many of them are false
  failures,    \* allocations that failed
  syncs        \* connections so far

sketchVars == <<link, connected, phase, asked, cluster, now, clock, inFlight, given, falses,
                failures, syncs>>

SketchInit ==
  /\ link = FALSE /\ connected = FALSE
  /\ phase = "loop" /\ asked = 0
  /\ cluster = NewCluster
  /\ now = Boot /\ clock = 0 /\ inFlight = FALSE
  /\ given = <<>> /\ falses = 0 /\ failures = 0 /\ syncs = 0

-----------------------------------------------------------------------------
(* WiFiEvent                                                               *)

GotIP ==
  /\ ~link /\ syncs < MaxSyncs
  /\ link' = TRUE /\ connected' = TRUE /\ syncs' = syncs + 1
  /\ UNCHANGED <<phase, asked, cluster, now, clock, inFlight, given, falses, failures>>

\* A query that is under way is lost with the connection.
Disconnected ==
  /\ link
  /\ link' = FALSE /\ connected' = FALSE /\ inFlight' = FALSE
  /\ UNCHANGED <<phase, asked, cluster, now, clock, given, falses, failures, syncs>>

-----------------------------------------------------------------------------
(* loop                                                                    *)

CreateCluster ==
  /\ phase = "loop" /\ connected
  /\ phase' = "doit" /\ asked' = 0
  /\ cluster' = NewCluster /\ given' = <<>> /\ falses' = 0
  /\ UNCHANGED <<link, connected, now, clock, inFlight, failures, syncs>>

\* doit sends its query, and waits for a packet without end.
SendQuery ==
  /\ phase = "doit" /\ asked < NServers
  /\ phase' = "wait" /\ inFlight' = link
  /\ UNCHANGED <<link, connected, asked, cluster, now, clock, given, falses, failures, syncs>>

\* Variation of NextServer: a server that failed is asked again.
NextServerOnlyIf(ok) == phase' = "doit" /\ asked' = IF ok THEN asked + 1 ELSE asked

NextServer(ok) == phase' = "doit" /\ asked' = asked + 1

\* An answer that vrt_parse_response refuses, or one of no bytes.
Refused ==
  /\ phase = "wait" /\ inFlight
  /\ inFlight' = FALSE /\ NextServer(FALSE)
  /\ UNCHANGED <<link, connected, cluster, now, clock, given, falses, failures, syncs>>

\* A valid answer: the adjustment from the local clock to the server's.
Answered(adjust, uncert) ==
  \E leftFails, rightFails \in BOOLEAN :
    LET failed == (IF leftFails THEN 1 ELSE 0) + (IF rightFails THEN 1 ELSE 0)
        range  == [lo |-> adjust - uncert, hi |-> adjust + uncert]
    IN  /\ leftFails => ~rightFails    \* the second allocation is not tried
        /\ failures + failed <= MaxFailures
        /\ failures' = failures + failed
        /\ cluster' = FindOverlap(cluster, Needed, range.lo, range.hi, leftFails, rightFails)
        /\ given' = Append(given, range)
        /\ NextServer(TRUE)

\* Of a clock that stands before 1970, get_time makes a time far ahead: an answer is
\* then as good as false.
AnsweredTruly ==
  /\ phase = "wait" /\ inFlight /\ inFlight' = FALSE
  /\ clock >= 0
  /\ \E uncert \in Uncertainties, error \in Errors :
       /\ -uncert <= error /\ error <= uncert
       /\ Answered(now - clock + error, uncert)
  /\ UNCHANGED <<link, connected, now, clock, falses, syncs>>

AnsweredFalsely ==
  /\ phase = "wait" /\ inFlight /\ inFlight' = FALSE
  /\ falses < MaxFalse /\ falses' = falses + 1
  /\ \E uncert \in Uncertainties, off \in FalseBy : Answered(now - clock + off, uncert)
  /\ UNCHANGED <<link, connected, now, clock, syncs>>

\* The query or its answer is lost; doit goes on waiting.
Lost ==
  /\ inFlight /\ inFlight' = FALSE
  /\ UNCHANGED <<link, connected, phase, asked, cluster, now, clock, given, falses, failures,
                 syncs>>

\* The conversion to int of a number of seconds.
WholeSeconds(adj) ==
  IF adj >= 0 THEN (adj \div Second) * Second ELSE -(((-adj) \div Second) * Second)

\* set_time: the whole seconds of the adjustment become the time.
SetTime ==
  /\ phase = "doit" /\ asked = NServers
  /\ clock' = WholeSeconds(cluster.adjustment) + Usec
  /\ phase' = "set"
  /\ UNCHANGED <<link, connected, asked, cluster, now, inFlight, given, falses, failures, syncs>>

\* free_tree, and the connection counts as used, whatever WiFiEvent did since.
EndOfLoop ==
  /\ phase = "set"
  /\ phase' = "loop" /\ connected' = FALSE
  /\ cluster' = NewCluster /\ given' = <<>> /\ falses' = 0 /\ asked' = 0
  /\ UNCHANGED <<link, now, clock, inFlight, failures, syncs>>

\* Time passes, and the clock of the device runs with it.
Tick ==
  /\ now < Boot + MaxUptime
  /\ now' = now + 1 /\ clock' = clock + 1
  /\ UNCHANGED <<link, connected, phase, asked, cluster, inFlight, given, falses, failures, syncs>>

Loop ==
  \/ CreateCluster \/ SendQuery \/ SetTime \/ EndOfLoop

Arrives == Refused \/ AnsweredTruly \/ AnsweredFalsely

\* The display is updated, or the device waits for an answer.
Idle == UNCHANGED sketchVars

SketchNext == GotIP \/ Disconnected \/ Lost \/ Tick \/ Loop \/ Arrives \/ Idle

\* The one task that runs loop goes on, and what is in flight arrives or is lost.
Fairness == WF_sketchVars(Loop) /\ WF_sketchVars(Arrives)

SketchSpec == SketchInit /\ [][SketchNext]_sketchVars /\ Fairness

-----------------------------------------------------------------------------
(* Properties                                                              *)

\* Where the port is known to differ: ends at zero, which stands for "not found",
\* and a range that begins where one ends, whose two edges are then in the order
\* in which they came.
Ordinary ==
  \A j, k \in DOMAIN given :
    given[j].lo # 0 /\ given[j].hi # 0 /\ given[j].lo # given[k].hi

\* The edges that the Python implementation has of the ranges rs.
PyEdges(rs) ==
  LET edges[k \in 0..Len(rs)] ==
        IF k = 0 THEN <<>> ELSE AddRange(edges[k - 1], rs[k].lo, rs[k].hi)
  IN  edges[Len(rs)]

\* Elsewhere, when Needed ranges or more agree, it finds the count and the ends
\* that the Python implementation finds, although one scan skips the last edge
\* and the other the first (clusteringAlgorithm.c:131-201).
MatchesPython ==
  LET edges == PyEdges(given)
      count == FirstAgreed(edges, Len(given))
  IN  Ordinary /\ failures = 0 /\ count >= Needed =>
        /\ cluster.wanted = count
        /\ cluster.lo = LowEdge(edges, count).value
        /\ cluster.hi = HighEdge(edges, count).value

\* A whole round of answers, at least Needed of them true and more than the false ones.
GoodMajority ==
  LET trues == Len(given) - falses
  IN  failures = 0 /\ Ordinary /\ trues >= Needed /\ trues > falses

\* After a round with a good majority, the first or a later one, the adjustment is no
\* further from what the clock of the device lacks than some range is wide, wherever
\* the false answers are and whenever they come.
AdjustmentRight ==
  phase = "doit" /\ asked = NServers /\ GoodMajority =>
    \E u \in Uncertainties : /\ (now - clock) - 2 * u <= cluster.adjustment
                            /\ cluster.adjustment <= (now - clock) + 2 * u

\* A synchronisation that has begun ends, unless a query or its answer is lost
\* (sketch_aug16b.ino:270: the wait has no timeout).
SyncEnds == phase = "doit" ~> (phase = "loop" \/ (phase = "wait" /\ ~inFlight))
=============================================================================
