----------------------------- MODULE QueryServer -----------------------------
(***************************************************************************)
(* query_server of examples/C/vak_client.c: one query over UDP, from the   *)
(* socket call to the range of clock adjustments.  Around it run the wall  *)
(* clock, which somebody may set while the query is under way, and a       *)
(* network that loses, delays, duplicates and reorders replies and that    *)
(* brings packets vrt_parse_response rejects.  The server is truthful: the *)
(* true time at which it answers lies in midpoint -+ radius.               *)
(*                                                                         *)
(* Times are whole ticks of the clock, ranges are in half ticks, so that   *)
(* halving a round trip time is exact, as it is in the code's doubles.     *)
(***************************************************************************)
EXTENDS Integers, Sequences, FiniteSets

CONSTANTS
  Timeout,     \* QUERY_TIMEOUT_USECS
  Radii,       \* the uncertainties a server may report
  Offset,      \* true time minus local time when the query starts
  UInt64Mod,   \* 2^64
  MaxStep,     \* bound on how far the clock is set, once
  MaxReplies,  \* bound on the replies of the server to one query
  MaxGarbage   \* bound on the packets that do not verify

ASSUME TimeAssumption ==
  /\ Timeout \in Nat /\ MaxStep \in Nat /\ MaxReplies \in Nat /\ MaxGarbage \in Nat
  /\ Radii \subseteq Nat /\ IsFiniteSet(Radii)
  /\ Offset \in Int
ASSUME UInt64Assumption == UInt64Mod \in Nat /\ UInt64Mod > 10 * (Timeout + MaxStep + 1)

VARIABLES
  now,      \* true time
  clock,    \* what gettimeofday returns
  pc,       \* "start", "send", "wait" (select), "idle" or "ready" (as select
            \* returned), "recv", "check", "done"
  sock,     \* "none", "open", "closed"
  st, rt,   \* local variables: clock at sending and at the last wake-up
  net,      \* replies under way
  inbox,    \* packets in the receive buffer of the socket
  sent,     \* the numbers of genuine replies and of other packets so far
  result,   \* the outcome
  opened,   \* history: true time when st was read
  looked,   \* history: true time when select last looked at the socket
  woke,     \* history: true time when rt was read
  set       \* history: "no", "forward" or "back", how the clock was set

env     == <<now, clock, set>>
network == <<net, inbox, sent>>
program == <<pc, sock, st, rt, result, opened, looked, woke>>
vars    == <<env, network, program>>

-----------------------------------------------------------------------------
Packet   == [valid : BOOLEAN, mid : Int, radius : Nat]
Received == [packet : Packet, at : Int]
Counts   == [replies : Nat, garbage : Nat]
Result   == [outcome : {"pending", "ok", "setup", "send", "select", "recv", "timeout"},
             lo : Int, hi : Int]

Garbage     == [valid |-> FALSE, mid |-> 0, radius |-> 0]
Reply(m, r) == [valid |-> TRUE, mid |-> m, radius |-> r]

\* A packet in the receive buffer, with the true time it came.
Arrived(p) == [packet |-> p, at |-> now]

Pending   == [outcome |-> "pending", lo |-> 0, hi |-> 0]
Failed(o) == [outcome |-> o, lo |-> 0, hi |-> 0]

\* Variation: a signed difference.
ElapsedSigned == rt - st

\* uint64_t subtraction: a clock that was set back gives a huge difference.
Elapsed == (rt - st) % UInt64Mod

\* Variation: the round trip time is left out of the uncertainty.
AdjustmentRangeNarrow(p) ==
  LET local      == (st + rt) \div 2
      adjustment == 2 * (p.mid - local)
  IN  [outcome |-> "ok", lo |-> adjustment - 2 * p.radius, hi |-> adjustment + 2 * p.radius]

\* adjustment -+ uncertainty, in half ticks; local_time is a whole number.
AdjustmentRange(p) ==
  LET local       == (st + rt) \div 2
      adjustment  == 2 * (p.mid - local)
      uncertainty == 2 * p.radius + Elapsed
  IN  [outcome |-> "ok", lo |-> adjustment - uncertainty, hi |-> adjustment + uncertainty]

\* Time enough to time out even if the clock is set back meanwhile.
MaxElapsed == Timeout + MaxStep + 1

Init ==
  /\ clock = MaxStep
  /\ now = clock + Offset
  /\ set = "no"
  /\ pc = "start"
  /\ sock = "none"
  /\ st = 0 /\ rt = 0
  /\ opened = now /\ looked = now /\ woke = now
  /\ net = {} /\ inbox = <<>>
  /\ sent = [replies |-> 0, garbage |-> 0]
  /\ result = Pending

-----------------------------------------------------------------------------
(* The program *)

Finish(r, s) ==
  /\ result' = r
  /\ sock' = s
  /\ pc' = "done"

\* getentropy, vrt_make_query, gethostbyname or socket fails.
SetupFails ==
  /\ pc = "start"
  /\ Finish(Failed("setup"), "none")
  /\ UNCHANGED <<env, network, st, rt, opened, looked, woke>>

Open ==
  /\ pc = "start"
  /\ sock' = "open"
  /\ st' = clock
  /\ opened' = now
  /\ pc' = "send"
  /\ UNCHANGED <<env, network, rt, result, looked, woke>>

SendFails ==
  /\ pc = "send"
  /\ Finish(Failed("send"), "closed")
  /\ UNCHANGED <<env, network, st, rt, opened, looked, woke>>

Send ==
  /\ pc = "send"
  /\ pc' = "wait"
  /\ UNCHANGED <<env, network, sock, st, rt, result, opened, looked, woke>>

\* Variation: the early return forgets to close the socket.
SelectFailsOpen ==
  /\ pc = "wait"
  /\ Finish(Failed("select"), "open")
  /\ UNCHANGED <<env, network, st, rt, opened, looked, woke>>

\* select fails; EINTR instead goes round the loop and changes nothing.
SelectFails ==
  /\ pc = "wait"
  /\ Finish(Failed("select"), "closed")
  /\ UNCHANGED <<env, network, st, rt, opened, looked, woke>>

\* Variation: the timeout is tested before the receive buffer.
SelectIdleFirst ==
  /\ pc = "wait"
  /\ looked' = now
  /\ pc' = "idle"
  /\ UNCHANGED <<env, network, sock, st, rt, result, opened, woke>>

\* A tenth of the timeout has passed without a packet.
SelectIdle ==
  /\ pc = "wait"
  /\ inbox = <<>>
  /\ looked' = now
  /\ pc' = "idle"
  /\ UNCHANGED <<env, network, sock, st, rt, result, opened, woke>>

SelectReady ==
  /\ pc = "wait"
  /\ inbox # <<>>
  /\ looked' = now
  /\ pc' = "ready"
  /\ UNCHANGED <<env, network, sock, st, rt, result, opened, woke>>

\* Variation: the clock is read only when a packet has come.
ReadClockWhenReady ==
  \/ /\ pc = "idle"
     /\ pc' = "check"
     /\ UNCHANGED <<env, network, sock, st, rt, result, opened, looked, woke>>
  \/ /\ pc = "ready"
     /\ rt' = clock /\ woke' = now
     /\ pc' = "recv"
     /\ UNCHANGED <<env, network, sock, st, result, opened, looked>>

\* The clock is read after select returned: a packet may have come in between, and
\* FD_ISSET tells what select saw.
ReadClock ==
  /\ pc \in {"idle", "ready"}
  /\ rt' = clock /\ woke' = now
  /\ pc' = IF pc = "ready" THEN "recv" ELSE "check"
  /\ UNCHANGED <<env, network, sock, st, result, opened, looked>>

\* The kernel dropped the packet after select saw it: EAGAIN.
ReceiveNothing ==
  /\ pc = "recv"
  /\ inbox' = Tail(inbox)
  /\ pc' = "wait"
  /\ UNCHANGED <<env, net, sent, sock, st, rt, result, opened, looked, woke>>

ReceiveFails ==
  /\ pc = "recv"
  /\ Finish(Failed("recv"), "closed")
  /\ UNCHANGED <<env, network, st, rt, opened, looked, woke>>

\* vrt_parse_response fails: continue, past the test for the timeout.
ReceiveInvalid ==
  /\ pc = "recv"
  /\ ~Head(inbox).packet.valid
  /\ inbox' = Tail(inbox)
  /\ pc' = "wait"
  /\ UNCHANGED <<env, net, sent, sock, st, rt, result, opened, looked, woke>>

ReceiveValid ==
  /\ pc = "recv"
  /\ Head(inbox).packet.valid
  /\ inbox' = Tail(inbox)
  /\ Finish(AdjustmentRange(Head(inbox).packet), "closed")
  /\ UNCHANGED <<env, net, sent, st, rt, opened, looked, woke>>

\* Variation: >= in the test for the timeout.
TimesOutEarly ==
  /\ pc = "check"
  /\ Elapsed >= Timeout
  /\ Finish(Failed("timeout"), "closed")
  /\ UNCHANGED <<env, network, st, rt, opened, looked, woke>>

TimesOut ==
  /\ pc = "check"
  /\ Elapsed > Timeout
  /\ Finish(Failed("timeout"), "closed")
  /\ UNCHANGED <<env, network, st, rt, opened, looked, woke>>

WaitOn ==
  /\ pc = "check"
  /\ Elapsed <= Timeout
  /\ pc' = "wait"
  /\ UNCHANGED <<env, network, sock, st, rt, result, opened, looked, woke>>

Run ==
  \/ Open \/ Send \/ SelectIdle \/ SelectReady \/ ReadClock
  \/ ReceiveInvalid \/ ReceiveValid \/ TimesOut \/ WaitOn

Fault == SetupFails \/ SendFails \/ SelectFails \/ ReceiveNothing \/ ReceiveFails

-----------------------------------------------------------------------------
(* The network, the server and the clock *)

Asked == pc \in {"wait", "idle", "ready", "recv", "check"}

\* The server answers the query, or a copy of it that the network made.
Answer(m, r) ==
  /\ Asked
  /\ sent.replies < MaxReplies
  /\ m - r <= now /\ now <= m + r
  /\ sent' = [sent EXCEPT !.replies = @ + 1]
  /\ net' = net \cup {Reply(m, r)}
  /\ UNCHANGED <<env, program, inbox>>

\* A damaged, foreign or wrongly signed packet.
Disturb ==
  /\ Asked
  /\ sent.garbage < MaxGarbage
  /\ sent' = [sent EXCEPT !.garbage = @ + 1]
  /\ net' = net \cup {Garbage}
  /\ UNCHANGED <<env, program, inbox>>

Deliver(p) ==
  /\ sock = "open"
  /\ inbox' = Append(inbox, Arrived(p))
  /\ net' = net \ {p}
  /\ UNCHANGED <<env, program, sent>>

Lose(p) ==
  /\ net' = net \ {p}
  /\ UNCHANGED <<env, program, inbox, sent>>

Tick ==
  /\ pc \notin {"start", "done"}
  /\ now - opened < MaxElapsed
  /\ now' = now + 1
  /\ clock' = clock + 1
  /\ UNCHANGED <<set, network, program>>

\* Somebody sets the clock while the query is under way.
SetClock(d) ==
  /\ pc \notin {"start", "done"}
  /\ set = "no"
  /\ d # 0
  /\ clock' = clock + d
  /\ set' = IF d > 0 THEN "forward" ELSE "back"
  /\ UNCHANGED <<now, network, program>>

Environment ==
  \/ \E r \in Radii : \E m \in now - r..now + r : Answer(m, r)
  \/ Disturb
  \/ \E p \in net : Deliver(p) \/ Lose(p)
  \/ Tick
  \/ \E d \in -MaxStep..MaxStep : SetClock(d)

Done == pc = "done" /\ UNCHANGED vars

Next == Run \/ Fault \/ Environment \/ Done

Spec == Init /\ [][Next]_vars

\* The program runs and time passes; faults, replies and deliveries may never come.
FairSpec == Spec /\ WF_vars(Run) /\ WF_vars(Tick)

-----------------------------------------------------------------------------
(* Properties *)

\* Every variable holds a value of its type.
TypeOK ==
  /\ now \in Int /\ clock \in Nat /\ opened \in Int
  /\ looked \in Int /\ woke \in Int
  /\ pc \in {"start", "send", "wait", "idle", "ready", "recv", "check", "done"}
  /\ sock \in {"none", "open", "closed"}
  /\ st \in Nat /\ rt \in Nat
  /\ net \subseteq Packet
  /\ inbox \in Seq(Received)
  /\ sent \in Counts
  /\ result \in Result /\ result.lo <= result.hi
  /\ set \in {"no", "forward", "back"}

\* However the query ends, its socket does not stay open
\* (vak_client.c:213, 237, 255, 280, 285).
NoSocketLeak == pc = "done" => sock # "open"

\* The range holds the true adjustment of the local clock when the reply came,
\* to half a tick (the division of st + rt drops one), for every delay and for
\* a clock that is set forward during the query.  A clock set back makes it
\* wrong only when it still reads st or more at the end: below st the round
\* trip time wraps around and the range holds everything (vak_client.c:287-294).
TruthInRange ==
  result.outcome = "ok" /\ (set # "back" \/ rt < st) =>
    /\ result.lo <= 2 * (woke - rt) + 1
    /\ 2 * (woke - rt) <= result.hi

\* A query is given up only when more than the timeout has really passed,
\* unless the clock was set (vak_client.c:278-282).
NoEarlyTimeout == result.outcome = "timeout" /\ set = "no" => now - opened > Timeout

\* A query may time out with a valid reply in the receive buffer, but a reply that
\* came in time is only lost there when it came between select and the look at the
\* clock behind it (vak_client.c:232-282).
MissedBehindSelect ==
  result.outcome = "timeout" /\ set = "no" =>
    \A i \in DOMAIN inbox :
      inbox[i].packet.valid /\ inbox[i].at <= opened + Timeout =>
        looked <= inbox[i].at /\ inbox[i].at < woke

\* Every query returns, as long as the packets that do not verify come to an end.
QueryReturns == <>(pc = "done")
=============================================================================
