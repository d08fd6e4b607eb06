-------------------------- MODULE QueryServer_proofs --------------------------
(***************************************************************************)
(* The safety invariants of QueryServer hold for every timeout, every set  *)
(* of radii, every offset of the clock and any number of replies.  None of *)
(* them is inductive: the range is computed from two readings of the clock *)
(* and a packet, so the invariant below says how a reading is related to   *)
(* the true time, and between which true times a reply was made.           *)
(***************************************************************************)
EXTENDS QueryServer, SequenceTheorems, TLAPS

\* The clock is Offset behind the true time until somebody sets it.
ClockInv ==
  /\ set = "no" => now - clock = Offset /\ clock >= MaxStep
  /\ set = "forward" => now - clock <= Offset
  /\ clock - MaxStep <= now - Offset /\ now - Offset <= clock + MaxStep
  /\ pc = "start" => set = "no" /\ now = opened /\ clock = MaxStep

\* The socket is open while the query is under way.
SocketInv ==
  /\ pc = "start" => sock = "none" /\ result = Pending
  /\ pc \in {"send", "wait", "idle", "ready", "recv", "check"} => sock = "open" /\ result = Pending
  /\ pc = "done" => sock # "open"
  /\ opened = MaxStep + Offset
  /\ opened <= now /\ now <= opened + MaxElapsed
  /\ sock # "none" => st = MaxStep
  /\ result.outcome \in {"ok", "timeout"} => pc = "done"

\* What the program knows when it has read the clock.
WokeInv ==
  pc \in {"recv", "check"} \/ result.outcome \in {"ok", "timeout"} =>
    /\ opened <= woke /\ woke <= now
    /\ set = "no" => woke - rt = Offset
    /\ set = "forward" => woke - rt <= Offset
    /\ rt - MaxStep <= woke - Offset /\ woke - Offset <= rt + MaxStep

\* When select looked at the socket: before the program read the clock.
LookedInv ==
  /\ pc \in {"idle", "ready"} => opened <= looked /\ looked <= now
  /\ pc \in {"recv", "check"} \/ result.outcome = "timeout" => looked <= woke

\* p is the reply to this query and was made no later than t.
MadeBy(p, t) == p.valid => opened <= p.mid + p.radius /\ p.mid - p.radius <= t

\* Where the packets on their way and in the receive buffer come from, and when: the
\* one that select reported came before the clock was read, and if it reported none,
\* all of them came after it had looked.
NetInv ==
  /\ pc = "start" => net = {} /\ inbox = <<>>
  /\ \A p \in net : MadeBy(p, now)
  /\ \A i \in DOMAIN inbox : inbox[i].at <= now /\ MadeBy(inbox[i].packet, inbox[i].at)
  /\ pc = "ready" => inbox # <<>> /\ Head(inbox).at <= now
  /\ pc = "recv" => inbox # <<>> /\ Head(inbox).at <= woke
  /\ pc \in {"idle", "check"} => \A i \in DOMAIN inbox : looked <= inbox[i].at

\* What the runs check.
Promises == NoSocketLeak /\ TruthInRange /\ NoEarlyTimeout /\ MissedBehindSelect

\* The inductive invariant.
Inv == TypeOK /\ ClockInv /\ SocketInv /\ WokeInv /\ LookedInv /\ NetInv /\ Promises

-----------------------------------------------------------------------------
(* Lemmas *)

\* A uint64_t difference of two times that are less than 2^64 apart.
LEMMA WrapAround ==
  ASSUME NEW M \in Nat, NEW d \in Int, -M <= d, d < M
  PROVE  /\ d % M \in Int
         /\ d >= 0 => d % M = d
         /\ d < 0 => d % M = d + M
<1>1. CASE d >= 0
  BY <1>1
<1>2. CASE d < 0
  BY <1>2
<1> QED
  BY <1>1, <1>2

\* The middle of two times, in whole ticks, is at most half a tick too early.
LEMMA Middle ==
  ASSUME NEW a \in Nat, NEW b \in Nat
  PROVE  /\ (a + b) \div 2 \in Nat
         /\ a + b - 1 <= 2 * ((a + b) \div 2) /\ 2 * ((a + b) \div 2) <= a + b
  OBVIOUS

\* Taking a packet out of the buffer leaves the others.
LEMMA TailPackets ==
  ASSUME NEW S, NEW s \in Seq(S), s # <<>>
  PROVE  /\ Tail(s) \in Seq(S)
         /\ \A i \in DOMAIN Tail(s) : i + 1 \in DOMAIN s /\ Tail(s)[i] = s[i + 1]
         /\ Head(s) = s[1] /\ 1 \in DOMAIN s
  BY HeadTailProperties

\* A packet put into the buffer is the last one.
LEMMA AppendPacket ==
  ASSUME NEW S, NEW s \in Seq(S), NEW e \in S
  PROVE  /\ Append(s, e) \in Seq(S)
         /\ \A i \in DOMAIN Append(s, e) :
              (i \in DOMAIN s /\ Append(s, e)[i] = s[i]) \/ Append(s, e)[i] = e
         /\ s # <<>> => Head(Append(s, e)) = Head(s)
  BY AppendProperties, HeadTailProperties

\* The time that has passed on the clock, as an unsigned difference.
LEMMA ElapsedValue ==
  ASSUME TypeOK, ClockInv, SocketInv, WokeInv, pc \in {"recv", "check"}
  PROVE  /\ Elapsed \in Int
         /\ rt >= st => Elapsed = rt - st
         /\ rt < st => Elapsed = rt - st + UInt64Mod
<1>1. rt - st \in Int /\ -UInt64Mod <= rt - st /\ rt - st < UInt64Mod
  BY TimeAssumption, UInt64Assumption DEF TypeOK, ClockInv, SocketInv, WokeInv, MaxElapsed
<1>2. /\ Elapsed \in Int
      /\ rt - st >= 0 => Elapsed = rt - st
      /\ rt - st < 0 => Elapsed = rt - st + UInt64Mod
  BY <1>1, WrapAround, UInt64Assumption DEF Elapsed
<1> QED
  BY <1>2 DEF TypeOK

-----------------------------------------------------------------------------
(* The steps *)

\* The initial states satisfy the invariant.
LEMMA InitInv == Init => Inv
<1> SUFFICES ASSUME Init PROVE Inv
  OBVIOUS
<1> USE TimeAssumption DEF Init, Pending
<1>1. TypeOK
  BY DEF TypeOK, Result, Counts, Received
<1>2. ClockInv /\ SocketInv /\ WokeInv /\ LookedInv
  BY DEF ClockInv, SocketInv, WokeInv, LookedInv, MaxElapsed
<1>3. NetInv
  BY DEF NetInv, MadeBy
<1>4. Promises
  BY DEF Promises, NoSocketLeak, TruthInRange, NoEarlyTimeout, MissedBehindSelect
<1> QED
  BY <1>1, <1>2, <1>3, <1>4 DEF Inv

\* What the types of the buffer and of the network say of their packets.
LEMMA InboxTyped == TypeOK => \A i \in DOMAIN inbox : inbox[i].at \in Int /\ inbox[i].packet \in Packet
<1> SUFFICES ASSUME TypeOK, NEW i \in DOMAIN inbox PROVE inbox[i].at \in Int /\ inbox[i].packet \in Packet
  OBVIOUS
<1>1. inbox[i] \in Received
  BY ElementOfSeq DEF TypeOK
<1> QED
  BY <1>1 DEF Received

\* The same for the times and radii in them.
LEMMA NetTyped ==
  TypeOK => /\ \A p \in net : p.mid \in Int /\ p.radius \in Nat
            /\ \A i \in DOMAIN inbox : inbox[i].packet.mid \in Int /\ inbox[i].packet.radius \in Nat
  BY InboxTyped DEF TypeOK, Packet

\* The range computed from a reply holds the true adjustment.
LEMMA RangeOfReply ==
  ASSUME Inv, ReceiveValid
  PROVE  /\ result' \in Result /\ result'.lo <= result'.hi /\ result'.outcome = "ok"
         /\ set # "back" \/ rt < st =>
              result'.lo <= 2 * (woke - rt) + 1 /\ 2 * (woke - rt) <= result'.hi
<1> DEFINE p     == Head(inbox).packet
           local == (st + rt) \div 2
<1>1. /\ p.mid \in Int /\ p.radius \in Nat
      /\ opened <= p.mid + p.radius /\ p.mid - p.radius <= woke
  <2>1. inbox[1] = Head(inbox) /\ 1 \in DOMAIN inbox
    BY TailPackets DEF ReceiveValid, Inv, TypeOK, NetInv
  <2>2. Head(inbox).at \in Int /\ p.mid \in Int /\ p.radius \in Nat
    BY <2>1, InboxTyped, NetTyped DEF Inv
  <2>3. woke \in Int /\ opened \in Int
    BY DEF Inv, TypeOK
  <2> QED
    BY <2>1, <2>2, <2>3 DEF ReceiveValid, Inv, NetInv, MadeBy
<1>2. st \in Nat /\ rt \in Nat
  BY DEF Inv, TypeOK
<1>3. local \in Nat /\ st + rt - 1 <= 2 * local /\ 2 * local <= st + rt
  BY <1>2, Middle
<1>4. /\ Elapsed \in Int
      /\ rt >= st => Elapsed = rt - st
      /\ rt < st => Elapsed = rt - st + UInt64Mod
  BY ElapsedValue DEF ReceiveValid, Inv
<1>5. /\ result'.outcome = "ok"
      /\ result'.lo = 2 * (p.mid - local) - (2 * p.radius + Elapsed)
      /\ result'.hi = 2 * (p.mid - local) + (2 * p.radius + Elapsed)
      /\ result' = [outcome |-> "ok", lo |-> result'.lo, hi |-> result'.hi]
  BY DEF ReceiveValid, Finish, AdjustmentRange
<1> HIDE DEF p, local
<1>6. /\ st = MaxStep /\ woke \in Int /\ opened = MaxStep + Offset
      /\ woke <= opened + Timeout + MaxStep + 1
      /\ set # "back" => woke - rt <= Offset
      /\ rt - MaxStep <= woke - Offset /\ woke - Offset <= rt + MaxStep
      /\ Offset \in Int /\ Timeout \in Nat /\ MaxStep \in Nat
      /\ UInt64Mod \in Nat /\ UInt64Mod > 10 * (Timeout + MaxStep + 1)
  BY TimeAssumption, UInt64Assumption
     DEF ReceiveValid, Inv, TypeOK, ClockInv, SocketInv, WokeInv, MaxElapsed
<1>7. result'.lo \in Int /\ result'.hi \in Int /\ result'.lo <= result'.hi
  BY <1>1, <1>2, <1>3, <1>4, <1>5, <1>6
<1>8. CASE rt >= st
  <2>1. set # "back" => result'.lo <= 2 * (woke - rt) + 1 /\ 2 * (woke - rt) <= result'.hi
    BY <1>1, <1>2, <1>3, <1>4, <1>5, <1>6, <1>8
  <2> QED
    BY <1>2, <1>5, <1>7, <1>8, <2>1 DEF Result
<1>9. CASE rt < st
  <2>1. result'.lo <= 2 * (woke - rt) + 1 /\ 2 * (woke - rt) <= result'.hi
    BY <1>1, <1>2, <1>3, <1>4, <1>5, <1>6, <1>9
  <2> QED
    BY <1>2, <1>5, <1>7, <1>9, <2>1 DEF Result
<1> QED
  BY <1>2, <1>8, <1>9

\* Every step of the program preserves the invariant.
LEMMA ProgramInv == Inv /\ (Run \/ Fault) => Inv'
<1> SUFFICES ASSUME Inv, Run \/ Fault PROVE Inv'
  OBVIOUS
<1> USE TimeAssumption, UInt64Assumption DEF Inv, Pending, env, network, program
<1>1. CASE SetupFails
  <2>1. TypeOK'
    BY <1>1 DEF SetupFails, Finish, Failed, TypeOK, Result, Packet, Received, Counts
  <2>2. ClockInv' /\ SocketInv' /\ WokeInv' /\ LookedInv'
    BY <1>1 DEF SetupFails, Finish, Failed, TypeOK, ClockInv, SocketInv, WokeInv, LookedInv, MaxElapsed
  <2>3. NetInv'
    BY <1>1, InboxTyped, NetTyped DEF SetupFails, Finish, Failed, TypeOK, ClockInv, SocketInv, NetInv, MadeBy
  <2>4. Promises'
    BY <1>1 DEF SetupFails, Finish, Failed, TypeOK, ClockInv, SocketInv, WokeInv, Promises, NoSocketLeak, TruthInRange,
               NoEarlyTimeout, MissedBehindSelect
  <2> QED
    BY <2>1, <2>2, <2>3, <2>4
<1>2. CASE SendFails
  <2>1. TypeOK'
    BY <1>2 DEF SendFails, Finish, Failed, TypeOK, Result, Packet, Received, Counts
  <2>2. ClockInv' /\ SocketInv' /\ WokeInv' /\ LookedInv'
    BY <1>2 DEF SendFails, Finish, Failed, TypeOK, ClockInv, SocketInv, WokeInv, LookedInv, MaxElapsed
  <2>3. NetInv'
    BY <1>2, InboxTyped, NetTyped DEF SendFails, Finish, Failed, TypeOK, ClockInv, SocketInv, NetInv, MadeBy
  <2>4. Promises'
    BY <1>2 DEF SendFails, Finish, Failed, TypeOK, ClockInv, SocketInv, WokeInv, Promises, NoSocketLeak, TruthInRange,
               NoEarlyTimeout, MissedBehindSelect
  <2> QED
    BY <2>1, <2>2, <2>3, <2>4
<1>3. CASE SelectFails
  <2>1. TypeOK'
    BY <1>3 DEF SelectFails, Finish, Failed, TypeOK, Result, Packet, Received, Counts
  <2>2. ClockInv' /\ SocketInv' /\ WokeInv' /\ LookedInv'
    BY <1>3 DEF SelectFails, Finish, Failed, TypeOK, ClockInv, SocketInv, WokeInv, LookedInv, MaxElapsed
  <2>3. NetInv'
    BY <1>3, InboxTyped, NetTyped DEF SelectFails, Finish, Failed, TypeOK, ClockInv, SocketInv, NetInv, MadeBy
  <2>4. Promises'
    BY <1>3 DEF SelectFails, Finish, Failed, TypeOK, ClockInv, SocketInv, WokeInv, Promises, NoSocketLeak, TruthInRange,
               NoEarlyTimeout, MissedBehindSelect
  <2> QED
    BY <2>1, <2>2, <2>3, <2>4
<1>4. CASE ReceiveFails
  <2>1. TypeOK'
    BY <1>4 DEF ReceiveFails, Finish, Failed, TypeOK, Result, Packet, Received, Counts
  <2>2. ClockInv' /\ SocketInv' /\ WokeInv' /\ LookedInv'
    BY <1>4 DEF ReceiveFails, Finish, Failed, TypeOK, ClockInv, SocketInv, WokeInv, LookedInv, MaxElapsed
  <2>3. NetInv'
    BY <1>4, InboxTyped, NetTyped DEF ReceiveFails, Finish, Failed, TypeOK, ClockInv, SocketInv, NetInv, MadeBy
  <2>4. Promises'
    BY <1>4 DEF ReceiveFails, Finish, Failed, TypeOK, ClockInv, SocketInv, WokeInv, Promises, NoSocketLeak, TruthInRange,
               NoEarlyTimeout, MissedBehindSelect
  <2> QED
    BY <2>1, <2>2, <2>3, <2>4
<1>5. CASE Open
  <2>1. TypeOK'
    BY <1>5 DEF Open, TypeOK, Result, Packet, Received, Counts
  <2>2. ClockInv' /\ SocketInv' /\ WokeInv' /\ LookedInv'
    BY <1>5 DEF Open, TypeOK, ClockInv, SocketInv, WokeInv, LookedInv, MaxElapsed
  <2>3. NetInv'
    BY <1>5, InboxTyped, NetTyped DEF Open, TypeOK, ClockInv, SocketInv, NetInv, MadeBy
  <2>4. Promises'
    BY <1>5 DEF Open, TypeOK, ClockInv, SocketInv, WokeInv, Promises, NoSocketLeak, TruthInRange,
               NoEarlyTimeout, MissedBehindSelect
  <2> QED
    BY <2>1, <2>2, <2>3, <2>4
<1>6. CASE Send
  <2>1. TypeOK'
    BY <1>6 DEF Send, TypeOK, Result, Packet, Received, Counts
  <2>2. ClockInv' /\ SocketInv' /\ WokeInv' /\ LookedInv'
    BY <1>6 DEF Send, TypeOK, ClockInv, SocketInv, WokeInv, LookedInv, MaxElapsed
  <2>3. NetInv'
    BY <1>6, InboxTyped, NetTyped DEF Send, TypeOK, ClockInv, SocketInv, NetInv, MadeBy
  <2>4. Promises'
    BY <1>6 DEF Send, TypeOK, ClockInv, SocketInv, WokeInv, Promises, NoSocketLeak, TruthInRange,
               NoEarlyTimeout, MissedBehindSelect
  <2> QED
    BY <2>1, <2>2, <2>3, <2>4
<1>7. CASE SelectIdle
  <2>1. TypeOK'
    BY <1>7 DEF SelectIdle, TypeOK, Result, Packet, Received, Counts
  <2>2. ClockInv' /\ SocketInv' /\ WokeInv' /\ LookedInv'
    BY <1>7 DEF SelectIdle, TypeOK, ClockInv, SocketInv, WokeInv, LookedInv, MaxElapsed
  <2>3. NetInv'
    BY <1>7, InboxTyped, NetTyped DEF SelectIdle, TypeOK, ClockInv, SocketInv, NetInv, MadeBy
  <2>4. Promises'
    BY <1>7 DEF SelectIdle, TypeOK, ClockInv, SocketInv, WokeInv, Promises, NoSocketLeak, TruthInRange,
               NoEarlyTimeout, MissedBehindSelect
  <2> QED
    BY <2>1, <2>2, <2>3, <2>4
<1>8. CASE SelectReady
  <2>1. TypeOK'
    BY <1>8 DEF SelectReady, TypeOK, Result, Packet, Received, Counts
  <2>2. ClockInv' /\ SocketInv' /\ WokeInv' /\ LookedInv'
    BY <1>8 DEF SelectReady, TypeOK, ClockInv, SocketInv, WokeInv, LookedInv, MaxElapsed
  <2>3. NetInv'
    <3>1. inbox[1] = Head(inbox) /\ 1 \in DOMAIN inbox
      BY <1>8, TailPackets DEF SelectReady, TypeOK
    <3> QED
      BY <3>1, <1>8 DEF SelectReady, TypeOK, SocketInv, NetInv, MadeBy
  <2>4. Promises'
    BY <1>8 DEF SelectReady, TypeOK, ClockInv, SocketInv, WokeInv, Promises, NoSocketLeak, TruthInRange,
               NoEarlyTimeout, MissedBehindSelect
  <2> QED
    BY <2>1, <2>2, <2>3, <2>4
<1>9. CASE ReceiveNothing
  <2> /\ Tail(inbox) \in Seq(Received)
      /\ \A i \in DOMAIN Tail(inbox) : i + 1 \in DOMAIN inbox /\ Tail(inbox)[i] = inbox[i + 1]
    BY <1>9, TailPackets DEF ReceiveNothing, TypeOK, NetInv
  <2>1. TypeOK'
    BY <1>9 DEF ReceiveNothing, TypeOK, Result, Packet, Received, Counts
  <2>2. ClockInv' /\ SocketInv' /\ WokeInv' /\ LookedInv'
    BY <1>9 DEF ReceiveNothing, TypeOK, ClockInv, SocketInv, WokeInv, LookedInv, MaxElapsed
  <2>3. NetInv'
    BY <1>9, InboxTyped, NetTyped DEF ReceiveNothing, TypeOK, ClockInv, SocketInv, NetInv, MadeBy
  <2>4. Promises'
    BY <1>9 DEF ReceiveNothing, TypeOK, ClockInv, SocketInv, WokeInv, Promises, NoSocketLeak, TruthInRange,
               NoEarlyTimeout, MissedBehindSelect
  <2> QED
    BY <2>1, <2>2, <2>3, <2>4
<1>10. CASE ReceiveInvalid
  <2> /\ Tail(inbox) \in Seq(Received)
      /\ \A i \in DOMAIN Tail(inbox) : i + 1 \in DOMAIN inbox /\ Tail(inbox)[i] = inbox[i + 1]
    BY <1>10, TailPackets DEF ReceiveInvalid, TypeOK, NetInv
  <2>1. TypeOK'
    BY <1>10 DEF ReceiveInvalid, TypeOK, Result, Packet, Received, Counts
  <2>2. ClockInv' /\ SocketInv' /\ WokeInv' /\ LookedInv'
    BY <1>10 DEF ReceiveInvalid, TypeOK, ClockInv, SocketInv, WokeInv, LookedInv, MaxElapsed
  <2>3. NetInv'
    BY <1>10, InboxTyped, NetTyped DEF ReceiveInvalid, TypeOK, ClockInv, SocketInv, NetInv, MadeBy
  <2>4. Promises'
    BY <1>10 DEF ReceiveInvalid, TypeOK, ClockInv, SocketInv, WokeInv, Promises, NoSocketLeak, TruthInRange,
               NoEarlyTimeout, MissedBehindSelect
  <2> QED
    BY <2>1, <2>2, <2>3, <2>4
<1>11. CASE ReceiveValid
  <2> /\ Tail(inbox) \in Seq(Received)
      /\ \A i \in DOMAIN Tail(inbox) : i + 1 \in DOMAIN inbox /\ Tail(inbox)[i] = inbox[i + 1]
    BY <1>11, TailPackets DEF ReceiveValid, TypeOK, NetInv
  <2>1. TypeOK'
    BY <1>11, RangeOfReply DEF ReceiveValid, Finish, TypeOK
  <2>2. ClockInv' /\ SocketInv' /\ WokeInv' /\ LookedInv'
    BY <1>11, RangeOfReply DEF ReceiveValid, Finish, TypeOK, ClockInv, SocketInv, WokeInv, LookedInv, MaxElapsed
  <2>3. NetInv'
    BY <1>11 DEF ReceiveValid, Finish, TypeOK, SocketInv, NetInv, MadeBy
  <2>4. Promises'
    BY <1>11, RangeOfReply DEF ReceiveValid, Finish, TypeOK, Promises, NoSocketLeak, TruthInRange,
               NoEarlyTimeout, MissedBehindSelect
  <2> QED
    BY <2>1, <2>2, <2>3, <2>4
<1>12. CASE TimesOut
  <2>a. set = "no" => woke - opened > Timeout
    <3>1. set = "no" => rt - st = woke - opened /\ rt >= st
      BY <1>12 DEF TimesOut, TypeOK, ClockInv, SocketInv, WokeInv
    <3> QED
      BY <3>1, <1>12, ElapsedValue DEF TimesOut, TypeOK, SocketInv, WokeInv
  <2>1. TypeOK'
    BY <1>12 DEF TimesOut, Finish, Failed, TypeOK, Result, Packet, Received, Counts
  <2>2. ClockInv' /\ SocketInv' /\ WokeInv' /\ LookedInv'
    BY <1>12 DEF TimesOut, Finish, Failed, TypeOK, ClockInv, SocketInv, WokeInv, LookedInv, MaxElapsed
  <2>3. NetInv'
    BY <1>12, InboxTyped, NetTyped DEF TimesOut, Finish, Failed, TypeOK, ClockInv, SocketInv, NetInv, MadeBy
  <2>4. Promises'
    <3>1. NoSocketLeak' /\ TruthInRange'
      BY <1>12 DEF TimesOut, Finish, Failed, NoSocketLeak, TruthInRange
    <3>2. NoEarlyTimeout'
      BY <1>12, <2>a DEF TimesOut, Finish, Failed, TypeOK, WokeInv, NoEarlyTimeout
    <3>3. MissedBehindSelect'
      <4>1. \A i \in DOMAIN inbox : looked <= inbox[i].at
        BY <1>12 DEF TimesOut, NetInv
      <4>2. ASSUME set = "no", NEW i \in DOMAIN inbox, inbox[i].at <= opened + Timeout
              PROVE  inbox[i].at < woke
        BY <2>a, <4>1, <4>2, InboxTyped DEF TypeOK
      <4> QED
        BY <1>12, <4>1, <4>2 DEF TimesOut, Finish, MissedBehindSelect
    <3> QED
      BY <3>1, <3>2, <3>3 DEF Promises
  <2> QED
    BY <2>1, <2>2, <2>3, <2>4
<1>13. CASE WaitOn
  <2>1. TypeOK'
    BY <1>13 DEF WaitOn, TypeOK, Result, Packet, Received, Counts
  <2>2. ClockInv' /\ SocketInv' /\ WokeInv' /\ LookedInv'
    BY <1>13 DEF WaitOn, TypeOK, ClockInv, SocketInv, WokeInv, LookedInv, MaxElapsed
  <2>3. NetInv'
    BY <1>13, InboxTyped, NetTyped DEF WaitOn, TypeOK, ClockInv, SocketInv, NetInv, MadeBy
  <2>4. Promises'
    BY <1>13 DEF WaitOn, TypeOK, ClockInv, SocketInv, WokeInv, Promises, NoSocketLeak, TruthInRange,
               NoEarlyTimeout, MissedBehindSelect
  <2> QED
    BY <2>1, <2>2, <2>3, <2>4
<1>14. CASE ReadClock
  <2>1. TypeOK'
    BY <1>14 DEF ReadClock, TypeOK, Result, Packet, Received, Counts
  <2>2. ClockInv' /\ SocketInv' /\ WokeInv' /\ LookedInv'
    BY <1>14 DEF ReadClock, TypeOK, ClockInv, SocketInv, WokeInv, LookedInv, MaxElapsed
  <2>3. NetInv'
    BY <1>14, InboxTyped, NetTyped DEF ReadClock, TypeOK, ClockInv, SocketInv, NetInv, MadeBy
  <2>4. Promises'
    BY <1>14 DEF ReadClock, TypeOK, ClockInv, SocketInv, WokeInv, Promises, NoSocketLeak, TruthInRange,
               NoEarlyTimeout, MissedBehindSelect
  <2> QED
    BY <2>1, <2>2, <2>3, <2>4
<1> QED
  BY <1>1, <1>2, <1>3, <1>4, <1>5, <1>6, <1>7, <1>8, <1>9, <1>10, <1>11, <1>12, <1>13, <1>14 DEF Run, Fault

\* Neither do the network, the server and the clock invalidate it.
LEMMA EnvironmentInv == Inv /\ Environment => Inv'
<1> SUFFICES ASSUME Inv, Environment PROVE Inv'
  OBVIOUS
<1> USE TimeAssumption, UInt64Assumption DEF Inv, Pending, env, network, program
<1>1. CASE \E r \in Radii : \E m \in now - r..now + r : Answer(m, r)
  <2>a. PICK r \in Radii : \E m \in now - r..now + r : Answer(m, r)
    BY <1>1
  <2>b. PICK m \in now - r..now + r : Answer(m, r)
    BY <2>a
  <2>c. m \in Int /\ r \in Nat
    BY DEF TypeOK
  <2>1. TypeOK'
    <3>1. Reply(m, r) \in Packet
      BY <2>b, <2>c DEF Answer, Asked, Reply, Packet
    <3>2. sent' \in Counts
      <4>1. sent' = [sent EXCEPT !.replies = sent.replies + 1]
        BY <2>b DEF Answer
      <4>2. sent \in [replies : Nat, garbage : Nat]
        BY DEF TypeOK, Counts
      <4> QED
        BY ONLY <4>1, <4>2 DEF Counts
    <3>3. net' \subseteq Packet
      BY <2>b, <2>c, <3>1 DEF Answer, Asked, Reply, TypeOK
    <3> QED
      BY <2>b, <3>2, <3>3 DEF Answer, Asked, Reply, TypeOK
  <2>2. ClockInv' /\ SocketInv' /\ WokeInv' /\ LookedInv'
    BY <2>b, <2>c DEF Answer, Asked, Reply, TypeOK, ClockInv, SocketInv, WokeInv, LookedInv, MaxElapsed
  <2>3. NetInv'
    <3>1. MadeBy(Reply(m, r), now)
      BY <2>b, <2>c DEF Answer, Asked, Reply, MadeBy, TypeOK, SocketInv
    <3>2. \A q \in net' : MadeBy(q, now)
      BY <2>b, <2>c, <3>1 DEF Answer, Asked, Reply, NetInv
    <3> QED
      BY <2>b, <3>2 DEF Answer, Asked, Reply, TypeOK, NetInv, MadeBy
  <2>4. Promises'
    BY <2>b, <2>c DEF Answer, Asked, Reply, TypeOK, ClockInv, SocketInv, WokeInv, Promises, NoSocketLeak, TruthInRange,
               NoEarlyTimeout, MissedBehindSelect
  <2> QED
    BY <2>1, <2>2, <2>3, <2>4
<1>2. CASE Disturb
  <2>1. TypeOK'
    <3>1. Garbage \in Packet
      BY <1>2 DEF Disturb, Asked, Garbage, Packet
    <3>2. sent' \in Counts
      <4>1. sent' = [sent EXCEPT !.garbage = sent.garbage + 1]
        BY <1>2 DEF Disturb
      <4>2. sent \in [replies : Nat, garbage : Nat]
        BY DEF TypeOK, Counts
      <4> QED
        BY ONLY <4>1, <4>2 DEF Counts
    <3>3. net' \subseteq Packet
      BY <1>2, <3>1 DEF Disturb, Asked, Garbage, TypeOK
    <3> QED
      BY <1>2, <3>2, <3>3 DEF Disturb, Asked, Garbage, TypeOK
  <2>2. ClockInv' /\ SocketInv' /\ WokeInv' /\ LookedInv'
    BY <1>2 DEF Disturb, Asked, Garbage, TypeOK, ClockInv, SocketInv, WokeInv, LookedInv, MaxElapsed
  <2>3. NetInv'
    <3>1. MadeBy(Garbage, now)
      BY <1>2 DEF Disturb, Asked, Garbage, MadeBy, TypeOK, SocketInv
    <3>2. \A q \in net' : MadeBy(q, now)
      BY <1>2, <3>1 DEF Disturb, Asked, Garbage, NetInv
    <3> QED
      BY <1>2, <3>2 DEF Disturb, Asked, Garbage, TypeOK, NetInv, MadeBy
  <2>4. Promises'
    BY <1>2 DEF Disturb, Asked, Garbage, TypeOK, ClockInv, SocketInv, WokeInv, Promises, NoSocketLeak, TruthInRange,
               NoEarlyTimeout, MissedBehindSelect
  <2> QED
    BY <2>1, <2>2, <2>3, <2>4
<1>3. CASE \E p \in net : Deliver(p)
  <2> PICK p \in net : Deliver(p)
    BY <1>3
  <2> Arrived(p) \in Received
    BY DEF TypeOK, Arrived, Received
  <2> /\ inbox' \in Seq(Received)
      /\ \A i \in DOMAIN inbox' :
           (i \in DOMAIN inbox /\ inbox'[i] = inbox[i]) \/ inbox'[i] = Arrived(p)
      /\ inbox # <<>> => Head(inbox') = Head(inbox)
      /\ inbox' # <<>>
    BY AppendPacket DEF Deliver, TypeOK
  <2>1. TypeOK'
    BY <1>3 DEF Deliver, Arrived, TypeOK, Result, Packet, Received, Counts
  <2>2. ClockInv' /\ SocketInv' /\ WokeInv' /\ LookedInv'
    BY <1>3 DEF Deliver, Arrived, TypeOK, ClockInv, SocketInv, WokeInv, LookedInv, MaxElapsed
  <2>3. NetInv'
    <3>1. Arrived(p).at = now /\ MadeBy(Arrived(p).packet, now)
      BY DEF Deliver, Arrived, NetInv
    <3>2. \A i \in DOMAIN inbox' : inbox'[i].at <= now /\ MadeBy(inbox'[i].packet, inbox'[i].at)
      BY <3>1 DEF Deliver, NetInv, TypeOK
    <3>3. pc \in {"idle", "check"} => \A i \in DOMAIN inbox' : looked <= inbox'[i].at
      BY <3>1 DEF Deliver, NetInv, SocketInv, WokeInv, LookedInv, TypeOK
    <3>4. pc = "recv" => inbox' # <<>> /\ Head(inbox').at <= woke
      BY DEF Deliver, NetInv
    <3>5. pc = "ready" => inbox' # <<>> /\ Head(inbox').at <= now
      BY DEF Deliver, NetInv
    <3> QED
      BY <3>2, <3>3, <3>4, <3>5 DEF Deliver, NetInv, MadeBy, SocketInv
  <2>4. Promises'
    BY <1>3 DEF Deliver, Arrived, TypeOK, ClockInv, SocketInv, WokeInv, Promises, NoSocketLeak, TruthInRange,
               NoEarlyTimeout, MissedBehindSelect
  <2> QED
    BY <2>1, <2>2, <2>3, <2>4
<1>4. CASE \E p \in net : Lose(p)
  <2> PICK p \in net : Lose(p)
    BY <1>4
  <2>1. TypeOK'
    BY <1>4 DEF Lose, TypeOK, Result, Packet, Received, Counts
  <2>2. ClockInv' /\ SocketInv' /\ WokeInv' /\ LookedInv'
    BY <1>4 DEF Lose, TypeOK, ClockInv, SocketInv, WokeInv, LookedInv, MaxElapsed
  <2>3. NetInv'
    BY <1>4, InboxTyped, NetTyped DEF Lose, TypeOK, ClockInv, SocketInv, NetInv, MadeBy
  <2>4. Promises'
    BY <1>4 DEF Lose, TypeOK, ClockInv, SocketInv, WokeInv, Promises, NoSocketLeak, TruthInRange,
               NoEarlyTimeout, MissedBehindSelect
  <2> QED
    BY <2>1, <2>2, <2>3, <2>4
<1>5. CASE Tick
  <2>1. TypeOK'
    BY <1>5 DEF Tick, TypeOK, Result, Packet, Received, Counts
  <2>2. ClockInv' /\ SocketInv' /\ WokeInv' /\ LookedInv'
    BY <1>5 DEF Tick, TypeOK, ClockInv, SocketInv, WokeInv, LookedInv, MaxElapsed
  <2>3. NetInv'
    BY <1>5, InboxTyped, NetTyped DEF Tick, TypeOK, ClockInv, SocketInv, NetInv, MadeBy
  <2>4. Promises'
    BY <1>5 DEF Tick, TypeOK, ClockInv, SocketInv, WokeInv, Promises, NoSocketLeak, TruthInRange,
               NoEarlyTimeout, MissedBehindSelect
  <2> QED
    BY <2>1, <2>2, <2>3, <2>4
<1>6. CASE \E d \in -MaxStep..MaxStep : SetClock(d)
  <2> PICK d \in -MaxStep..MaxStep : SetClock(d)
    BY <1>6
  <2>1. TypeOK'
    BY <1>6 DEF SetClock, TypeOK, ClockInv
  <2>2. ClockInv' /\ SocketInv' /\ WokeInv' /\ LookedInv'
    BY <1>6 DEF SetClock, TypeOK, ClockInv, SocketInv, WokeInv, LookedInv, MaxElapsed
  <2>3. NetInv'
    BY <1>6, InboxTyped, NetTyped DEF SetClock, TypeOK, ClockInv, SocketInv, NetInv, MadeBy
  <2>4. Promises'
    BY <1>6 DEF SetClock, TypeOK, ClockInv, SocketInv, WokeInv, Promises, NoSocketLeak, TruthInRange,
               NoEarlyTimeout, MissedBehindSelect
  <2> QED
    BY <2>1, <2>2, <2>3, <2>4
<1> QED
  BY <1>1, <1>2, <1>3, <1>4, <1>5, <1>6 DEF Environment

\* Every step keeps the invariant.
LEMMA NextInv == Inv /\ [Next]_vars => Inv'
<1> SUFFICES ASSUME Inv, Next \/ vars' = vars PROVE Inv'
  OBVIOUS
<1>1. CASE vars' = vars
  BY <1>1 DEF vars, env, network, program, Inv, TypeOK, ClockInv, SocketInv, WokeInv, LookedInv, NetInv, MadeBy,
              MaxElapsed, Promises, NoSocketLeak, TruthInRange, NoEarlyTimeout, MissedBehindSelect
<1> QED
  BY <1>1, ProgramInv, EnvironmentInv DEF Next, Done

-----------------------------------------------------------------------------
(* The theorems *)

\* The invariant holds throughout every behaviour.
THEOREM Invariance == Spec => []Inv
  BY InitInv, NextInv, PTL DEF Spec

\* Every variable keeps its type, and a range never has its ends in the wrong order.
THEOREM TypeCorrect == Spec => []TypeOK
<1>1. Inv => TypeOK
  BY DEF Inv
<1> QED
  BY <1>1, Invariance, PTL

\* However the query ends, its socket is closed (vak_client.c:213, 237, 255, 280, 285).
THEOREM SocketClosed == Spec => []NoSocketLeak
<1>1. Inv => NoSocketLeak
  BY DEF Inv, Promises
<1> QED
  BY <1>1, Invariance, PTL

\* The computed range holds the true adjustment of the clock (vak_client.c:287-294).
THEOREM RangeIsSound == Spec => []TruthInRange
<1>1. Inv => TruthInRange
  BY DEF Inv, Promises
<1> QED
  BY <1>1, Invariance, PTL

\* A query is given up no earlier than after the timeout (vak_client.c:242-282).
THEOREM TimeoutNotEarly == Spec => []NoEarlyTimeout
<1>1. Inv => NoEarlyTimeout
  BY DEF Inv, Promises
<1> QED
  BY <1>1, Invariance, PTL

\* A valid reply that came in time is left behind only if it came after select had
\* looked at the socket and before the clock was read
\* (vak_client.c:232-282).
THEOREM OnlyMissedBehindSelect == Spec => []MissedBehindSelect
<1>1. Inv => MissedBehindSelect
  BY DEF Inv, Promises
<1> QED
  BY <1>1, Invariance, PTL
=============================================================================
