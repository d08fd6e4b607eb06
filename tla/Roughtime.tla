----------------------------- MODULE Roughtime -----------------------------
(***************************************************************************)
(* The roughtime protocol as this repository implements it: the server and *)
(* the client of examples/python/pyroughtime.py, and vrt_parse_response of *)
(* examples/C/vrt.c as a second client, over a network that delays, loses, *)
(* repeats and garbles replies.                                            *)
(*                                                                         *)
(* Signatures and hashes are symbolic: a signature is the key with what it *)
(* was made over.  Only the format of variant 5 and later is modelled.     *)
(***************************************************************************)
EXTENDS Integers, Sequences, FiniteSetsExt

CONSTANTS
  Servers,          \* the servers
  Falsetickers,     \* those that tell a wrong time
  Lie,              \* by how much it is wrong
  Radi,             \* the accuracy the servers state
  Day, DayWord,     \* a day has Day ticks, and the number of the day is stored times DayWord
  Validity,         \* how long a delegation is valid
  Timeout,          \* how long a client waits for a reply
  MaxAddresses,     \* addresses of a server, at most
  BatchSizes,       \* how many queries may be answered at once
  MaxPath,          \* levels of a tree, at most: 32
  MaxHistoryLen,    \* max_history_len
  MaxQueries, MaxNow, MaxReplies, MaxKeys    \* bounds

ASSUME FormatAssumption == Day \in Nat \ {0} /\ DayWord \in Nat /\ Day <= DayWord
ASSUME TimeAssumption   == Lie \in Int /\ Radi \in Nat /\ Validity \in Nat /\ Timeout \in Nat
ASSUME LengthAssumption == MaxHistoryLen \in Nat \ {0} /\ MaxPath \in Nat

VARIABLES
  now,        \* the true time
  server,     \* for each server: its delegation, and how many it has had
  requests,   \* queries on their way: server and nonce
  replies,    \* replies that may arrive: the sender's address, the message
  client,     \* the query the client is in
  history     \* prev_replies: the servers asked, and their replies

vars == <<now, server, requests, replies, client, history>>

-----------------------------------------------------------------------------
(* Formats                                                                 *)

\* __datetime_to_timestamp: the day in the high bits, the time of day below.
Timestamp(t) == (t \div Day) * DayWord + (t % Day)

\* midp_to_datetime, and the conversion at the end of vrt_parse_response.
ToTime(ts) == (ts \div DayWord) * Day + (ts % DayWord)

HashedLeaf(nonce)       == <<"leaf", nonce>>
HashedNode(left, right) == <<"node", left, right>>
RandomNode(n)           == <<"random", n>>

INSTANCE Merkle WITH Leaf <- HashedLeaf, Node <- HashedNode, Random <- RandomNode

\* A tree is no higher than the clients accept.
ASSUME BatchAssumption == \A size \in BatchSizes : size \in Nat \ {0} /\ Order(size) <= MaxPath

RootKey(s)         == <<"root", s>>
DelegateKey(s, n)  == <<"delegate", s, n>>
Sign(key, content) == [key |-> key, over |-> content]

\* create_delegate_key, from the time of the call on.
Delegation(s, n, t) ==
  [pubk |-> DelegateKey(s, n), mint |-> Timestamp(t), maxt |-> Timestamp(t + Validity)]

Clock(s) == IF s \in Falsetickers THEN now + Lie ELSE now

-----------------------------------------------------------------------------
(* The server.  __recv_thread answers one query at a time; the public      *)
(* servers answer several with one tree, which is external to this code.   *)

\* The reply to the query at place index of nonces.
Reply(s, nonces, index) ==
  LET dele == server[s].dele
      srep == [root |-> Root(nonces), midp |-> Timestamp(Clock(s)), radi |-> Radi]
  IN  [nonc |-> nonces[index + 1], indx |-> index,
       path |-> ConstructMerklePath(nonces, index),
       srep |-> srep, sig |-> Sign(dele.pubk, srep),
       dele |-> dele, dsig |-> Sign(RootKey(s), dele)]

Send(s, msg) == replies' = replies \cup {[from |-> s, msg |-> msg]}

Receive(s, request) ==
  /\ request \in requests /\ request.server = s
  /\ requests' = requests \ {request}
  /\ Cardinality(replies) < MaxReplies

\* __recv_thread: a tree with a single nonce.
Answer(s) ==
  /\ \E request \in requests :
       Receive(s, request) /\ Send(s, Reply(s, <<request.nonce>>, 0))
  /\ UNCHANGED <<now, server, client, history>>

\* External: the query is answered together with those of other clients.
AnswerBatch(s) ==
  /\ \E request \in requests, size \in BatchSizes :
       \E index \in 0..(size - 1) :
         LET nonces == [k \in 1..size |-> IF k = index + 1 THEN request.nonce ELSE -k]
         IN  Receive(s, request) /\ Send(s, Reply(s, nonces, index))
  /\ UNCHANGED <<now, server, client, history>>

\* stop, and start of a RoughtimeServer with a new delegation by create_delegate_key of
\* the long-term key, which whoever runs the server keeps (test_server draws a new one).
\* The queries that wait in the socket are lost.  A server that is stopped for a while
\* is one that does not answer.
Redelegate(s) ==
  /\ \A t \in Servers : server[t].keys < MaxKeys
  /\ server' = [server EXCEPT ![s] =
       [keys |-> @.keys + 1, dele |-> Delegation(s, @.keys + 1, now)]]
  /\ requests' = {request \in requests : request.server # s}
  /\ UNCHANGED <<now, replies, client, history>>

-----------------------------------------------------------------------------
(* The network.  A query or a reply that is lost is one that is never      *)
(* received; a reply stays in replies, so that it may come late and twice. *)

Parts == {"nonc", "indx", "path", "srep", "sig", "dele", "dsig"}

\* What is exchanged at once: any part, and parts that belong together.
Mixes == {{p} : p \in Parts}
           \cup {{"srep", "sig"}, {"dele", "dsig"}, {"srep", "sig", "dele", "dsig"},
                 {"indx", "path"}, {"indx", "path", "srep", "sig"}, Parts \ {"nonc"}, {}}

Mixed(msg, other, parts) == [p \in Parts |-> IF p \in parts THEN other[p] ELSE msg[p]]

\* What may arrive in the place of a message: the message itself, with parts of
\* another one, with another time, or with more bits in its index.
Arrivals(msg) ==
  {Mixed(msg, r.msg, parts) : r \in replies, parts \in Mixes}
    \cup {[msg EXCEPT !.srep.midp = Timestamp(now + Lie)],
          [msg EXCEPT !.indx = @ + Pow2[Len(msg.path)]]}

Tick ==
  /\ now < MaxNow /\ now' = now + 1
  /\ UNCHANGED <<server, requests, replies, client, history>>

-----------------------------------------------------------------------------
(* What the clients check                                                  *)

DelegationSigned(s, msg) == msg.dsig = Sign(RootKey(s), msg.dele)
ReplySigned(msg)         == msg.sig = Sign(msg.dele.pubk, msg.srep)
InTree(nonce, msg)       == Climb(nonce, msg.indx, msg.path) = msg.srep.root

\* RoughtimeClient.query, from the reply on.
PyAccepts(s, nonce, msg) ==
  /\ msg.nonc = nonce
  /\ DelegationSigned(s, msg)
  /\ msg.dele.mint <= msg.srep.midp /\ msg.srep.midp <= msg.dele.maxt
  /\ Len(msg.path) <= MaxPath
  /\ msg.indx \div Pow2[Len(msg.path)] = 0
  /\ InTree(nonce, msg)
  /\ ReplySigned(msg)

\* Variation of CAccepts: the tree is not climbed.
CAcceptsAnyNonce(s, nonce, msg) ==
  /\ DelegationSigned(s, msg)
  /\ msg.dele.mint < msg.srep.midp /\ msg.srep.midp < msg.dele.maxt
  /\ ReplySigned(msg)

\* vrt_parse_response: the nonce in the reply is not looked at, nor is what is
\* left of the index; the time must lie strictly within the delegation.
CAccepts(s, nonce, msg) ==
  /\ DelegationSigned(s, msg)
  /\ InTree(nonce, [msg EXCEPT !.path = SubSeq(@, 1, Min({Len(@), MaxPath}))])
  /\ msg.dele.mint < msg.srep.midp /\ msg.srep.midp < msg.dele.maxt
  /\ ReplySigned(msg)

Accepts(impl, s, nonce, msg) ==
  IF impl = "python" THEN PyAccepts(s, nonce, msg) ELSE CAccepts(s, nonce, msg)

-----------------------------------------------------------------------------
(* A client's query.  RoughtimeClient.__udp_query tries the addresses of   *)
(* the server in turn; the C client has one address.  client.measured says *)
(* whether rtt has been assigned.                                          *)

Idle == [pc |-> "idle", impl |-> "python", server |-> CHOOSE s \in Servers : TRUE,
         nonce |-> 0, addresses |-> 0, sent |-> 0, start |-> 0, measured |-> FALSE,
         data |-> <<>>, outcome |-> "none"]

Query ==
  /\ client.pc = "idle" /\ client.nonce < MaxQueries
  /\ \E s \in Servers, impl \in {"python", "C"}, addresses \in 1..MaxAddresses :
       /\ impl = "C" => addresses = 1
       /\ client' = [Idle EXCEPT !.pc = "connect", !.impl = impl, !.server = s, !.sent = now,
                                 !.nonce = client.nonce + 1, !.addresses = addresses]
  /\ UNCHANGED <<now, server, requests, replies, history>>

\* query ends, and its local variables with it.
Returns ==
  client' = [client EXCEPT !.pc = "done", !.outcome = "accepted", !.addresses = 0, !.start = 0]

Raises(error) ==
  client' = [Idle EXCEPT !.pc = "done", !.outcome = error, !.nonce = client.nonce]

\* The addresses are used up: rtt is that of the last address that was waited
\* for, and has no value if no query could be sent.
NoAddressLeft ==
  /\ client.pc = "connect" /\ client.addresses = 0
  /\ Raises(IF client.measured THEN "RoughtimeError" ELSE "UnboundLocalError")
  /\ UNCHANGED <<now, server, requests, replies, history>>

SendFails ==
  /\ client.pc = "connect" /\ client.addresses > 0
  /\ client' = [client EXCEPT !.addresses = @ - 1]
  /\ UNCHANGED <<now, server, requests, replies, history>>

SendQuery ==
  /\ client.pc = "connect" /\ client.addresses > 0
  /\ client' = [client EXCEPT !.pc = "wait", !.addresses = @ - 1, !.start = now]
  /\ requests' = requests \cup {[server |-> client.server, nonce |-> client.nonce]}
  /\ UNCHANGED <<now, server, replies, history>>

\* recvfrom returns a reply from the address that was asked; it may be one to an
\* earlier query.  Replies from other addresses are skipped.
ReceiveReply ==
  /\ client.pc = "wait" /\ now - client.start < Timeout
  /\ \E r \in replies :
       /\ r.from = client.server
       /\ \E msg \in Arrivals(r.msg) :
            client' = [client EXCEPT !.pc = "measure", !.data = msg]
  /\ UNCHANGED <<now, server, requests, replies, history>>

WaitIsOver ==
  /\ client.pc = "wait" /\ now - client.start >= Timeout
  /\ client' = [client EXCEPT !.pc = "measure"]
  /\ UNCHANGED <<now, server, requests, replies, history>>

\* rtt is measured after the loop: a reply that came too close to the timeout is
\* given up, and the next address is tried.
TooLate ==
  /\ client.pc = "measure" /\ now - client.start >= Timeout
  /\ client' = [client EXCEPT !.pc = "connect", !.measured = TRUE, !.data = <<>>]
  /\ UNCHANGED <<now, server, requests, replies, history>>

LastN(s, n) == SubSeq(s, Max({1, Len(s) - n + 1}), Len(s))

\* The rest of query, or vrt_parse_response; C keeps no history.
Verify ==
  /\ client.pc = "measure" /\ now - client.start < Timeout
  /\ IF Accepts(client.impl, client.server, client.nonce, client.data)
       THEN /\ Returns
            /\ history' =
                 IF client.impl = "C" THEN history
                 ELSE LastN(Append(history, [server |-> client.server, msg |-> client.data]),
                            MaxHistoryLen)
       ELSE Raises("RoughtimeError") /\ UNCHANGED history
  /\ UNCHANGED <<now, server, requests, replies>>

\* The caller goes on to the next server.
Finished ==
  /\ client.pc = "done"
  /\ client' = [Idle EXCEPT !.nonce = client.nonce]
  /\ UNCHANGED <<now, server, requests, replies, history>>

-----------------------------------------------------------------------------
Init ==
  /\ now = 0
  /\ server = [s \in Servers |-> [keys |-> 1, dele |-> Delegation(s, 1, 0)]]
  /\ requests = {} /\ replies = {}
  /\ client = Idle
  /\ history = <<>>

\* Where the bounds end the run.
Horizon ==
  /\ now = MaxNow \/ (client.pc = "idle" /\ client.nonce = MaxQueries)
  /\ UNCHANGED vars

ClientStep ==
  \/ Query \/ NoAddressLeft \/ SendFails \/ SendQuery \/ ReceiveReply \/ WaitIsOver
  \/ TooLate \/ Verify \/ Finished

ServerStep(s) == Answer(s) \/ AnswerBatch(s) \/ Redelegate(s)

Next == ClientStep \/ Tick \/ Horizon \/ \E s \in Servers : ServerStep(s)

Spec == Init /\ [][Next]_vars

-----------------------------------------------------------------------------
(* verify_replies: the pairs of replies that contradict their order.       *)

\* Variation of Contradict: the two replies are exchanged.
ContradictExchanged(first, second) ==
  ToTime(second.msg.srep.midp) - second.msg.srep.radi
    > ToTime(first.msg.srep.midp) + first.msg.srep.radi

Contradict(first, second) ==
  ToTime(first.msg.srep.midp) - first.msg.srep.radi
    > ToTime(second.msg.srep.midp) + second.msg.srep.radi

InvalidPairs ==
  {pair \in (DOMAIN history) \X (DOMAIN history) :
     pair[1] < pair[2] /\ Contradict(history[pair[1]], history[pair[2]])}

-----------------------------------------------------------------------------
(* Properties                                                              *)

\* A time that either client accepts from a server that tells the truth was taken
\* by that server while the query was under way: neither a reply to an earlier
\* query nor one put together from several replies tells a time of its own.
AcceptedIsFresh ==
  client.outcome = "accepted" /\ client.server \notin Falsetickers =>
    LET t == ToTime(client.data.srep.midp)
    IN  client.sent <= t /\ t <= now

\* A reply that arrives as the server sent it, to the query the client is in, is
\* accepted by both clients, if the delegation covers its time (for C: without
\* the ends); however many queries were answered with the same tree.  A server
\* that tells the truth never tells a time before its delegation.
GenuineIsAccepted ==
  client.pc = "wait" =>
    \A r \in replies :
      LET msg == r.msg
      IN  r.from = client.server /\ msg.nonc = client.nonce =>
            /\ /\ r.from \in Falsetickers => msg.dele.mint <= msg.srep.midp
               /\ msg.srep.midp <= msg.dele.maxt
               => PyAccepts(client.server, client.nonce, msg)
            /\ msg.dele.mint < msg.srep.midp /\ msg.srep.midp < msg.dele.maxt =>
                 CAccepts(client.server, client.nonce, msg)

\* verify_replies never accuses two servers that both tell the truth.
TruthfulNotAccused ==
  \A pair \in InvalidPairs :
    \E k \in {pair[1], pair[2]} : history[k].server \in Falsetickers
=============================================================================
