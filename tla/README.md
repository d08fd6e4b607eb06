# Vad är klockan: models and proofs

*Vad är klockan* sets a clock from roughtime servers without trusting any one
of them. A client asks several servers, turns every answer into a range that
must hold the adjustment of its clock if the server told the truth, and looks
for a point that a majority of the ranges share. This directory holds TLA+
models of the parts that have to be right for this to work, the TLC
configurations that check them and proofs for TLAPS.

Paths below are relative to `src/`; `C/`, `python/`, `micropython-esp32-ttgo/`
and `esp32/` stand for the directories of that name in `examples/`.

Contents: [inventory](#inventory), [modules](#modules), [runs](#runs),
[bounds](#bounds), [fairness](#fairness), [proofs](#proofs),
[where code and text differ](#where-code-and-text-differ),
[limits](#what-is-not-modelled), [plan](#plan).

## Inventory

The repository is a set of small programs that share two ideas, the roughtime
protocol and the selection of an overlap, and implement both several times.

```
   servers  <--UDP-->  query (C: query_server, Python: RoughtimeClient.query)
                         |    builds and parses packets (C: vrt.c,
                         |    Python: pyroughtime.py)
                         v
              a range [adjustment - uncertainty, adjustment + uncertainty]
                         v
              overlap algorithm (add, find)   <-- main / selection client
                         v
              majority?  -> adjustment of the clock
```

| component | state it keeps | operations | what is hard | what makes it correct |
|---|---|---|---|---|
| Python overlap algorithm `python/overlap.py` | sorted edges, `_wanted`, kept between calls | `add`, `find` | any mix of calls; equal end points; a search that resumes from an old count | the answer depends on the ranges alone |
| reference and multi variants `python/overlap_ref.py`, `overlap_multi.py` | edges | `add`, `find` | two algorithms that must agree | they return the same |
| MicroPython variants `micropython-esp32-ttgo/overlap.py` | edges, `wanted`, `lo`, `hi` | `handle` | ranges that are not refused when reversed | as above, and as the Python class |
| C overlap algorithm `C/overlap_algo.c` | doubly linked list on the heap, `_wanted` | `overlap_new`, `_add`, `_find`, `_del` | links, failing `malloc`, unsigned against signed | list intact, nothing freed is touched, answers as in Python |
| C client, one query `C/vak_client.c:154-299` | socket, `st`, `rt` | `query_server` | loss, delay, duplication, foreign packets, a clock that is set, six ways out | range holds the true adjustment; no leak; no early timeout |
| C client, main `C/vak_client.c:301-394` | shuffled list, responses, overlap object | `main` | silent servers and falsetickers in any order | success only on a real majority, none overlooked |
| C codec `C/vrt.c` | none; reads and writes buffers | `vrt_make_query`, `vrt_parse_response`, `vrt_blob_*`, `vrt_get_tag`, `vrt_verify_*` | offsets and sizes from the network in 32 bit arithmetic, two formats | stays in the packet; reads what was written; accepts what is genuine and nothing else |
| ESP32 copy `esp32/roughtime/vrt.c` | none | the same, with another writer and another order of checks | two texts that drift apart | judges as the first one does |
| Python library `python/pyroughtime.py` | server: delegation and queue; client: history of replies | `RoughtimePacket`, `RoughtimeServer`, `RoughtimeClient` | batches of queries in a tree, renewed delegations, late and mixed replies | an accepted time is fresh; a genuine reply is accepted; truthful servers are not accused |
| ESP32 clustering `esp32/roughtime/clusteringAlgorithm.c` | list of edges, current best | `createClusterData`, `find_overlap`, `get_adjustment`, `free_tree` | ends of the list left out of scans, zero as "not found" | answers as in Python |
| ESP32 sketch `esp32/sketch_aug16b` | `connected`, the clock | `loop`, `doit`, `set_time`, `WiFiEvent` | a Wi-Fi task beside the loop, a wait without timeout | the adjustment is what the clock lacks; a synchronisation ends |
| selection clients `python/algotest.py`, `micropython-esp32-ttgo/algotest.py` | overlap object, server list | main loop | variants of the majority test; a search that resumes from an old count; an exception nobody catches | the clock is set near the truth; no agreement is passed over |
| deployment `micropython-esp32-ttgo/run.py` | files on the device | compare, upload, reset | interrupted uploads | the device runs the files of the host |
| the rest: TweetNaCl, NTP demo, lists of servers, Sphinx files | | | | not modelled, see [below](#what-is-not-modelled) |

How the components interact: `main` calls `query_server` and the overlap
algorithm in turn, in one thread, so that the only things that run beside a
client are the network, the servers and the clock. The Python server answers
from a thread of its own; it shares nothing with a client but the network. On
the ESP32 the Wi-Fi event handler shares the variable `connected` with `loop`.

The hazards of this code, with the lines where they bite, are listed in
`PROJECT.json`; the properties below are there for them.

## Modules

### Selection of an overlap

* `Ranges`: closed ranges, `Depth` (how many contain a point), `Best` (the
  largest number that share a point and the lowest and highest point they
  share). No algorithm, the yardstick of all of them.
* `Overlap`: the abstract specification. `Add` appends a range, `Find` answers
  `Best(ranges)`. What was asked before has no influence.
* `Edges`: the sorted list of (value, chime) pairs of all Python variants and
  the two scans over it.
* `OverlapPy`: the class of `python/overlap.py`, one action per iteration of
  its loops (`Add`, `FindStart`, `LowStep`, `HighStep`, and so on) and
  for the test that ends the search (`Return`) or lowers `_wanted` (`Retry`). The variable `ranges` records what
  was accepted; everything else is a variable of the code.
  `OverlapPy` implements `Overlap`.
* `MultiOverlap`, `MicroOverlap`, composed by `Variants`: the four Python and
  MicroPython algorithms, two that are called `add` and `find` and two that are
  called `handle`, and what must agree among them.
* `AlgoTest` composes `Variants` with those who call it: the tests, which call
  as they like, and `main` of the two `algotest.py`, which ask the servers of a
  shuffled list, let each implementation judge the range, and set the clock.
  The ranges are those of truthful servers, which hold the true adjustment, and
  of others, which need not; a clock that was set back during a query makes the
  range reversed, which the Python class refuses with the `ValueError` that ends
  its `main`.
* `EdgesC`, `OverlapList`, `OverlapC`: the C algorithm twice. `EdgesC` has what
  differs from `Edges`: where an edge is put among its equals, and an `int`
  compared with an `unsigned`. `OverlapList`
  works on a sequence and answers in one step. `OverlapC` works on a heap of
  edges with `next` and `prev`, one action per iteration, with `malloc` that
  may fail, a list that is freed node by node, and `_wanted` kept modulo
  `UIntMod`. `OverlapC` implements `OverlapList`, under a mapping that walks
  the list and, during an `overlap_add`, shows it as it was at the call (the
  history variable `before`).

### Clients

* `QueryServer`: `query_server`, one action between any two system calls, each
  error return an action of its own. `select` and the look at the clock behind it
  are two steps (`SelectIdle` or `SelectReady`, then `ReadClock`): what `FD_ISSET`
  says is what `select` saw, and a packet may come in between. Around it the network (`Answer`,
  `Disturb`, `Deliver`, `Lose`; a packet may be answered twice, and the buffer
  of the socket is in order of arrival) and the clock (`Tick`, `SetClock`). Of
  a packet it keeps whether `vrt_parse_response` accepts it, the midpoint and
  the radius. The range is computed as in the code, in half ticks, with the
  unsigned difference of the readings of the clock; `local_time` loses half a
  tick where the code stores an average in an integer.
* `VakClient`: `main`. The shuffle, the query loop, the test for a majority
  with the C overlap algorithm as `EdgesC` defines it, and the three ways it
  ends. What `QueryServer` proves about the range of a truthful server is what
  `VakClient` assumes of it.

### Protocol

* `Protocol`: what all implementations of the packet format have in common: tags,
  sizes, and a signature that only the holder of a key can make, over a hash.
* `Blob`: the reader of `vrt.c`, word by word, unsigned arithmetic modulo `Mod`.
* `Response`: `vrt_parse_response` and the functions it calls, `CHECK` by
  `CHECK`: the header, the nine tags, the two signatures with their copies into
  buffers of fixed size, the climb of the tree with its nodes of 32 or 64 bytes,
  the bounds of the delegation, the conversion of the time. Each step returns
  its code and what it read of the packet outside of `vrt_blob_r32`; for the header
  this includes the word that the message for a wrong length prints (`LengthShown`).
* `VrtQuery`: the writer of `vrt.c`, with its assertions, its errors, and how
  far `vrt_query_finish` clears memory.
* `EspVrt`: `esp32/roughtime/vrt.c`, function by function. Where its text is
  that of `C/vrt.c`, its operators are those of `Blob` and `Response`; the
  builder, the check of the header and the order of the checks are its own.
* `Packet`: `RoughtimePacket` of `pyroughtime.py`: building, padding, parsing
  with its exceptions.
* `PyReply`: what `RoughtimeClient.query` does with a packet once it arrived.
* `ServerReply`: the reply of a server, word by word: keys, certificate, tree,
  signed response. `RoughtimeServer` is one case of it; the servers the clients
  are pointed at also answer several nonces at once, send the header and speak
  the old format.
* `Wire` composes them: any packet Python builds, any query one of the three
  clients builds and any reply is sent, may be cut or have a word changed on its
  way, and is then read by all: by `vrt_get_tag`, by the parser in Python, by
  the checks of the server if it is a query, and by the three clients if it is a
  reply.
* `Merkle`: the tree of the server and its path on one side, the climb of each
  client on the other. How nodes are made is a parameter: `Roughtime` uses
  symbolic hashes, `ServerReply` the words of `Protocol`.
* `Roughtime`: servers with delegated keys that answer single queries and
  batches and may be started anew with another delegation of the long-term key; the network, which keeps, repeats,
  drops and mixes replies; the client of `pyroughtime.py` with its list of
  addresses, its two readings of the clock and its history; and
  `vrt_parse_response` as a second client. Signatures are the key with what it
  signed. `Wire` has the bytes of one exchange, `Roughtime` the order of many.

### ESP32

* `Clustering`: the insertion and `find_overlap` of
  `clusteringAlgorithm.c`, including what happens when either allocation fails.
* `Esp32`: `loop`, `doit`, `set_time` and the event handler that interrupts
  them between any two steps. `phase` is where `loop` is, `asked` its loop
  variable, `cluster` the `server_cluster_data`; `given` and `falses` record which
  ranges `find_overlap` was given and how many of them are false (by an offset in
  `FalseBy`), for the properties alone. `now` is the time; `clock`, what
  `gettimeofday` returns, runs with it (`Tick`) from zero at the start of the device,
  when the time is `Boot`, until `SetTime` writes the whole seconds of the adjustment.

`MCxxx` modules give the constants values. A definition whose comment begins
with "Variation" is not part of a model: it is a slip that could be made at
that place, kept to show that the property it is listed with in `PROJECT.json`
would notice it.

## Runs

| run | model | checks | distinct states |
|---|---|---|---|
| `overlap_py` | `OverlapPy` | `WantedIsUpperBound`, `ScanCounts`, `Refines` (implements `Overlap`), `FindReturns` | 134 177 |
| `algotest` | `AlgoTest` with `Variants` | `Agree`, `SameResult`, `SameAsPython`, `ClockSetRight`, `AgreementNotMissed` | 24 827 |
| `overlap_c` | `OverlapC` | `ListOK`, `MemorySafe`, `MatchesPython`, `RefinesList`, `CallsReturn` | 283 100 |
| `query_server` | `QueryServer` | `NoSocketLeak`, `TruthInRange`, `NoEarlyTimeout`, `MissedBehindSelect`, `QueryReturns` | 944 865 |
| `vak_client` | `VakClient` | `SuccessIsMajority`, `TruthfulSupport`, `NothingOverlooked`, `Ends` | 12 731 |
| `wire` | `Wire` | `InBounds`, `RoundTrip`, `SameBytes`, `QueryServed`, `NoStrayAccess`, `SameVerdict`, `ReplyTaken`, `AcceptedIsSigned` | 83 061 |
| `roughtime` | `Roughtime` | `AcceptedIsFresh`, `GenuineIsAccepted`, `TruthfulNotAccused` | 5 068 753 |
| `esp32` | `Esp32` | `MatchesPython`, `AdjustmentRight`, `SyncEnds` | 480 679 |
| `overlap_c_count` | `OverlapC` | `CountsOverlaps` is violated | |
| `micro_majority` | `AlgoTest` | `SetByMajority` is violated | |
| `vak_shuffle` | `VakClient` | `EveryServerListed` is violated | |
| `wire_overflow` | `Wire` | `WithinBuffer` is violated | |

What they show:

* **The count that is kept between calls is never too low.** `find` lowers
  `_wanted` until two scans agree, `add` raises it by one, and nothing ever
  recomputes it. `WantedIsUpperBound` is the reason why this loses nothing,
  `Refines` the consequence: every `find` returns what the abstract
  specification returns, after any mix of calls.
* **The four Python algorithms agree**, call by call, and so does the outcome of
  both selection clients: a clock that was set is no further from the truth than
  the widest truthful range is wide, as long as half of those who answered told
  the truth; and a list is exhausted only if at no time enough answers
  overlapped, although every search resumes from what the one before left.
* **The list of the C algorithm stays a list**, whatever allocation fails and
  wherever an edge is linked in, and every edge is freed once. Its answers are
  those of Python, except where a range ends at a point at which an earlier one
  begins (see below).
* **The range of one query is sound**, for every delay of the network and for a
  clock that is set forward during the query. For a clock set back it is sound
  if the clock ends up below its first reading (the unsigned difference wraps
  around and the range holds everything); between the two it may be too narrow,
  and the property leaves this case out by name.
* **A reply in time can be given up in one place only.** A query that times out
  has waited as long as it should (`NoEarlyTimeout`). It may leave a valid reply
  in the buffer that came before the timeout: if it came after `select` returned
  and the clock was past the timeout when it was read. `MissedBehindSelect` says
  that this is the only way; a look at the buffer and a test of the clock in the
  other order would add another.
* **A minority cannot win.** With two falsetickers of four, silent servers and
  any order of answers, a success has a real majority behind it and both ends
  of the printed range are held by a truthful server as long as falsetickers
  are at most half of the responses; and when the program gives up, no prefix
  of the responses would have been enough.
* **All readers stay in the packet and agree.** Whatever is cut or changed,
  C finds what Python finds at the same bytes, or refuses; no signature, path or
  root is copied from behind the packet or to where there is no room for it
  (`InBounds`, `NoStrayAccess`). One access is left out by name: the message for a
  wrong length in the header prints a word that may lie behind what was received,
  though never behind the buffer of the clients. It is not the length, either.
* **The copies of the code judge alike.** What the ESP32 accepts, the C client
  accepts, with the same time once the sketch has converted it; the other way
  round only bytes behind the packet make a difference. Where Python accepts
  too, it is told the same time (`SameVerdict`).
* **A genuine reply is taken, a changed one is not.** A reply that arrives as it
  was sent, to one nonce or to several, is accepted by the client it answers,
  and `ReplyTaken` says where this ends: at the ends of the delegation, and at a
  header that was not sent. One changed word never leads to another time or
  radius than the server signed (`AcceptedIsSigned`), although `INDX` and `NONC`
  are under no signature.
* **An accepted time is one taken during the query**, although the C client
  never looks at NONC: the climb of the tree ends at the root only from the
  leaf of the nonce that was sent. Replies to earlier queries, with an
  earlier delegation and put together from two replies are all tried.
* **The ESP32 port agrees with Python** where no end is zero and no range begins
  where one ends. After every round of answers the adjustment is no further from what the
  clock of the device lacks than some range is wide, whatever the false answers are,
  as long as they are fewer than the true ones (`AdjustmentRight`). Half of that, the
  uncertainty of one answer, would be too much to ask: two true ranges [10, 14] and a
  false one [13, 17] overlap in [13, 14], and the adjustment is 13 when 10 is right.
  The clock is not right for that: the sketch takes the adjustment for the time (see
  below), and no property claims that it ends up right.

Every property of the passing runs is violated by at least one variation of the
code it is about.

## Bounds

* `overlap_py`: end points 1 to 3, up to four ranges, any number of `find`s.
  Three points are enough for nested, touching, equal, disjoint and empty-width
  ranges; four ranges are enough for `_wanted` to fall by two and rise again.
* `algotest`: end points 1 to 3 and four ranges, reversed ones too; a list of
  three truthful servers and two others, each of which may be silent; two
  servers must agree (`Wanted`). With four answers out of five both sides of
  half of an even and of an odd number happen.
* `overlap_c`: three ranges, six nodes, one failed allocation, which may be the
  first or the second of an `overlap_add`; `UIntMod` 16 exceeds every count,
  so that wrapping is possible only for negative ones, as with 2^32.
* `query_server`: timeout of two ticks, one clock set by at most two, one
  genuine reply and one foreign packet, in either order. Time may run one tick
  past the timeout even after the clock was set back.
* `vak_client`: four servers, two of them falsetickers, ends chosen so that
  ranges may be narrow, wide, nested or disjoint.
* `wire`: words of 8 bits (four bytes of two), so that sums of offsets wrap; built packets of up to
  three tags with values of at most one word, nested once; queries of 40 bytes,
  into buffers too small, exact and too large; trees of one, two and four nonces
  with the nonce at the left and at the right; times before, at, after the start
  and at the end of the delegation; in every packet one word changed to any of
  six values or by four up or down, or the packet cut after any byte. A hash
  has two words, both of which depend on every word that is hashed, and a
  signature can be made and checked with the same key. The proofs below are for
  every width and every packet.
* `roughtime`: two servers, one lying, two queries, three ticks with a day of
  two (so that the change of day happens), batches of three queries (a tree
  that has to be padded), two keys per server.
* `esp32`: three servers, two of which must agree, one false answer, off by so
  little (5) that its range overlaps with true ones or by too much (8), one failed
  allocation, two connections, answers lost at any time. True answers err by up
  to their uncertainty, to both sides. The device starts at time 10 (`Boot`) and runs
  for two ticks (`MaxUptime`), of which four are a second; what `10^6` leaves of the
  rest of a second (`Usec`) is one. A synchronisation after the clock was set finds
  it off by the uptime and by the cut to whole seconds.

## Fairness

`OverlapPy`, `OverlapC` and `VakClient` are sequential: a call that has begun
goes on (weak fairness of the steps of a call), while no caller is obliged to
call. In `QueryServer` the program runs and time passes (`WF(Run)`,
`WF(Tick)`): the process is scheduled and the clock is not stopped; a reply,
a delivery or a fault need never come. `Esp32` has weak fairness of `loop` and
of the arrival of an answer that is on its way; `Lost` takes the answer away.
The specifications of `AlgoTest`, `Wire` and `Roughtime` have no fairness and
no liveness property.

## Proofs

Every theorem is about the specification TLC checks, without a bound on the
constants other than the named assumptions of the modules, which TLC evaluates
in the runs. A proof has one lemma or step for each action; what is said below
is why the invariant had to be what it is.

### One query

`QueryServer_proofs` proves for every timeout, every set of radii, every
offset and step of the clock, any number of replies and of foreign packets:

* `TypeCorrect`: `Spec => []TypeOK`
* `RangeIsSound`: `Spec => []TruthInRange`
* `SocketClosed`: `Spec => []NoSocketLeak`
* `TimeoutNotEarly`: `Spec => []NoEarlyTimeout`
* `OnlyMissedBehindSelect`: `Spec => []MissedBehindSelect`

from `TimeAssumption` (the constants are numbers) and `UInt64Assumption` (2^64
is larger than the times of a query). No promise is inductive: the range is
computed from two readings of the clock and a packet that is long gone from the
server. The invariant `Inv` adds

* `ClockInv`: how far the clock may be from the true time, as it was not yet
  set, set forward or set back;
* `SocketInv`: the socket is open while the query is under way, and the query
  began at a known time;
* `WokeInv`: the same relation as in `ClockInv`, for the moment `rt` was read;
* `LookedInv`: `select` returned, during the query, before the clock was read;
* `NetInv`: a reply under way, or in the buffer, was made between the start of
  the query and its arrival; if `select` reported a packet, the first one is there
  before the clock is read, and if it reported none, all that are in the buffer when
  the timeout is tested came after `select` had looked.

`RangeOfReply` then gives the arithmetic: the true adjustment at the time of
the reply differs from the computed one by at most the radius, half the round
trip and half a tick, and `WrapAround` covers the case of the negative
difference. `InitInv`, `ProgramInv` and `EnvironmentInv` are the inductive
steps, one case per action.

### Packets

`Wire_proofs` begins with the reader of packets, `Blob`, for any `Mod`, that is
any width of a word, any packet and any tag:

* `GetTagInBounds`: if `vrt_get_tag` succeeds, the blob it returns lies in the
  packet;
* `NestedTagInBounds`: and so does one looked up within another, as
  `vrt_parse_response` does for the certificate.

The sums in the index of a word and in the start of a value are unsigned and
may wrap around. That this does no harm is not obvious: `FoundBehindOffsets`
shows that a tag is found only if the word behind the offsets is readable, so
that the offsets cannot have wrapped, and `SliceInBlob` that the comparison in
`vrt_blob_slice` bounds the value even when its start did wrap.

It goes on to the whole of `vrt_parse_response` (`Response`), for any sizes of
signatures, keys and nodes with `ShortNode <= LongNode` (`SizeAssumption`), any
nonce, key and variant:

* `AccessesInPacket`: whatever it copies, hashes or compares lies in the bytes
  that were received, and fits where it is copied to; the exception is `LengthShown`,
  when the header was refused;
* `EspAccessesInPacket`: and so for the copy on the ESP32.

The code checks sizes and reads in different places: the size of `PUBK` is
tested before the certificate is verified and used after, and a path is only
tested to be whole nodes. `RunAccess` says that a step is reached only if all
before it succeeded, so that what they tested holds; `FoundIn`, on top of
`GetTagInBounds`, that all tags then lie in the packet; `DeleAccess`,
`HeaderAccess`, `PubkAccess` and `NonceAccess` do the arithmetic of each step, the last with
`NodeFits` for the nodes of the path.

and applies this to `Wire`:

* `ReadersStayInside`: `[]Arrived => []NoStrayAccess`, where `QueryLenAssumption`
  (the buffer has room for the word of the exception) is used
* `LookupsInBounds`: `[]Arrived => []InBounds`
* `ReadersAgree`: `[]Arrived => []SameBytes`
* `VerdictsAlike`: `[]Arrived => []SameVerdict`

`Arrived` says that the packet is a sequence of words, as long as its length
says, and that its length is a word. None of the four depends on who sent the
packet or what was done to it; that `Arrived` holds in `Wire` is the first
conjunct of `InBounds` and model-checked. `ReadersAgree` and `VerdictsAlike` also
use `MagicAssumption` (the magic, read as a number of tags, is more than a packet
holds) and `DayAssumption` (a day of the newer time format is counted above the
bits of a word), which hold of the constants of the protocol.

`LookupsInBounds` goes along a chain of lookups of any length: each returns a
blob in the packet or fails, and a failed one is passed on.

`ReadersAgree` compares a parser that calls itself with one that looks up a tag at
a time. `Parses` is a recursive function; that it exists, and so is what its
equation says, is `ParsesIs`: a range is accepted exactly if it belongs to the
greatest set of ranges that are in order and whose parent tags hold ranges of
the set (`AcceptedIsFixed`). Of such a range, `BodyReadAlike` compares what
`vrt_get_tag` does: the first tag with the key is the only one, its words are
read without wrapping because the tags fit into the range (`BodyWords`,
`TagRead`), and the start and the end of the value, in unsigned arithmetic,
are the same as in Python or differ by a wrapped, hence too large, size
(`ValueAlike`), which `vrt_blob_slice` refuses: a value that ends before it starts,
which is empty in Python.

`VerdictsAlike` first reduces acceptance to a conjunction (`AcceptsIf`,
`EspAcceptsIf`, by `EightSucceed`): the copies check the tree and the signature in
different orders, which matters for the error but not for success. What is
left is the header (`HeadersAlike`), the body behind it (`OpenedByBoth`) and the
time, which C turns into microseconds in 64 bits and the sketch with a day in
32: it fits (`DayIsWord`). Between C and Python, the parser might take a header
off `SREP`, which C would not. It never does where C accepts: `MagicIsNoCount`
shows that C would look for the tags of such a packet beyond its end. So both
read the same two words (`SrepAlike`, `LeafAlike`, `ValueWords`). The attempt to
prove `SameVerdict` without exceptions failed for three reasons, which the
property now names; they are listed below.

### The protocol

`Roughtime_proofs` proves, for any servers and falsetickers, any number of
queries, replies, renewed delegations and addresses, and batches of any size whose tree is
no higher than the clients accept:

* `AcceptedFresh`: `Spec => []AcceptedIsFresh`
* `NoFalseAccusation`: `Spec => []TruthfulNotAccused`
* `GenuineAccepted`: `Spec => []GenuineIsAccepted`

from `FormatAssumption` (the time of day does not reach into the day),
`TimeAssumption`, `LengthAssumption` and `BatchAssumption` (the constants are
numbers, and trees are at most `MaxPath` high).

Two thirds of it is about the tree, the only thing that ties a reply to the
query. `NonceInTree` says what a client may conclude from a path that leads from
its nonce to the root, whatever path and index it was given: the nonce is one of
those the tree was built of. A path that is too long or too short leads nowhere,
because a leaf is never a node. `PathLeadsToRoot` is the other direction, for
every position in a tree of every size: the path the server cuts out leads back
to the root and uses up the bits of the index. Both are by the first level at
which they would fail (`FirstOf`), over the recursive functions of `Merkle`;
`Pow2` is one of these because the provers know nothing of `2^k`.

The invariant `Inv` does without the messages the network puts together, of
which there is no end. What it says is

* `Genuine`, of every reply ever sent: that it was made by its sender at some
  time, for a nonce the client had used by then, and if that is the nonce of the
  present query not before it began (`RepliedBy` spells out the message);
* `Composed`, of whatever was received: that each of its two signatures is one
  that some reply carries. From this, the checks of a client and the keys,
  `AcceptedNow` derives that certificate and time come from one server, and from
  the tree that this reply was to the present nonce, hence fresh;
* `HistoryInv`: the times of the truthful servers in `prev_replies` are in
  order, and none is later than the start of the query under way. `LastN` and
  `HistoryGrows` carry this over an entry that is appended and those that are
  dropped.

### The Python class

`OverlapPy_proofs` proves of the Python class, for every finite set of end points
and any number of ranges, from `ValueAssumption`, `MaxRangesAssumption` and
`NoneAssumption`:

* `TypeCorrect`: `Spec => []TypeOK`
* `ScansCount`: `Spec => []ScanCounts`
* `WantedNeverTooLow`: `Spec => []WantedIsUpperBound`
* `Implements`: `Spec => Refines`, so that every `find` returns the deepest
  overlap and its outermost points.

The bound on `_wanted` is not inductive: what justifies lowering it is what the
two scans have shown. The invariant `Inv` adds

* `ListInv`: the list is sorted, and at every point the edges of each scan up to
  the point (`UpTo`, `From`) come to the number of ranges around it
  (`CountsRanges`);
* `ScanInv`: a scan that runs has found nothing yet;
* `FoundInv`: a scan that is over stopped at the first edge that reaches the
  wanted count, or there is none.

`LowBound` and `HighBound` show that both scans stop around every point of the
wanted depth, `FoundIsDeep` that a value they stop at has that depth. Hence the
scans agree if and only if there is such a point (`ConsistentIffDeep`):
disagreement lowers a count that no point reaches (`LoweredIsUpperBound`, which
also shows that `find` never gives up on an object with ranges), and agreement
returns the answer of `Overlap` (`ReturnIsBest`). The lemmas on lists they rest
on are in `Edges_proofs`: an edge put in its place keeps the list sorted and is
counted once (`AddRangeShape`), a scan counts edge by edge (`ScanUp`,
`ScanDown`), has at some edge counted just those up to a point (`CountAtPoint`,
`CountFromPoint`), and first reaches a count at the end of a range that lies
in that many (`FirstReachUp`, `FirstReachDown`).

### The four Python algorithms and the two clients

`AlgoTest_proofs` proves of `AlgoTest`, for every finite set of end points, any
list of servers, any `Wanted` and any number of ranges:

* `PythonAgrees`: `MainSpec => []Agree`, the assertions of `overlap_multi.py`
* `MicroPythonAgrees`: `MainSpec => []SameResult`
* `MicroPythonAsPython`: `MainSpec => []SameAsPython`
* `NoAgreementMissed`: `MainSpec => []AgreementNotMissed`
* `ClockNearTruth`: `MainSpec => []ClockSetRight`

MicroPython takes ranges in the wrong order, for which `Depth` is not what the
scans count: such a range counts as minus one at the points it spans. `Net` is
the difference, and `NetCounts` that the edges come to `Net` at every point,
whatever the order of the ends; the scans find its greatest value (`IsTop`,
`TopExists`, `SearchEnds`) and its outermost points (`Ends`, `ScansFind`). One
more range changes `Net` by at most one (`NetAppend`), which is why a search
that starts one above the last count misses nothing. With the ends in order
`Net` is `Depth` (`NetInOrder`) and the result is `Best` (`TopIsBest`). The
invariant has

* `PyInv`: both Python objects have the same sorted edges, and `_wanted` is no
  less than any count;
* `MpInv`: the MicroPython objects have searched: the greatest count is
  `_wanted`, and the result has the outermost points of that count, or those of
  the call before when nothing was found;
* `SaidInv`: a range for each answer, around the truth if the server is good;
* `SearchInv`: after no earlier answer was there enough to stop (`NeverEnough`);
* `SetInv`: the clock was set by the last result, and that was enough.

`NoAgreementMissed` is then `SearchInv` at the end of the list.
`ClockNearTruth` needs that both ends of the overlap lie in ranges of truthful
servers (`TrueAround`). For Python this is the pigeonhole argument. The test
of MicroPython lets half of the answers pass, so that all the wrong ones might
outvote the right ones by exactly half; then, however, half would also have been
enough before the last answer, whoever gave it (`EvenlySplit`,
`EnoughBefore`), and `main` would have stopped there: a case in which the
property holds because of what the client did earlier, not of what it tests.

### The C list

`OverlapC_proofs` proves of `overlap_algo.c`, for every finite set of values,
any number of ranges and of failing allocations:

* `TypeCorrect`: `Spec => []TypeOK`
* `ListStaysLinked`: `Spec => []ListOK`
* `NoBadPointer`: `Spec => []MemorySafe`
* `ImplementsList`: `Spec => RefinesList`, the refinement of `OverlapList`
* `AnswersAsPython`: `Spec => MatchesPython`

from `NodeAssumption` (there are addresses for two edges a range, so that
`malloc` fails when the model says so and not for want of addresses) and
`UIntModAssumption` (an `unsigned` can count the edges). None of these is
inductive; the invariant `Inv` says how the heap is a list and how far each
operation has come:

* `HeapInv`: the addresses along `next` (`Addresses`) are all that is allocated,
  no two the same, `prev` leads back and the values never fall (`Linked`). During
  `overlap_del`, which leaves `prev` dangling, only the chain from `_head` is left
  (`Chained`);
* `SizeInv`: no more than two edges a range, and no more hoped for than added;
* `SearchInv`: the search for a place is at an edge all before which are lower;
* `AddInv`: the list is what `AddEdges` makes of the one before the call with
  the edges that have been allocated so far;
* `ScanInv`, `LowOver`, `HighOver`: a scan has counted the edges behind it, and
  one that is over stopped at the first that reaches the count, or at none;
* `FindInv`: the counts `overlap_find` gave up since it was called are not
  reached.

`LinkKeeps` is the pointer surgery: what a new edge between two neighbours does
to a well linked list. With `AddInv` and `FindInv`, `AddReturn` and `Return`
are the atomic steps of `OverlapList` and everything else stutters. For
`AnswersAsPython` the second invariant `PyInv` says that they hold the ranges as
Python's do (`HoldsRanges`) as long as no allocation failed and no range ended where an earlier one began: at
each point the low edges come first, so that no count is ever negative
(`UpIsNatural`, `DownIsNatural` in `Edges_proofs`) and the comparison with an
`unsigned` does no harm, and the search finds `Best` (`SearchIs`).

### main in C

`Clients_proofs` proves, for any number of servers and of falsetickers among
them and any ends of ranges:

* `SuccessNeedsMajority`: `Spec => []SuccessIsMajority`
* `FalsetickersCannotMoveIt`: `Spec => []TruthfulSupport`
* `NoAgreementOverlooked`: `Spec => []NothingOverlooked`

from the assumptions of `VakClient`, among them that no range ends where one
begins (`LowEnds` and `HighEnds` are disjoint), and that an `unsigned` can count
the edges of all servers. Hence the edges satisfy `HoldsRanges` throughout, and the last `overlap_find`
found `Best` of all responses, from a count that is never too low (`AlgoInv`);
`EnoughInv` says that after no response for which `main` went on was there
enough. `FalsetickersCannotMoveIt` adds the pigeonhole argument.

### The ESP32

`Clients_proofs` goes on to prove of the sketch, for any number of servers, of
answers that are needed and of false ones, any errors, offsets and uncertainties,
and every interleaving with the task that handles Wi-Fi events:

* `FindsWhatPythonFinds`: `SketchSpec => []MatchesPython`
* `AdjustmentIsRight`: `SketchSpec => []AdjustmentRight`

from `NeededAssumption` (at least one answer is needed) and `AnswerAssumption` (the
constants are numbers). `find_overlap` is Python's `find` with four changes, and
the proof is that none of them makes a difference:

* The scan for `lo` leaves out the last edge, that for `hi` the first. As many
  ranges end as begin (`Even`), so that the downward scan at one edge counts what
  the upward scan counted at the edge before (`ScansMirror`); no count above
  zero is first reached at an edge left out (`EndsNotNeeded`), and if one scan
  reaches a count, so does the other, further up (`StopsAt`, `ReachedIsAgreed`).
* A scan that finds nothing leaves `lo` or `hi` from the count before. Nothing
  has been found by then (`ScanInVain`), so that the loop ends with the largest
  count that is reached (`SearchFinds`).
* `sortedInsert` puts an edge in front of its equals, Python's sort behind them.
  Where no range begins where one ends, edges of equal value are equal
  (`SameInsert`, `EdgesOfMore`).
* Zero stands for "not found": the ends are not zero (`Ordinary`).

The recursive functions of `find_overlap` and of `PyEdges` are shown to be what
their equations say, one step at a time (`SearchIsLoop`, `PyEdgesOfMore`), by the
first index at which they would differ. The invariant `SketchInv` has

* `EdgesInv`: as long as nothing failed and the ranges are ordinary, the cluster
  has Python's edges of the ranges given, at every point these come to the number
  of ranges around it from below and from above (`EdgesOf`), and the result is
  that of the search (`FoundInv`);
* `AnswersInv`: all but `falses` of the ranges given hold what the clock
  lacks, which stays the same while both run and is changed by `set_time` alone;
* that the values of the edges never fall, whatever failed (`FindType`).

For `AdjustmentIsRight` the true ranges meet in what the clock lacks (`TrueRangesMeet`), so that
a count as large as their number is reached (`HeldIsReached`); the one that is
found is no smaller and hence larger than the number of false ranges, and at both
ends of what is found as many ranges meet (`FoundEndsHeld`): one of these is
true and not wider than the claimed distance (`NearATrueRange`). That the
division of the sum by two rounds towards zero does no harm is `HalfBetween`.

### Only model-checked

* Liveness: `FindReturns`, `CallsReturn`, `QueryReturns`, `Ends`, `SyncEnds`.
* `RoundTrip`, `QueryServed`, `ReplyTaken` and `AcceptedIsSigned` of `Wire`, and
  that its packets are `Arrived`: what is sent is built by folds, sorting and
  recursive functions, about which induction over data would be needed.

## Where code and text differ

Each of the first four has a run that ends in a counterexample.

1. `C/vak_client.c:330` writes to element `i-i` where `i-1` is meant: the
   shuffle loses servers and asks others twice (`vak_shuffle`).
2. `micropython-esp32-ttgo/algotest.py:131` tests `res >= responses // 2`, which
   half of the responses pass, where the comment at line 93 and the Python client
   want a majority (`micro_majority`).
3. `C/overlap_algo.c:102` compares a negative `int` with an `unsigned`: for the
   ranges (2,2) and (1,1) it returns two although they are disjoint
   (`overlap_c_count`).
4. `C/vrt.c:117` counts the twelve bytes of the header twice, and the query is
   cleared twelve bytes past a buffer of the documented 1036 bytes
   (`wire_overflow`).

Others are part of the models, and where a property has to make an exception
for one, the property says so:

* `C/overlap_algo.c:85` ignores that `overlap_insert` failed and returns 1.
* `C/overlap_algo.c:56` keeps edges of equal value in order of insertion:
  touching ranges overlap or not depending on which came first (`EndsAtLow`).
* `python/overlap.py:82` says that `add` refuses ranges with `lo >= hi`; it
  refuses only `lo > hi`.
* The MicroPython `handle` takes ranges with `lo > hi`. The count may then
  drop, and an agreement is lost (the exception in `AgreementNotMissed`). The
  assertions that this never happens, `micropython-esp32-ttgo/algotest.py:154`
  and `python/algotest.py:151`, say nothing: the first stands behind the `break`,
  the second is reached once, just before it.
* `python/algotest.py:138` calls `add` outside of any `try`: a clock set back
  during a query ends the program with `ValueError`.
* `vrt.h:104` in `C/` says that a nonce of 32 bytes will do for variant 5; the
  check at `C/vrt.c:420` refuses the reply unless `nonce_len` is at least 64.
* `C/vrt.c` wants a delegation that starts before and ends after the time it is
  told, Python includes both ends. C leaves the high bits of `INDX` and all of
  `NONC` unchecked.
* The Python server sends no header, so that the clients in C of variant 5 and
  on the ESP32 refuse its replies (`ReplyTaken`).
* `esp32/roughtime/vrt.c` wants the length in the header to be exact where
  `C/vrt.c` accepts a longer packet, and verifies the signature of the response
  before the tree; its builder takes every buffer for one of 1036 bytes and
  tests no sizes; it leaves the conversion of the time to the sketch.
* A time before 1970 in the newer format: `C/vrt.c` counts days in 64 bits,
  `sketch_aug16b.ino` in an `unsigned` of 32, and the times they get differ.
* A `RADI` of eight bytes: Python reads all of it, C the first half.
* A value that starts within a word: `C/vrt.c:250` rounds its start down, Python
  reads the bytes where they are. The last three are the exceptions in
  `SameVerdict`, the last one also that in `SameBytes`.
* `midp_to_datetime` of `pyroughtime.py` decides by the size of the value which
  format a time is in.
* `esp32/sketch_aug16b/sketch_aug16b.ino:255` asks with the same nonce each time.
* In `C/vak_client.c:271` a packet that does not verify goes round the loop
  past the test for the timeout. `QueryReturns` holds because `MaxGarbage` is
  finite.
* `python/pyroughtime.py:355` raises `UnboundLocalError` when no address could
  be sent to.
* `C/vak_client.c:242` reads the clock after `select`, and line 278 gives up by that
  reading: a valid reply that came in between and in time is thrown away with the
  socket (`MissedBehindSelect` says when).
* `C/vrt.c:413` and `esp32/roughtime/vrt.c:422` print `*(uint32_t *)(reply+8)` as
  the length they got. As `reply` points to words, this is the word at byte 32, not
  the length at byte 8; only twelve bytes were tested, so that it may lie behind
  what was received (`LengthShown`, the exception in `NoStrayAccess`).
* `esp32/sketch_aug16b/sketch_aug16b.ino:107` sets the adjustment as the time. The
  clock it is relative to runs from boot, so that the new time is behind by the
  time since then, and about 1970 after a second synchronisation; line 221
  takes `(int)(adj - (int)adj)*10^6` for the microseconds, which is 6, as `^` is
  XOR, so that the fraction of the second is lost. The model does the same (`SetTime`),
  and `AdjustmentRight` is about the adjustment, not about the clock.
* ESP32: `connected` is overwritten at the end of `loop`; the wait for a packet has no timeout
  (the exception in `SyncEnds`); zero stands for "no end found"; `!x == -1`
  never detects a failed insertion; `insertEdge` returns nothing on success.

## What is not modelled

* The bytes of cryptography: hashes have no collisions among the values that
  occur, a signature is made only by who has the key. TweetNaCl is taken as
  correct.
* Damaged packets in which a tag that holds tags starts within a word: the model
  of the Python parser refuses them, and nothing is claimed of them. Other values
  may start there, and are read as Python reads them.
* The query over TCP and the DTAI and LEAP tags of `pyroughtime.py`; the link of
  a nonce to the reply before it, which no code checks; time zones (the server
  sends local time, the client reads UTC).
* `__udp_query` of the MicroPython client, which accepts a late reply from the
  address asked last and leaves its socket open after a timeout.
* `EINTR` from `select`, which goes round the loop and changes nothing.
* The deployment tool `run.py`, one sequential script over a serial line, and
  the NTP demo, one blocking exchange without state.
* Of the sketch's clock: seconds are not cut to 32 bits in `set_time`, and of an
  answer that comes while the clock stands before 1970, where `get_time` returns an
  unsigned number, only false answers are modelled.
* The display of the sketch and a `clock()` that fails; `is_overlap` of
  `clusteringAlgorithm.c`, which nobody calls; a failed allocation in
  `createClusterData`, whose result is used unchecked.
* `settimeofday` in the C client, which is compiled out.

## Plan

Done, in this order: selection (`Ranges` to `OverlapC`), one query with its
proofs, `main`, packets with their proofs, protocol, ESP32, the selection
clients, replies word by word with their proofs, the ESP32 copy of `vrt.c`, the
proofs of the Python class, of the other variants and their clients, of the C
list, of `main` in C, of the protocol and of the ESP32.

Next, most important first:

1. `Arrived` and `RoundTrip` of `Wire`, as far as the provers can follow the
   folds that build a packet.
2. The TCP query with its partial reads; `run.py` with interrupted uploads.
