------------------------------ MODULE AlgoTest -------------------------------
(***************************************************************************)
(* Who calls the overlap classes of Variants: the tests, which add and     *)
(* search as they like, or main of one of the two algotest.py, which asks  *)
(* the servers of a shuffled list, hands every range to the algorithm and  *)
(* sets the clock as soon as enough ranges overlap.  A server answers with *)
(* a range that holds the true adjustment, or with any other; a range is   *)
(* in the wrong order if the clock was set back during the query.          *)
(***************************************************************************)
EXTENDS Variants

CONSTANTS
  Good, Bad,  \* how often the list names a server that tells the truth, another
  Truth,      \* the true adjustment
  Wanted      \* wanted of main

ASSUME ListAssumption == Good \in Nat /\ Bad \in Nat
ASSUME TruthAssumption == Truth \in Value
ASSUME WantedAssumption == Wanted \in Nat \ {0}

VARIABLES
  driver,  \* "test", or the "python" or "micropython" main
  pc,      \* "ask", "find", or how main ended: "set", "exhausted", "raised"
  unasked, \* how many entries are left in the list, by kind
  said,    \* the kinds of the servers that answered, in order
  clock    \* twice the adjustment the clock was set by: its ends added up

client  == <<driver, pc, unasked, said, clock>>
allVars == <<vars, client>>

Kinds == {"good", "bad"}

MainInit ==
  /\ Init
  /\ driver \in {"test", "python", "micropython"}
  /\ pc = "ask"
  /\ unasked = [good |-> Good, bad |-> Bad]
  /\ said = <<>>
  /\ clock = None

\* The next server of the list; the list was shuffled, so it may be any.
Ask(k) ==
  /\ pc = "ask"
  /\ unasked[k] > 0
  /\ unasked' = [unasked EXCEPT ![k] = @ - 1]
  /\ UNCHANGED driver

\* query raises an exception, which main prints.
NoAnswer(k) ==
  /\ driver # "test"
  /\ Ask(k)
  /\ UNCHANGED <<vars, pc, said, clock>>

Reply(k, l, h) ==
  /\ Ask(k)
  /\ k = "good" => l <= Truth /\ Truth <= h
  /\ said' = Append(said, k)

\* add raises ValueError, and nothing catches it.
PyRaised(k, l, h) ==
  /\ driver = "python"
  /\ Reply(k, l, h)
  /\ Python!AddRefused(l, h)
  /\ pc' = "raised"
  /\ UNCHANGED <<micropython, clock>>

PyAdded(k, l, h) ==
  /\ driver = "python"
  /\ Reply(k, l, h)
  /\ Python!Add(l, h)
  /\ pc' = "find"
  /\ UNCHANGED <<micropython, clock>>

PyEnough(found, n)    == found.count > n \div 2 /\ found.count >= Wanted
MicroEnough(found, n) == found.count >= n \div 2 /\ found.count >= Wanted

\* The clock is set to the middle of the overlap and main is left, or it goes
\* on with the next server.
SetOrGoOn(enough, found) ==
  /\ pc' = IF enough THEN "set" ELSE "ask"
  /\ clock' = IF enough THEN found.lo + found.hi ELSE clock

PyFound ==
  /\ driver = "python"
  /\ pc = "find"
  /\ Python!Find
  /\ SetOrGoOn(PyEnough(pyResults'.reference, Len(said)), pyResults'.reference)
  /\ UNCHANGED <<micropython, driver, unasked, said>>

MicroHandled(k, l, h) ==
  /\ driver = "micropython"
  /\ Reply(k, l, h)
  /\ MicroPython!Handle(l, h)
  /\ SetOrGoOn(MicroEnough(mpOptimized', Len(said')), mpOptimized')
  /\ UNCHANGED python

Exhausted ==
  /\ driver # "test"
  /\ pc = "ask"
  /\ \A k \in Kinds : unasked[k] = 0
  /\ pc' = "exhausted"
  /\ UNCHANGED <<vars, driver, unasked, said, clock>>

Tested == driver = "test" /\ Next /\ UNCHANGED client

Ended == pc \in {"set", "exhausted", "raised"} /\ UNCHANGED allVars

MainNext ==
  \/ \E k \in Kinds : NoAnswer(k)
  \/ \E k \in Kinds, l, h \in Value : PyRaised(k, l, h) \/ PyAdded(k, l, h) \/ MicroHandled(k, l, h)
  \/ PyFound
  \/ Exhausted
  \/ Tested
  \/ Ended

MainSpec == MainInit /\ [][MainNext]_allVars

-----------------------------------------------------------------------------
(* Properties *)

Heard == IF driver = "python" THEN pyRanges ELSE mpRanges
Found == IF driver = "python" THEN pyResults.reference ELSE mpOptimized
True  == {i \in DOMAIN said : said[i] = "good"}

\* As long as no more than half of those who answered were wrong, they cannot
\* pull the clock away from the truth: the middle of the overlap is as near to
\* it as the widest true answer allows (the comments of algotest.py:97-105).
ClockSetRight ==
  pc = "set" /\ 2 * Cardinality(True) >= Len(said) =>
    LET error == clock - 2 * Truth
    IN  \E i \in True :
          LET width == Heard[i].hi - Heard[i].lo IN -2 * width <= error /\ error <= 2 * width

\* The list is only exhausted if no agreement was passed over: at no time
\* before did enough answers overlap, although each search starts from what
\* the last one left (algotest.py:138-140, micropython algotest.py:130-131).
\* A range in the wrong order takes overlaps away from the MicroPython client.
AgreementNotMissed ==
  pc = "exhausted" /\ MicroPython!Ordered =>
    \A n \in DOMAIN Heard :
      LET best == Best(SubSeq(Heard, 1, n))
      IN  IF driver = "python" THEN ~PyEnough(best, n) ELSE ~MicroEnough(best, n)

\* "We want a majority where at least this many servers agree"
\* (algotest.py:105, micropython algotest.py:93).
SetByMajority == pc = "set" => 2 * Found.count > Len(said)
=============================================================================
