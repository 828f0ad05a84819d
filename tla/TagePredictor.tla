---------------------------- MODULE TagePredictor ---------------------------
(***************************************************************************)
(* The predictor inside MyTage.cpp: a base table T0 of two-bit counters    *)
(* keyed by the full address, two tagged tables T1 and T2 keyed by a hash  *)
(* of the address and of the last HIST1, respectively HIST2, outcomes of   *)
(* all branches, usefulness counters that protect their entries from being *)
(* replaced, and an aging step that halves all of them from time to time.  *)
(*                                                                         *)
(* The statistics and the hooks of the tool are added by MyTage.           *)
(***************************************************************************)
EXTENDS TageHash, StdMap

CONSTANTS
  Branches,           \* the addresses of the branches that are predicted
  HIST1, HIST2,       \* history bits used by T1 and T2: 8 and 16
  T1_BITS, T2_BITS,   \* the tables have 2^T1_BITS and 2^T2_BITS slots: 9
  AgePeriod           \* branches between two agings: 1024

ASSUME PredictorAssumption ==
  /\ Branches \subseteq Nat
  /\ HIST1 \in Nat /\ HIST2 \in Nat /\ HIST1 <= HIST2 /\ HIST2 <= TagBits
  /\ T1_BITS \in Nat /\ T2_BITS \in Nat
  /\ AgePeriod \in Nat \ {0}

VARIABLES
  T0,        \* branch -> two-bit counter
  T1, T2,    \* slot -> [tag, counter, u]; a slot that is absent is blank
  GHR,       \* the outcomes of the last HIST2 branches, the latest at bit 0
  clock_     \* predicted branches, modulo AgePeriod (only that is read)

predictor == <<T0, T1, T2, GHR, clock_>>

Outcome == {"T", "N"}

Slots(bits) == SUBSET (0 .. bits - 1)

TageEntry == [tag : SUBSET (0 .. TagBits - 1), counter : -2 .. 3, u : 0 .. 3]

\* The initializers of TageEntry: what every slot holds before it is used.
BlankEntry == [tag |-> {}, counter |-> 0, u |-> 0]
-----------------------------------------------------------------------------
\* The branch addresses as machine words.
words == [ip \in Branches |-> Word(ip)]

idx1(ip) == get_index(words[ip], GHR, HIST1, T1_BITS)
idx2(ip) == get_index(words[ip], GHR, HIST2, T2_BITS)

tag1(ip) == get_tag(words[ip], GHR, HIST1)
tag2(ip) == get_tag(words[ip], GHR, HIST2)

entry1(ip) == Lookup(T1, idx1(ip), BlankEntry)
entry2(ip) == Lookup(T2, idx2(ip), BlankEntry)

hit1(ip) == entry1(ip).tag = tag1(ip)
hit2(ip) == entry2(ip).tag = tag2(ip)

Direction(taken) == IF taken THEN "T" ELSE "N"

basePred(ip) == Direction(Lookup(T0, ip, 2) >= 2)

altPred(ip) ==
  IF hit1(ip) THEN Direction(entry1(ip).counter >= 0) ELSE basePred(ip)

\* Mutant: the alternative overrules an entry that is useful.
ProviderPredictionMut(entry, alt) ==
  IF entry.u > 0 THEN alt ELSE Direction(entry.counter >= 0)

\* An entry that is not useful yet leaves the prediction to the alternative.
ProviderPrediction(entry, alt) ==
  IF entry.u = 0 THEN alt ELSE Direction(entry.counter >= 0)

\* T2 is the provider if it hits, else T1 if it hits, else there is none.
prediction(ip) ==
  CASE hit2(ip)               -> ProviderPrediction(entry2(ip), altPred(ip))
    [] ~hit2(ip) /\ hit1(ip)  -> ProviderPrediction(entry1(ip), altPred(ip))
    [] ~hit2(ip) /\ ~hit1(ip) -> basePred(ip)
-----------------------------------------------------------------------------
Saturate(n, lowest, highest) ==
  CASE n < lowest  -> lowest
    [] n > highest -> highest
    [] OTHER       -> n

Step(up) == IF up THEN 1 ELSE -1

\* Mutant: the base counter learns only when no tagged table hits.
BaseAfterMut(ip, actual) ==
  IF hit1(ip) \/ hit2(ip)
    THEN Lookup(T0, ip, 2)
    ELSE Saturate(Lookup(T0, ip, 2) + Step(actual = "T"), 0, 3)

BaseAfter(ip, actual) ==
  Saturate(Lookup(T0, ip, 2) + Step(actual = "T"), 0, 3)

\* Mutant: the counter of an entry goes down to -3.
TrainedMut(entry, actual, right) ==
  [entry EXCEPT !.counter = Saturate(@ + Step(actual = "T"), -3, 3),
                !.u = Saturate(@ + Step(right), 0, 3)]

\* The provider's entry learns the outcome; it becomes more useful if the
\* prediction was right, its own or the alternative's.
Trained(entry, actual, right) ==
  [entry EXCEPT !.counter = Saturate(@ + Step(actual = "T"), -2, 3),
                !.u = Saturate(@ + Step(right), 0, 3)]

Allocated(tag, actual) ==
  [tag |-> tag, counter |-> IF actual = "T" THEN 0 ELSE -1, u |-> 0]

\* After a misprediction an entry is allocated in T2, or failing that in T1,
\* unless the table hits already or its slot is useful.
AllocatesT2(ip, actual) ==
  /\ prediction(ip) # actual
  /\ ~hit2(ip) /\ entry2(ip).u = 0

\* Mutant: both tables may allocate.
AllocatesT1Mut(ip, actual) ==
  /\ prediction(ip) # actual
  /\ ~hit1(ip) /\ entry1(ip).u = 0

AllocatesT1(ip, actual) ==
  /\ prediction(ip) # actual
  /\ ~AllocatesT2(ip, actual)
  /\ ~hit1(ip) /\ entry1(ip).u = 0

\* Mutant: an entry of T1 that gave the prediction is trained, too.
EntryAfter1Mut(ip, actual) ==
  CASE hit1(ip) /\ (~hit2(ip) \/ entry2(ip).u = 0) ->
         Trained(entry1(ip), actual, prediction(ip) = actual)
    [] AllocatesT1(ip, actual) -> Allocated(tag1(ip), actual)
    [] OTHER -> entry1(ip)

EntryAfter1(ip, actual) ==
  CASE ~hit2(ip) /\ hit1(ip) -> Trained(entry1(ip), actual, prediction(ip) = actual)
    [] AllocatesT1(ip, actual) -> Allocated(tag1(ip), actual)
    [] OTHER -> entry1(ip)

EntryAfter2(ip, actual) ==
  CASE hit2(ip) -> Trained(entry2(ip), actual, prediction(ip) = actual)
    [] AllocatesT2(ip, actual) -> Allocated(tag2(ip), actual)
    [] OTHER -> entry2(ip)

\* Mutant: the clock is compared after the last value it takes.
AgingMut == clock_ = AgePeriod

\* Every AgePeriod branches the usefulness of all entries is halved.
Aging == clock_ + 1 = AgePeriod

Aged(table) ==
  IF Aging
    THEN [slot \in DOMAIN table |-> [table[slot] EXCEPT !.u = @ \div 2]]
    ELSE table

\* Mutant: only taken branches are shifted in.
GHRAfterMut(actual) ==
  IF actual = "T" THEN Low({b + 1 : b \in GHR} \cup {0}, HIST2) ELSE GHR

\* ((GHR << 1) | actual) & GHR_MASK
GHRAfter(actual) ==
  Low({b + 1 : b \in GHR} \cup (IF actual = "T" THEN {0} ELSE {}), HIST2)

\* The predictor's part of RecordBranch.
Predict(ip, actual) ==
  /\ T0' = Put(T0, ip, BaseAfter(ip, actual))
  /\ T1' = Aged(Put(T1, idx1(ip), EntryAfter1(ip, actual)))
  /\ T2' = Aged(Put(T2, idx2(ip), EntryAfter2(ip, actual)))
  /\ GHR' = GHRAfter(actual)
  /\ clock_' = (clock_ + 1) % AgePeriod

PredictorInit ==
  /\ T0 = EmptyMap /\ T1 = EmptyMap /\ T2 = EmptyMap
  /\ GHR = {}
  /\ clock_ = 0

PredictorNext == \E ip \in Branches, actual \in Outcome : Predict(ip, actual)

\* The program under test runs its branches in any order, for ever.
PredictorSpec ==
  /\ PredictorInit
  /\ [][PredictorNext]_predictor
  /\ WF_predictor(PredictorNext)
-----------------------------------------------------------------------------
\* The counters of the entries stay in the range that their declaration
\* announces, the usefulness in two bits, and the history in HIST2 bits.
PredictorTypeOK ==
  /\ IsMap(T0, Branches, 0 .. 3)
  /\ IsMap(T1, Slots(T1_BITS), TageEntry)
  /\ IsMap(T2, Slots(T2_BITS), TageEntry)
  /\ GHR \subseteq 0 .. HIST2 - 1
  /\ clock_ \in 0 .. AgePeriod - 1

\* T2's entry for the branch has no say, because it is not useful yet, and
\* T1 hits and points the other way.
Shadowed(ip) ==
  /\ hit2(ip) /\ entry2(ip).u = 0
  /\ hit1(ip)
  /\ (entry1(ip).counter >= 0) # (entry2(ip).counter >= 0)

\* What the predictor has learned, apart from usefulness and history.
Knows(table) == [slot \in DOMAIN table |-> <<table[slot].tag, table[slot].counter>>]
Knowledge == <<T0, Knows(T1), Knows(T2)>>

\* A misprediction teaches the predictor something, whichever table made it
\* and whatever the others hold: it moves a counter or allocates an entry.
\* The one exception is a shadowed entry of T2, where the table that made
\* the wrong prediction is not the one that is trained.
MissTeaches ==
  [][\A ip \in Branches, actual \in Outcome :
        Predict(ip, actual) /\ prediction(ip) # actual
          => Knowledge' # Knowledge \/ Shadowed(ip)]_predictor

\* No way out of the shadow: a branch that is mispredicted because T2's entry
\* is shadowed, and finds the same history again, is mispredicted again in the
\* same direction.  T2's entry learns what is right, T1's entry is what is
\* used, and only a right prediction would make T2's entry useful.
ShadowStays ==
  [][\A ip \in Branches, actual \in Outcome :
        Predict(ip, actual) /\ Shadowed(ip) /\ prediction(ip) # actual /\ GHR' = GHR
          => Shadowed(ip)' /\ prediction(ip)' # actual]_predictor

\* The slots of a table whose entry the step replaces.
Replaced(table, tableAfter) ==
  {slot \in DOMAIN tableAfter :
     tableAfter[slot].tag # Lookup(table, slot, BlankEntry).tag}

\* Usefulness protects: a step replaces at most one entry of the two tables,
\* and only one that was not useful.
UsefulStays ==
  [][/\ Replaced(T1, T1') = {} \/ Replaced(T2, T2') = {}
     /\ \A r, s \in Replaced(T1, T1') : r = s /\ Lookup(T1, r, BlankEntry).u = 0
     /\ \A r, s \in Replaced(T2, T2') : r = s /\ Lookup(T2, r, BlankEntry).u = 0
    ]_predictor

\* The branch hits the slot of T2 and is predicted right.
UsefulHit(s, ip, actual) ==
  Predict(ip, actual) /\ hit2(ip) /\ idx2(ip) = s /\ prediction(ip) = actual

\* Decay: an entry of T2 that stops being useful loses its protection.
UnusedDecays ==
  \A s \in Slots(T2_BITS) :
    <>[][\A ip \in Branches, actual \in Outcome : ~UsefulHit(s, ip, actual)]_predictor
      => <>[](Lookup(T2, s, BlankEntry).u = 0)

\* The branch is mispredicted in the shadow where the 2-bit predictor, which
\* is the base of this one, is right.
Hopeless(ip, actual) ==
  Shadowed(ip) /\ prediction(ip) # actual /\ basePred(ip) = actual

\* A branch that from some point on is the only one and always goes the same
\* way is decided: it comes to be predicted right for ever, or wrong for ever,
\* and the latter only if T1's stale entry overrules all that was learned.
SteadyDecided ==
  \A ip \in Branches, actual \in Outcome :
    <>[][Predict(ip, actual)]_predictor
      => <>[](prediction(ip) = actual) \/ <>[]Hopeless(ip, actual)
=============================================================================
