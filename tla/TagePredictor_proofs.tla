------------------------ MODULE TagePredictor_proofs ------------------------
(***************************************************************************)
(* Theorems about the predictor of MyTage.cpp, for any branches, history   *)
(* lengths, table sizes and aging period.                                  *)
(***************************************************************************)
EXTENDS TagePredictor, StdMapTheorems

\* The hash functions yield slots of the tables and tags of 16 bits.
LEMMA HashType ==
  /\ \A ip : idx1(ip) \in Slots(T1_BITS)
  /\ \A ip : idx2(ip) \in Slots(T2_BITS)
  /\ \A ip : tag1(ip) \in SUBSET (0 .. TagBits - 1)
  /\ \A ip : tag2(ip) \in SUBSET (0 .. TagBits - 1)
BY DEF idx1, idx2, tag1, tag2, Slots, get_index, get_tag

LEMMA BlankIsEntry == BlankEntry \in TageEntry
BY DEF BlankEntry, TageEntry

\* The entries that a branch finds are entries of the tables' type.
LEMMA EntryType ==
  ASSUME PredictorTypeOK, NEW ip
  PROVE  entry1(ip) \in TageEntry /\ entry2(ip) \in TageEntry
BY BlankIsEntry, LookupType DEF PredictorTypeOK, entry1, entry2

LEMMA TrainedType ==
  ASSUME NEW entry \in TageEntry, NEW actual, NEW right
  PROVE  /\ Trained(entry, actual, right) \in TageEntry
         /\ Trained(entry, actual, right).tag = entry.tag
         /\ Trained(entry, actual, right).counter
              = Saturate(entry.counter + Step(actual = "T"), -2, 3)
<1> DEFINE c == entry.counter + Step(actual = "T")
           v == entry.u + Step(right)
<1>1. c \in Int /\ v \in Int
  BY DEF TageEntry, Step
<1> HIDE DEF c, v
<1>2. Saturate(c, -2, 3) \in -2 .. 3 /\ Saturate(v, 0, 3) \in 0 .. 3
  BY <1>1 DEF Saturate
<1>3. [entry EXCEPT !.counter = Saturate(c, -2, 3), !.u = Saturate(v, 0, 3)] \in TageEntry
  BY <1>2 DEF TageEntry
<1>4. Trained(entry, actual, right)
        = [entry EXCEPT !.counter = Saturate(c, -2, 3), !.u = Saturate(v, 0, 3)]
  BY DEF Trained, c, v
<1> QED
  BY <1>3, <1>4 DEF TageEntry, c

LEMMA AllocatedType ==
  ASSUME NEW tag \in SUBSET (0 .. TagBits - 1), NEW actual
  PROVE  Allocated(tag, actual) \in TageEntry
BY DEF Allocated, TageEntry

LEMMA EntryAfterType ==
  ASSUME PredictorTypeOK, NEW ip, NEW actual
  PROVE  EntryAfter1(ip, actual) \in TageEntry /\ EntryAfter2(ip, actual) \in TageEntry
BY HashType, EntryType, TrainedType, AllocatedType DEF EntryAfter1, EntryAfter2

\* Aging changes nothing but the usefulness.
LEMMA AgedEntries ==
  ASSUME NEW K, NEW table, IsMap(table, K, TageEntry)
  PROVE  /\ IsMap(Aged(table), K, TageEntry)
         /\ DOMAIN Aged(table) = DOMAIN table
         /\ \A slot \in DOMAIN table : /\ Aged(table)[slot].tag = table[slot].tag
                                       /\ Aged(table)[slot].counter = table[slot].counter
<1> DEFINE halved(slot) == [table[slot] EXCEPT !.u = @ \div 2]
<1>1. ASSUME NEW slot \in DOMAIN table
      PROVE  /\ halved(slot) \in TageEntry
             /\ halved(slot).tag = table[slot].tag
             /\ halved(slot).counter = table[slot].counter
  <2>1. table[slot] \in TageEntry
    BY DEF IsMap
  <2>2. table[slot].u \div 2 \in 0 .. 3
    BY <2>1 DEF TageEntry
  <2> QED
    BY <2>1, <2>2 DEF TageEntry
<1> HIDE DEF halved
<1>2. Aged(table) = IF Aging THEN [slot \in DOMAIN table |-> halved(slot)] ELSE table
  BY DEF Aged, halved
<1> QED
  BY <1>1, <1>2 DEF IsMap

-----------------------------------------------------------------------------
\* What a step of the predictor does to its two tagged tables: at most the
\* slot of the branch changes its tag or its counter.
LEMMA TablesAfter ==
  ASSUME PredictorTypeOK, NEW ip, NEW actual, Predict(ip, actual)
  PROVE  /\ IsMap(T1', Slots(T1_BITS), TageEntry)
         /\ IsMap(T2', Slots(T2_BITS), TageEntry)
         /\ DOMAIN T1' = DOMAIN T1 \cup {idx1(ip)}
         /\ DOMAIN T2' = DOMAIN T2 \cup {idx2(ip)}
         /\ \A s \in DOMAIN T1' :
              /\ T1'[s].tag = (IF s = idx1(ip) THEN EntryAfter1(ip, actual).tag ELSE T1[s].tag)
              /\ T1'[s].counter = (IF s = idx1(ip) THEN EntryAfter1(ip, actual).counter ELSE T1[s].counter)
         /\ \A s \in DOMAIN T2' :
              /\ T2'[s].tag = (IF s = idx2(ip) THEN EntryAfter2(ip, actual).tag ELSE T2[s].tag)
              /\ T2'[s].counter = (IF s = idx2(ip) THEN EntryAfter2(ip, actual).counter ELSE T2[s].counter)
<1> DEFINE P1 == Put(T1, idx1(ip), EntryAfter1(ip, actual))
           P2 == Put(T2, idx2(ip), EntryAfter2(ip, actual))
<1>1. IsMap(P1, Slots(T1_BITS), TageEntry) /\ IsMap(P2, Slots(T2_BITS), TageEntry)
  BY HashType, EntryAfterType, PutIsMap DEF PredictorTypeOK
<1>2. /\ DOMAIN P1 = DOMAIN T1 \cup {idx1(ip)}
      /\ \A s \in DOMAIN P1 : P1[s] = IF s = idx1(ip) THEN EntryAfter1(ip, actual) ELSE T1[s]
      /\ DOMAIN P2 = DOMAIN T2 \cup {idx2(ip)}
      /\ \A s \in DOMAIN P2 : P2[s] = IF s = idx2(ip) THEN EntryAfter2(ip, actual) ELSE T2[s]
  BY DEF Put
<1>3. T1' = Aged(P1) /\ T2' = Aged(P2)
  BY DEF Predict
<1> HIDE DEF P1, P2
<1>4. /\ IsMap(Aged(P1), Slots(T1_BITS), TageEntry)
      /\ DOMAIN Aged(P1) = DOMAIN P1
      /\ \A s \in DOMAIN P1 : /\ Aged(P1)[s].tag = P1[s].tag
                               /\ Aged(P1)[s].counter = P1[s].counter
  BY <1>1, AgedEntries
<1>5. /\ IsMap(Aged(P2), Slots(T2_BITS), TageEntry)
      /\ DOMAIN Aged(P2) = DOMAIN P2
      /\ \A s \in DOMAIN P2 : /\ Aged(P2)[s].tag = P2[s].tag
                               /\ Aged(P2)[s].counter = P2[s].counter
  BY <1>1, AgedEntries
<1> QED
  BY <1>2, <1>3, <1>4, <1>5

LEMMA BaseAfterType ==
  ASSUME PredictorTypeOK, NEW ip, NEW actual
  PROVE  BaseAfter(ip, actual) \in 0 .. 3
<1>1. Lookup(T0, ip, 2) \in 0 .. 3
  BY LookupType DEF PredictorTypeOK
<1>2. Lookup(T0, ip, 2) + Step(actual = "T") \in Int
  BY <1>1 DEF Step
<1> QED
  BY <1>2 DEF BaseAfter, Saturate

LEMMA PredictorStep ==
  ASSUME PredictorTypeOK, NEW ip \in Branches, NEW actual, Predict(ip, actual)
  PROVE  PredictorTypeOK'
<1>1. IsMap(T0', Branches, 0 .. 3)
  BY BaseAfterType, PutIsMap DEF PredictorTypeOK, Predict
<1>2. GHR' \subseteq 0 .. HIST2 - 1
  BY DEF Predict, GHRAfter, Low
<1>3. clock_' \in 0 .. AgePeriod - 1
  BY PredictorAssumption DEF PredictorTypeOK, Predict
<1> QED
  BY <1>1, <1>2, <1>3, TablesAfter DEF PredictorTypeOK

LEMMA PredictorStart == PredictorInit => PredictorTypeOK
BY EmptyMapIsMap, PredictorAssumption DEF PredictorInit, PredictorTypeOK

LEMMA PredictorStutter ==
  PredictorTypeOK /\ UNCHANGED predictor => PredictorTypeOK'
BY DEF PredictorTypeOK, predictor, IsMap

\* The counters of all three tables keep the ranges of their declarations,
\* although MyTage.cpp holds them in wider types.
THEOREM PredictorTypeCorrect == PredictorSpec => []PredictorTypeOK
<1>1. PredictorTypeOK /\ [PredictorNext]_predictor => PredictorTypeOK'
  BY PredictorStep, PredictorStutter DEF PredictorNext
<1> QED
  BY PredictorStart, <1>1, PTL DEF PredictorSpec

-----------------------------------------------------------------------------
\* A counter that points the wrong way is moved by training.
LEMMA WrongCounterMoves ==
  ASSUME NEW entry \in TageEntry, NEW actual \in Outcome, NEW right,
         Direction(entry.counter >= 0) # actual
  PROVE  Trained(entry, actual, right).counter # entry.counter
<1>1. entry.counter \in -2 .. 3
  BY DEF TageEntry
<1>2. Saturate(entry.counter + Step(actual = "T"), -2, 3) # entry.counter
  BY <1>1 DEF Direction, Outcome, Step, Saturate
<1> QED
  BY <1>2, TrainedType

\* A step that moves the counter of the slot of T1, or of T2, or the base
\* counter of the branch, changes what the predictor knows.
LEMMA MovedCounter1 ==
  ASSUME PredictorTypeOK, NEW ip, NEW actual, Predict(ip, actual),
         EntryAfter1(ip, actual).counter # entry1(ip).counter
  PROVE  Knows(T1') # Knows(T1)
<1>1. SUFFICES ASSUME Knows(T1') = Knows(T1) PROVE FALSE
  OBVIOUS
<1>2. DOMAIN T1' = DOMAIN T1
  BY <1>1 DEF Knows
<1>3. idx1(ip) \in DOMAIN T1
  BY <1>2, TablesAfter
<1>4. T1'[idx1(ip)].counter = T1[idx1(ip)].counter
  BY <1>1, <1>2, <1>3 DEF Knows
<1>5. T1[idx1(ip)] = entry1(ip)
  BY <1>3 DEF entry1, Lookup
<1> QED
  BY <1>2, <1>3, <1>4, <1>5, TablesAfter

LEMMA MovedCounter2 ==
  ASSUME PredictorTypeOK, NEW ip, NEW actual, Predict(ip, actual),
         EntryAfter2(ip, actual).counter # entry2(ip).counter
  PROVE  Knows(T2') # Knows(T2)
<1>1. SUFFICES ASSUME Knows(T2') = Knows(T2) PROVE FALSE
  OBVIOUS
<1>2. DOMAIN T2' = DOMAIN T2
  BY <1>1 DEF Knows
<1>3. idx2(ip) \in DOMAIN T2
  BY <1>2, TablesAfter
<1>4. T2'[idx2(ip)].counter = T2[idx2(ip)].counter
  BY <1>1, <1>2, <1>3 DEF Knows
<1>5. T2[idx2(ip)] = entry2(ip)
  BY <1>3 DEF entry2, Lookup
<1> QED
  BY <1>2, <1>3, <1>4, <1>5, TablesAfter

LEMMA MovedBase ==
  ASSUME PredictorTypeOK, NEW ip, NEW actual \in Outcome, Predict(ip, actual),
         basePred(ip) # actual
  PROVE  T0' # T0
<1>1. T0' = Put(T0, ip, BaseAfter(ip, actual))
  BY DEF Predict
<1>2. Lookup(T0, ip, 2) \in 0 .. 3
  BY LookupType DEF PredictorTypeOK
<1>3. BaseAfter(ip, actual) # Lookup(T0, ip, 2)
  BY <1>2 DEF basePred, Direction, Outcome, BaseAfter, Saturate, Step
<1> QED
  BY <1>1, <1>3 DEF Put, Lookup

LEMMA MissStep ==
  ASSUME PredictorTypeOK, NEW ip \in Branches, NEW actual \in Outcome,
         Predict(ip, actual), prediction(ip) # actual, ~Shadowed(ip)
  PROVE  Knowledge' # Knowledge
<1> USE EntryType
<1>1. CASE hit2(ip) /\ Direction(entry2(ip).counter >= 0) # actual
  <2> DEFINE right == prediction(ip) = actual
  <2>2. EntryAfter2(ip, actual) = Trained(entry2(ip), actual, right)
    BY <1>1 DEF EntryAfter2, AllocatesT2
  <2> HIDE DEF right
  <2>1. EntryAfter2(ip, actual).counter # entry2(ip).counter
    BY <1>1, <2>2, WrongCounterMoves
  <2> QED
    BY <2>1, MovedCounter2 DEF Knowledge
<1>2. CASE hit2(ip) /\ Direction(entry2(ip).counter >= 0) = actual
  <2>1. entry2(ip).u = 0 /\ altPred(ip) # actual
    BY <1>2 DEF prediction, ProviderPrediction
  <2>2. ~hit1(ip)
    <3> SUFFICES ASSUME hit1(ip) PROVE FALSE
      OBVIOUS
    <3>1. Direction(entry1(ip).counter >= 0) # actual
      BY <2>1 DEF altPred
    <3>2. (entry1(ip).counter >= 0) # (entry2(ip).counter >= 0)
      BY <3>1, <1>2
    <3> QED
      BY <1>2, <2>1, <3>2 DEF Shadowed
  <2>3. basePred(ip) # actual
    BY <2>1, <2>2 DEF altPred
  <2> QED
    BY <2>3, MovedBase DEF Knowledge
<1>3. CASE ~hit2(ip) /\ hit1(ip)
  <2>1. Direction(entry1(ip).counter >= 0) # actual
    BY <1>3 DEF prediction, ProviderPrediction, altPred
  <2> DEFINE right == prediction(ip) = actual
  <2>2. EntryAfter1(ip, actual) = Trained(entry1(ip), actual, right)
    BY <1>3 DEF EntryAfter1, AllocatesT1
  <2> HIDE DEF right
  <2>3. EntryAfter1(ip, actual).counter # entry1(ip).counter
    BY <2>1, <2>2, WrongCounterMoves
  <2> QED
    BY <2>3, MovedCounter1 DEF Knowledge
<1>4. CASE ~hit2(ip) /\ ~hit1(ip)
  <2>1. basePred(ip) # actual
    BY <1>4 DEF prediction
  <2> QED
    BY <2>1, MovedBase DEF Knowledge
<1> QED
  BY <1>1, <1>2, <1>3, <1>4

\* No misprediction is without effect unless T2's entry is shadowed by T1's:
\* a table that predicted wrong is always one that is trained.
THEOREM MissesTeach == PredictorSpec => MissTeaches
<1> DEFINE Teaches == \A ip \in Branches, actual \in Outcome :
                        Predict(ip, actual) /\ prediction(ip) # actual
                          => Knowledge' # Knowledge \/ Shadowed(ip)
<1>1. PredictorTypeOK => Teaches
  BY MissStep
<1> HIDE DEF Teaches
<1>2. []PredictorTypeOK => [][Teaches]_predictor
  BY <1>1, PTL
<1> QED
  BY <1>2, PredictorTypeCorrect, PTL DEF MissTeaches, Teaches

-----------------------------------------------------------------------------
LEMMA ReplacedSlots ==
  ASSUME PredictorTypeOK, NEW ip, NEW actual, Predict(ip, actual)
  PROVE  /\ \A r \in Replaced(T1, T1') :
               r = idx1(ip) /\ AllocatesT1(ip, actual) /\ Lookup(T1, r, BlankEntry).u = 0
         /\ \A r \in Replaced(T2, T2') :
               r = idx2(ip) /\ AllocatesT2(ip, actual) /\ Lookup(T2, r, BlankEntry).u = 0
<1>1. ASSUME NEW r \in Replaced(T1, T1')
      PROVE  r = idx1(ip) /\ AllocatesT1(ip, actual) /\ Lookup(T1, r, BlankEntry).u = 0
  <2>1. r \in DOMAIN T1' /\ T1'[r].tag # Lookup(T1, r, BlankEntry).tag
    BY DEF Replaced
  <2>2. r = idx1(ip)
    <3> SUFFICES ASSUME r # idx1(ip) PROVE FALSE
      OBVIOUS
    <3>1. DOMAIN T1' = DOMAIN T1 \cup {idx1(ip)}
      BY TablesAfter
    <3>2. \A s \in DOMAIN T1' : s # idx1(ip) => T1'[s].tag = T1[s].tag
      BY TablesAfter
    <3> QED
      BY <2>1, <3>1, <3>2 DEF Lookup
  <2>3. EntryAfter1(ip, actual).tag # entry1(ip).tag
    <3>0. \A s \in DOMAIN T1' :
            T1'[s].tag = (IF s = idx1(ip) THEN EntryAfter1(ip, actual).tag ELSE T1[s].tag)
      BY TablesAfter
    <3>1. \A s \in DOMAIN T1' : s = idx1(ip) => T1'[s].tag = EntryAfter1(ip, actual).tag
      BY <3>0
    <3> QED
      BY <2>1, <2>2, <3>1 DEF entry1
  <2>4. AllocatesT1(ip, actual)
    BY <2>3, EntryType, TrainedType DEF EntryAfter1
  <2> QED
    BY <2>2, <2>4 DEF AllocatesT1, entry1
<1>2. ASSUME NEW r \in Replaced(T2, T2')
      PROVE  r = idx2(ip) /\ AllocatesT2(ip, actual) /\ Lookup(T2, r, BlankEntry).u = 0
  <2>1. r \in DOMAIN T2' /\ T2'[r].tag # Lookup(T2, r, BlankEntry).tag
    BY DEF Replaced
  <2>2. r = idx2(ip)
    <3> SUFFICES ASSUME r # idx2(ip) PROVE FALSE
      OBVIOUS
    <3>1. DOMAIN T2' = DOMAIN T2 \cup {idx2(ip)}
      BY TablesAfter
    <3>2. \A s \in DOMAIN T2' : s # idx2(ip) => T2'[s].tag = T2[s].tag
      BY TablesAfter
    <3> QED
      BY <2>1, <3>1, <3>2 DEF Lookup
  <2>3. EntryAfter2(ip, actual).tag # entry2(ip).tag
    <3>0. \A s \in DOMAIN T2' :
            T2'[s].tag = (IF s = idx2(ip) THEN EntryAfter2(ip, actual).tag ELSE T2[s].tag)
      BY TablesAfter
    <3>1. \A s \in DOMAIN T2' : s = idx2(ip) => T2'[s].tag = EntryAfter2(ip, actual).tag
      BY <3>0
    <3> QED
      BY <2>1, <2>2, <3>1 DEF entry2
  <2>4. AllocatesT2(ip, actual)
    BY <2>3, EntryType, TrainedType DEF EntryAfter2
  <2> QED
    BY <2>2, <2>4 DEF AllocatesT2, entry2
<1> QED
  BY <1>1, <1>2

\* Allocation replaces at most one entry of the two tables in a step, and
\* never a useful one.
THEOREM UsefulEntriesStay == PredictorSpec => UsefulStays
<1> DEFINE Stays ==
      /\ Replaced(T1, T1') = {} \/ Replaced(T2, T2') = {}
      /\ \A r, s \in Replaced(T1, T1') : r = s /\ Lookup(T1, r, BlankEntry).u = 0
      /\ \A r, s \in Replaced(T2, T2') : r = s /\ Lookup(T2, r, BlankEntry).u = 0
<1>1. PredictorTypeOK /\ [PredictorNext]_predictor => [Stays]_predictor
  <2> SUFFICES ASSUME PredictorTypeOK, NEW ip \in Branches, NEW actual \in Outcome,
                      Predict(ip, actual)
               PROVE  Stays
    BY DEF PredictorNext
  <2>1. Replaced(T1, T1') = {} \/ Replaced(T2, T2') = {}
    BY ReplacedSlots DEF AllocatesT1
  <2> QED
    BY <2>1, ReplacedSlots
<1> HIDE DEF Stays
<1>2. []PredictorTypeOK /\ [][PredictorNext]_predictor => [][Stays]_predictor
  BY <1>1, PTL
<1> QED
  BY <1>2, PredictorTypeCorrect, PTL DEF PredictorSpec, UsefulStays, Stays
-----------------------------------------------------------------------------
\* The entries that the branch finds after its own step, if it finds the same
\* history again.
LEMMA EntriesAgain ==
  ASSUME PredictorTypeOK, NEW ip \in Branches, NEW actual, Predict(ip, actual), GHR' = GHR
  PROVE  /\ tag1(ip)' = tag1(ip) /\ entry1(ip)'.tag = EntryAfter1(ip, actual).tag
         /\ entry1(ip)'.counter = EntryAfter1(ip, actual).counter
         /\ tag2(ip)' = tag2(ip) /\ entry2(ip)'.tag = EntryAfter2(ip, actual).tag
         /\ entry2(ip)'.counter = EntryAfter2(ip, actual).counter
         /\ EntryAfter2(ip, actual).u = 0 => entry2(ip)'.u = 0
<1>1. /\ idx1(ip)' = idx1(ip) /\ tag1(ip)' = tag1(ip)
      /\ idx2(ip)' = idx2(ip) /\ tag2(ip)' = tag2(ip)
  BY DEF idx1, idx2, tag1, tag2
<1>2. idx1(ip) \in DOMAIN T1' /\ idx2(ip) \in DOMAIN T2'
  BY TablesAfter
<1>3. entry1(ip)' = T1'[idx1(ip)] /\ entry2(ip)' = T2'[idx2(ip)]
  BY <1>1, <1>2 DEF entry1, entry2, Lookup
<1>4. ASSUME EntryAfter2(ip, actual).u = 0
      PROVE  T2'[idx2(ip)].u = 0
  <2> DEFINE P2 == Put(T2, idx2(ip), EntryAfter2(ip, actual))
  <2>1. idx2(ip) \in DOMAIN P2 /\ P2[idx2(ip)] = EntryAfter2(ip, actual)
    BY DEF Put
  <2>2. T2' = Aged(P2)
    BY DEF Predict
  <2>3. EntryAfter2(ip, actual) \in TageEntry
    BY EntryAfterType
  <2> HIDE DEF P2
  <2>4. CASE Aging
    <3>1. T2'[idx2(ip)] = [EntryAfter2(ip, actual) EXCEPT !.u = @ \div 2]
      BY <2>1, <2>2, <2>4 DEF Aged
    <3> QED
      BY <1>4, <2>3, <3>1 DEF TageEntry
  <2>5. CASE ~Aging
    BY <1>4, <2>1, <2>2, <2>5 DEF Aged
  <2> QED
    BY <2>4, <2>5
<1>5. /\ T1'[idx1(ip)].tag = EntryAfter1(ip, actual).tag
      /\ T1'[idx1(ip)].counter = EntryAfter1(ip, actual).counter
  BY <1>2, TablesAfter
<1>6. /\ T2'[idx2(ip)].tag = EntryAfter2(ip, actual).tag
      /\ T2'[idx2(ip)].counter = EntryAfter2(ip, actual).counter
  BY <1>2, TablesAfter
<1> QED
  BY <1>1, <1>3, <1>4, <1>5, <1>6

\* A shadowed entry of T2 that is not used is not trained into use.
LEMMA ShadowStep ==
  ASSUME PredictorTypeOK, NEW ip \in Branches, NEW actual \in Outcome,
         Predict(ip, actual), Shadowed(ip), prediction(ip) # actual, GHR' = GHR
  PROVE  Shadowed(ip)' /\ prediction(ip)' # actual
<1>1. hit1(ip) /\ hit2(ip) /\ entry2(ip).u = 0
  BY DEF Shadowed
<1>2. prediction(ip) = Direction(entry1(ip).counter >= 0)
  BY <1>1 DEF prediction, ProviderPrediction, altPred
<1>3. entry1(ip) \in TageEntry /\ entry2(ip) \in TageEntry
  BY EntryType
<1>4. (entry2(ip).counter >= 0) <=> (actual = "T")
  BY <1>2, <1>3 DEF Shadowed, Direction, Outcome
<1>5. EntryAfter1(ip, actual) = entry1(ip)
  BY <1>1 DEF EntryAfter1, AllocatesT1
<1> DEFINE right == prediction(ip) = actual
<1>6. ~right /\ EntryAfter2(ip, actual) = Trained(entry2(ip), actual, right)
  BY <1>1 DEF EntryAfter2, AllocatesT2
<1> HIDE DEF right
<1>7. /\ EntryAfter2(ip, actual).tag = entry2(ip).tag
      /\ EntryAfter2(ip, actual).counter = Saturate(entry2(ip).counter + Step(actual = "T"), -2, 3)
      /\ EntryAfter2(ip, actual).u = 0
  <2>1. Trained(entry2(ip), actual, right).u = Saturate(entry2(ip).u + Step(right), 0, 3)
    BY <1>3 DEF Trained, TageEntry
  <2>2. Saturate(entry2(ip).u + Step(right), 0, 3) = 0
    BY <1>1, <1>6 DEF Saturate, Step
  <2>3. /\ Trained(entry2(ip), actual, right).tag = entry2(ip).tag
        /\ Trained(entry2(ip), actual, right).counter
             = Saturate(entry2(ip).counter + Step(actual = "T"), -2, 3)
    BY <1>3, TrainedType
  <2> QED
    BY <1>6, <2>1, <2>2, <2>3
<1>8. (EntryAfter2(ip, actual).counter >= 0) <=> (actual = "T")
  <2>1. entry2(ip).counter \in -2 .. 3
    BY <1>3 DEF TageEntry
  <2> QED
    BY <1>4, <1>7, <2>1 DEF Saturate, Step
<1>9. hit1(ip)' /\ hit2(ip)' /\ entry2(ip)'.u = 0
  BY <1>1, <1>5, <1>7, EntriesAgain DEF hit1, hit2
<1>10. /\ (entry1(ip)'.counter >= 0) <=> (entry1(ip).counter >= 0)
       /\ (entry2(ip)'.counter >= 0) <=> (entry2(ip).counter >= 0)
  BY <1>4, <1>5, <1>8, EntriesAgain
<1>11. Shadowed(ip)'
  BY <1>9, <1>10 DEF Shadowed
<1>12. prediction(ip)' = Direction(entry1(ip)'.counter >= 0)
  BY <1>9 DEF prediction, ProviderPrediction, altPred
<1> QED
  BY <1>2, <1>10, <1>11, <1>12

\* The misprediction of a shadowed branch does not lead out of the shadow.
THEOREM ShadowedForGood == PredictorSpec => ShadowStays
<1> DEFINE Stays == \A ip \in Branches, actual \in Outcome :
                      Predict(ip, actual) /\ Shadowed(ip) /\ prediction(ip) # actual /\ GHR' = GHR
                        => Shadowed(ip)' /\ prediction(ip)' # actual
<1>1. PredictorTypeOK => Stays
  BY ShadowStep
<1> HIDE DEF Stays
<1>2. []PredictorTypeOK => [][Stays]_predictor
  BY <1>1, PTL
<1> QED
  BY <1>2, PredictorTypeCorrect, PTL DEF ShadowStays, Stays

\* A branch in the shadow that has filled the history with its outcome.
Stuck(ip, actual) ==
  /\ PredictorTypeOK
  /\ Shadowed(ip) /\ prediction(ip) # actual
  /\ GHRAfter(actual) = GHR

\* The steadiest program there is, one branch that always goes the same way,
\* is then mispredicted at every single execution from there on: aging does
\* not help, and nothing bounds the number of mispredictions.
THEOREM NeverLearned ==
  ASSUME NEW CONSTANT ip \in Branches, NEW CONSTANT actual \in Outcome
  PROVE  Stuck(ip, actual) /\ [][Predict(ip, actual)]_predictor
           => [](prediction(ip) # actual)
<1>1. Stuck(ip, actual) /\ Predict(ip, actual) => Stuck(ip, actual)'
  <2> SUFFICES ASSUME Stuck(ip, actual), Predict(ip, actual)
               PROVE  Stuck(ip, actual)'
    OBVIOUS
  <2>1. GHR' = GHR
    BY DEF Stuck, Predict
  <2>2. PredictorTypeOK' /\ Shadowed(ip)' /\ prediction(ip)' # actual
    BY <2>1, PredictorStep, ShadowStep DEF Stuck
  <2>3. GHRAfter(actual)' = GHR'
    BY <2>1 DEF Stuck, GHRAfter
  <2> QED
    BY <2>2, <2>3 DEF Stuck
<1>2. Stuck(ip, actual) /\ UNCHANGED predictor => Stuck(ip, actual)'
  <2> SUFFICES ASSUME Stuck(ip, actual), UNCHANGED predictor
               PROVE  Stuck(ip, actual)'
    OBVIOUS
  <2>1. T0' = T0 /\ T1' = T1 /\ T2' = T2 /\ GHR' = GHR
    BY DEF predictor
  <2>2. PredictorTypeOK'
    BY PredictorStutter DEF Stuck
  <2>3. Shadowed(ip)' /\ prediction(ip)' # actual
    BY <2>1 DEF Stuck, Shadowed, prediction, ProviderPrediction, altPred, basePred,
                hit1, hit2, entry1, entry2, idx1, idx2, tag1, tag2
  <2>4. GHRAfter(actual)' = GHR'
    BY <2>1 DEF Stuck, GHRAfter
  <2> QED
    BY <2>2, <2>3, <2>4 DEF Stuck
<1>3. Stuck(ip, actual) => prediction(ip) # actual
  BY DEF Stuck
<1> QED
  BY <1>1, <1>2, <1>3, PTL
-----------------------------------------------------------------------------
\* The usefulness of what a slot of T2 holds.
Usefulness(s) == Lookup(T2, s, BlankEntry).u

\* It is that of a blank entry or of one in the table.
LEMMA UsefulnessType ==
  /\ PredictorTypeOK => \A s : Usefulness(s) \in 0 .. 3
  /\ PredictorTypeOK' => \A s : Usefulness(s)' \in 0 .. 3
<1>1. ASSUME PredictorTypeOK, NEW s
      PROVE  Usefulness(s) \in 0 .. 3
  <2>1. IsMap(T2, Slots(T2_BITS), TageEntry)
    BY <1>1 DEF PredictorTypeOK
  <2>2. Lookup(T2, s, BlankEntry) \in TageEntry
    BY <2>1, BlankIsEntry, LookupType
  <2> QED
    BY <2>2 DEF Usefulness, TageEntry
<1>2. ASSUME PredictorTypeOK', NEW s
      PROVE  Usefulness(s)' \in 0 .. 3
  <2>1. IsMap(T2', Slots(T2_BITS), TageEntry)
    BY <1>2 DEF PredictorTypeOK
  <2>2. Lookup(T2', s, BlankEntry) \in TageEntry
    BY <2>1, BlankIsEntry, LookupType
  <2> QED
    BY <2>2 DEF Usefulness, TageEntry
<1> QED
  BY <1>1, <1>2

\* Protection must be earned: without a hit that is predicted right a slot of
\* T2 gets no more useful, and each aging halves what it has.  These are the
\* steps that the decay of unused entries is made of.
Fades ==
  [][\A s \in Slots(T2_BITS) :
       (\A ip \in Branches, actual \in Outcome : ~UsefulHit(s, ip, actual))
         => Usefulness(s)' <= IF Aging THEN Usefulness(s) \div 2 ELSE Usefulness(s)]_predictor

\* What training leaves of the usefulness if the prediction was wrong.
LEMMA WrongIsLessUseful ==
  ASSUME PredictorTypeOK, NEW ip, NEW actual, ~(hit2(ip) /\ prediction(ip) = actual)
  PROVE  /\ EntryAfter2(ip, actual).u \in 0 .. 3
         /\ EntryAfter2(ip, actual).u <= entry2(ip).u
<1>1. entry2(ip) \in TageEntry /\ EntryAfter2(ip, actual) \in TageEntry
  BY EntryType, EntryAfterType
<1> DEFINE right == prediction(ip) = actual
<1>2. CASE hit2(ip)
  <2>1. ~right /\ EntryAfter2(ip, actual) = Trained(entry2(ip), actual, right)
    BY <1>2 DEF EntryAfter2, AllocatesT2
  <2> HIDE DEF right
  <2>2. EntryAfter2(ip, actual).u = Saturate(entry2(ip).u + Step(right), 0, 3)
    BY <1>1, <2>1 DEF Trained, TageEntry
  <2>3. entry2(ip).u \in 0 .. 3
    BY <1>1 DEF TageEntry
  <2>4. QED
    BY <1>1, <2>1, <2>2, <2>3 DEF Saturate, Step, TageEntry
<1>3. CASE ~hit2(ip)
  BY <1>1, <1>3 DEF EntryAfter2, AllocatesT2, Allocated, TageEntry
<1> QED
  BY <1>2, <1>3

LEMMA FadesStep ==
  ASSUME PredictorTypeOK, NEW ip \in Branches, NEW actual \in Outcome, Predict(ip, actual),
         NEW s \in Slots(T2_BITS), ~UsefulHit(s, ip, actual)
  PROVE  Usefulness(s)' <= IF Aging THEN Usefulness(s) \div 2 ELSE Usefulness(s)
<1> DEFINE P2 == Put(T2, idx2(ip), EntryAfter2(ip, actual))
           put == Lookup(P2, s, BlankEntry).u
<1>1. T2' = Aged(P2)
  BY DEF Predict
<1>2. Usefulness(s) \in 0 .. 3
  BY BlankIsEntry, LookupType DEF PredictorTypeOK, Usefulness, TageEntry
<1>3. IsMap(P2, Slots(T2_BITS), TageEntry)
  BY HashType, EntryAfterType, PutIsMap DEF PredictorTypeOK
<1>4. put \in 0 .. 3 /\ put <= Usefulness(s)
  <2>1. CASE s = idx2(ip)
    <3>1. put = EntryAfter2(ip, actual).u
      BY <2>1 DEF Put, Lookup
    <3>2. Usefulness(s) = entry2(ip).u
      BY <2>1 DEF Usefulness, entry2
    <3>3. ~(hit2(ip) /\ prediction(ip) = actual)
      BY <2>1 DEF UsefulHit
    <3> HIDE DEF put
    <3>4. QED
      BY <3>1, <3>2, <3>3, WrongIsLessUseful
  <2>2. CASE s # idx2(ip)
    <3>1. put = Usefulness(s)
      BY <2>2 DEF Put, Lookup, Usefulness
    <3> HIDE DEF put
    <3>2. QED
      BY <1>2, <3>1
  <2>3. QED
    BY <2>1, <2>2
<1>5. Usefulness(s)' = IF Aging THEN put \div 2 ELSE put
  <2> HIDE DEF P2
  <2>1. DOMAIN T2' = DOMAIN P2
    BY <1>1 DEF Aged
  <2>2. CASE s \notin DOMAIN P2
    BY <2>1, <2>2 DEF Usefulness, Lookup, BlankEntry
  <2>3. CASE s \in DOMAIN P2 /\ Aging
    <3>1. T2'[s] = [P2[s] EXCEPT !.u = @ \div 2]
      BY <1>1, <2>3 DEF Aged
    <3>2. P2[s] \in TageEntry
      BY <1>3, <2>3 DEF IsMap
    <3>3. T2'[s].u = P2[s].u \div 2
      BY <3>1, <3>2 DEF TageEntry
    <3>4. QED
      BY <2>1, <2>3, <3>3 DEF Usefulness, Lookup
  <2>4. CASE s \in DOMAIN P2 /\ ~Aging
    BY <1>1, <2>1, <2>4 DEF Usefulness, Lookup, Aged
  <2>5. QED
    BY <2>2, <2>3, <2>4
<1> HIDE DEF put
<1>6. put \div 2 <= Usefulness(s) \div 2
  BY <1>2, <1>4
<1> QED
  BY <1>4, <1>5, <1>6

\* Nothing but right predictions keeps an entry protected.
THEOREM ProtectionFades == PredictorSpec => Fades
<1> DEFINE Fading == \A s \in Slots(T2_BITS) :
              (\A ip \in Branches, actual \in Outcome : ~UsefulHit(s, ip, actual))
                => Usefulness(s)' <= IF Aging THEN Usefulness(s) \div 2 ELSE Usefulness(s)
<1>1. PredictorTypeOK /\ [PredictorNext]_predictor => [Fading]_predictor
  BY FadesStep DEF PredictorNext
<1> HIDE DEF Fading
<1>2. []PredictorTypeOK /\ [][PredictorNext]_predictor => [][Fading]_predictor
  BY <1>1, PTL
<1> QED
  BY <1>2, PredictorTypeCorrect, PTL DEF PredictorSpec, Fades, Fading
-----------------------------------------------------------------------------
(***************************************************************************)
(* A steady program: one branch that always goes the same way.  Its        *)
(* history fills up in HIST2 steps, from then on it meets the same slots   *)
(* and tags, and each step brings its counters closer to the outcome.      *)
(***************************************************************************)
\* The trainings that a signed counter needs before it says actual.
Off(n, actual) ==
  IF actual = "T" THEN (IF n < 0 THEN -n ELSE 0)
                  ELSE (IF n >= 0 THEN n + 1 ELSE 0)

BaseOff(ip, actual) == Off(Lookup(T0, ip, 2) - 2, actual)

\* The counter that a step trains besides the base counter.
TaggedOff(ip, actual) ==
  CASE hit2(ip)               -> Off(entry2(ip).counter, actual)
    [] ~hit2(ip) /\ hit1(ip)  -> Off(entry1(ip).counter, actual)
    [] ~hit2(ip) /\ ~hit1(ip) -> 0

Lag(ip, actual) == BaseOff(ip, actual) + TaggedOff(ip, actual)

\* The latest k outcomes in the history are all actual.
Filled(k, actual) ==
  \A b \in 0 .. HIST2 - 1 : b < k => (b \in GHR <=> actual = "T")

\* A counter that says actual is 0 off.
LEMMA OffZero ==
  ASSUME NEW n \in Int, NEW actual \in Outcome
  PROVE  /\ Off(n, actual) \in Nat
         /\ Off(n, actual) = 0 <=> Direction(n >= 0) = actual
BY DEF Off, Direction, Outcome

\* Training the counter of an entry brings it one closer.
LEMMA OffTrained ==
  ASSUME NEW entry \in TageEntry, NEW actual \in Outcome, NEW right
  PROVE  /\ Off(entry.counter, actual) \in 0 .. 4
         /\ Off(Trained(entry, actual, right).counter, actual)
              = IF Off(entry.counter, actual) = 0 THEN 0
                ELSE Off(entry.counter, actual) - 1
<1>1. entry.counter \in -2 .. 3
  BY DEF TageEntry
<1>2. Trained(entry, actual, right).counter
        = Saturate(entry.counter + Step(actual = "T"), -2, 3)
  BY TrainedType
<1> QED
  BY <1>1, <1>2 DEF Off, Outcome, Saturate, Step

\* An entry that has just been allocated says what it was allocated for.
LEMMA OffAllocated ==
  ASSUME NEW tag, NEW actual \in Outcome
  PROVE  Off(Allocated(tag, actual).counter, actual) = 0
BY DEF Off, Allocated, Outcome

\* The base counter comes one closer with every execution of its branch.
LEMMA BaseOffStep ==
  ASSUME PredictorTypeOK, NEW ip, NEW actual \in Outcome, Predict(ip, actual)
  PROVE  /\ BaseOff(ip, actual) \in 0 .. 2
         /\ BaseOff(ip, actual)' = IF BaseOff(ip, actual) = 0 THEN 0
                                   ELSE BaseOff(ip, actual) - 1
         /\ BaseOff(ip, actual) = 0 <=> basePred(ip) = actual
<1> DEFINE c == Lookup(T0, ip, 2)
<1>1. c \in 0 .. 3
  BY LookupType DEF PredictorTypeOK
<1>2. Lookup(T0', ip, 2) = Saturate(c + Step(actual = "T"), 0, 3)
  BY DEF Predict, BaseAfter, Put, Lookup
<1>3. BaseOff(ip, actual) = Off(c - 2, actual)
  BY DEF BaseOff
<1>4. BaseOff(ip, actual)' = Off(Lookup(T0', ip, 2) - 2, actual)
  BY DEF BaseOff
<1>5. basePred(ip) = Direction(c >= 2)
  BY DEF basePred
<1> HIDE DEF c
<1> QED
  BY <1>1, <1>2, <1>3, <1>4, <1>5 DEF Off, Outcome, Saturate, Step, Direction

\* Who trains whom: the counter that decides is trained, or an entry that is
\* right takes its place.
LEMMA TaggedOffStep ==
  ASSUME PredictorTypeOK, NEW ip \in Branches, NEW actual \in Outcome,
         Predict(ip, actual), GHR' = GHR
  PROVE  /\ TaggedOff(ip, actual) \in 0 .. 4 /\ TaggedOff(ip, actual)' \in 0 .. 4
         /\ TaggedOff(ip, actual)' < TaggedOff(ip, actual) \/ TaggedOff(ip, actual)' = 0
<1>1. entry1(ip) \in TageEntry /\ entry2(ip) \in TageEntry
  BY EntryType
<1>2. /\ Off(entry1(ip).counter, actual) \in 0 .. 4
      /\ Off(entry2(ip).counter, actual) \in 0 .. 4
  BY <1>1, OffTrained
<1> DEFINE right == prediction(ip) = actual
<1>3. CASE hit2(ip)
  <2>1. EntryAfter2(ip, actual) = Trained(entry2(ip), actual, right)
    BY <1>3 DEF EntryAfter2, AllocatesT2
  <2> HIDE DEF right
  <2>2. hit2(ip)'
    BY <1>1, <1>3, <2>1, TrainedType, EntriesAgain DEF hit2
  <2>3. Off(entry2(ip)'.counter, actual)
          = IF Off(entry2(ip).counter, actual) = 0 THEN 0
            ELSE Off(entry2(ip).counter, actual) - 1
    BY <1>1, <2>1, OffTrained, EntriesAgain
  <2>4. /\ TaggedOff(ip, actual) = Off(entry2(ip).counter, actual)
        /\ TaggedOff(ip, actual)' = Off(entry2(ip)'.counter, actual)
    BY <1>3, <2>2 DEF TaggedOff
  <2> QED
    BY <1>2, <2>3, <2>4
<1>4. CASE ~hit2(ip) /\ AllocatesT2(ip, actual)
  <2>1. EntryAfter2(ip, actual) = Allocated(tag2(ip), actual)
    BY <1>4 DEF EntryAfter2
  <2>2. hit2(ip)'
    BY <2>1, EntriesAgain DEF hit2, Allocated
  <2>3. Off(entry2(ip)'.counter, actual) = 0
    BY <2>1, OffAllocated, EntriesAgain
  <2>4. TaggedOff(ip, actual)' = 0
    BY <2>2, <2>3 DEF TaggedOff
  <2> QED
    BY <1>2, <2>4 DEF TaggedOff
<1>5. CASE ~hit2(ip) /\ ~AllocatesT2(ip, actual)
  <2>1. EntryAfter2(ip, actual) = entry2(ip)
    BY <1>5 DEF EntryAfter2
  <2>2. ~hit2(ip)'
    BY <1>5, <2>1, EntriesAgain DEF hit2
  <2>3. CASE hit1(ip)
    <3>1. EntryAfter1(ip, actual) = Trained(entry1(ip), actual, right)
      BY <1>5, <2>3 DEF EntryAfter1, AllocatesT1
    <3> HIDE DEF right
    <3>2. hit1(ip)'
      BY <1>1, <2>3, <3>1, TrainedType, EntriesAgain DEF hit1
    <3>3. Off(entry1(ip)'.counter, actual)
            = IF Off(entry1(ip).counter, actual) = 0 THEN 0
              ELSE Off(entry1(ip).counter, actual) - 1
      BY <1>1, <3>1, OffTrained, EntriesAgain
    <3>4. /\ TaggedOff(ip, actual) = Off(entry1(ip).counter, actual)
          /\ TaggedOff(ip, actual)' = Off(entry1(ip)'.counter, actual)
      BY <1>5, <2>2, <2>3, <3>2 DEF TaggedOff
    <3> QED
      BY <1>2, <3>3, <3>4
  <2>4. CASE ~hit1(ip)
    <3>1. TaggedOff(ip, actual) = 0
      BY <1>5, <2>4 DEF TaggedOff
    <3>2. CASE AllocatesT1(ip, actual)
      <4>1. EntryAfter1(ip, actual) = Allocated(tag1(ip), actual)
        BY <2>4, <3>2 DEF EntryAfter1
      <4>2. hit1(ip)'
        BY <4>1, EntriesAgain DEF hit1, Allocated
      <4>3. Off(entry1(ip)'.counter, actual) = 0
        BY <4>1, OffAllocated, EntriesAgain
      <4> QED
        BY <2>2, <3>1, <4>2, <4>3 DEF TaggedOff
    <3>3. CASE ~AllocatesT1(ip, actual)
      <4>1. EntryAfter1(ip, actual) = entry1(ip)
        BY <2>4, <3>3 DEF EntryAfter1
      <4>2. ~hit1(ip)'
        BY <2>4, <4>1, EntriesAgain DEF hit1
      <4> QED
        BY <2>2, <3>1, <4>2 DEF TaggedOff
    <3> QED
      BY <3>2, <3>3
  <2> QED
    BY <2>3, <2>4
<1> QED
  BY <1>3, <1>4, <1>5

\* With the history filled every execution brings the branch closer.
LEMMA LagStep ==
  ASSUME PredictorTypeOK, NEW ip \in Branches, NEW actual \in Outcome,
         Predict(ip, actual), GHR' = GHR
  PROVE  /\ Lag(ip, actual) \in 0 .. 6 /\ Lag(ip, actual)' \in 0 .. 6
         /\ Lag(ip, actual)' < Lag(ip, actual) \/ Lag(ip, actual)' = 0
<1>1. /\ BaseOff(ip, actual) \in 0 .. 2
      /\ BaseOff(ip, actual)' = IF BaseOff(ip, actual) = 0 THEN 0
                                ELSE BaseOff(ip, actual) - 1
  BY BaseOffStep
<1>2. /\ TaggedOff(ip, actual) \in 0 .. 4 /\ TaggedOff(ip, actual)' \in 0 .. 4
      /\ TaggedOff(ip, actual)' < TaggedOff(ip, actual) \/ TaggedOff(ip, actual)' = 0
  BY TaggedOffStep
<1> QED
  BY <1>1, <1>2 DEF Lag

\* The lag is at most 2 for the base counter and 4 for the tagged one.
LEMMA LagType ==
  ASSUME NEW ip, NEW actual \in Outcome
  PROVE  /\ PredictorTypeOK => Lag(ip, actual) \in 0 .. 6
         /\ (PredictorTypeOK => Lag(ip, actual) \in 0 .. 6)'
<1>1. PredictorTypeOK => Lag(ip, actual) \in 0 .. 6
  <2> SUFFICES ASSUME PredictorTypeOK PROVE Lag(ip, actual) \in 0 .. 6
    OBVIOUS
  <2>1. Lookup(T0, ip, 2) \in 0 .. 3
    BY LookupType DEF PredictorTypeOK
  <2>2. BaseOff(ip, actual) \in 0 .. 2
    BY <2>1 DEF BaseOff, Off, Outcome
  <2>3. TaggedOff(ip, actual) \in 0 .. 4
    BY EntryType, OffTrained DEF TaggedOff
  <2> QED
    BY <2>2, <2>3 DEF Lag
<1> QED
  BY <1>1, PTL
-----------------------------------------------------------------------------
\* Each execution shifts one more outcome into the history.
LEMMA FilledStep ==
  ASSUME PredictorTypeOK, NEW ip, NEW actual \in Outcome, Predict(ip, actual),
         NEW k \in Nat, Filled(k, actual)
  PROVE  Filled(k + 1, actual)'
<1>1. SUFFICES ASSUME NEW b \in 0 .. HIST2 - 1, b < k + 1
               PROVE  b \in GHR' <=> actual = "T"
  BY DEF Filled
<1>2. HIST2 \in Nat /\ GHR \subseteq 0 .. HIST2 - 1
  BY PredictorAssumption DEF PredictorTypeOK
<1>3. GHR' = Low({c + 1 : c \in GHR} \cup (IF actual = "T" THEN {0} ELSE {}), HIST2)
  BY DEF Predict, GHRAfter
<1>4. CASE b = 0
  <2>1. b \notin {c + 1 : c \in GHR}
    BY <1>2, <1>4
  <2> QED
    BY <1>3, <1>4, <2>1 DEF Low
<1>5. CASE b # 0
  <2>1. b - 1 \in 0 .. HIST2 - 1 /\ b - 1 < k
    BY <1>1, <1>2, <1>5
  <2>2. b - 1 \in GHR <=> actual = "T"
    BY <2>1 DEF Filled
  <2>3. b \in {c + 1 : c \in GHR} <=> b - 1 \in GHR
    BY <1>2
  <2> QED
    BY <1>3, <1>5, <2>2, <2>3 DEF Low
<1> QED
  BY <1>4, <1>5

\* A history that is full of one outcome stays as it is.
LEMMA FilledUp ==
  ASSUME PredictorTypeOK, NEW actual \in Outcome, NEW k \in Nat, k >= HIST2,
         Filled(k, actual)
  PROVE  GHRAfter(actual) = GHR
<1>1. HIST2 \in Nat /\ GHR \subseteq 0 .. HIST2 - 1
  BY PredictorAssumption DEF PredictorTypeOK
<1>2. \A b \in 0 .. HIST2 - 1 : b \in GHR <=> actual = "T"
  BY <1>1 DEF Filled
<1>3. CASE actual = "T"
  <2>1. GHR = 0 .. HIST2 - 1
    BY <1>1, <1>2, <1>3
  <2>2. ASSUME NEW b \in 0 .. HIST2 - 1
        PROVE  b \in {c + 1 : c \in GHR} \cup {0}
    <3>1. CASE b = 0
      BY <3>1
    <3>2. CASE b # 0
      <4>1. b - 1 \in GHR /\ b = (b - 1) + 1
        BY <1>1, <2>1, <3>2
      <4> QED
        BY <4>1
    <3> QED
      BY <3>1, <3>2
  <2> QED
    BY <1>3, <2>1, <2>2 DEF GHRAfter, Low
<1>4. CASE actual # "T"
  <2>1. GHR = {}
    BY <1>1, <1>2, <1>4
  <2> QED
    BY <1>4, <2>1 DEF GHRAfter, Low
<1> QED
  BY <1>3, <1>4

\* How far a steady program has come after n executions of its branch: first
\* the history fills up, then the lag goes down from at most 6.
Come(n, ip, actual) ==
  /\ Filled(n, actual)
  /\ n >= HIST2 => Lag(ip, actual) + (n - HIST2) <= 6 \/ Lag(ip, actual) = 0

LEMMA ComeStep ==
  ASSUME PredictorTypeOK, NEW ip \in Branches, NEW actual \in Outcome,
         Predict(ip, actual), NEW n \in Nat, Come(n, ip, actual)
  PROVE  Come(n + 1, ip, actual)'
<1>1. Filled(n + 1, actual)'
  BY FilledStep DEF Come
<1>2. HIST2 \in Nat
  BY PredictorAssumption
<1>3. CASE n + 1 > HIST2
  <2>1. n >= HIST2
    BY <1>2, <1>3
  <2>2. GHR' = GHR
    BY <2>1, FilledUp DEF Come, Predict
  <2>3. /\ Lag(ip, actual) \in 0 .. 6 /\ Lag(ip, actual)' \in 0 .. 6
        /\ Lag(ip, actual)' < Lag(ip, actual) \/ Lag(ip, actual)' = 0
    BY <2>2, LagStep
  <2>4. Lag(ip, actual) + (n - HIST2) <= 6 \/ Lag(ip, actual) = 0
    BY <2>1 DEF Come
  <2> DEFINE l == Lag(ip, actual)'
  <2>5. l + ((n + 1) - HIST2) <= 6 \/ l = 0
    BY <1>2, <2>3, <2>4
  <2> HIDE DEF l
  <2>6. (n + 1 >= HIST2 => l + ((n + 1) - HIST2) <= 6 \/ l = 0)
    BY <2>5
  <2> QED
    BY <1>1, <2>6 DEF Come, l
<1>4. CASE n + 1 = HIST2
  <2>1. PredictorTypeOK'
    BY PredictorStep
  <2>2. Lag(ip, actual)' \in 0 .. 6
    BY <2>1, LagType
  <2> QED
    BY <1>1, <1>2, <1>4, <2>2 DEF Come
<1>5. CASE n + 1 < HIST2
  BY <1>1, <1>2, <1>5 DEF Come
<1> QED
  BY <1>2, <1>3, <1>4, <1>5
-----------------------------------------------------------------------------
\* Nothing is left to be learned: the history is full, and the base counter
\* and the counter that is trained with it say actual.
Settled(ip, actual) ==
  /\ PredictorTypeOK
  /\ GHRAfter(actual) = GHR
  /\ Lag(ip, actual) = 0

\* After HIST2 executions and six more the branch is settled.
LEMMA ComeIsSettled ==
  ASSUME PredictorTypeOK, NEW ip, NEW actual \in Outcome, Come(22, ip, actual)
  PROVE  Settled(ip, actual)
<1>1. HIST2 \in Nat /\ HIST2 <= 16
  BY PredictorAssumption DEF TagBits
<1>2. Lag(ip, actual) \in 0 .. 6
  BY LagType
<1>3. Lag(ip, actual) = 0
  BY <1>1, <1>2 DEF Come
<1>4. GHRAfter(actual) = GHR
  BY <1>1, FilledUp DEF Come
<1> QED
  BY <1>3, <1>4 DEF Settled

LEMMA SettledStep ==
  ASSUME NEW ip \in Branches, NEW actual \in Outcome,
         Settled(ip, actual), Predict(ip, actual)
  PROVE  Settled(ip, actual)' /\ GHR' = GHR
<1>1. GHR' = GHR /\ PredictorTypeOK'
  BY PredictorStep DEF Settled, Predict
<1>2. Lag(ip, actual)' = 0
  BY <1>1, LagStep DEF Settled
<1>3. GHRAfter(actual)' = GHR'
  BY <1>1 DEF Settled, GHRAfter
<1> QED
  BY <1>1, <1>2, <1>3 DEF Settled

\* What a settled branch finds.
LEMMA SettledEntries ==
  ASSUME NEW ip, NEW actual \in Outcome, Settled(ip, actual)
  PROVE  /\ basePred(ip) = actual
         /\ hit2(ip) => Direction(entry2(ip).counter >= 0) = actual
         /\ ~hit2(ip) /\ hit1(ip) => Direction(entry1(ip).counter >= 0) = actual
<1>1. Lookup(T0, ip, 2) \in 0 .. 3
  BY LookupType DEF Settled, PredictorTypeOK
<1>2. entry1(ip).counter \in Int /\ entry2(ip).counter \in Int
  BY EntryType DEF Settled, TageEntry
<1>3. BaseOff(ip, actual) \in Nat /\ TaggedOff(ip, actual) \in Nat
  BY <1>1, <1>2, OffZero DEF BaseOff, TaggedOff
<1>4. BaseOff(ip, actual) = 0 /\ TaggedOff(ip, actual) = 0
  BY <1>3 DEF Settled, Lag
<1>5. basePred(ip) = actual
  BY <1>1, <1>4 DEF BaseOff, Off, basePred, Direction, Outcome
<1>6. hit2(ip) => Off(entry2(ip).counter, actual) = 0
  BY <1>4 DEF TaggedOff
<1>7. ~hit2(ip) /\ hit1(ip) => Off(entry1(ip).counter, actual) = 0
  BY <1>4 DEF TaggedOff
<1> QED
  BY <1>2, <1>5, <1>6, <1>7, OffZero

\* A settled branch is mispredicted in the shadow only.
LEMMA SettledPrediction ==
  ASSUME NEW ip, NEW actual \in Outcome, Settled(ip, actual)
  PROVE  prediction(ip) = actual \/ Shadowed(ip)
<1>1. /\ basePred(ip) = actual
      /\ hit2(ip) => Direction(entry2(ip).counter >= 0) = actual
      /\ ~hit2(ip) /\ hit1(ip) => Direction(entry1(ip).counter >= 0) = actual
  BY SettledEntries
<1>2. CASE hit2(ip) /\ entry2(ip).u = 0 /\ hit1(ip)
  <2>1. CASE (entry1(ip).counter >= 0) = (entry2(ip).counter >= 0)
    <3>1. Direction(entry1(ip).counter >= 0) = actual
      BY <1>1, <1>2, <2>1 DEF Direction
    <3> QED
      BY <1>2, <3>1 DEF prediction, ProviderPrediction, altPred
  <2>2. CASE (entry1(ip).counter >= 0) # (entry2(ip).counter >= 0)
    BY <1>2, <2>2 DEF Shadowed
  <2> QED
    BY <2>1, <2>2
<1>3. CASE hit2(ip) /\ ~(entry2(ip).u = 0 /\ hit1(ip))
  BY <1>1, <1>3 DEF prediction, ProviderPrediction, altPred
<1>4. CASE ~hit2(ip)
  BY <1>1, <1>4 DEF prediction, ProviderPrediction, altPred
<1> QED
  BY <1>2, <1>3, <1>4

\* The same of the next state.
LEMMA SettledNext ==
  ASSUME NEW ip, NEW actual \in Outcome
  PROVE  (Settled(ip, actual)
            => /\ prediction(ip) = actual \/ Shadowed(ip)
               /\ hit2(ip) => Direction(entry2(ip).counter >= 0) = actual)'
<1>1. Settled(ip, actual)
        => /\ prediction(ip) = actual \/ Shadowed(ip)
           /\ hit2(ip) => Direction(entry2(ip).counter >= 0) = actual
  BY SettledPrediction, SettledEntries
<1> QED
  BY <1>1, PTL

\* The usefulness that the branch finds after its own step.
LEMMA UsefulAgain ==
  ASSUME PredictorTypeOK, NEW ip \in Branches, NEW actual, Predict(ip, actual), GHR' = GHR
  PROVE  entry2(ip)'.u = IF Aging THEN EntryAfter2(ip, actual).u \div 2
                                  ELSE EntryAfter2(ip, actual).u
<1> DEFINE P2 == Put(T2, idx2(ip), EntryAfter2(ip, actual))
<1>1. idx2(ip) \in DOMAIN P2 /\ P2[idx2(ip)] = EntryAfter2(ip, actual)
  BY DEF Put
<1>2. T2' = Aged(P2)
  BY DEF Predict
<1>3. EntryAfter2(ip, actual) \in TageEntry
  BY EntryAfterType
<1>4. idx2(ip)' = idx2(ip)
  BY DEF idx2
<1> HIDE DEF P2
<1>5. entry2(ip)' = T2'[idx2(ip)]
  BY <1>1, <1>2, <1>4 DEF entry2, Lookup, Aged
<1>6. CASE Aging
  <2>1. T2'[idx2(ip)] = [EntryAfter2(ip, actual) EXCEPT !.u = @ \div 2]
    BY <1>1, <1>2, <1>6 DEF Aged
  <2> QED
    BY <1>3, <1>5, <1>6, <2>1 DEF TageEntry
<1>7. CASE ~Aging
  BY <1>1, <1>2, <1>5, <1>7 DEF Aged
<1> QED
  BY <1>6, <1>7

\* An entry that was useful and is used stays useful, aged or not.
LEMMA UsefulUsed ==
  ASSUME PredictorTypeOK, NEW ip \in Branches, NEW actual, Predict(ip, actual), GHR' = GHR,
         hit2(ip), prediction(ip) = actual, entry2(ip).u > 0
  PROVE  entry2(ip)'.u > 0
<1>1. entry2(ip) \in TageEntry
  BY EntryType
<1> DEFINE right == prediction(ip) = actual
<1>2. right /\ EntryAfter2(ip, actual) = Trained(entry2(ip), actual, right)
  BY DEF EntryAfter2, AllocatesT2
<1> HIDE DEF right
<1>3. EntryAfter2(ip, actual).u = Saturate(entry2(ip).u + Step(right), 0, 3)
  BY <1>1, <1>2 DEF Trained, TageEntry
<1>4. entry2(ip).u \in 1 .. 3
  BY <1>1 DEF TageEntry
<1>5. EntryAfter2(ip, actual).u \in 2 .. 3
  <2>1. Step(right) = 1
    BY <1>2 DEF Step
  <2> QED
    BY <1>3, <1>4, <2>1 DEF Saturate
<1>6. EntryAfter2(ip, actual).u \div 2 = 1
  BY <1>5
<1> QED
  BY <1>5, <1>6, UsefulAgain

\* A branch that is settled and predicted right does not get into the shadow.
LEMMA SettledRight ==
  ASSUME NEW ip \in Branches, NEW actual \in Outcome,
         Settled(ip, actual), Predict(ip, actual), prediction(ip) = actual
  PROVE  prediction(ip)' = actual
<1>1. Settled(ip, actual)' /\ GHR' = GHR /\ PredictorTypeOK
  BY SettledStep DEF Settled
<1>2. prediction(ip)' = actual \/ Shadowed(ip)'
  BY <1>1, SettledNext
<1>3. SUFFICES ASSUME Shadowed(ip)' PROVE FALSE
  BY <1>2
<1>4. ~AllocatesT1(ip, actual) /\ ~AllocatesT2(ip, actual)
  BY DEF AllocatesT1, AllocatesT2
<1>5. CASE ~hit2(ip)
  <2>1. EntryAfter2(ip, actual) = entry2(ip)
    BY <1>4, <1>5 DEF EntryAfter2
  <2>2. ~hit2(ip)'
    BY <1>1, <1>5, <2>1, EntriesAgain DEF hit2
  <2> QED
    BY <1>3, <2>2 DEF Shadowed
<1>6. CASE hit2(ip)
  <2>1. EntryAfter1(ip, actual) = entry1(ip)
    BY <1>4, <1>6 DEF EntryAfter1
  <2>2. hit1(ip)' <=> hit1(ip)
    BY <1>1, <2>1, EntriesAgain DEF hit1
  <2>3. entry1(ip)'.counter = entry1(ip).counter
    BY <1>1, <2>1, EntriesAgain
  <2>4. Direction(entry2(ip)'.counter >= 0) = actual /\ hit1(ip)
    BY <1>1, <1>3, <2>2, SettledNext DEF Shadowed
  <2>5. Direction(entry1(ip).counter >= 0) # actual
    BY <1>3, <2>3, <2>4 DEF Shadowed, Direction
  <2>6. entry2(ip).u # 0
    BY <1>6, <2>4, <2>5 DEF prediction, ProviderPrediction, altPred
  <2>7. entry2(ip).u > 0
    BY <1>1, <2>6, EntryType DEF TageEntry
  <2> QED
    BY <1>1, <1>3, <1>6, <2>7, UsefulUsed DEF Shadowed
<1> QED
  BY <1>5, <1>6
-----------------------------------------------------------------------------
\* The program is steady: nothing but this branch, the same way, for ever.
Steady(ip, actual) ==
  [][Predict(ip, actual)]_predictor /\ []<><<Predict(ip, actual)>>_predictor

LEMMA ComeStutter ==
  ASSUME NEW n, NEW ip, NEW actual
  PROVE  Come(n, ip, actual) /\ UNCHANGED predictor => Come(n, ip, actual)'
BY DEF Come, Filled, Lag, BaseOff, TaggedOff, predictor, hit1, hit2, entry1, entry2,
       idx1, idx2, tag1, tag2

\* The prover of temporal steps has no induction: the executions are counted out.
LEMMA SteadySettles ==
  ASSUME NEW CONSTANT ip \in Branches, NEW CONSTANT actual \in Outcome
  PROVE  []PredictorTypeOK /\ Steady(ip, actual) => <>Settled(ip, actual)
<1> DEFINE C(n) == Come(n, ip, actual)
<1>1. ASSUME NEW n \in 0 .. 21
      PROVE  PredictorTypeOK /\ Predict(ip, actual) /\ C(n) => C(n + 1)'
  BY ComeStep
<1>2. ASSUME NEW n \in 0 .. 22
      PROVE  C(n) /\ UNCHANGED predictor => C(n)'
  BY ComeStutter
<1>3. PredictorTypeOK => C(0)
  BY LagType, PredictorAssumption DEF C, Come, Filled
<1> HIDE DEF C
<1>4. PredictorTypeOK /\ Predict(ip, actual) =>
        /\ (C(0) => C(1)') /\ (C(1) => C(2)') /\ (C(2) => C(3)')
        /\ (C(3) => C(4)') /\ (C(4) => C(5)') /\ (C(5) => C(6)')
        /\ (C(6) => C(7)') /\ (C(7) => C(8)') /\ (C(8) => C(9)')
        /\ (C(9) => C(10)') /\ (C(10) => C(11)') /\ (C(11) => C(12)')
        /\ (C(12) => C(13)') /\ (C(13) => C(14)') /\ (C(14) => C(15)')
        /\ (C(15) => C(16)') /\ (C(16) => C(17)') /\ (C(17) => C(18)')
        /\ (C(18) => C(19)') /\ (C(19) => C(20)') /\ (C(20) => C(21)')
        /\ (C(21) => C(22)')
  BY <1>1
<1>5. UNCHANGED predictor =>
        /\ (C(0) => C(0)') /\ (C(1) => C(1)') /\ (C(2) => C(2)')
        /\ (C(3) => C(3)') /\ (C(4) => C(4)') /\ (C(5) => C(5)')
        /\ (C(6) => C(6)') /\ (C(7) => C(7)') /\ (C(8) => C(8)')
        /\ (C(9) => C(9)') /\ (C(10) => C(10)') /\ (C(11) => C(11)')
        /\ (C(12) => C(12)') /\ (C(13) => C(13)') /\ (C(14) => C(14)')
        /\ (C(15) => C(15)') /\ (C(16) => C(16)') /\ (C(17) => C(17)')
        /\ (C(18) => C(18)') /\ (C(19) => C(19)') /\ (C(20) => C(20)')
        /\ (C(21) => C(21)') /\ (C(22) => C(22)')
  BY <1>2
<1>6. PredictorTypeOK /\ C(22) => Settled(ip, actual)
  BY ComeIsSettled DEF C
<1> QED
  BY <1>3, <1>4, <1>5, <1>6, PTL DEF Steady

\* A settled branch is predicted right from there on, or wrong from there on.
LEMMA SettledForGood ==
  ASSUME NEW CONSTANT ip \in Branches, NEW CONSTANT actual \in Outcome
  PROVE  Settled(ip, actual) /\ [][Predict(ip, actual)]_predictor
           => [](prediction(ip) = actual) \/ []Hopeless(ip, actual)
<1> DEFINE Good == Settled(ip, actual) /\ prediction(ip) = actual
           Bad == Settled(ip, actual) /\ prediction(ip) # actual
<1>1. Good /\ Predict(ip, actual) => Good'
  BY SettledStep, SettledRight
<1>2. Bad /\ Predict(ip, actual) => Bad'
  <2> SUFFICES ASSUME Bad, Predict(ip, actual) PROVE Bad'
    OBVIOUS
  <2>1. Settled(ip, actual)' /\ GHR' = GHR
    BY SettledStep
  <2>2. Shadowed(ip) /\ PredictorTypeOK
    BY SettledPrediction DEF Settled
  <2> QED
    BY <2>1, <2>2, ShadowStep
<1>3. UNCHANGED predictor => (Good => Good') /\ (Bad => Bad')
  <2> SUFFICES ASSUME UNCHANGED predictor PROVE (Good => Good') /\ (Bad => Bad')
    OBVIOUS
  <2>1. T0' = T0 /\ T1' = T1 /\ T2' = T2 /\ GHR' = GHR
    BY DEF predictor
  <2>2. Settled(ip, actual) => Settled(ip, actual)'
    BY <2>1, PredictorStutter DEF Settled, GHRAfter, Lag, BaseOff, TaggedOff, hit1, hit2,
       entry1, entry2, idx1, idx2, tag1, tag2
  <2>3. prediction(ip)' = prediction(ip)
    BY <2>1 DEF prediction, ProviderPrediction, altPred, basePred,
                hit1, hit2, entry1, entry2, idx1, idx2, tag1, tag2
  <2> QED
    BY <2>2, <2>3
<1>4. Bad => Hopeless(ip, actual)
  BY SettledPrediction, SettledEntries DEF Hopeless
<1>5. /\ Settled(ip, actual) => Good \/ Bad
      /\ Good => prediction(ip) = actual
  OBVIOUS
<1> HIDE DEF Good, Bad
<1> QED
  BY <1>1, <1>2, <1>3, <1>4, <1>5, PTL

\* The program keeps executing branches.
Executing ==
  /\ PredictorInit
  /\ [][PredictorNext]_predictor
  /\ []<><<PredictorNext>>_predictor

LEMMA ExecutingTypes == Executing => []PredictorTypeOK
<1>1. PredictorTypeOK /\ [PredictorNext]_predictor => PredictorTypeOK'
  BY PredictorStep, PredictorStutter DEF PredictorNext
<1> QED
  BY PredictorStart, <1>1, PTL DEF Executing

\* A branch that from some point on is the only one and always goes the same
\* way is decided: it is predicted right for ever, or wrong for ever, and then
\* in a shadow, where the base counter would have been right.
THEOREM SteadyIsDecided == Executing => SteadyDecided
<1> SUFFICES ASSUME NEW CONSTANT ip \in Branches, NEW CONSTANT actual \in Outcome
             PROVE  Executing /\ <>[][Predict(ip, actual)]_predictor
                      => <>[](prediction(ip) = actual) \/ <>[]Hopeless(ip, actual)
  BY DEF SteadyDecided
<1>1. []PredictorTypeOK /\ Steady(ip, actual) => <>Settled(ip, actual)
  BY SteadySettles
<1>2. Settled(ip, actual) /\ [][Predict(ip, actual)]_predictor
        => [](prediction(ip) = actual) \/ []Hopeless(ip, actual)
  BY SettledForGood
<1>3. Executing => []PredictorTypeOK
  BY ExecutingTypes
<1> QED
  BY <1>1, <1>2, <1>3, PTL DEF Executing, Steady
-----------------------------------------------------------------------------
(***************************************************************************)
(* Aging comes again and again: clock_ is a binary counter of ten digits,  *)
(* and each digit turns, and passes a carry on, infinitely often if the    *)
(* digit below it does.                                                    *)
(***************************************************************************)
\* The places of its digits.
Places == {1, 2, 4, 8, 16, 32, 64, 128, 256, 512}

\* The digits of clock_ below P are all 1: the next step carries into P.
Carries(P) == clock_ % P = P - 1

\* The digit of clock_ at P, a power of two.
Digit(P) == (clock_ \div P) % 2 = 1

\* A step that does not age counts up by one.
LEMMA Counting ==
  ASSUME PredictorTypeOK, NEW ip, NEW actual, Predict(ip, actual), ~Aging
  PROVE  clock_' = clock_ + 1 /\ clock_ \in Nat
<1>1. clock_ \in 0 .. AgePeriod - 1 /\ AgePeriod \in Nat
  BY PredictorAssumption DEF PredictorTypeOK
<1>2. clock_ + 1 \in 0 .. AgePeriod - 1
  BY <1>1 DEF Aging
<1>3. (clock_ + 1) % AgePeriod = clock_ + 1
  BY <1>1, <1>2
<1> QED
  BY <1>1, <1>3 DEF Predict

\* What counting does to one digit.
LEMMA DigitTurns ==
  ASSUME NEW c \in Nat, NEW P \in Places
  PROVE  /\ c % P = P - 1 => (((c + 1) \div P) % 2 = 1 <=> (c \div P) % 2 # 1)
         /\ c % P # P - 1 => (c + 1) \div P = c \div P
         /\ c % (2 * P) = 2 * P - 1 <=> c % P = P - 1 /\ (c \div P) % 2 = 1
<1>1. CASE P = 1
  BY <1>1
<1>2. CASE P = 2
  BY <1>2
<1>3. CASE P = 4
  BY <1>3
<1>4. CASE P = 8
  BY <1>4
<1>5. CASE P = 16
  BY <1>5
<1>6. CASE P = 32
  BY <1>6
<1>7. CASE P = 64
  BY <1>7
<1>8. CASE P = 128
  BY <1>8
<1>9. CASE P = 256
  BY <1>9
<1>10. CASE P = 512
  BY <1>10
<1> QED
  BY <1>1, <1>2, <1>3, <1>4, <1>5, <1>6, <1>7, <1>8, <1>9, <1>10 DEF Places

\* The same for a step of the predictor.
LEMMA DigitStep ==
  ASSUME PredictorTypeOK, NEW ip, NEW actual, Predict(ip, actual), ~Aging,
         NEW P \in Places
  PROVE  /\ Carries(P) => (Digit(P)' <=> ~Digit(P))
         /\ ~Carries(P) => (Digit(P)' <=> Digit(P))
         /\ Carries(2 * P) <=> Carries(P) /\ Digit(P)
<1>1. clock_' = clock_ + 1 /\ clock_ \in Nat
  BY Counting
<1>2. /\ clock_ % P = P - 1 => (((clock_ + 1) \div P) % 2 = 1 <=> (clock_ \div P) % 2 # 1)
      /\ clock_ % P # P - 1 => (clock_ + 1) \div P = clock_ \div P
      /\ clock_ % (2 * P) = 2 * P - 1 <=> clock_ % P = P - 1 /\ (clock_ \div P) % 2 = 1
  BY <1>1, DigitTurns, Zenon
<1> QED
  BY <1>1, <1>2, Zenon DEF Carries, Digit

\* What a step that does not age does to a digit: nothing, unless it carries.
Turns(P) ==
  /\ Carries(P) => (Digit(P)' <=> ~Digit(P))
  /\ ~Carries(P) => (Digit(P)' <=> Digit(P))

\* Every program that runs on makes the entries age.
LEMMA AgingComes ==
  ASSUME AgePeriod <= 1024
  PROVE  Executing => []<><<PredictorNext /\ Aging>>_predictor
<1>1. ASSUME NEW P \in Places
      PROVE  /\ PredictorTypeOK /\ PredictorNext /\ ~Aging
                  => Turns(P) /\ (Carries(2 * P) <=> Carries(P) /\ Digit(P))
             /\ UNCHANGED predictor => (Digit(P)' <=> Digit(P))
  <2>1. PredictorTypeOK /\ PredictorNext /\ ~Aging
          => Turns(P) /\ (Carries(2 * P) <=> Carries(P) /\ Digit(P))
    BY DigitStep DEF PredictorNext, Turns
  <2>2. UNCHANGED predictor => (Digit(P)' <=> Digit(P))
    BY DEF predictor, Digit
  <2> QED
    BY <2>1, <2>2
<1>2. PredictorTypeOK => Carries(1)
  BY DEF PredictorTypeOK, Carries
<1>3. PredictorTypeOK /\ Carries(1024) => Aging
  <2> SUFFICES ASSUME PredictorTypeOK, Carries(1024) PROVE Aging
    OBVIOUS
  <2>1. clock_ \in 0 .. AgePeriod - 1 /\ AgePeriod \in Nat
    BY PredictorAssumption DEF PredictorTypeOK
  <2>2. clock_ % 1024 = 1023
    BY DEF Carries
  <2>3. clock_ = 1023
    BY <2>1, <2>2
  <2> QED
    BY <2>1, <2>3 DEF Aging
<1>4. Executing => []PredictorTypeOK
  BY ExecutingTypes
<1>d1.
      /\ PredictorTypeOK /\ PredictorNext /\ ~Aging
           => Turns(1) /\ (Carries(2) <=> Carries(1) /\ Digit(1))
      /\ UNCHANGED predictor => (Digit(1)' <=> Digit(1))
  BY <1>1 DEF Places
<1>d2.
      /\ PredictorTypeOK /\ PredictorNext /\ ~Aging
           => Turns(2) /\ (Carries(4) <=> Carries(2) /\ Digit(2))
      /\ UNCHANGED predictor => (Digit(2)' <=> Digit(2))
  BY <1>1 DEF Places
<1>d4.
      /\ PredictorTypeOK /\ PredictorNext /\ ~Aging
           => Turns(4) /\ (Carries(8) <=> Carries(4) /\ Digit(4))
      /\ UNCHANGED predictor => (Digit(4)' <=> Digit(4))
  BY <1>1 DEF Places
<1>d8.
      /\ PredictorTypeOK /\ PredictorNext /\ ~Aging
           => Turns(8) /\ (Carries(16) <=> Carries(8) /\ Digit(8))
      /\ UNCHANGED predictor => (Digit(8)' <=> Digit(8))
  BY <1>1 DEF Places
<1>d16.
      /\ PredictorTypeOK /\ PredictorNext /\ ~Aging
           => Turns(16) /\ (Carries(32) <=> Carries(16) /\ Digit(16))
      /\ UNCHANGED predictor => (Digit(16)' <=> Digit(16))
  BY <1>1 DEF Places
<1>d32.
      /\ PredictorTypeOK /\ PredictorNext /\ ~Aging
           => Turns(32) /\ (Carries(64) <=> Carries(32) /\ Digit(32))
      /\ UNCHANGED predictor => (Digit(32)' <=> Digit(32))
  BY <1>1 DEF Places
<1>d64.
      /\ PredictorTypeOK /\ PredictorNext /\ ~Aging
           => Turns(64) /\ (Carries(128) <=> Carries(64) /\ Digit(64))
      /\ UNCHANGED predictor => (Digit(64)' <=> Digit(64))
  BY <1>1 DEF Places
<1>d128.
      /\ PredictorTypeOK /\ PredictorNext /\ ~Aging
           => Turns(128) /\ (Carries(256) <=> Carries(128) /\ Digit(128))
      /\ UNCHANGED predictor => (Digit(128)' <=> Digit(128))
  BY <1>1 DEF Places
<1>d256.
      /\ PredictorTypeOK /\ PredictorNext /\ ~Aging
           => Turns(256) /\ (Carries(512) <=> Carries(256) /\ Digit(256))
      /\ UNCHANGED predictor => (Digit(256)' <=> Digit(256))
  BY <1>1 DEF Places
<1>d512.
      /\ PredictorTypeOK /\ PredictorNext /\ ~Aging
           => Turns(512) /\ (Carries(1024) <=> Carries(512) /\ Digit(512))
      /\ UNCHANGED predictor => (Digit(512)' <=> Digit(512))
  BY <1>1 DEF Places
<1> DEFINE Idle == <>[][~(PredictorNext /\ Aging)]_predictor
<1>15. Executing /\ Idle => []<><<PredictorNext /\ Carries(1)>>_predictor
  BY <1>2, <1>4, PTL DEF Executing
<1>16. Executing /\ Idle => []<><<PredictorNext /\ Carries(2)>>_predictor
  BY <1>4, <1>d1, <1>15, PTL DEF Executing, Turns
<1>17. Executing /\ Idle => []<><<PredictorNext /\ Carries(4)>>_predictor
  BY <1>4, <1>d2, <1>16, PTL DEF Executing, Turns
<1>18. Executing /\ Idle => []<><<PredictorNext /\ Carries(8)>>_predictor
  BY <1>4, <1>d4, <1>17, PTL DEF Executing, Turns
<1>19. Executing /\ Idle => []<><<PredictorNext /\ Carries(16)>>_predictor
  BY <1>4, <1>d8, <1>18, PTL DEF Executing, Turns
<1>20. Executing /\ Idle => []<><<PredictorNext /\ Carries(32)>>_predictor
  BY <1>4, <1>d16, <1>19, PTL DEF Executing, Turns
<1>21. Executing /\ Idle => []<><<PredictorNext /\ Carries(64)>>_predictor
  BY <1>4, <1>d32, <1>20, PTL DEF Executing, Turns
<1>22. Executing /\ Idle => []<><<PredictorNext /\ Carries(128)>>_predictor
  BY <1>4, <1>d64, <1>21, PTL DEF Executing, Turns
<1>23. Executing /\ Idle => []<><<PredictorNext /\ Carries(256)>>_predictor
  BY <1>4, <1>d128, <1>22, PTL DEF Executing, Turns
<1>24. Executing /\ Idle => []<><<PredictorNext /\ Carries(512)>>_predictor
  BY <1>4, <1>d256, <1>23, PTL DEF Executing, Turns
<1>25. Executing /\ Idle => []<><<PredictorNext /\ Carries(1024)>>_predictor
  BY <1>4, <1>d512, <1>24, PTL DEF Executing, Turns
<1> QED
  BY <1>3, <1>4, <1>25, PTL DEF Executing

\* An entry of T2 that stops being useful becomes replaceable, in any program
\* that runs on, whatever other branches do to it.
THEOREM UnusedEntriesDecay ==
  ASSUME AgePeriod <= 1024
  PROVE  Executing => UnusedDecays
<1> SUFFICES ASSUME NEW CONSTANT s \in Slots(T2_BITS)
             PROVE  Executing
                      => (<>[][\A ip \in Branches, actual \in Outcome :
                                 ~UsefulHit(s, ip, actual)]_predictor
                            => <>[](Lookup(T2, s, BlankEntry).u = 0))
  BY DEF UnusedDecays
<1> DEFINE Unused == \A ip \in Branches, actual \in Outcome : ~UsefulHit(s, ip, actual)
           Low1 == Usefulness(s) <= 1
           Low0 == Usefulness(s) = 0
<1>1. PredictorTypeOK => Usefulness(s) \in 0 .. 3
  BY UsefulnessType
<1>2. PredictorTypeOK /\ PredictorTypeOK' /\ PredictorNext /\ Unused
        => /\ (Low1 => Low1') /\ (Low0 => Low0')
           /\ Aging => Low1' /\ (Low1 => Low0')
  <2> SUFFICES ASSUME PredictorTypeOK, PredictorTypeOK', Unused,
                      NEW ip \in Branches, NEW actual \in Outcome, Predict(ip, actual)
               PROVE  /\ (Low1 => Low1') /\ (Low0 => Low0')
                      /\ Aging => Low1' /\ (Low1 => Low0')
    BY DEF PredictorNext
  <2>1. Usefulness(s)' <= IF Aging THEN Usefulness(s) \div 2 ELSE Usefulness(s)
    BY FadesStep
  <2>2. Usefulness(s) \in 0 .. 3 /\ Usefulness(s)' \in 0 .. 3
    BY UsefulnessType
  <2> QED
    BY <2>1, <2>2
<1>3. UNCHANGED predictor => (Low1 => Low1') /\ (Low0 => Low0')
  BY DEF predictor, Usefulness
<1>4. Executing => []PredictorTypeOK
  BY ExecutingTypes
<1>5. Executing => []<><<PredictorNext /\ Aging>>_predictor
  BY AgingComes
<1>6. Low0 => Lookup(T2, s, BlankEntry).u = 0
  BY DEF Usefulness
<1> HIDE DEF Low0, Low1
<1> QED
  BY <1>2, <1>3, <1>4, <1>5, <1>6, PTL DEF Executing
=============================================================================
