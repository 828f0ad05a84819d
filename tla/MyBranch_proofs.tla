--------------------------- MODULE MyBranch_proofs --------------------------
(***************************************************************************)
(* Proofs of the invariants of MyBranch for every set of images and of     *)
(* branches and every number of executions.                                *)
(***************************************************************************)
EXTENDS MyBranch, StdMapTheorems

\* What the predictors and their accounts are made of.
state == <<tables, counts, traces>>

\* Only RecordBranch touches the tables, the counts and the traces.
LEMMA StepCases ==
  ASSUME [Next]_vars
  PROVE  \/ \E ip \in Addresses, actual \in Outcome : RecordBranch(ip, actual)
         \/ UNCHANGED state
<1>1. CASE UNCHANGED vars
  BY <1>1 DEF vars, state
<1>2. ASSUME NEW img \in Images, Image(img) PROVE UNCHANGED state
  BY <1>2 DEF Image, state
<1>3. ASSUME NEW ip \in Addresses, NEW actual \in Outcome,
             ExecuteBranch(ip, actual)
      PROVE  RecordBranch(ip, actual) \/ UNCHANGED state
  BY <1>3 DEF ExecuteBranch, IgnoreBranch, vars, state
<1>4. ASSUME NEW opened \in BOOLEAN, Fini(opened) PROVE UNCHANGED state
  BY <1>4 DEF Fini, state
<1> QED BY <1>1, <1>2, <1>3, <1>4 DEF Next
-----------------------------------------------------------------------------
\* The updates of one branch stay in the type of their table.
LEMMA UpdateTypes ==
  ASSUME TypeOK, NEW ip \in Addresses, NEW actual \in Outcome
  PROVE  /\ OneBitPrediction(ip, actual) \in Outcome
         /\ TwoBitState(ip) \in 0 .. 3
         /\ TwoBitAfter(ip, actual) \in 0 .. 3
         /\ Lookup(selector, ip, 2) \in 0 .. 3
         /\ SelectorAfter(ip, actual) \in 0 .. 3
         /\ \A p, q : Same(p, q) \in {0, 1}
         /\ Append(Lookup(history, ip, <<>>), actual) \in Seq(Outcome) \ {<<>>}
<1>1. OneBitPrediction(ip, actual) \in Outcome
  BY LookupType DEF TypeOK, OneBitPrediction
<1>2. TwoBitState(ip) \in 0 .. 3
  BY LookupType DEF TypeOK, TwoBitState
<1>3. TwoBitAfter(ip, actual) \in 0 .. 3
  BY <1>2 DEF TwoBitAfter
<1>4. Lookup(selector, ip, 2) \in 0 .. 3
  BY LookupType DEF TypeOK
<1>5. SelectorAfter(ip, actual) \in 0 .. 3
  BY <1>4 DEF SelectorAfter
<1>6. \A p, q : Same(p, q) \in {0, 1}
  BY DEF Same
<1>7. Lookup(history, ip, <<>>) \in Seq(Outcome)
  BY DEF TypeOK, IsMap, Lookup
<1>8. Append(Lookup(history, ip, <<>>), actual) \in Seq(Outcome) \ {<<>>}
  <2> DEFINE h == Lookup(history, ip, <<>>)
  <2> HIDE DEF h
  <2>1. Append(h, actual) \in Seq(Outcome) /\ Len(Append(h, actual)) = Len(h) + 1
    BY <1>7 DEF h
  <2>2. Len(h) \in Nat /\ Len(<<>>) = 0
    BY <1>7 DEF h
  <2> QED BY <2>1, <2>2 DEF h
<1> QED BY <1>1, <1>2, <1>3, <1>4, <1>5, <1>6, <1>8

LEMMA RecordBranchType ==
  ASSUME TypeOK, NEW ip \in Addresses, NEW actual \in Outcome,
         RecordBranch(ip, actual)
  PROVE  /\ IsMap(BHT', Addresses, Outcome)
         /\ IsMap(BHT2', Addresses, 0 .. 3)
         /\ IsMap(selector', Addresses, 0 .. 3)
         /\ IsMap(history', Addresses, Seq(Outcome) \ {<<>>})
         /\ IsMap(mispredBranch', Addresses, Nat)
         /\ DOMAIN history' = DOMAIN history \cup {ip}
         /\ DOMAIN BHT' = DOMAIN history'
         /\ DOMAIN BHT2' = DOMAIN history'
         /\ DOMAIN selector' = DOMAIN history'
         /\ DOMAIN mispredBranch' \subseteq DOMAIN history'
<1>1. IsMap(BHT', Addresses, Outcome) /\ DOMAIN BHT' = DOMAIN BHT \cup {ip}
  <2>1. IsMap(BHT, Addresses, Outcome) /\ BHT' = Put(BHT, ip, actual)
    BY DEF TypeOK, RecordBranch
  <2> QED BY <2>1 DEF IsMap, Put
<1>2. IsMap(BHT2', Addresses, 0 .. 3) /\ DOMAIN BHT2' = DOMAIN BHT2 \cup {ip}
  <2>1. /\ IsMap(BHT2, Addresses, 0 .. 3)
        /\ BHT2' = Put(BHT2, ip, TwoBitAfter(ip, actual))
    BY DEF TypeOK, RecordBranch
  <2>2. TwoBitAfter(ip, actual) \in 0 .. 3
    BY UpdateTypes
  <2> QED BY <2>1, <2>2 DEF IsMap, Put
<1>3. /\ IsMap(selector', Addresses, 0 .. 3)
      /\ DOMAIN selector' = DOMAIN selector \cup {ip}
  <2>1. /\ IsMap(selector, Addresses, 0 .. 3)
        /\ selector' = Put(selector, ip, SelectorAfter(ip, actual))
    BY DEF TypeOK, RecordBranch
  <2>2. SelectorAfter(ip, actual) \in 0 .. 3
    BY UpdateTypes
  <2> QED BY <2>1, <2>2 DEF IsMap, Put
<1>4. /\ IsMap(history', Addresses, Seq(Outcome) \ {<<>>})
      /\ DOMAIN history' = DOMAIN history \cup {ip}
  <2> DEFINE h == Append(Lookup(history, ip, <<>>), actual)
  <2> HIDE DEF h
  <2>1. /\ IsMap(history, Addresses, Seq(Outcome) \ {<<>>})
        /\ history' = Put(history, ip, h)
    BY DEF TypeOK, RecordBranch, h
  <2>2. h \in Seq(Outcome) \ {<<>>}
    BY UpdateTypes DEF h
  <2> QED BY <2>1, <2>2 DEF IsMap, Put
<1>5. /\ IsMap(mispredBranch', Addresses, Nat)
      /\ DOMAIN mispredBranch' \subseteq DOMAIN mispredBranch \cup {ip}
  <2> DEFINE n == Lookup(mispredBranch, ip, 0) + 1
  <2> HIDE DEF n
  <2>1. IsMap(mispredBranch, Addresses, Nat)
    BY DEF TypeOK
  <2>2. n \in Nat
    BY <2>1, LookupType DEF n
  <2>3. mispredBranch' = Put(mispredBranch, ip, n) \/ UNCHANGED mispredBranch
    BY DEF RecordBranch, MispredBranchAfter, n
  <2> QED BY <2>1, <2>2, <2>3 DEF IsMap, Put
<1>6. /\ DOMAIN BHT = DOMAIN history /\ DOMAIN BHT2 = DOMAIN history
      /\ DOMAIN selector = DOMAIN history
      /\ DOMAIN mispredBranch \subseteq DOMAIN history
  BY DEF TypeOK
<1> QED BY <1>1, <1>2, <1>3, <1>4, <1>5, <1>6

\* The type invariant is preserved by every step of the tool.
LEMMA TypeStep == TypeOK /\ [Next]_vars => TypeOK'
<1> SUFFICES ASSUME TypeOK, [Next]_vars PROVE TypeOK'
  OBVIOUS
<1>1. loaded' \subseteq Images /\ low' \in Nat /\ high' \in Nat
  <2>1. CASE UNCHANGED vars
    BY <2>1 DEF vars, range, TypeOK
  <2>2. ASSUME NEW img \in Images, Image(img)
        PROVE  loaded' \subseteq Images /\ low' \in Nat /\ high' \in Nat
    BY <2>2, ImagesAssumption DEF Image, Watch, range, TypeOK
  <2>3. ASSUME NEW ip \in Addresses, NEW actual \in Outcome,
               ExecuteBranch(ip, actual)
        PROVE  UNCHANGED <<loaded, low, high>>
    BY <2>3 DEF ExecuteBranch, IgnoreBranch, RecordBranch, vars, range
  <2>4. ASSUME NEW opened \in BOOLEAN, Fini(opened)
        PROVE  UNCHANGED <<loaded, low, high>>
    BY <2>4 DEF Fini, range
  <2> QED BY <2>1, <2>2, <2>3, <2>4 DEF Next, TypeOK
<1>2. CASE UNCHANGED state
  BY <1>1, <1>2 DEF TypeOK, state, tables, counts, traces
<1>3. ASSUME NEW ip \in Addresses, NEW actual \in Outcome,
             RecordBranch(ip, actual)
      PROVE  TypeOK'
  <2>1. /\ predictions' \in Nat /\ correct' \in Nat
        /\ pred2' \in Nat /\ correct2' \in Nat
        /\ predH' \in Nat /\ correctH' \in Nat
        /\ total' \in Nat /\ taken' \in Nat /\ nottaken' \in Nat
    <3>1. /\ Same(OneBitPrediction(ip, actual), actual) \in {0, 1}
          /\ Same(TwoBitPrediction(ip), actual) \in {0, 1}
          /\ Same(HybridPrediction(ip, actual), actual) \in {0, 1}
          /\ Same("T", actual) \in {0, 1} /\ Same("N", actual) \in {0, 1}
      BY UpdateTypes
    <3>2. /\ predictions \in Nat /\ correct \in Nat
          /\ pred2 \in Nat /\ correct2 \in Nat
          /\ predH \in Nat /\ correctH \in Nat
          /\ total \in Nat /\ taken \in Nat /\ nottaken \in Nat
      BY DEF TypeOK
    <3>3. ASSUME NEW n \in Nat, NEW d \in {0, 1} PROVE n + d \in Nat
      OBVIOUS
    <3>4. correct' \in Nat /\ correct2' \in Nat /\ correctH' \in Nat
      BY <1>3, <3>1, <3>2, <3>3 DEF RecordBranch
    <3>5. taken' \in Nat /\ nottaken' \in Nat
      BY <1>3, <3>1, <3>2, <3>3 DEF RecordBranch
    <3>6. predictions' \in Nat /\ pred2' \in Nat /\ predH' \in Nat /\ total' \in Nat
      BY <1>3, <3>2 DEF RecordBranch
    <3> QED BY <3>4, <3>5, <3>6
  <2> QED BY <1>1, <1>3, <2>1, RecordBranchType DEF TypeOK
<1> QED BY <1>2, <1>3, StepCases

\* Type correctness: the two-bit counters and selectors never leave 0..3 and
\* the four tables always know the same branches.
THEOREM TypeCorrect == Spec => []TypeOK
<1>1. Init => TypeOK
  BY EmptyMapIsMap DEF Init, TypeOK
<1> QED BY <1>1, TypeStep, PTL DEF Spec
-----------------------------------------------------------------------------
\* What RecordBranch leaves in the tables and traces, entry by entry.
LEMMA Entries ==
  ASSUME TypeOK, NEW ip \in Addresses, NEW actual \in Outcome,
         RecordBranch(ip, actual)
  PROVE  /\ BHT'[ip] = actual
         /\ BHT2'[ip] = TwoBitAfter(ip, actual)
         /\ selector'[ip] = SelectorAfter(ip, actual)
         /\ history'[ip] = Append(Lookup(history, ip, <<>>), actual)
         /\ \A x \in DOMAIN history : x # ip =>
               /\ BHT'[x] = BHT[x] /\ BHT2'[x] = BHT2[x]
               /\ selector'[x] = selector[x] /\ history'[x] = history[x]
<1>1. /\ BHT' = Put(BHT, ip, actual)
      /\ BHT2' = Put(BHT2, ip, TwoBitAfter(ip, actual))
      /\ selector' = Put(selector, ip, SelectorAfter(ip, actual))
      /\ history' = Put(history, ip, Append(Lookup(history, ip, <<>>), actual))
  BY DEF RecordBranch
<1>2. /\ DOMAIN BHT = DOMAIN history /\ DOMAIN BHT2 = DOMAIN history
      /\ DOMAIN selector = DOMAIN history
  BY DEF TypeOK
<1> QED BY <1>1, <1>2 DEF Put

\* The trace of the recorded branch, before and after.
LEMMA Trace ==
  ASSUME TypeOK, NEW ip \in Addresses, NEW actual \in Outcome,
         RecordBranch(ip, actual)
  PROVE  LET h == Lookup(history, ip, <<>>)
         IN  /\ h \in Seq(Outcome) /\ Len(h) \in Nat
             /\ ip \in DOMAIN history <=> Len(h) > 0
             /\ ip \in DOMAIN history => h = history[ip]
             /\ Len(history'[ip]) = Len(h) + 1
             /\ history'[ip][Len(h) + 1] = actual
             /\ \A i \in 1 .. Len(h) : history'[ip][i] = h[i]
<1> DEFINE h == Lookup(history, ip, <<>>)
<1>1. ip \in DOMAIN history =>
        history[ip] \in Seq(Outcome) /\ history[ip] # <<>> /\ h = history[ip]
  BY DEF TypeOK, IsMap, Lookup
<1>2. ip \notin DOMAIN history => h = <<>>
  BY DEF Lookup
<1>4. history'[ip] = Append(h, actual)
  BY Entries
<1> HIDE DEF h
<1>3. h \in Seq(Outcome) /\ (ip \in DOMAIN history <=> h # <<>>)
  <2>1. <<>> \in Seq(Outcome)
    OBVIOUS
  <2> QED BY <1>1, <1>2, <2>1
<1>5. Len(h) \in Nat /\ (h # <<>> <=> Len(h) > 0)
  BY <1>3
<1>6. /\ Len(Append(h, actual)) = Len(h) + 1
      /\ Append(h, actual)[Len(h) + 1] = actual
      /\ \A i \in 1 .. Len(h) : Append(h, actual)[i] = h[i]
  BY <1>3, <1>5
<1> QED BY <1>1, <1>3, <1>4, <1>5, <1>6 DEF h
-----------------------------------------------------------------------------
\* A run of equal outcomes that ends at the recorded execution began one
\* execution shorter.
LEMMA RunStep ==
  ASSUME TypeOK, NEW ip \in Addresses, NEW actual \in Outcome,
         RecordBranch(ip, actual), NEW n \in Nat, NEW o,
         LastOutcomes(ip, n + 1, o)'
  PROVE  /\ actual = o
         /\ n > 0 => ip \in DOMAIN history /\ LastOutcomes(ip, n, o)
<1> DEFINE h == Lookup(history, ip, <<>>)
<1> HIDE DEF h
<1>1. /\ h \in Seq(Outcome) /\ Len(h) \in Nat
      /\ ip \in DOMAIN history <=> Len(h) > 0
      /\ ip \in DOMAIN history => h = history[ip]
      /\ Len(history'[ip]) = Len(h) + 1
      /\ history'[ip][Len(h) + 1] = actual
      /\ \A i \in 1 .. Len(h) : history'[ip][i] = h[i]
  BY Trace DEF h
<1>2. /\ Len(h) + 1 >= n + 1
      /\ \A i \in 0 .. n : history'[ip][Len(h) + 1 - i] = o
  BY <1>1 DEF LastOutcomes
<1>3. actual = o
  <2>1. 0 \in 0 .. n /\ Len(h) + 1 - 0 = Len(h) + 1
    BY <1>1
  <2> QED BY <1>1, <1>2, <2>1
<1>4. ASSUME n > 0 PROVE ip \in DOMAIN history /\ LastOutcomes(ip, n, o)
  <2>1. Len(h) >= n /\ ip \in DOMAIN history
    BY <1>1, <1>2, <1>4
  <2>2. ASSUME NEW i \in 0 .. n - 1 PROVE h[Len(h) - i] = o
    <3>1. history'[ip][Len(h) + 1 - (i + 1)] = o
      BY <1>2, <2>1
    <3>2. Len(h) + 1 - (i + 1) = Len(h) - i /\ Len(h) - i \in 1 .. Len(h)
      BY <1>1, <2>1
    <3> QED BY <1>1, <3>1, <3>2
  <2> QED BY <1>1, <2>1, <2>2 DEF LastOutcomes
<1> QED BY <1>3, <1>4

LEMMA RunsStep ==
  TypeOK /\ TwoBitFollowsRuns /\ [Next]_vars => TwoBitFollowsRuns'
<1> SUFFICES ASSUME TypeOK, TwoBitFollowsRuns, [Next]_vars
             PROVE  TwoBitFollowsRuns'
  OBVIOUS
<1>1. CASE UNCHANGED state
  BY <1>1 DEF TwoBitFollowsRuns, LastOutcomes, state, tables, traces
<1>2. ASSUME NEW ip \in Addresses, NEW actual \in Outcome,
             RecordBranch(ip, actual)
      PROVE  TwoBitFollowsRuns'
  <2> USE <1>2
  <2>1. DOMAIN history' = DOMAIN history \cup {ip}
    BY RecordBranchType
  <2>2. ASSUME NEW x \in DOMAIN history, x # ip
        PROVE  /\ BHT2'[x] = BHT2[x]
               /\ \A n, o : LastOutcomes(x, n, o)' <=> LastOutcomes(x, n, o)
    BY <2>2, Entries DEF LastOutcomes
  <2>3. /\ BHT2'[ip] = TwoBitAfter(ip, actual)
        /\ TwoBitState(ip) \in 0 .. 3
        /\ ip \in DOMAIN history => TwoBitState(ip) = BHT2[ip]
    BY Entries, UpdateTypes DEF TypeOK, TwoBitState, Lookup
  <2>4. ASSUME NEW o, LastOutcomes(ip, 1, o)' PROVE actual = o
    BY <2>4, RunStep, 0 + 1 = 1
  <2>5. ASSUME NEW o, LastOutcomes(ip, 2, o)'
        PROVE  actual = o /\ ip \in DOMAIN history /\ LastOutcomes(ip, 1, o)
    BY <2>5, RunStep, 1 + 1 = 2
  <2>6. ASSUME NEW o, LastOutcomes(ip, 3, o)'
        PROVE  actual = o /\ ip \in DOMAIN history /\ LastOutcomes(ip, 2, o)
    BY <2>6, RunStep, 2 + 1 = 3
  <2>7. /\ actual = "T" => BHT2'[ip] >= 1
        /\ actual = "N" => BHT2'[ip] <= 2
    BY <2>3 DEF TwoBitAfter
  <2>8. /\ actual = "T" /\ TwoBitState(ip) >= 1 => BHT2'[ip] >= 2
        /\ actual = "N" /\ TwoBitState(ip) <= 2 => BHT2'[ip] <= 1
        /\ actual = "T" /\ TwoBitState(ip) >= 2 => BHT2'[ip] = 3
        /\ actual = "N" /\ TwoBitState(ip) <= 1 => BHT2'[ip] = 0
    BY <2>3 DEF TwoBitAfter
  <2>9. /\ LastOutcomes(ip, 1, "T")' => BHT2'[ip] >= 1
        /\ LastOutcomes(ip, 1, "N")' => BHT2'[ip] <= 2
    BY <2>4, <2>7
  <2>10. /\ LastOutcomes(ip, 2, "T")' => BHT2'[ip] >= 2
         /\ LastOutcomes(ip, 2, "N")' => BHT2'[ip] <= 1
    BY <2>3, <2>5, <2>8 DEF TwoBitFollowsRuns
  <2>11. /\ LastOutcomes(ip, 3, "T")' => BHT2'[ip] = 3
         /\ LastOutcomes(ip, 3, "N")' => BHT2'[ip] = 0
    BY <2>3, <2>6, <2>8 DEF TwoBitFollowsRuns
  <2> QED BY <2>1, <2>2, <2>9, <2>10, <2>11 DEF TwoBitFollowsRuns
<1> QED BY <1>1, <1>2, StepCases

\* The hysteresis of the 2-bit counter: one outcome moves it off the far end,
\* two equal outcomes in a row retrain it, three saturate it.
THEOREM TwoBitRuns == Spec => []TwoBitFollowsRuns
<1>1. Init => TwoBitFollowsRuns
  BY EmptyMapIsMap DEF Init, TwoBitFollowsRuns
<1> QED BY <1>1, TypeCorrect, RunsStep, PTL DEF Spec
-----------------------------------------------------------------------------
\* The 2-bit counter leans towards the last outcome, which BHT remembers.
LEMMA TablesStep ==
  TypeOK /\ TablesFollowTrace /\ [Next]_vars => TablesFollowTrace'
<1> SUFFICES ASSUME TypeOK, TablesFollowTrace, [Next]_vars
             PROVE  TablesFollowTrace'
  OBVIOUS
<1>1. CASE UNCHANGED state
  BY <1>1 DEF TablesFollowTrace, Grip, state, tables, traces
<1>2. ASSUME NEW ip \in Addresses, NEW actual \in Outcome,
             RecordBranch(ip, actual)
      PROVE  TablesFollowTrace'
  <2> USE <1>2
  <2>1. DOMAIN history' = DOMAIN history \cup {ip}
    BY RecordBranchType
  <2>2. ASSUME NEW x \in DOMAIN history, x # ip
        PROVE  BHT'[x] = history'[x][Len(history'[x])] /\ Grip(x)' >= 1
    BY <2>2, Entries DEF TablesFollowTrace, Grip
  <2>3. BHT'[ip] = history'[ip][Len(history'[ip])]
    BY Entries, Trace
  <2>4. Grip(ip)' >= 1
    <3>1. BHT'[ip] = actual /\ BHT2'[ip] = TwoBitAfter(ip, actual)
      BY Entries
    <3>2. TwoBitState(ip) \in 0 .. 3
      BY UpdateTypes
    <3> QED BY <3>1, <3>2 DEF Grip, TwoBitAfter, Outcome
  <2> QED BY <2>1, <2>2, <2>3, <2>4 DEF TablesFollowTrace
<1> QED BY <1>1, <1>2, StepCases

\* Every table entry of a branch agrees with the branch's trace.
THEOREM TablesAgree == Spec => []TablesFollowTrace
<1>1. Init => TablesFollowTrace
  BY EmptyMapIsMap DEF Init, TablesFollowTrace
<1> QED BY <1>1, TypeCorrect, TablesStep, PTL DEF Spec
-----------------------------------------------------------------------------
\* The recorded execution is a new call, the latest of its branch.
LEMMA CallsStep ==
  ASSUME TypeOK, NEW ip \in Addresses, NEW actual \in Outcome,
         RecordBranch(ip, actual)
  PROVE  LET new == <<ip, Len(Lookup(history, ip, <<>>)) + 1>>
         IN  Calls' = Calls \cup {new} /\ new \notin Calls
<1> DEFINE h == Lookup(history, ip, <<>>)
           l == Lengths(history)
<1>1. history \in [DOMAIN history -> Seq(Outcome)]
  BY DEF TypeOK, IsMap
<1>2. history' = Put(history, ip, Append(h, actual))
  BY DEF RecordBranch
<1>3. /\ Lengths(history') = Put(l, ip, Lookup(l, ip, 0) + 1)
      /\ l \in [DOMAIN l -> Nat]
  <2>1. Lengths(Put(history, ip, Append(h, actual)))
           = Put(l, ip, Lookup(l, ip, 0) + 1)
    BY <1>1, LengthsAppend
  <2>2. l \in [DOMAIN history -> Nat] /\ DOMAIN l = DOMAIN history
    BY <1>1 DEF Lengths
  <2> QED BY <1>2, <2>1, <2>2
<1>4. Lookup(l, ip, 0) = Len(h)
  BY DEF Lookup, Lengths
<1>5. /\ Units(Lengths(history')) = Units(l) \cup {<<ip, Len(h) + 1>>}
      /\ <<ip, Len(h) + 1>> \notin Units(l)
  BY <1>3, <1>4, UnitsNext
<1> QED BY <1>5 DEF Calls

\* An earlier call is a change of direction after the step iff it was before.
LEMMA OldFlips ==
  ASSUME TypeOK, NEW ip \in Addresses, NEW actual \in Outcome,
         RecordBranch(ip, actual), NEW c \in Calls
  PROVE  Flipped(c[1], c[2])' <=> Flipped(c[1], c[2])
<1>1. PICK x, i : c = <<x, i>>
  BY UnitsMember DEF Calls
<1>2. x \in DOMAIN history /\ i \in 1 .. Len(history[x])
  BY <1>1, UnitsPair DEF Calls, Lengths
<1>3. \A j \in 1 .. Len(history[x]) : history'[x][j] = history[x][j]
  BY <1>2, Entries, Trace
<1>4. Len(history[x]) \in Nat
  BY <1>2 DEF TypeOK, IsMap
<1>5. i > 1 => i - 1 \in 1 .. Len(history[x])
  BY <1>2, <1>4
<1>6. Flipped(x, i)' <=> Flipped(x, i)
  BY <1>2, <1>3, <1>5 DEF Flipped
<1> QED BY <1>1, <1>6

\* The recorded execution changes direction iff the 1-bit predictor is wrong.
LEMMA NewFlip ==
  ASSUME TypeOK, TablesFollowTrace, NEW ip \in Addresses,
         NEW actual \in Outcome, RecordBranch(ip, actual),
         NEW i, i = Len(Lookup(history, ip, <<>>)) + 1
  PROVE  Flipped(ip, i)' <=> OneBitPrediction(ip, actual) # actual
<1> DEFINE h == Lookup(history, ip, <<>>)
<1> HIDE DEF h
<1>1. /\ Len(h) \in Nat /\ i = Len(h) + 1
      /\ ip \in DOMAIN history <=> Len(h) > 0
      /\ ip \in DOMAIN history => h = history[ip]
      /\ history'[ip][i] = actual
      /\ \A j \in 1 .. Len(h) : history'[ip][j] = h[j]
  BY Trace DEF h
<1>2. CASE ip \in DOMAIN history
  <2>1. OneBitPrediction(ip, actual) = h[Len(h)]
    BY <1>1, <1>2 DEF OneBitPrediction, Lookup, TablesFollowTrace, TypeOK
  <2>2. i > 1 /\ i - 1 = Len(h) /\ i - 1 \in 1 .. Len(h)
    BY <1>1, <1>2
  <2>3. history'[ip][i - 1] = h[Len(h)]
    BY <1>1, <2>2
  <2> QED BY <1>1, <2>1, <2>2, <2>3 DEF Flipped
<1>3. CASE ip \notin DOMAIN history
  <2>1. OneBitPrediction(ip, actual) = actual
    BY <1>3 DEF OneBitPrediction, Lookup, TypeOK
  <2>2. i = 1
    BY <1>1, <1>3
  <2> QED BY <2>1, <2>2 DEF Flipped
<1> QED BY <1>2, <1>3

\* One more misprediction of the 1-bit predictor is one more flip.
FlipsCounted == IsFiniteSet(Calls) /\ OneBitMissesAreFlips

LEMMA FlipsStep ==
  TypeOK /\ TablesFollowTrace /\ FlipsCounted /\ [Next]_vars => FlipsCounted'
<1> SUFFICES ASSUME TypeOK, TablesFollowTrace, FlipsCounted, [Next]_vars
             PROVE  FlipsCounted'
  OBVIOUS
<1>1. CASE UNCHANGED state
  BY <1>1 DEF FlipsCounted, OneBitMissesAreFlips, Mispred1, Flips, Calls,
              Flipped, state, counts, traces
<1>2. ASSUME NEW ip \in Addresses, NEW actual \in Outcome,
             RecordBranch(ip, actual)
      PROVE  FlipsCounted'
  <2> USE <1>2
  <2> PICK i : i = Len(Lookup(history, ip, <<>>)) + 1
    OBVIOUS
  <2> DEFINE wrong == OneBitPrediction(ip, actual) # actual
  <2> HIDE DEF wrong
  <2>1. Calls' = Calls \cup {<<ip, i>>} /\ <<ip, i>> \notin Calls
    BY CallsStep
  <2>2. IsFiniteSet(Calls')
    BY <2>1, FS_AddElement DEF FlipsCounted
  <2>3. Flipped(ip, i)' <=> wrong
    BY NewFlip DEF wrong
  <2>4. Flips' = IF wrong THEN Flips \cup {<<ip, i>>} ELSE Flips
    <3>1. Flips' = {c \in Calls' : Flipped(c[1], c[2])'}
      BY DEF Flips
    <3>2. \A c \in Calls : Flipped(c[1], c[2])' <=> Flipped(c[1], c[2])
      BY OldFlips
    <3>3. Flipped(<<ip, i>>[1], <<ip, i>>[2])' <=> wrong
      BY <2>3
    <3> QED BY <2>1, <3>1, <3>2, <3>3 DEF Flips
  <2>5. IsFiniteSet(Flips) /\ <<ip, i>> \notin Flips
    BY <2>1, FS_Subset DEF Flips, FlipsCounted
  <2>6. Cardinality(Flips') = Cardinality(Flips) + (IF wrong THEN 1 ELSE 0)
    <3>1. CASE wrong
      <4>1. Cardinality(Flips \cup {<<ip, i>>}) = Cardinality(Flips) + 1
        BY <2>5, FS_AddElement
      <4> QED BY <2>4, <3>1, <4>1
    <3>2. CASE ~wrong
      <4>1. Cardinality(Flips) \in Nat
        BY <2>5, FS_CardinalityType
      <4> QED BY <2>4, <3>2, <4>1
    <3> QED BY <3>1, <3>2
  <2>7. Mispred1' = Mispred1 + (IF wrong THEN 1 ELSE 0)
    BY DEF RecordBranch, Mispred1, Same, TypeOK, wrong
  <2> QED BY <2>2, <2>6, <2>7 DEF FlipsCounted, OneBitMissesAreFlips
<1> QED BY <1>1, <1>2, StepCases

\* The 1-bit predictor of an unbounded table is wrong exactly when a branch
\* changes direction, whatever the program.
THEOREM OneBitMisses == Spec => []OneBitMissesAreFlips
<1>1. Init => FlipsCounted
  <2> SUFFICES ASSUME Init PROVE FlipsCounted
    OBVIOUS
  <2>1. Lengths(history) = EmptyMap
    BY DEF Init, Lengths, EmptyMap
  <2>2. Calls = {}
    BY <2>1 DEF Calls, Units, EmptyMap
  <2>3. Flips = {}
    BY <2>2 DEF Flips
  <2> QED BY <2>2, <2>3, FS_EmptySet
          DEF Init, FlipsCounted, OneBitMissesAreFlips, Mispred1
<1>2. FlipsCounted => OneBitMissesAreFlips
  BY DEF FlipsCounted
<1> QED BY <1>1, <1>2, TypeCorrect, TablesAgree, FlipsStep, PTL DEF Spec
-----------------------------------------------------------------------------
\* A misprediction of the hybrid is charged to one branch, once.
MissesCounted == IsFiniteSet(Units(mispredBranch)) /\ MissesAttributed

LEMMA MissesStep == TypeOK /\ MissesCounted /\ [Next]_vars => MissesCounted'
<1> SUFFICES ASSUME TypeOK, MissesCounted, [Next]_vars PROVE MissesCounted'
  OBVIOUS
<1>1. CASE UNCHANGED state
  BY <1>1 DEF MissesCounted, MissesAttributed, MispredH, state, counts, traces
<1>2. ASSUME NEW ip \in Addresses, NEW actual \in Outcome,
             RecordBranch(ip, actual)
      PROVE  MissesCounted'
  <2> USE <1>2
  <2> DEFINE c == Lookup(mispredBranch, ip, 0)
  <2>1. CASE HybridPrediction(ip, actual) # actual
    <3>1. MispredH' = MispredH + 1
      BY <2>1 DEF RecordBranch, MispredH, Same, TypeOK
    <3>2. mispredBranch' = Put(mispredBranch, ip, c + 1)
      BY <2>1 DEF RecordBranch, MispredBranchAfter
    <3>3. mispredBranch \in [DOMAIN mispredBranch -> Nat]
      BY DEF TypeOK, IsMap
    <3>4. /\ Units(mispredBranch') = Units(mispredBranch) \cup {<<ip, c + 1>>}
          /\ <<ip, c + 1>> \notin Units(mispredBranch)
      BY <3>2, <3>3, UnitsNext
    <3>5. /\ IsFiniteSet(Units(mispredBranch'))
          /\ Cardinality(Units(mispredBranch'))
               = Cardinality(Units(mispredBranch)) + 1
      BY <3>4, FS_AddElement DEF MissesCounted
    <3> QED BY <3>1, <3>5 DEF MissesCounted, MissesAttributed
  <2>2. CASE HybridPrediction(ip, actual) = actual
    <3>1. MispredH' = MispredH
      BY <2>2 DEF RecordBranch, MispredH, Same, TypeOK
    <3>2. mispredBranch' = mispredBranch
      BY <2>2 DEF RecordBranch, MispredBranchAfter
    <3> QED BY <3>1, <3>2 DEF MissesCounted, MissesAttributed
  <2> QED BY <2>1, <2>2
<1> QED BY <1>1, <1>2, StepCases

\* The per-branch list that Fini writes adds up to the total that it writes.
THEOREM MissesAddUp == Spec => []MissesAttributed
<1>1. Init => MissesCounted
  BY UnitsEmpty DEF Init, MissesCounted, MissesAttributed, MispredH
<1>2. MissesCounted => MissesAttributed
  BY DEF MissesCounted
<1> QED BY <1>1, <1>2, TypeCorrect, MissesStep, PTL DEF Spec
-----------------------------------------------------------------------------
(***************************************************************************)
(* The hybrid is competitive.  For one execution, three times the hybrid's *)
(* misprediction plus what the branch adds to its reserve is at most four  *)
(* times the misprediction of the predictor it is compared with, plus five *)
(* for a branch that is new (1-bit only).                                  *)
(***************************************************************************)
Wrong(prediction, actual) == 1 - Same(prediction, actual)

\* Every reserve is a count, before and after a step.
LEMMA ReserveTypes ==
  ASSUME NEW x
  PROVE  /\ Reserve1(x) \in Nat /\ Reserve2(x) \in Nat
         /\ Reserve1(x)' \in Nat /\ Reserve2(x)' \in Nat
<1>1. LooseGrip(x) \in {0, 1} /\ LooseGrip(x)' \in {0, 1}
  BY DEF LooseGrip
<1> QED BY <1>1 DEF Reserve1, Reserve2

\* The tables of a branch that is known.
LEMMA KnownBranch ==
  ASSUME TypeOK, TablesFollowTrace, NEW ip \in DOMAIN history, NEW actual \in Outcome
  PROVE  /\ BHT[ip] \in Outcome /\ BHT2[ip] \in 0 .. 3 /\ selector[ip] \in 0 .. 3
         /\ BHT[ip] = "T" => BHT2[ip] >= 1
         /\ BHT[ip] = "N" => BHT2[ip] <= 2
         /\ OneBitPrediction(ip, actual) = BHT[ip]
         /\ TwoBitState(ip) = BHT2[ip]
         /\ Lookup(selector, ip, 2) = selector[ip]
         /\ ip \in DOMAIN BHT /\ ip \in DOMAIN BHT2
<1>1. BHT[ip] \in Outcome /\ BHT2[ip] \in 0 .. 3 /\ selector[ip] \in 0 .. 3
  BY DEF TypeOK, IsMap
<1>2. Grip(ip) >= 1
  BY DEF TablesFollowTrace
<1> QED BY <1>1, <1>2
        DEF TypeOK, Grip, OneBitPrediction, TwoBitState, Lookup, Outcome

LEMMA KnownBranchPays ==
  ASSUME TypeOK, TablesFollowTrace, NEW ip \in Addresses, ip \in DOMAIN history,
         NEW actual \in Outcome, RecordBranch(ip, actual)
  PROVE  /\ 3 * Wrong(HybridPrediction(ip, actual), actual)
              + Reserve2(ip)' - Reserve2(ip)
              <= 4 * Wrong(TwoBitPrediction(ip), actual)
         /\ 3 * Wrong(HybridPrediction(ip, actual), actual)
              + Reserve1(ip)' - Reserve1(ip)
              <= 4 * Wrong(OneBitPrediction(ip, actual), actual)
<1>1. /\ BHT'[ip] = actual
      /\ BHT2'[ip] = TwoBitAfter(ip, actual)
      /\ selector'[ip] = SelectorAfter(ip, actual)
  BY Entries
<1>2. /\ BHT[ip] \in Outcome /\ BHT2[ip] \in 0 .. 3 /\ selector[ip] \in 0 .. 3
      /\ BHT[ip] = "T" => BHT2[ip] >= 1
      /\ BHT[ip] = "N" => BHT2[ip] <= 2
      /\ OneBitPrediction(ip, actual) = BHT[ip]
      /\ TwoBitState(ip) = BHT2[ip]
      /\ Lookup(selector, ip, 2) = selector[ip]
      /\ ip \in DOMAIN BHT /\ ip \in DOMAIN BHT2
  BY KnownBranch
<1>3. CASE BHT[ip] = "T" /\ actual = "T"
  BY <1>1, <1>2, <1>3 DEF Wrong, Same, HybridPrediction, TwoBitPrediction,
     TwoBitAfter, SelectorAfter, Disagree, Reserve1, Reserve2, LooseGrip, Grip
<1>4. CASE BHT[ip] = "T" /\ actual = "N"
  BY <1>1, <1>2, <1>4 DEF Wrong, Same, HybridPrediction, TwoBitPrediction,
     TwoBitAfter, SelectorAfter, Disagree, Reserve1, Reserve2, LooseGrip, Grip
<1>5. CASE BHT[ip] = "N" /\ actual = "T"
  BY <1>1, <1>2, <1>5 DEF Wrong, Same, HybridPrediction, TwoBitPrediction,
     TwoBitAfter, SelectorAfter, Disagree, Reserve1, Reserve2, LooseGrip, Grip
<1>6. CASE BHT[ip] = "N" /\ actual = "N"
  BY <1>1, <1>2, <1>6 DEF Wrong, Same, HybridPrediction, TwoBitPrediction,
     TwoBitAfter, SelectorAfter, Disagree, Reserve1, Reserve2, LooseGrip, Grip
<1> QED BY <1>2, <1>3, <1>4, <1>5, <1>6 DEF Outcome

LEMMA NewBranchPays ==
  ASSUME TypeOK, NEW ip \in Addresses, ip \notin DOMAIN history,
         NEW actual \in Outcome, RecordBranch(ip, actual)
  PROVE  /\ 3 * Wrong(HybridPrediction(ip, actual), actual) + Reserve2(ip)'
              <= 4 * Wrong(TwoBitPrediction(ip), actual)
         /\ 3 * Wrong(HybridPrediction(ip, actual), actual) + Reserve1(ip)'
              <= 4 * Wrong(OneBitPrediction(ip, actual), actual) + 5
<1>1. /\ BHT'[ip] = actual
      /\ BHT2'[ip] = TwoBitAfter(ip, actual)
      /\ selector'[ip] = SelectorAfter(ip, actual)
  BY Entries
<1>2. /\ OneBitPrediction(ip, actual) = actual
      /\ TwoBitState(ip) = 2
      /\ Lookup(selector, ip, 2) = 2
      /\ ~Disagree(ip, actual)
  BY DEF TypeOK, OneBitPrediction, TwoBitState, Lookup, Disagree
<1> QED BY <1>1, <1>2 DEF Outcome, Wrong, Same, HybridPrediction,
        TwoBitPrediction, TwoBitAfter, SelectorAfter, Reserve1, Reserve2,
        LooseGrip, Grip

\* RecordBranch changes the reserve of the recorded branch only.
LEMMA ReservesPut ==
  ASSUME TypeOK, NEW ip \in Addresses, NEW actual \in Outcome,
         RecordBranch(ip, actual),
         NEW r1, r1 = Reserve1(ip)', NEW r2, r2 = Reserve2(ip)'
  PROVE  /\ Reserves1' = Put(Reserves1, ip, r1)
         /\ Reserves2' = Put(Reserves2, ip, r2)
<1>1. DOMAIN history' = DOMAIN history \cup {ip}
  BY RecordBranchType
<1>2. ASSUME NEW x \in DOMAIN history, x # ip
      PROVE  Reserve1(x)' = Reserve1(x) /\ Reserve2(x)' = Reserve2(x)
  BY <1>2, Entries DEF Reserve1, Reserve2, LooseGrip, Grip
<1>3. /\ Reserves1' = [x \in DOMAIN history \cup {ip} |-> Reserve1(x)']
      /\ Reserves2' = [x \in DOMAIN history \cup {ip} |-> Reserve2(x)']
  BY <1>1 DEF Reserves1, Reserves2
<1>4. Reserves1' = Put(Reserves1, ip, r1)
  BY <1>2, <1>3 DEF Put, Reserves1
<1>5. Reserves2' = Put(Reserves2, ip, r2)
  BY <1>2, <1>3 DEF Put, Reserves2
<1> QED BY <1>4, <1>5

\* What has been paid for so far.
Payments ==
  /\ IsFiniteSet(DOMAIN history)
  /\ IsFiniteSet(Units(Reserves1))
  /\ IsFiniteSet(Units(Reserves2))
  /\ ReservesCovered

LEMMA PaymentsStep ==
  TypeOK /\ TablesFollowTrace /\ Payments /\ [Next]_vars => Payments'
<1> SUFFICES ASSUME TypeOK, TablesFollowTrace, Payments, [Next]_vars
             PROVE  Payments'
  OBVIOUS
<1>1. CASE UNCHANGED state
  BY <1>1 DEF Payments, ReservesCovered, Reserves1, Reserves2, Reserve1,
     Reserve2, LooseGrip, Grip, Mispred1, Mispred2, MispredH, state, tables,
     counts, traces
<1>2. ASSUME NEW ip \in Addresses, NEW actual \in Outcome,
             RecordBranch(ip, actual)
      PROVE  Payments'
  <2> USE <1>2
  <2> PICK r1, r2 : r1 = Reserve1(ip)' /\ r2 = Reserve2(ip)'
    OBVIOUS
  <2> DEFINE w1 == Wrong(OneBitPrediction(ip, actual), actual)
             w2 == Wrong(TwoBitPrediction(ip), actual)
             wH == Wrong(HybridPrediction(ip, actual), actual)
             o1 == Lookup(Reserves1, ip, 0)
             o2 == Lookup(Reserves2, ip, 0)
             new == IF ip \in DOMAIN history THEN 0 ELSE 1
  <2>1. w1 \in {0, 1} /\ w2 \in {0, 1} /\ wH \in {0, 1}
    BY DEF Wrong, Same
  <2>2. r1 \in Nat /\ r2 \in Nat /\ o1 \in Nat /\ o2 \in Nat
    BY ReserveTypes DEF Lookup, Reserves1, Reserves2
  <2>3. 3 * wH + r2 - o2 <= 4 * w2
    <3>1. CASE ip \in DOMAIN history
      BY <3>1, KnownBranchPays DEF Lookup, Reserves2
    <3>2. CASE ip \notin DOMAIN history
      BY <2>1, <2>2, <3>2, NewBranchPays DEF Lookup, Reserves2
    <3> QED BY <3>1, <3>2
  <2>4. 3 * wH + r1 - o1 <= 4 * w1 + 5 * new
    <3>1. CASE ip \in DOMAIN history
      <4>1. 3 * wH + r1 - o1 <= 4 * w1
        BY <3>1, KnownBranchPays DEF Lookup, Reserves1
      <4> QED BY <2>1, <3>1, <4>1
    <3>2. CASE ip \notin DOMAIN history
      BY <2>1, <2>2, <3>2, NewBranchPays DEF Lookup, Reserves1
    <3> QED BY <3>1, <3>2
  <2>5. /\ Mispred1' = Mispred1 + w1 /\ Mispred2' = Mispred2 + w2
        /\ MispredH' = MispredH + wH
        /\ Mispred1 \in Int /\ Mispred2 \in Int /\ MispredH \in Int
    BY DEF RecordBranch, Mispred1, Mispred2, MispredH, Wrong, Same, TypeOK
  <2>6. /\ IsFiniteSet(Units(Reserves1'))
        /\ Cardinality(Units(Reserves1'))
             = Cardinality(Units(Reserves1)) - o1 + r1
    <3>1. Reserves1 \in [DOMAIN Reserves1 -> Nat]
      BY ReserveTypes DEF Reserves1
    <3> QED BY <2>2, <3>1, ReservesPut, UnitsPut DEF Payments
  <2>7. /\ IsFiniteSet(Units(Reserves2'))
        /\ Cardinality(Units(Reserves2'))
             = Cardinality(Units(Reserves2)) - o2 + r2
    <3>1. Reserves2 \in [DOMAIN Reserves2 -> Nat]
      BY ReserveTypes DEF Reserves2
    <3> QED BY <2>2, <3>1, ReservesPut, UnitsPut DEF Payments
  <2>8. /\ IsFiniteSet(DOMAIN history')
        /\ Cardinality(DOMAIN history') = Cardinality(DOMAIN history) + new
    <3>1. DOMAIN history' = DOMAIN history \cup {ip}
      BY RecordBranchType
    <3>2. IsFiniteSet(DOMAIN history) /\ Cardinality(DOMAIN history) \in Nat
      BY FS_CardinalityType DEF Payments
    <3>3. CASE ip \in DOMAIN history
      BY <3>1, <3>2, <3>3
    <3>4. CASE ip \notin DOMAIN history
      BY <3>1, <3>2, <3>4, FS_AddElement
    <3> QED BY <3>3, <3>4
  <2>9. /\ Cardinality(Units(Reserves1)) \in Nat
        /\ Cardinality(Units(Reserves2)) \in Nat
        /\ Cardinality(DOMAIN history) \in Nat
        /\ new \in {0, 1}
    BY FS_CardinalityType DEF Payments
  <2> HIDE DEF w1, w2, wH, o1, o2, new
  <2>10. 3 * MispredH' + Cardinality(Units(Reserves2')) <= 4 * Mispred2'
    BY <2>1, <2>2, <2>3, <2>5, <2>7, <2>9 DEF Payments, ReservesCovered
  <2>11. 3 * MispredH' + Cardinality(Units(Reserves1'))
           <= 4 * Mispred1' + 5 * Cardinality(DOMAIN history')
    BY <2>1, <2>2, <2>4, <2>5, <2>6, <2>8, <2>9 DEF Payments, ReservesCovered
  <2> QED BY <2>6, <2>7, <2>8, <2>10, <2>11 DEF Payments, ReservesCovered
<1> QED BY <1>1, <1>2, StepCases

LEMMA PaymentsInit == Init => Payments
<1> SUFFICES ASSUME Init PROVE Payments
  OBVIOUS
<1>1. Reserves1 = EmptyMap /\ Reserves2 = EmptyMap
  BY DEF Init, Reserves1, Reserves2, EmptyMap
<1>2. DOMAIN history = {}
  BY DEF Init, EmptyMap
<1>3. IsFiniteSet(DOMAIN history) /\ Cardinality(DOMAIN history) = 0
  BY <1>2, FS_EmptySet
<1> QED BY <1>1, <1>3, UnitsEmpty
        DEF Init, Payments, ReservesCovered, Mispred1, Mispred2, MispredH

\* The inductive invariant behind the two bounds.
THEOREM HybridPays == Spec => [](Competitive /\ Payments)
<1>1. TablesFollowTrace /\ Payments => Competitive /\ Payments
  BY DEF Competitive, Payments
<1> QED BY <1>1, TypeCorrect, TablesAgree, PaymentsInit, PaymentsStep, PTL DEF Spec

\* On every program the hybrid makes at most four thirds of the
\* mispredictions of the 2-bit predictor.
THEOREM HybridTwoBit == Spec => []HybridTracksTwoBit
<1>1. TypeOK /\ Payments => HybridTracksTwoBit
  <2> SUFFICES ASSUME TypeOK, Payments PROVE HybridTracksTwoBit
    OBVIOUS
  <2>1. Cardinality(Units(Reserves2)) \in Nat
    BY FS_CardinalityType DEF Payments
  <2>2. MispredH \in Int /\ Mispred2 \in Int
    BY DEF TypeOK, MispredH, Mispred2
  <2> QED BY <2>1, <2>2 DEF Payments, ReservesCovered, HybridTracksTwoBit
<1> QED BY <1>1, TypeCorrect, HybridPays, PTL

\* ... and of the 1-bit predictor, up to the cold start of its branches.
THEOREM HybridOneBit == Spec => []HybridTracksOneBit
<1>1. TypeOK /\ Payments => HybridTracksOneBit
  <2> SUFFICES ASSUME TypeOK, Payments PROVE HybridTracksOneBit
    OBVIOUS
  <2>1. /\ Cardinality(Units(Reserves1)) \in Nat
        /\ Cardinality(DOMAIN history) \in Nat
    BY FS_CardinalityType DEF Payments
  <2>2. MispredH \in Int /\ Mispred1 \in Int
    BY DEF TypeOK, MispredH, Mispred1
  <2> QED BY <2>1, <2>2 DEF Payments, ReservesCovered, HybridTracksOneBit
<1> QED BY <1>1, TypeCorrect, HybridPays, PTL
-----------------------------------------------------------------------------
(***************************************************************************)
(* The two parts of the hybrid are competitive with each other.  A branch  *)
(* whose counter has only just come round to its last outcome (LooseGrip)  *)
(* has one misprediction in hand, in both comparisons.                     *)
(***************************************************************************)
Grips == [ip \in DOMAIN history |-> LooseGrip(ip)]

\* What the changes of direction have been paid with, and what is in hand.
GripsCovered ==
  /\ Mispred2 + Cardinality(Units(Grips))
       <= 2 * Mispred1 + Cardinality(DOMAIN history)
  /\ Mispred1 + Cardinality(Units(Grips)) <= 2 * Mispred2

\* One execution of a known branch, in both comparisons.
LEMMA KnownBranchGrips ==
  ASSUME TypeOK, TablesFollowTrace, NEW ip \in Addresses, ip \in DOMAIN history,
         NEW actual \in Outcome, RecordBranch(ip, actual)
  PROVE  /\ Wrong(TwoBitPrediction(ip), actual) + LooseGrip(ip)' - LooseGrip(ip)
              <= 2 * Wrong(OneBitPrediction(ip, actual), actual)
         /\ Wrong(OneBitPrediction(ip, actual), actual)
              + LooseGrip(ip)' - LooseGrip(ip)
              <= 2 * Wrong(TwoBitPrediction(ip), actual)
<1>1. BHT'[ip] = actual /\ BHT2'[ip] = TwoBitAfter(ip, actual)
  BY Entries
<1>2. /\ BHT[ip] \in Outcome /\ BHT2[ip] \in 0 .. 3
      /\ BHT[ip] = "T" => BHT2[ip] >= 1
      /\ BHT[ip] = "N" => BHT2[ip] <= 2
      /\ OneBitPrediction(ip, actual) = BHT[ip]
      /\ TwoBitState(ip) = BHT2[ip]
  BY KnownBranch
<1>3. CASE BHT[ip] = "T"
  BY <1>1, <1>2, <1>3 DEF Wrong, Same, TwoBitPrediction, TwoBitAfter,
     LooseGrip, Grip, Outcome
<1>4. CASE BHT[ip] = "N"
  BY <1>1, <1>2, <1>4 DEF Wrong, Same, TwoBitPrediction, TwoBitAfter,
     LooseGrip, Grip, Outcome
<1> QED BY <1>2, <1>3, <1>4 DEF Outcome

\* The first execution of a branch leaves its counter firm.
LEMMA NewBranchGrips ==
  ASSUME TypeOK, NEW ip \in Addresses, ip \notin DOMAIN history,
         NEW actual \in Outcome, RecordBranch(ip, actual)
  PROVE  /\ LooseGrip(ip)' = 0
         /\ Wrong(OneBitPrediction(ip, actual), actual) = 0
<1>1. BHT'[ip] = actual /\ BHT2'[ip] = TwoBitAfter(ip, actual)
  BY Entries
<1>2. OneBitPrediction(ip, actual) = actual /\ TwoBitState(ip) = 2
  BY DEF TypeOK, OneBitPrediction, TwoBitState, Lookup
<1> QED BY <1>1, <1>2 DEF Outcome, Wrong, Same, TwoBitAfter, LooseGrip, Grip

\* RecordBranch changes the grip of the recorded branch only.
LEMMA GripsPut ==
  ASSUME TypeOK, NEW ip \in Addresses, NEW actual \in Outcome,
         RecordBranch(ip, actual), NEW g, g = LooseGrip(ip)'
  PROVE  Grips' = Put(Grips, ip, g)
<1>1. DOMAIN history' = DOMAIN history \cup {ip}
  BY RecordBranchType
<1>2. ASSUME NEW x \in DOMAIN history, x # ip
      PROVE  LooseGrip(x)' = LooseGrip(x)
  BY <1>2, Entries DEF LooseGrip, Grip
<1>3. Grips' = [x \in DOMAIN history \cup {ip} |-> LooseGrip(x)']
  BY <1>1 DEF Grips
<1> QED BY <1>2, <1>3 DEF Put, Grips

\* What has been paid so far in the comparison of the parts.
GripPayments ==
  /\ IsFiniteSet(DOMAIN history)
  /\ IsFiniteSet(Units(Grips))
  /\ GripsCovered

LEMMA GripPaymentsStep ==
  TypeOK /\ TablesFollowTrace /\ GripPayments /\ [Next]_vars => GripPayments'
<1> SUFFICES ASSUME TypeOK, TablesFollowTrace, GripPayments, [Next]_vars
             PROVE  GripPayments'
  OBVIOUS
<1>1. CASE UNCHANGED state
  BY <1>1 DEF GripPayments, GripsCovered, Grips, LooseGrip, Grip, Mispred1,
     Mispred2, state, tables, counts, traces
<1>2. ASSUME NEW ip \in Addresses, NEW actual \in Outcome,
             RecordBranch(ip, actual)
      PROVE  GripPayments'
  <2> USE <1>2
  <2> PICK g : g = LooseGrip(ip)'
    OBVIOUS
  <2> DEFINE w1 == Wrong(OneBitPrediction(ip, actual), actual)
             w2 == Wrong(TwoBitPrediction(ip), actual)
             o == Lookup(Grips, ip, 0)
             new == IF ip \in DOMAIN history THEN 0 ELSE 1
  <2>1. w1 \in {0, 1} /\ w2 \in {0, 1}
    BY DEF Wrong, Same
  <2>2. g \in Nat /\ o \in Nat
    BY DEF Lookup, Grips, LooseGrip
  <2>3. w2 + g - o <= 2 * w1 + new /\ w1 + g - o <= 2 * w2
    <3>1. CASE ip \in DOMAIN history
      <4>1. w2 + g - o <= 2 * w1 /\ w1 + g - o <= 2 * w2 /\ new = 0
        BY <3>1, KnownBranchGrips DEF Lookup, Grips
      <4> HIDE DEF w1, w2, o, new
      <4> QED BY <2>1, <2>2, <4>1
    <3>2. CASE ip \notin DOMAIN history
      <4>1. o = 0 /\ new = 1 /\ g = 0 /\ w1 = 0
        BY <3>2, NewBranchGrips DEF Lookup, Grips
      <4> HIDE DEF w1, w2, o, new
      <4> QED BY <2>1, <4>1
    <3> QED BY <3>1, <3>2
  <2>4. /\ Mispred1' = Mispred1 + w1 /\ Mispred2' = Mispred2 + w2
        /\ Mispred1 \in Int /\ Mispred2 \in Int
    BY DEF RecordBranch, Mispred1, Mispred2, Wrong, Same, TypeOK
  <2>5. /\ IsFiniteSet(Units(Grips'))
        /\ Cardinality(Units(Grips')) = Cardinality(Units(Grips)) - o + g
    <3>1. Grips \in [DOMAIN Grips -> Nat]
      BY DEF Grips, LooseGrip
    <3> QED BY <2>2, <3>1, GripsPut, UnitsPut DEF GripPayments
  <2>6. /\ IsFiniteSet(DOMAIN history')
        /\ Cardinality(DOMAIN history') = Cardinality(DOMAIN history) + new
    <3>1. DOMAIN history' = DOMAIN history \cup {ip}
      BY RecordBranchType
    <3>2. IsFiniteSet(DOMAIN history) /\ Cardinality(DOMAIN history) \in Nat
      BY FS_CardinalityType DEF GripPayments
    <3>3. CASE ip \in DOMAIN history
      BY <3>1, <3>2, <3>3
    <3>4. CASE ip \notin DOMAIN history
      BY <3>1, <3>2, <3>4, FS_AddElement
    <3> QED BY <3>3, <3>4
  <2>7. /\ Cardinality(Units(Grips)) \in Nat
        /\ Cardinality(DOMAIN history) \in Nat
        /\ new \in {0, 1}
    BY FS_CardinalityType DEF GripPayments
  <2> HIDE DEF w1, w2, o, new
  <2>8. GripsCovered'
    BY <2>1, <2>2, <2>3, <2>4, <2>5, <2>6, <2>7 DEF GripPayments, GripsCovered
  <2> QED BY <2>5, <2>6, <2>8 DEF GripPayments
<1> QED BY <1>1, <1>2, StepCases

LEMMA GripPaymentsInit == Init => GripPayments
<1> SUFFICES ASSUME Init PROVE GripPayments
  OBVIOUS
<1>1. Grips = EmptyMap
  BY DEF Init, Grips, EmptyMap
<1>2. DOMAIN history = {}
  BY DEF Init, EmptyMap
<1>3. IsFiniteSet(DOMAIN history) /\ Cardinality(DOMAIN history) = 0
  BY <1>2, FS_EmptySet
<1> QED BY <1>1, <1>3, UnitsEmpty
        DEF Init, GripPayments, GripsCovered, Mispred1, Mispred2

\* The two bounds without what is in hand.
LEMMA GripBounds ==
  TypeOK /\ GripPayments => TwoBitTracksOneBit /\ OneBitTracksTwoBit
<1> SUFFICES ASSUME TypeOK, GripPayments
             PROVE  TwoBitTracksOneBit /\ OneBitTracksTwoBit
  OBVIOUS
<1>1. /\ Cardinality(Units(Grips)) \in Nat
      /\ Cardinality(DOMAIN history) \in Nat
  BY FS_CardinalityType DEF GripPayments
<1>2. Mispred1 \in Int /\ Mispred2 \in Int
  BY DEF TypeOK, Mispred1, Mispred2
<1> QED BY <1>1, <1>2
        DEF GripPayments, GripsCovered, TwoBitTracksOneBit, OneBitTracksTwoBit

\* On every program the 2-bit predictor makes at most twice the mispredictions
\* of the 1-bit predictor, and one more for each branch.
THEOREM TwoBitOneBit == Spec => []TwoBitTracksOneBit
BY TypeCorrect, TablesAgree, GripPaymentsInit, GripPaymentsStep, GripBounds,
   PTL DEF Spec

\* ... and the 1-bit predictor at most twice those of the 2-bit predictor.
THEOREM OneBitTwoBit == Spec => []OneBitTracksTwoBit
BY TypeCorrect, TablesAgree, GripPaymentsInit, GripPaymentsStep, GripBounds,
   PTL DEF Spec
-----------------------------------------------------------------------------
(***************************************************************************)
(* The tool implements BranchTool: the totals that RecordBranch counts are *)
(* those of the trace, and the watched range is that of the main image.    *)
(***************************************************************************)
Totals ==
  /\ IsFiniteSet(Cells(history))
  /\ total = Cardinality(Cells(history))
  /\ taken = Cardinality(CellsWith(history, "T"))
  /\ nottaken = Cardinality(CellsWith(history, "N"))

RangeFollows ==
  IF MainImage \in loaded
    THEN low = MainImage.low /\ high = MainImage.high
    ELSE low = 0 /\ high = 0

LEMMA TotalsStep == TypeOK /\ Totals /\ [Next]_vars => Totals'
<1> SUFFICES ASSUME TypeOK, Totals, [Next]_vars PROVE Totals'
  OBVIOUS
<1>1. CASE UNCHANGED state
  BY <1>1 DEF Totals, state, counts, traces
<1>2. ASSUME NEW ip \in Addresses, NEW actual \in Outcome,
             RecordBranch(ip, actual)
      PROVE  Totals'
  <2> DEFINE n == Put(history, ip, Append(Lookup(history, ip, <<>>), actual))
  <2>1. history \in [DOMAIN history -> Seq(Outcome)]
    BY DEF TypeOK, IsMap
  <2>2. /\ history' = n
        /\ total' = total + 1
        /\ taken' = taken + (IF actual = "T" THEN 1 ELSE 0)
        /\ nottaken' = nottaken + (IF actual = "N" THEN 1 ELSE 0)
    BY <1>2 DEF RecordBranch, Same
  <2>3. ASSUME NEW o
        PROVE  /\ IsFiniteSet(Cells(n))
               /\ Cardinality(Cells(n)) = Cardinality(Cells(history)) + 1
               /\ Cardinality(CellsWith(n, o))
                    = Cardinality(CellsWith(history, o))
                        + (IF actual = o THEN 1 ELSE 0)
    <3>1. IsFiniteSet(Cells(history))
      BY DEF Totals
    <3>2. n = PushedBack(history, ip, actual)
      BY DEF PushedBack
    <3> HIDE DEF n
    <3> QED BY <2>1, <3>1, <3>2, CellsCount, Z3
  <2> HIDE DEF n
  <2> QED BY <2>2, <2>3 DEF Totals
<1> QED BY <1>1, <1>2, StepCases

\* There is one main executable, whatever the order in which images load.
\* What the tool counts is what its trace has.
LEMMA TotalsHold == Spec => []Totals
<1>1. Init => Totals
  BY CellsEmpty DEF Init, Totals
<1> QED BY <1>1, TypeCorrect, TotalsStep, PTL DEF Spec

LEMMA MainImageIsMain ==
  /\ MainImage \in Images /\ MainImage.main
  /\ \A img \in Images : img.main => img = MainImage
BY ImagesAssumption DEF MainImage

LEMMA RangeStep == RangeFollows /\ [Next]_vars => RangeFollows'
<1> SUFFICES ASSUME RangeFollows, [Next]_vars PROVE RangeFollows'
  OBVIOUS
<1>1. CASE UNCHANGED <<loaded, low, high>>
  BY <1>1 DEF RangeFollows
<1>2. ASSUME NEW img \in Images, Image(img) PROVE RangeFollows'
  <2>1. loaded' = loaded \cup {img}
    BY <1>2 DEF Image
  <2>2. CASE img.main
    <3>1. low' = img.low /\ high' = img.high /\ img = MainImage
      BY <1>2, <2>2, MainImageIsMain DEF Image, Watch
    <3> QED BY <2>1, <3>1 DEF RangeFollows
  <2>3. CASE ~img.main
    <3>1. UNCHANGED <<low, high>> /\ img # MainImage
      BY <1>2, <2>3, MainImageIsMain DEF Image, Watch, range
    <3> QED BY <2>1, <3>1 DEF RangeFollows
  <2> QED BY <2>2, <2>3
<1>3. ASSUME NEW ip \in Addresses, NEW actual \in Outcome,
             ExecuteBranch(ip, actual)
      PROVE  UNCHANGED <<loaded, low, high>>
  BY <1>3 DEF ExecuteBranch, IgnoreBranch, RecordBranch, vars, range
<1>4. ASSUME NEW opened \in BOOLEAN, Fini(opened)
      PROVE  UNCHANGED <<loaded, low, high>>
  BY <1>4 DEF Fini, range
<1>5. CASE UNCHANGED vars
  BY <1>1, <1>5 DEF vars, range
<1> QED BY <1>1, <1>2, <1>3, <1>4, <1>5 DEF Next

\* The operators of the abstract specification are those of this one.
LEMMA ToolOperators ==
  /\ Tool!EmptyMap = EmptyMap
  /\ \A m, k, v : Tool!Put(m, k, v) = Put(m, k, v)
  /\ \A m, k, d : Tool!Lookup(m, k, d) = Lookup(m, k, d)
  /\ Tool!Executions = Cells(history)
  /\ \A o : Tool!With(o) = CellsWith(history, o)
  /\ Tool!Mispredictions = Units(mispredBranch)
  /\ \A S : Tool!Cardinality(S) = Cardinality(S)
<1>1. \A m : Tool!Units(m) = Units(m) /\ Tool!Lengths(m) = Lengths(m)
  BY DEF Tool!Units, Units, Tool!Lengths, Lengths
<1>2. Tool!Executions = Cells(history) /\ Tool!Mispredictions = Units(mispredBranch)
  BY <1>1 DEF Tool!Executions, Cells, Tool!Mispredictions
<1>3. \A o : Tool!With(o) = CellsWith(history, o)
  BY <1>2 DEF Tool!With, CellsWith
<1>4. /\ Tool!EmptyMap = EmptyMap
      /\ \A m, k, v : Tool!Put(m, k, v) = Put(m, k, v)
      /\ \A m, k, d : Tool!Lookup(m, k, d) = Lookup(m, k, d)
  BY DEF Tool!EmptyMap, EmptyMap, Tool!Put, Put, Tool!Lookup, Lookup
<1>5. ASSUME NEW S PROVE Tool!Cardinality(S) = Cardinality(S)
  BY DEF Tool!Cardinality, Cardinality
<1> QED BY <1>2, <1>3, <1>4, <1>5

\* A recorded branch is an observation of a branch of the main executable.
LEMMA ObserveStep ==
  ASSUME TypeOK, RangeFollows, NEW ip \in Addresses, NEW actual \in Outcome,
         Running, RecordBranch(ip, actual)
  PROVE  Tool!Next
<1>1. ip \in {a \in Addresses : InImage(a, MainImage)}
  <2>1. low <= ip /\ ip <= high
    BY DEF RecordBranch, Watched
  <2>2. MainImage \in loaded
    BY <2>1, ImagesAssumption DEF RangeFollows, InImage
  <2> QED BY <2>1, <2>2 DEF RangeFollows, InImage
<1>2. actual \in Tool!Outcome
  BY DEF Outcome, Tool!Outcome
<1>3. history' = Tool!Put(history, ip, Append(Tool!Lookup(history, ip, <<>>), actual))
  BY ToolOperators DEF RecordBranch
<1>4. \/ mispredBranch' = mispredBranch
      \/ mispredBranch' = Tool!Put(mispredBranch, ip, Tool!Lookup(mispredBranch, ip, 0) + 1)
  BY ToolOperators DEF RecordBranch, MispredBranchAfter
<1>5. UNCHANGED console
  BY DEF RecordBranch, output
<1>6. Tool!Observe(ip, actual)
  BY <1>3, <1>4, <1>5 DEF Tool!Observe, Tool!NoReport, NoReport, Running
<1> QED BY <1>1, <1>2, <1>6 DEF Tool!Next

\* Fini prints the totals of the trace.
LEMMA ExitStep ==
  ASSUME TypeOK, Totals, MissesCounted, NEW opened \in BOOLEAN, Fini(opened)
  PROVE  Tool!Next
<1>1. /\ Running /\ UNCHANGED <<history, mispredBranch>>
      /\ console'.total = total /\ console'.taken = taken
      /\ console'.nottaken = nottaken /\ console'.mispredH = MispredH
  BY DEF Fini, traces, MispredH
<1>2. ~Running'
  <2>1. total \in Nat
    BY DEF TypeOK
  <2>2. console'.total # -1
    BY <1>1, <2>1
  <2> QED BY <2>2 DEF Running, NoReport
<1>3. [total |-> console.total, taken |-> console.taken,
       nottaken |-> console.nottaken, mispred |-> console.mispredH]'
        = [total |-> total, taken |-> taken, nottaken |-> nottaken,
           mispred |-> MispredH]
  BY <1>1
<1>4. /\ total = Tool!Cardinality(Tool!Executions)
      /\ taken = Tool!Cardinality(Tool!With("T"))
      /\ nottaken = Tool!Cardinality(Tool!With("N"))
      /\ MispredH = Tool!Cardinality(Tool!Mispredictions)
  BY ToolOperators DEF Totals, MissesCounted, MissesAttributed
<1>5. Tool!Exit
  BY <1>1, <1>2, <1>3, <1>4 DEF Tool!Exit, Tool!NoReport, NoReport, Running
<1> QED BY <1>5 DEF Tool!Next

LEMMA ToolStep ==
  ASSUME TypeOK, Totals, MissesCounted, RangeFollows, [Next]_vars
  PROVE  [Tool!Next]_(Tool!vars)
<1>1. CASE UNCHANGED <<history, mispredBranch, console>>
  BY <1>1 DEF Tool!vars, Running
<1>2. ASSUME NEW img \in Images, Image(img)
      PROVE  UNCHANGED <<history, mispredBranch, console>>
  BY <1>2 DEF Image, traces, output
<1>3. ASSUME NEW ip \in Addresses, NEW actual \in Outcome,
             ExecuteBranch(ip, actual)
      PROVE  Tool!Next \/ UNCHANGED <<history, mispredBranch, console>>
  <2>1. Running /\ (IgnoreBranch(ip) \/ RecordBranch(ip, actual))
    BY <1>3 DEF ExecuteBranch
  <2>2. CASE IgnoreBranch(ip)
    BY <2>2 DEF IgnoreBranch, vars, traces, output
  <2>3. CASE RecordBranch(ip, actual)
    BY <2>1, <2>3, ObserveStep
  <2> QED BY <2>1, <2>2, <2>3
<1>4. ASSUME NEW opened \in BOOLEAN, Fini(opened) PROVE Tool!Next
  BY <1>4, ExitStep
<1>5. CASE UNCHANGED vars
  BY <1>1, <1>5 DEF vars, traces, output
<1> QED BY <1>1, <1>2, <1>3, <1>4, <1>5 DEF Next

\* The tool is a branch tool: for every program and every order of loading,
\* it observes the branches of the main executable and no others, and its
\* totals at exit are those of what it observed.
THEOREM IsBranchTool == Spec => ImplementsBranchTool
<1>1. Init => Tool!Init
  <2> SUFFICES ASSUME Init PROVE Tool!Init
    OBVIOUS
  <2>1. history = Tool!EmptyMap /\ mispredBranch = Tool!EmptyMap /\ Running
    BY ToolOperators DEF Init, Running
  <2> QED BY <2>1 DEF Tool!Init, Tool!NoReport, NoReport
<1>2. Init => Totals /\ MissesCounted /\ RangeFollows
  BY CellsEmpty, UnitsEmpty
     DEF Init, Totals, MissesCounted, MissesAttributed, RangeFollows, MispredH
<1> QED BY <1>1, <1>2, TypeCorrect, TotalsStep, MissesStep, RangeStep, ToolStep,
           PTL DEF Spec, ImplementsBranchTool, Tool!Spec
=============================================================================
