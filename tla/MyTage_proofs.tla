---------------------------- MODULE MyTage_proofs ----------------------------
(***************************************************************************)
(* Proofs of the invariants of MyTage for every set of images and of       *)
(* branches, all table sizes and every number of executions.               *)
(***************************************************************************)
EXTENDS MyTage, TagePredictor_proofs, FunctionTheorems

\* What RecordBranch changes.
state == <<predictor, counts, traces>>

\* Only RecordBranch touches the predictor, the counts and the traces.
LEMMA StepCases ==
  ASSUME [Next]_vars
  PROVE  \/ \E ip \in Branches, actual \in Outcome : RecordBranch(ip, actual)
         \/ UNCHANGED state
<1>1. CASE UNCHANGED vars
  BY <1>1 DEF vars, state
<1>2. ASSUME NEW img \in Images, Image(img) PROVE UNCHANGED state
  BY <1>2 DEF Image, state
<1>3. ASSUME NEW ip \in Branches, NEW actual \in Outcome,
             ExecuteBranch(ip, actual)
      PROVE  RecordBranch(ip, actual) \/ UNCHANGED state
  BY <1>3 DEF ExecuteBranch, IgnoreBranch, vars, state
<1>4. ASSUME NEW opened \in BOOLEAN, Fini(opened) PROVE UNCHANGED state
  BY <1>4 DEF Fini, state
<1> QED BY <1>1, <1>2, <1>3, <1>4 DEF Next

\* The trace of a branch after one more execution.
LEMMA Trace ==
  ASSUME TypeOK, NEW ip \in Branches, NEW actual \in Outcome,
         RecordBranch(ip, actual)
  PROVE  LET h == Lookup(history, ip, <<>>)
         IN  /\ h \in Seq(Outcome) /\ Len(h) \in Nat
             /\ ip \in DOMAIN history <=> Len(h) > 0
             /\ ip \in DOMAIN history => h = history[ip]
             /\ history'[ip] \in Seq(Outcome) \ {<<>>}
             /\ Len(history'[ip]) = Len(h) + 1
             /\ history'[ip][Len(h) + 1] = actual
             /\ \A i \in 1 .. Len(h) : history'[ip][i] = h[i]
<1> DEFINE h == Lookup(history, ip, <<>>)
<1>1. ip \in DOMAIN history =>
        history[ip] \in Seq(Outcome) /\ history[ip] # <<>> /\ h = history[ip]
  BY DEF TypeOK, IsMap, Lookup
<1>2. ip \notin DOMAIN history => h = <<>>
  BY DEF Lookup
<1>3. history'[ip] = Append(h, actual)
  BY DEF RecordBranch, Put
<1> HIDE DEF h
<1>4. h \in Seq(Outcome) /\ (ip \in DOMAIN history <=> h # <<>>)
  <2>1. <<>> \in Seq(Outcome)
    OBVIOUS
  <2> QED BY <1>1, <1>2, <2>1
<1>5. Len(h) \in Nat /\ (h # <<>> <=> Len(h) > 0)
  BY <1>4
<1>6. /\ Append(h, actual) \in Seq(Outcome)
      /\ Len(Append(h, actual)) = Len(h) + 1
      /\ Append(h, actual)[Len(h) + 1] = actual
      /\ \A i \in 1 .. Len(h) : Append(h, actual)[i] = h[i]
  BY <1>4, <1>5
<1>7. Append(h, actual) # <<>>
  BY <1>5, <1>6
<1> QED BY <1>1, <1>3, <1>4, <1>5, <1>6, <1>7 DEF h

\* What RecordBranch leaves in the base table and in the traces.
LEMMA Entries ==
  ASSUME TypeOK, NEW ip \in Branches, NEW actual \in Outcome,
         RecordBranch(ip, actual)
  PROVE  /\ DOMAIN history' = DOMAIN history \cup {ip}
         /\ DOMAIN T0' = DOMAIN history'
         /\ T0'[ip] = BaseAfter(ip, actual)
         /\ \A x \in DOMAIN history :
              x # ip => T0'[x] = T0[x] /\ history'[x] = history[x]
<1>1. /\ T0' = Put(T0, ip, BaseAfter(ip, actual))
      /\ history' = Put(history, ip, Append(Lookup(history, ip, <<>>), actual))
  BY DEF RecordBranch, Predict
<1>2. DOMAIN T0 = DOMAIN history
  BY DEF TypeOK
<1>3. /\ DOMAIN history' = DOMAIN history \cup {ip}
      /\ \A x \in DOMAIN history : x # ip => history'[x] = history[x]
  BY <1>1 DEF Put
<1>4. /\ DOMAIN T0' = DOMAIN T0 \cup {ip}
      /\ T0'[ip] = BaseAfter(ip, actual)
      /\ \A x \in DOMAIN T0 : x # ip => T0'[x] = T0[x]
  BY <1>1 DEF Put
<1> QED BY <1>2, <1>3, <1>4
-----------------------------------------------------------------------------
LEMMA RecordBranchType ==
  ASSUME TypeOK, NEW ip \in Branches, NEW actual \in Outcome,
         RecordBranch(ip, actual)
  PROVE  TypeOK'
<1>1. PredictorTypeOK'
  BY PredictorStep DEF TypeOK, RecordBranch
<1>2. UNCHANGED <<loaded, low, high>>
  BY DEF RecordBranch, range
<1>3. /\ total' \in Nat /\ taken' \in Nat /\ nottaken' \in Nat
      /\ tagePred' \in Nat /\ tageCorrect' \in Nat
  <2>1. \A a, b : Same(a, b) \in {0, 1}
    BY DEF Same
  <2>2. /\ Same(prediction(ip), actual) \in {0, 1}
        /\ Same("T", actual) \in {0, 1} /\ Same("N", actual) \in {0, 1}
    BY <2>1
  <2>3. ASSUME NEW n \in Nat, NEW d \in {0, 1} PROVE n + d \in Nat
    OBVIOUS
  <2> QED BY <2>2, <2>3 DEF TypeOK, RecordBranch
<1>4. IsMap(history', Branches, Seq(Outcome) \ {<<>>})
  <2>1. \A x \in DOMAIN history' : history'[x] \in Seq(Outcome) \ {<<>>}
    <3>1. history'[ip] \in Seq(Outcome) \ {<<>>}
      BY Trace
    <3>2. \A x \in DOMAIN history : history[x] \in Seq(Outcome) \ {<<>>}
      BY DEF TypeOK, IsMap
    <3>3. /\ DOMAIN history' = DOMAIN history \cup {ip}
          /\ \A x \in DOMAIN history : x # ip => history'[x] = history[x]
      BY Entries
    <3> QED BY <3>1, <3>2, <3>3
  <2>2. DOMAIN history' \subseteq Branches
    BY Entries DEF TypeOK, IsMap
  <2>3. history' = [x \in DOMAIN history' |-> history'[x]]
    BY DEF RecordBranch, Put
  <2> QED BY <2>1, <2>2, <2>3 DEF IsMap
<1>5. /\ IsMap(mispredPerBranch', Branches, Nat)
      /\ DOMAIN mispredPerBranch' \subseteq DOMAIN mispredPerBranch \cup {ip}
  <2> DEFINE n == Lookup(mispredPerBranch, ip, 0) + 1
  <2> HIDE DEF n
  <2>1. IsMap(mispredPerBranch, Branches, Nat)
    BY DEF TypeOK
  <2>2. n \in Nat
    BY <2>1, LookupType DEF n
  <2>3. \/ mispredPerBranch' = Put(mispredPerBranch, ip, n)
        \/ UNCHANGED mispredPerBranch
    BY DEF RecordBranch, MispredAfter, n
  <2> QED BY <2>1, <2>2, <2>3 DEF IsMap, Put
<1> QED BY <1>1, <1>2, <1>3, <1>4, <1>5, Entries DEF TypeOK

LEMMA TypeStep == TypeOK /\ [Next]_vars => TypeOK'
<1> SUFFICES ASSUME TypeOK, [Next]_vars PROVE TypeOK'
  OBVIOUS
<1>1. loaded' \subseteq Images /\ low' \in Nat /\ high' \in Nat
  <2>1. CASE UNCHANGED vars
    BY <2>1 DEF vars, range, TypeOK
  <2>2. ASSUME NEW img \in Images, Image(img)
        PROVE  loaded' \subseteq Images /\ low' \in Nat /\ high' \in Nat
    BY <2>2, ImagesAssumption DEF Image, range, TypeOK
  <2>3. ASSUME NEW ip \in Branches, NEW actual \in Outcome,
               ExecuteBranch(ip, actual)
        PROVE  UNCHANGED <<loaded, low, high>>
    BY <2>3 DEF ExecuteBranch, IgnoreBranch, RecordBranch, vars, range
  <2>4. ASSUME NEW opened \in BOOLEAN, Fini(opened)
        PROVE  UNCHANGED <<loaded, low, high>>
    BY <2>4 DEF Fini, range
  <2> QED BY <2>1, <2>2, <2>3, <2>4 DEF Next, TypeOK
<1>2. CASE UNCHANGED state
  <2>1. PredictorTypeOK'
    BY <1>2, PredictorStutter DEF TypeOK, state
  <2> QED
    BY <1>1, <1>2, <2>1 DEF TypeOK, state, predictor, counts, traces
<1>3. ASSUME NEW ip \in Branches, NEW actual \in Outcome,
             RecordBranch(ip, actual)
      PROVE  TypeOK'
  BY <1>3, RecordBranchType
<1> QED BY <1>2, <1>3, StepCases

\* Type correctness of the tool: the predictor's tables, the counts and the
\* traces; a branch has a base counter exactly when it has a trace.
THEOREM TypeCorrect == Spec => []TypeOK
<1>1. Init => TypeOK
  BY EmptyMapIsMap, PredictorStart DEF Init, TypeOK, PredictorInit
<1> QED BY <1>1, TypeStep, PTL DEF Spec
-----------------------------------------------------------------------------
\* The accounts of the mispredictions, and what makes them inductive.
MissesCounted ==
  /\ MissesAttributed
  /\ IsFiniteSet(Units(mispredPerBranch))

LEMMA MissesStep == TypeOK /\ MissesCounted /\ [Next]_vars => MissesCounted'
<1> SUFFICES ASSUME TypeOK, MissesCounted, [Next]_vars PROVE MissesCounted'
  OBVIOUS
<1>1. CASE UNCHANGED state
  BY <1>1 DEF MissesCounted, MissesAttributed, state, counts, traces
<1>2. ASSUME NEW ip \in Branches, NEW actual \in Outcome,
             RecordBranch(ip, actual)
      PROVE  MissesCounted'
  <2>1. tagePred \in Nat /\ tageCorrect \in Nat
    BY DEF TypeOK
  <2>2. CASE prediction(ip) = actual
    <3>1. /\ mispredPerBranch' = mispredPerBranch
          /\ tagePred' = tagePred + 1 /\ tageCorrect' = tageCorrect + 1
      BY <1>2, <2>2 DEF RecordBranch, MispredAfter, Same
    <3> QED BY <2>1, <3>1 DEF MissesCounted, MissesAttributed
  <2>3. CASE prediction(ip) # actual
    <3> DEFINE c == Lookup(mispredPerBranch, ip, 0)
    <3> HIDE DEF c
    <3>1. /\ mispredPerBranch' = Put(mispredPerBranch, ip, c + 1)
          /\ tagePred' = tagePred + 1 /\ tageCorrect' = tageCorrect
      BY <1>2, <2>1, <2>3 DEF RecordBranch, MispredAfter, Same, c
    <3>2. /\ mispredPerBranch \in [DOMAIN mispredPerBranch -> Nat]
          /\ c \in Nat
      BY LookupType DEF TypeOK, IsMap, c
    <3>3. /\ IsFiniteSet(Units(Put(mispredPerBranch, ip, c + 1)))
          /\ Cardinality(Units(Put(mispredPerBranch, ip, c + 1)))
               = Cardinality(Units(mispredPerBranch)) - c + (c + 1)
      BY <3>2, UnitsPut DEF MissesCounted, c
    <3>4. Cardinality(Units(mispredPerBranch)) \in Nat
      BY FS_CardinalityType DEF MissesCounted
    <3> QED BY <2>1, <3>1, <3>2, <3>3, <3>4 DEF MissesCounted, MissesAttributed
  <2> QED BY <2>2, <2>3
<1> QED BY <1>1, <1>2, StepCases

\* Every misprediction of TAGE is charged to the branch that it was made for.
THEOREM MissesAddUp == Spec => []MissesAttributed
<1>1. Init => MissesCounted
  BY UnitsEmpty DEF Init, MissesCounted, MissesAttributed
<1>2. Spec => []MissesCounted
  BY <1>1, TypeCorrect, MissesStep, PTL DEF Spec
<1>3. MissesCounted => MissesAttributed
  BY DEF MissesCounted
<1> QED BY <1>2, <1>3, PTL
-----------------------------------------------------------------------------
\* A run of equal outcomes that ends at the recorded execution began one
\* execution shorter.
LEMMA RunStep ==
  ASSUME TypeOK, NEW ip \in Branches, NEW actual \in Outcome,
         RecordBranch(ip, actual), NEW n \in Nat, NEW o,
         LastOutcomes(ip, n + 1, o)'
  PROVE  /\ actual = o
         /\ n > 0 => ip \in DOMAIN history /\ LastOutcomes(ip, n, o)
<1> DEFINE h == Lookup(history, ip, <<>>)
<1> HIDE DEF h
<1>1. /\ h \in Seq(Outcome) /\ Len(h) \in Nat
      /\ ip \in DOMAIN history <=> Len(h) > 0
      /\ ip \in DOMAIN history => h = history[ip]
      /\ Len(history'[ip]) = Len(h) + 1
      /\ history'[ip][Len(h) + 1] = actual
      /\ \A i \in 1 .. Len(h) : history'[ip][i] = h[i]
  BY Trace DEF h
<1>2. /\ Len(h) + 1 >= n + 1
      /\ \A i \in 0 .. n : history'[ip][Len(h) + 1 - i] = o
  BY <1>1 DEF LastOutcomes
<1>3. actual = o
  <2>1. 0 \in 0 .. n /\ Len(h) + 1 - 0 = Len(h) + 1
    BY <1>1
  <2> QED BY <1>1, <1>2, <2>1
<1>4. ASSUME n > 0 PROVE ip \in DOMAIN history /\ LastOutcomes(ip, n, o)
  <2>1. Len(h) >= n /\ ip \in DOMAIN history
    BY <1>1, <1>2, <1>4
  <2>2. ASSUME NEW i \in 0 .. n - 1 PROVE h[Len(h) - i] = o
    <3>1. history'[ip][Len(h) + 1 - (i + 1)] = o
      BY <1>2, <2>1
    <3>2. Len(h) + 1 - (i + 1) = Len(h) - i /\ Len(h) - i \in 1 .. Len(h)
      BY <1>1, <2>1
    <3> QED BY <1>1, <3>1, <3>2
  <2> QED BY <1>1, <2>1, <2>2 DEF LastOutcomes
<1> QED BY <1>3, <1>4

LEMMA RunsStep == TypeOK /\ BaseFollowsRuns /\ [Next]_vars => BaseFollowsRuns'
<1> SUFFICES ASSUME TypeOK, BaseFollowsRuns, [Next]_vars PROVE BaseFollowsRuns'
  OBVIOUS
<1>1. CASE UNCHANGED state
  BY <1>1 DEF BaseFollowsRuns, LastOutcomes, state, predictor, traces
<1>2. ASSUME NEW ip \in Branches, NEW actual \in Outcome,
             RecordBranch(ip, actual)
      PROVE  BaseFollowsRuns'
  <2> USE <1>2
  <2> DEFINE base == Lookup(T0, ip, 2)
  <2>1. DOMAIN history' = DOMAIN history \cup {ip}
    BY Entries
  <2>2. ASSUME NEW x \in DOMAIN history, x # ip
        PROVE  /\ T0'[x] = T0[x]
               /\ \A n, o : LastOutcomes(x, n, o)' <=> LastOutcomes(x, n, o)
    BY <2>2, Entries DEF LastOutcomes
  <2>3. base \in 0 .. 3 /\ (ip \in DOMAIN history => base = T0[ip])
    BY LookupType DEF TypeOK, PredictorTypeOK, Lookup
  <2>4. T0'[ip] = Saturate(base + Step(actual = "T"), 0, 3)
    BY Entries DEF BaseAfter
  <2> HIDE DEF base
  <2>5. /\ actual = "T" => T0'[ip] >= 1
        /\ actual = "N" => T0'[ip] <= 2
        /\ actual = "T" /\ base >= 1 => T0'[ip] >= 2
        /\ actual = "N" /\ base <= 2 => T0'[ip] <= 1
        /\ actual = "T" /\ base >= 2 => T0'[ip] = 3
        /\ actual = "N" /\ base <= 1 => T0'[ip] = 0
    BY <2>3, <2>4 DEF Saturate, Step
  <2>6. ASSUME NEW o, LastOutcomes(ip, 1, o)' PROVE actual = o
    BY <2>6, RunStep, 0 + 1 = 1
  <2>7. ASSUME NEW o, LastOutcomes(ip, 2, o)'
        PROVE  actual = o /\ ip \in DOMAIN history /\ LastOutcomes(ip, 1, o)
    BY <2>7, RunStep, 1 + 1 = 2
  <2>8. ASSUME NEW o, LastOutcomes(ip, 3, o)'
        PROVE  actual = o /\ ip \in DOMAIN history /\ LastOutcomes(ip, 2, o)
    BY <2>8, RunStep, 2 + 1 = 3
  <2>9. /\ LastOutcomes(ip, 1, "T")' => T0'[ip] >= 1
        /\ LastOutcomes(ip, 1, "N")' => T0'[ip] <= 2
    BY <2>5, <2>6
  <2>10. /\ LastOutcomes(ip, 2, "T")' => T0'[ip] >= 2
         /\ LastOutcomes(ip, 2, "N")' => T0'[ip] <= 1
    BY <2>3, <2>5, <2>7 DEF BaseFollowsRuns
  <2>11. /\ LastOutcomes(ip, 3, "T")' => T0'[ip] = 3
         /\ LastOutcomes(ip, 3, "N")' => T0'[ip] = 0
    BY <2>3, <2>5, <2>8 DEF BaseFollowsRuns
  <2> QED BY <2>1, <2>2, <2>9, <2>10, <2>11 DEF BaseFollowsRuns
<1> QED BY <1>1, <1>2, StepCases

\* The base predictor keeps following every branch while others predict it.
THEOREM BaseRuns == Spec => []BaseFollowsRuns
<1>1. Init => BaseFollowsRuns
  BY EmptyMapIsMap DEF Init, PredictorInit, BaseFollowsRuns
<1> QED BY <1>1, TypeCorrect, RunsStep, PTL DEF Spec
-----------------------------------------------------------------------------
(***************************************************************************)
(* The history register.  A branch that is recorded pushes the register's  *)
(* bits, and with them the branches they came from, one place up.          *)
(***************************************************************************)

\* The bits nearer than b that came from the same branch as b.
Nearer(source, b) == {c \in 0 .. b - 1 : source[c] = source[b]}

Explains(source) ==
  \A b \in 0 .. Recent - 1 :
    /\ Cardinality(Nearer(source, b)) < Len(history[source[b]])
    /\ b \in GHR <=> history[source[b]][Len(history[source[b]])
                                          - Cardinality(Nearer(source, b))] = "T"

LEMMA RegisterExplained ==
  RegisterInterleaves <=>
    /\ GHR \subseteq 0 .. Recent - 1
    /\ \E source \in [0 .. Recent - 1 -> DOMAIN history] : Explains(source)
BY DEF RegisterInterleaves, Explains, Nearer

Pushed(source, ip, n) == [b \in 0 .. n - 1 |-> IF b = 0 THEN ip ELSE source[b - 1]]

\* Moving the members of a set up by one does not change their number.
LEMMA ShiftSize ==
  ASSUME NEW S \in SUBSET Nat, IsFiniteSet(S)
  PROVE  LET up == {c \in Nat : c - 1 \in S}
         IN  IsFiniteSet(up) /\ Cardinality(up) = Cardinality(S)
<1> DEFINE up == {c \in Nat : c - 1 \in S}
           F == [c \in S |-> c + 1]
<1>1. F \in [S -> up]
  <2>1. ASSUME NEW c \in S PROVE c + 1 \in Nat /\ (c + 1) - 1 = c
    OBVIOUS
  <2> QED BY <2>1
<1>2. \A a, b \in S : F[a] = F[b] => a = b
  OBVIOUS
<1>3. \A t \in up : \E c \in S : F[c] = t
  <2>1. ASSUME NEW t \in up PROVE t - 1 \in S /\ F[t - 1] = t
    OBVIOUS
  <2> QED BY <2>1
<1> HIDE DEF F, up
<1>4. F \in Bijection(S, up)
  BY <1>1, <1>2, <1>3, Fun_IsBij
<1>5. ExistsBijection(S, up)
  BY <1>4, Fun_ExistsBij
<1> QED BY <1>5, FS_Bijection DEF up

LEMMA NearerFinite ==
  ASSUME NEW source, NEW b \in Nat
  PROVE  /\ Nearer(source, b) \in SUBSET Nat
         /\ IsFiniteSet(Nearer(source, b))
         /\ Cardinality(Nearer(source, b)) \in Nat
<1>1. Nearer(source, b) \in SUBSET (0 .. b - 1)
  BY DEF Nearer
<1>2. IsFiniteSet(0 .. b - 1)
  BY FS_Interval
<1>3. IsFiniteSet(Nearer(source, b))
  BY <1>1, <1>2, FS_Subset
<1> QED BY <1>1, <1>3, FS_CardinalityType

\* Pushing a branch adds one nearer bit to the bits of the same branch.
LEMMA NearerPushed ==
  ASSUME NEW n \in Nat, NEW ip, NEW source, NEW b \in 1 .. n - 1
  PROVE  Cardinality(Nearer(Pushed(source, ip, n), b))
           = Cardinality(Nearer(source, b - 1))
               + (IF source[b - 1] = ip THEN 1 ELSE 0)
<1> DEFINE s == Pushed(source, ip, n)
           old == Nearer(source, b - 1)
           up == {c \in Nat : c - 1 \in old}
<1>1. b - 1 \in Nat
  OBVIOUS
<1>2. /\ old \in SUBSET Nat /\ IsFiniteSet(old) /\ Cardinality(old) \in Nat
  BY <1>1, NearerFinite
<1>3. IsFiniteSet(up) /\ Cardinality(up) = Cardinality(old)
  <2> HIDE DEF old
  <2> QED BY <1>2, ShiftSize
<1>4. 0 \notin up
  <2>1. \A c \in old : c \in Nat
    BY <1>2
  <2> QED BY <2>1
<1>5. /\ s[0] = ip
      /\ s[b] = source[b - 1]
      /\ \A c \in 1 .. b - 1 : s[c] = source[c - 1]
  BY DEF Pushed
<1>6. ASSUME NEW c \in 1 .. b - 1
      PROVE  c \in Nearer(s, b) <=> c \in up
  <2>1. c - 1 \in 0 .. (b - 1) - 1 /\ c \in 0 .. b - 1 /\ c \in Nat
    OBVIOUS
  <2> QED BY <1>5, <2>1 DEF Nearer
<1>7. Nearer(s, b) \subseteq {0} \cup 1 .. b - 1 /\ up \subseteq 1 .. b - 1
  <2>1. \A c \in old : c \in 0 .. (b - 1) - 1
    BY DEF Nearer
  <2>2. \A c \in up : c \in 1 .. b - 1
    BY <2>1
  <2>3. \A c \in Nearer(s, b) : c \in {0} \cup 1 .. b - 1
    BY DEF Nearer
  <2> QED BY <2>2, <2>3
<1>8. 0 \in Nearer(s, b) <=> source[b - 1] = ip
  <2>1. 0 \in 0 .. b - 1
    OBVIOUS
  <2> QED BY <1>5, <2>1 DEF Nearer
<1>9. Nearer(s, b) = IF source[b - 1] = ip THEN up \cup {0} ELSE up
  BY <1>6, <1>7, <1>8
<1> HIDE DEF s, old, up
<1>10. CASE source[b - 1] = ip
  <2>1. Cardinality(up \cup {0}) = Cardinality(up) + 1
    BY <1>3, <1>4, FS_AddElement
  <2> QED BY <1>3, <1>9, <1>10, <2>1 DEF s, old
<1>11. CASE source[b - 1] # ip
  BY <1>2, <1>3, <1>9, <1>11 DEF s, old
<1> QED BY <1>10, <1>11

LEMMA RegisterStep ==
  TypeOK /\ RegisterInterleaves /\ [Next]_vars => RegisterInterleaves'
<1> SUFFICES ASSUME TypeOK, RegisterInterleaves, [Next]_vars
             PROVE  RegisterInterleaves'
  OBVIOUS
<1>1. CASE UNCHANGED state
  BY <1>1 DEF RegisterInterleaves, Recent, state, predictor, counts, traces
<1>2. ASSUME NEW ip \in Branches, NEW actual \in Outcome,
             RecordBranch(ip, actual)
      PROVE  RegisterInterleaves'
  <2> USE <1>2
  <2>1. PICK source \in [0 .. Recent - 1 -> DOMAIN history] : Explains(source)
    BY RegisterExplained
  <2> DEFINE n == Recent'
             pushed == Pushed(source, ip, n)
             h == Lookup(history, ip, <<>>)
  <2>2. /\ total \in Nat /\ HIST2 \in Nat /\ total' = total + 1
    BY PredictorAssumption DEF TypeOK, RecordBranch
  <2>3. /\ Recent \in Nat /\ n \in Nat /\ n <= HIST2
        /\ n - 1 <= Recent /\ (n = Recent + 1 \/ n = HIST2)
    BY <2>2 DEF Recent
  <2>4. GHR \subseteq 0 .. Recent - 1
    BY DEF RegisterInterleaves
  <2>5. \A b : b \in GHR' <=> /\ b \in 0 .. HIST2 - 1
                              /\ (b - 1 \in GHR \/ (b = 0 /\ actual = "T"))
    <3>1. GHR' = Low({b + 1 : b \in GHR}
                       \cup (IF actual = "T" THEN {0} ELSE {}), HIST2)
      BY DEF RecordBranch, Predict, GHRAfter
    <3>2. \A b \in GHR : b \in Int
      BY <2>3, <2>4
    <3>3. ASSUME NEW b \in 0 .. HIST2 - 1
          PROVE  b \in {c + 1 : c \in GHR} <=> b - 1 \in GHR
      <4>1. (b - 1) + 1 = b /\ \A c \in GHR : (c + 1) - 1 = c
        BY <3>2
      <4> QED BY <4>1
    <3> QED BY <3>1, <3>3 DEF Low
  <2>6. HIST2 > 0 => n > 0
    BY <2>2 DEF Recent
  <2> HIDE DEF n, h
  <2>7. GHR' \subseteq 0 .. n - 1
    <3>1. ASSUME NEW b \in GHR' PROVE b \in 0 .. n - 1
      <4>1. b \in 0 .. HIST2 - 1 /\ (b - 1 \in 0 .. Recent - 1 \/ b = 0)
        BY <2>4, <2>5
      <4>2. b <= HIST2 - 1 /\ b <= Recent /\ n > 0
        BY <2>2, <2>3, <2>6, <4>1
      <4> QED BY <2>2, <2>3, <4>1, <4>2
    <3> QED BY <3>1
  <2>8. pushed \in [0 .. n - 1 -> DOMAIN history']
    <3>1. DOMAIN history' = DOMAIN history \cup {ip}
      BY Entries
    <3>2. \A b \in 1 .. n - 1 : b - 1 \in 0 .. Recent - 1
      BY <2>3
    <3>3. ASSUME NEW b \in 0 .. n - 1, b # 0 PROVE source[b - 1] \in DOMAIN history
      BY <2>3, <3>2, <3>3
    <3> QED BY <3>1, <3>3 DEF Pushed
  <2>9. /\ h \in Seq(Outcome) /\ Len(h) \in Nat
        /\ ip \in DOMAIN history => h = history[ip]
        /\ Len(history'[ip]) = Len(h) + 1
        /\ history'[ip][Len(h) + 1] = actual
        /\ \A i \in 1 .. Len(h) : history'[ip][i] = h[i]
    BY Trace DEF h
  <2>10. ASSUME NEW b \in 0 .. n - 1
        PROVE  LET x == pushed[b]
                   k == Cardinality(Nearer(pushed, b))
               IN  /\ k < Len(history'[x])
                   /\ b \in GHR' <=> history'[x][Len(history'[x]) - k] = "T"
    <3>1. CASE b = 0
      <4>1. pushed[0] = ip
        BY <3>1 DEF Pushed
      <4>2. Nearer(pushed, 0) = {}
        BY DEF Nearer
      <4>3. Cardinality(Nearer(pushed, 0)) = 0
        BY <4>2, FS_EmptySet
      <4>4. 0 \in GHR' <=> actual = "T"
        <5>1. 0 - 1 \notin GHR
          BY <2>3, <2>4
        <5>2. 0 \in 0 .. HIST2 - 1
          BY <2>2, <2>3, <3>1
        <5> QED BY <2>5, <5>1, <5>2
      <4>5. (Len(h) + 1) - 0 = Len(h) + 1 /\ 0 < Len(h) + 1
        BY <2>9
      <4> QED BY <2>9, <3>1, <4>1, <4>3, <4>4, <4>5
    <3>2. CASE b # 0
      <4> DEFINE x == source[b - 1]
                 k == Cardinality(Nearer(source, b - 1))
      <4>1. b \in 1 .. n - 1 /\ b - 1 \in 0 .. Recent - 1 /\ b - 1 \in Nat
        BY <2>3, <3>2
      <4>2. pushed[b] = x
        BY <4>1 DEF Pushed
      <4>3. x \in DOMAIN history
        BY <4>1
      <4>4. /\ k < Len(history[x])
            /\ b - 1 \in GHR <=> history[x][Len(history[x]) - k] = "T"
        BY <2>1, <4>1 DEF Explains
      <4>5. b \in GHR' <=> b - 1 \in GHR
        BY <2>2, <2>3, <2>5, <3>2, <4>1
      <4>6. Cardinality(Nearer(pushed, b)) = k + (IF x = ip THEN 1 ELSE 0)
        BY <2>3, <4>1, NearerPushed
      <4>7. k \in Nat
        BY <4>1, NearerFinite
      <4> HIDE DEF x, k, pushed
      <4>8. CASE x = ip
        <5>1. h = history[x] /\ k < Len(h)
          BY <2>9, <4>3, <4>4, <4>8
        <5>2. /\ (Len(h) + 1) - (k + 1) = Len(h) - k
              /\ Len(h) - k \in 1 .. Len(h) /\ k + 1 < Len(h) + 1
          <6>1. Len(h) \in Nat /\ k \in Nat /\ k < Len(h)
            BY <2>9, <4>7, <5>1
          <6> QED BY <6>1
        <5>3. history'[x][Len(h) - k] = history[x][Len(h) - k]
          BY <2>9, <4>8, <5>1, <5>2
        <5>4. Cardinality(Nearer(pushed, b)) = k + 1
          BY <4>6, <4>8
        <5> QED BY <2>9, <4>2, <4>4, <4>5, <4>8, <5>1, <5>2, <5>3, <5>4
      <4>9. CASE x # ip
        <5>1. history'[x] = history[x]
          BY <4>3, <4>9, Entries
        <5>2. Cardinality(Nearer(pushed, b)) = k
          BY <4>6, <4>7, <4>9
        <5> QED BY <4>2, <4>4, <4>5, <5>1, <5>2
      <4> QED BY <4>8, <4>9
    <3> QED BY <3>1, <3>2
  <2>11. PICK p : p = pushed
    OBVIOUS
  <2> HIDE DEF pushed
  <2>12. p \in [0 .. Recent' - 1 -> DOMAIN history']
    BY <2>8, <2>11 DEF n
  <2>13. Explains(p)'
    BY <2>10, <2>11 DEF Explains, n
  <2> QED BY <2>7, <2>12, <2>13 DEF RegisterInterleaves, Explains, Nearer, n
<1> QED BY <1>1, <1>2, StepCases

\* The global history is the order in which the branches of the executable
\* really ran: each of its bits is an outcome of the recorded traces, every
\* recent outcome has its bit, and a branch's outcomes appear in their order.
THEOREM HistoryRegister == Spec => []RegisterInterleaves
<1>1. Init => RegisterInterleaves
  <2> SUFFICES ASSUME Init PROVE RegisterInterleaves
    OBVIOUS
  <2>1. Recent = 0 /\ GHR = {} /\ DOMAIN history = {}
    BY EmptyMapIsMap, PredictorAssumption DEF Init, PredictorInit, Recent
  <2>2. 0 .. Recent - 1 = {}
    BY <2>1
  <2>3. [b \in {} |-> b] \in [{} -> DOMAIN history]
    OBVIOUS
  <2> QED BY <2>1, <2>2, <2>3 DEF RegisterInterleaves
<1> QED BY <1>1, TypeCorrect, RegisterStep, PTL DEF Spec
-----------------------------------------------------------------------------
(***************************************************************************)
(* The tool implements BranchTool: the totals that RecordBranch counts are *)
(* those of the trace, and the watched range is that of the main image.    *)
(***************************************************************************)
Totals ==
  /\ IsFiniteSet(Cells(history))
  /\ total = Cardinality(Cells(history))
  /\ taken = Cardinality(CellsWith(history, "T"))
  /\ nottaken = Cardinality(CellsWith(history, "N"))

RangeFollows ==
  IF MainImage \in loaded
    THEN low = MainImage.low /\ high = MainImage.high
    ELSE low = 0 /\ high = 0

LEMMA TotalsStep == TypeOK /\ Totals /\ [Next]_vars => Totals'
<1> SUFFICES ASSUME TypeOK, Totals, [Next]_vars PROVE Totals'
  OBVIOUS
<1>1. CASE UNCHANGED state
  BY <1>1 DEF Totals, state, counts, traces
<1>2. ASSUME NEW ip \in Branches, NEW actual \in Outcome,
             RecordBranch(ip, actual)
      PROVE  Totals'
  <2> DEFINE n == Put(history, ip, Append(Lookup(history, ip, <<>>), actual))
  <2>1. history \in [DOMAIN history -> Seq(Outcome)]
    BY DEF TypeOK, IsMap
  <2>2. /\ history' = n
        /\ total' = total + 1
        /\ taken' = taken + (IF actual = "T" THEN 1 ELSE 0)
        /\ nottaken' = nottaken + (IF actual = "N" THEN 1 ELSE 0)
    BY <1>2 DEF RecordBranch, Same
  <2>3. ASSUME NEW o
        PROVE  /\ IsFiniteSet(Cells(n))
               /\ Cardinality(Cells(n)) = Cardinality(Cells(history)) + 1
               /\ Cardinality(CellsWith(n, o))
                    = Cardinality(CellsWith(history, o))
                        + (IF actual = o THEN 1 ELSE 0)
    <3>1. IsFiniteSet(Cells(history))
      BY DEF Totals
    <3>2. n = PushedBack(history, ip, actual)
      BY DEF PushedBack
    <3> HIDE DEF n
    <3> QED BY <2>1, <3>1, <3>2, CellsCount, Z3
  <2> HIDE DEF n
  <2> QED BY <2>2, <2>3 DEF Totals
<1> QED BY <1>1, <1>2, StepCases

\* There is one main executable, whatever the order in which images load.
LEMMA MainImageIsMain ==
  /\ MainImage \in Images /\ MainImage.main
  /\ \A img \in Images : img.main => img = MainImage
BY ImagesAssumption DEF MainImage

LEMMA RangeStep == RangeFollows /\ [Next]_vars => RangeFollows'
<1> SUFFICES ASSUME RangeFollows, [Next]_vars PROVE RangeFollows'
  OBVIOUS
<1>1. CASE UNCHANGED <<loaded, low, high>>
  BY <1>1 DEF RangeFollows
<1>2. ASSUME NEW img \in Images, Image(img) PROVE RangeFollows'
  <2>1. loaded' = loaded \cup {img}
    BY <1>2 DEF Image
  <2>2. CASE img.main
    <3>1. low' = img.low /\ high' = img.high /\ img = MainImage
      BY <1>2, <2>2, MainImageIsMain DEF Image
    <3> QED BY <2>1, <3>1 DEF RangeFollows
  <2>3. CASE ~img.main
    <3>1. UNCHANGED <<low, high>> /\ img # MainImage
      BY <1>2, <2>3, MainImageIsMain DEF Image, range
    <3> QED BY <2>1, <3>1 DEF RangeFollows
  <2> QED BY <2>2, <2>3
<1>3. ASSUME NEW ip \in Branches, NEW actual \in Outcome,
             ExecuteBranch(ip, actual)
      PROVE  UNCHANGED <<loaded, low, high>>
  BY <1>3 DEF ExecuteBranch, IgnoreBranch, RecordBranch, vars, range
<1>4. ASSUME NEW opened \in BOOLEAN, Fini(opened)
      PROVE  UNCHANGED <<loaded, low, high>>
  BY <1>4 DEF Fini, range
<1>5. CASE UNCHANGED vars
  BY <1>1, <1>5 DEF vars, range
<1> QED BY <1>1, <1>2, <1>3, <1>4, <1>5 DEF Next

\* The operators of the abstract specification are those of this one.
LEMMA ToolOperators ==
  /\ Tool!EmptyMap = EmptyMap
  /\ \A m, k, v : Tool!Put(m, k, v) = Put(m, k, v)
  /\ \A m, k, d : Tool!Lookup(m, k, d) = Lookup(m, k, d)
  /\ Tool!Executions = Cells(history)
  /\ \A o : Tool!With(o) = CellsWith(history, o)
  /\ Tool!Mispredictions = Units(mispredPerBranch)
  /\ \A S : Tool!Cardinality(S) = Cardinality(S)
<1>1. \A m : Tool!Units(m) = Units(m) /\ Tool!Lengths(m) = Lengths(m)
  BY DEF Tool!Units, Units, Tool!Lengths, Lengths
<1>2. Tool!Executions = Cells(history) /\ Tool!Mispredictions = Units(mispredPerBranch)
  BY <1>1 DEF Tool!Executions, Cells, Tool!Mispredictions
<1>3. \A o : Tool!With(o) = CellsWith(history, o)
  BY <1>2 DEF Tool!With, CellsWith
<1>4. /\ Tool!EmptyMap = EmptyMap
      /\ \A m, k, v : Tool!Put(m, k, v) = Put(m, k, v)
      /\ \A m, k, d : Tool!Lookup(m, k, d) = Lookup(m, k, d)
  BY DEF Tool!EmptyMap, EmptyMap, Tool!Put, Put, Tool!Lookup, Lookup
<1>5. ASSUME NEW S PROVE Tool!Cardinality(S) = Cardinality(S)
  BY DEF Tool!Cardinality, Cardinality
<1> QED BY <1>2, <1>3, <1>4, <1>5

\* A recorded branch is an observation of a branch of the main executable.
LEMMA ObserveStep ==
  ASSUME TypeOK, RangeFollows, NEW ip \in Branches, NEW actual \in Outcome,
         Running, RecordBranch(ip, actual)
  PROVE  Tool!Next
<1>1. ip \in {a \in Branches : InImage(a, MainImage)}
  <2>1. low <= ip /\ ip <= high
    BY DEF RecordBranch, Watched
  <2>2. MainImage \in loaded
    BY <2>1, ImagesAssumption, PredictorAssumption DEF RangeFollows, InImage
  <2> QED BY <2>1, <2>2 DEF RangeFollows, InImage
<1>2. actual \in Tool!Outcome
  BY DEF Outcome, Tool!Outcome
<1>3. history' = Tool!Put(history, ip, Append(Tool!Lookup(history, ip, <<>>), actual))
  BY ToolOperators DEF RecordBranch
<1>4. \/ mispredPerBranch' = mispredPerBranch
      \/ mispredPerBranch' = Tool!Put(mispredPerBranch, ip, Tool!Lookup(mispredPerBranch, ip, 0) + 1)
  BY ToolOperators DEF RecordBranch, MispredAfter
<1>5. UNCHANGED console
  BY DEF RecordBranch, output
<1>6. Tool!Observe(ip, actual)
  BY <1>3, <1>4, <1>5 DEF Tool!Observe, Tool!NoReport, NoReport, Running
<1> QED BY <1>1, <1>2, <1>6 DEF Tool!Next

\* Fini prints the totals of the trace.
LEMMA ExitStep ==
  ASSUME TypeOK, Totals, MissesCounted, NEW opened \in BOOLEAN, Fini(opened)
  PROVE  Tool!Next
<1>1. /\ Running /\ UNCHANGED <<history, mispredPerBranch>>
      /\ console'.total = total /\ console'.taken = taken
      /\ console'.nottaken = nottaken /\ console'.mispred = tagePred - tageCorrect
  BY DEF Fini, traces
<1>2. ~Running'
  <2>1. total \in Nat
    BY DEF TypeOK
  <2>2. console'.total # -1
    BY <1>1, <2>1
  <2> QED BY <2>2 DEF Running, NoReport
<1>3. console' = [total |-> total, taken |-> taken, nottaken |-> nottaken,
                  mispred |-> tagePred - tageCorrect]
  BY DEF Fini
<1>4. /\ total = Tool!Cardinality(Tool!Executions)
      /\ taken = Tool!Cardinality(Tool!With("T"))
      /\ nottaken = Tool!Cardinality(Tool!With("N"))
      /\ tagePred - tageCorrect = Tool!Cardinality(Tool!Mispredictions)
  BY ToolOperators DEF Totals, MissesCounted, MissesAttributed
<1>5. Tool!Exit
  BY <1>1, <1>2, <1>3, <1>4 DEF Tool!Exit, Tool!NoReport, NoReport, Running
<1> QED BY <1>5 DEF Tool!Next

LEMMA ToolStep ==
  ASSUME TypeOK, Totals, MissesCounted, RangeFollows, [Next]_vars
  PROVE  [Tool!Next]_(Tool!vars)
<1>1. CASE UNCHANGED <<history, mispredPerBranch, console>>
  BY <1>1 DEF Tool!vars, Running
<1>2. ASSUME NEW img \in Images, Image(img)
      PROVE  UNCHANGED <<history, mispredPerBranch, console>>
  BY <1>2 DEF Image, traces, output
<1>3. ASSUME NEW ip \in Branches, NEW actual \in Outcome,
             ExecuteBranch(ip, actual)
      PROVE  Tool!Next \/ UNCHANGED <<history, mispredPerBranch, console>>
  <2>1. Running /\ (IgnoreBranch(ip) \/ RecordBranch(ip, actual))
    BY <1>3 DEF ExecuteBranch
  <2>2. CASE IgnoreBranch(ip)
    BY <2>2 DEF IgnoreBranch, vars, traces, output
  <2>3. CASE RecordBranch(ip, actual)
    BY <2>1, <2>3, ObserveStep
  <2> QED BY <2>1, <2>2, <2>3
<1>4. ASSUME NEW opened \in BOOLEAN, Fini(opened) PROVE Tool!Next
  BY <1>4, ExitStep
<1>5. CASE UNCHANGED vars
  BY <1>1, <1>5 DEF vars, traces, output
<1> QED BY <1>1, <1>2, <1>3, <1>4, <1>5 DEF Next

\* The tool is a branch tool: for every program and every order of loading,
\* it observes the branches of the main executable and no others, and its
\* totals at exit are those of what it observed.
THEOREM IsBranchTool == Spec => ImplementsBranchTool
<1>1. Init => Tool!Init
  <2> SUFFICES ASSUME Init PROVE Tool!Init
    OBVIOUS
  <2>1. history = Tool!EmptyMap /\ mispredPerBranch = Tool!EmptyMap /\ Running
    BY ToolOperators DEF Init, Running
  <2> QED BY <2>1 DEF Tool!Init, Tool!NoReport, NoReport
<1>2. Init => Totals /\ MissesCounted /\ RangeFollows
  BY CellsEmpty, UnitsEmpty
     DEF Init, Totals, MissesCounted, MissesAttributed, RangeFollows
<1> QED BY <1>1, <1>2, TypeCorrect, TotalsStep, MissesStep, RangeStep, ToolStep,
           PTL DEF Spec, ImplementsBranchTool, Tool!Spec
=============================================================================
