-------------------------- MODULE Dashboard_proofs ---------------------------
(***************************************************************************)
(* Theorems about Dashboard, for all tests and any number of loads, and    *)
(* about Campaign, for any number of builds and tool runs.                 *)
(***************************************************************************)
EXTENDS Campaign, SequenceTheorems, TLAPS

USE DashboardAssumption

\* Both files of load i have been read.
Read(i) == \A f \in File : loads[i].status[f] = "read"

\* A load that waits and has not failed is not reported, a failed one is
\* reported once, one that has been read too, and only that is on the page.
LoadInv(i) ==
  /\ Has(loads[i], "pending") /\ ~Has(loads[i], "failed") => Reports(i) = {}
  /\ Has(loads[i], "failed") => \E k \in Reports(i) : Reports(i) = {k}
  /\ Read(i) => \E k \in Reports(i) : Reports(i) = {k}
  /\ ~Read(i) => \A e \in Elements : page[e] # i

LoadsInv == \A i \in DOMAIN loads : LoadInv(i)
-----------------------------------------------------------------------------
\* An answer changes the status of one file of one load.
LEMMA AnswerLoads ==
  ASSUME TypeOK, NEW i \in DOMAIN loads, NEW f \in File, NEW outcome \in {"read", "failed"},
         Answer(i, f, outcome)
  PROVE  /\ loads' \in Seq(Load)
         /\ Len(loads') = Len(loads)
         /\ DOMAIN loads' = DOMAIN loads
         /\ loads[i] \in Load
         /\ loads'[i] \in Load
         /\ loads'[i].base = loads[i].base
         /\ loads'[i].status[f] = outcome
         /\ \A g \in File : g # f => loads'[i].status[g] = loads[i].status[g]
         /\ \A j \in DOMAIN loads : j # i => loads'[j] = loads[j]
<1>1. loads[i] \in Load /\ [loads[i] EXCEPT !.status[f] = outcome] \in Load
  <2>1. loads[i] \in Load
    BY ElementOfSeq DEF TypeOK
  <2>2. outcome \in {"pending", "read", "failed"}
    OBVIOUS
  <2> QED
    BY <2>1, <2>2 DEF Load
<1>2. loads' = [loads EXCEPT ![i] = [loads[i] EXCEPT !.status[f] = outcome]]
  BY DEF Answer
<1>3. loads' \in Seq(Load) /\ Len(loads') = Len(loads)
  BY <1>1, <1>2, ExceptSeq DEF TypeOK
<1>4. loads'[i] = [loads[i] EXCEPT !.status[f] = outcome]
  BY <1>2 DEF TypeOK
<1>5. /\ loads'[i].base = loads[i].base
      /\ loads'[i].status[f] = outcome
      /\ \A g \in File : g # f => loads'[i].status[g] = loads[i].status[g]
  BY <1>1, <1>4 DEF Load
<1> QED
  BY <1>1, <1>2, <1>3, <1>4, <1>5 DEF TypeOK

\* A selection adds a load and keeps the others.
LEMMA SelectLoads ==
  ASSUME TypeOK, NEW test \in Tests, Select(test)
  PROVE  /\ NewLoad(test) \in Load
         /\ loads' \in Seq(Load)
         /\ Len(loads') = Len(loads) + 1
         /\ DOMAIN loads' = DOMAIN loads \cup {Len(loads) + 1}
         /\ loads'[Len(loads) + 1] = NewLoad(test)
         /\ \A j \in DOMAIN loads : loads'[j] = loads[j]
<1>1. NewLoad(test) \in Load
  BY DEF NewLoad, Load
<1> QED
  BY <1>1, AppendProperties DEF TypeOK, Select, Started

\* What an answer does to the page and to the console.
LEMMA AnswerOutcomes ==
  ASSUME NEW i, NEW f, NEW outcome \in {"read", "failed"}, Answer(i, f, outcome)
  PROVE  \/ Reject(loads[i], i) /\ outcome = "failed"
         \/ Render(i) /\ outcome = "read" /\ ~Has(loads'[i], "pending") /\ ~Has(loads'[i], "failed")
         \/ /\ UNCHANGED <<page, console>> /\ outcome # "failed"
            /\ Has(loads'[i], "pending") \/ Has(loads'[i], "failed")
<1>1. CASE outcome = "failed"
  BY <1>1 DEF Answer
<1>2. CASE outcome = "read" /\ ~Has(loads'[i], "pending") /\ ~Has(loads'[i], "failed")
  BY <1>2 DEF Answer
<1>3. CASE outcome # "failed" /\ (Has(loads'[i], "pending") \/ Has(loads'[i], "failed"))
  BY <1>3 DEF Answer
<1> QED
  BY <1>1, <1>2, <1>3 DEF Answer

\* render never comes to its end: no tool writes what the last chart reads.
LEMMA RenderReports == ASSUME NEW i, Render(i) PROVE console' = Append(console, i)
<1>1. 6 \in DOMAIN Steps /\ Steps[6] = "aliasChart" /\ 6 \in 1 .. 6
  BY DEF Steps
<1>2. 6 \notin Completed
  BY <1>1 DEF Completed, Throws
<1> QED
  BY <1>1, <1>2 DEF Render

\* What render does to the page and to the console.
LEMMA RenderOutcomes ==
  ASSUME TypeOK, NEW i \in DOMAIN loads, Render(i)
  PROVE  /\ page' \in [Elements -> 0 .. Len(loads)]
         /\ \A e \in Elements : page'[e] \in {i, page[e]}
         /\ console' = console \/ console' = Append(console, i)
BY DEF TypeOK, Render

\* A report of load i leaves those of the other loads as they are.
LEMMA ReportAppended ==
  ASSUME NEW S, console \in Seq(S), NEW i \in S, console' = Append(console, i)
  PROVE  /\ console' \in Seq(S)
         /\ Reports(i)' = Reports(i) \cup {Len(console) + 1}
         /\ \A j : j # i => Reports(j)' = Reports(j)
<1>1. /\ console' \in Seq(S)
      /\ Len(console') = Len(console) + 1
      /\ console'[Len(console) + 1] = i
      /\ \A k \in 1 .. Len(console) : console'[k] = console[k]
  BY AppendProperties
<1>2. /\ DOMAIN console = 1 .. Len(console)
      /\ DOMAIN console' = 1 .. (Len(console) + 1)
      /\ Len(console) \in Nat
  BY <1>1, LenProperties
<1> QED
  BY <1>1, <1>2 DEF Reports

LEMMA ConsoleTyped ==
  ASSUME TypeOK, NEW i \in DOMAIN loads, console' = console \/ console' = Append(console, i)
  PROVE  console' \in Seq(DOMAIN loads)
<1>1. console \in Seq(DOMAIN loads)
  BY DEF TypeOK
<1> QED
  BY <1>1, ReportAppended
-----------------------------------------------------------------------------
LEMMA TypeInit == Init => TypeOK
<1> SUFFICES ASSUME Init PROVE TypeOK
  OBVIOUS
<1>1. NewLoad(FirstTest) \in Load
  BY DEF NewLoad, Load
<1>2. loads \in Seq(Load) /\ Len(loads) = 1
  BY <1>1 DEF Init
<1> QED
  BY <1>2 DEF Init, TypeOK

LEMMA TypeStep == TypeOK /\ [Next]_vars => TypeOK'
<1> SUFFICES ASSUME TypeOK, [Next]_vars PROVE TypeOK'
  OBVIOUS
<1>1. ASSUME NEW test \in Tests, Select(test) PROVE TypeOK'
  <2>1. loads' \in Seq(Load) /\ Len(loads') = Len(loads) + 1 /\ DOMAIN loads \subseteq DOMAIN loads'
    BY <1>1, SelectLoads
  <2>2. Len(loads) \in 1 .. MaxLoads /\ Len(loads) < MaxLoads
    BY <1>1 DEF TypeOK, Select
  <2>3. console' \in Seq(DOMAIN loads')
    BY <1>1, <2>1, SeqMonotonic DEF TypeOK, Select
  <2>4. page' \in [Elements -> 0 .. Len(loads')]
    BY <1>1, <2>1, <2>2 DEF TypeOK, Select
  <2> QED
    BY <1>1, <2>1, <2>2, <2>3, <2>4 DEF TypeOK, Select
<1>2. ASSUME NEW i \in DOMAIN loads, NEW f \in File, NEW outcome \in {"read", "failed"},
             Answer(i, f, outcome)
      PROVE  TypeOK'
  <2>1. loads' \in Seq(Load) /\ Len(loads') = Len(loads) /\ DOMAIN loads' = DOMAIN loads
    BY <1>2, AnswerLoads
  <2>2. page' \in [Elements -> 0 .. Len(loads)] /\ console' \in Seq(DOMAIN loads)
    <3>1. CASE Reject(loads[i], i)
      BY <3>1, ConsoleTyped DEF Reject, TypeOK
    <3>2. CASE Render(i)
      BY <3>2, RenderOutcomes, ConsoleTyped
    <3>3. CASE UNCHANGED <<page, console>>
      BY <3>3 DEF TypeOK
    <3> QED
      BY <1>2, <3>1, <3>2, <3>3, AnswerOutcomes
  <2> QED
    BY <1>2, <2>1, <2>2 DEF TypeOK, Answer
<1>3. CASE UNCHANGED vars
  BY <1>3 DEF vars, TypeOK
<1> QED
  BY <1>1, <1>2, <1>3 DEF Next, AnswerSome

\* Every element shows a load that has been started, or nothing, and the
\* console names loads, for any number of tests and canvases (script.js:1-19).
THEOREM TypeCorrect == Spec => []TypeOK
BY TypeInit, TypeStep, PTL DEF Spec
-----------------------------------------------------------------------------
LEMMA LoadsInvInit == Init => LoadsInv
<1> SUFFICES ASSUME Init PROVE LoadsInv
  OBVIOUS
<1>1. DOMAIN loads = {1} /\ loads[1] = NewLoad(FirstTest)
  BY DEF Init
<1>2. ~Has(loads[1], "failed")
  BY <1>1 DEF NewLoad, Has, File
<1>3. Reports(1) = {}
  BY DEF Init, Reports
<1>4. \A e \in Elements : page[e] # 1
  BY DEF Init
<1>5. ~Read(1)
  BY <1>1 DEF Read, NewLoad, File
<1> QED
  BY <1>1, <1>2, <1>3, <1>4, <1>5 DEF LoadsInv, LoadInv

LEMMA LoadsInvSelect ==
  ASSUME TypeOK, LoadsInv, NEW test \in Tests, Select(test)
  PROVE  LoadsInv'
<1> PICK n : n = Len(loads) + 1
  OBVIOUS
<1>1. /\ DOMAIN loads' = DOMAIN loads \cup {n}
      /\ loads'[n] = NewLoad(test)
      /\ \A j \in DOMAIN loads : loads'[j] = loads[j]
  BY SelectLoads
<1>2. page' = page /\ console' = console
  BY DEF Select
<1>3. DOMAIN loads = 1 .. Len(loads) /\ Len(loads) \in Nat
  BY LenProperties DEF TypeOK
<1>4. ASSUME NEW j \in DOMAIN loads PROVE LoadInv(j)'
  BY <1>1, <1>2, <1>4 DEF LoadsInv, LoadInv, Read, Reports
<1>5. LoadInv(n)'
  <2>1. ~Has(loads'[n], "failed")
    BY <1>1 DEF NewLoad, Has
  <2>2. Reports(n)' = {}
    <3>1. \A k \in DOMAIN console : console[k] \in DOMAIN loads
      BY DEF TypeOK
    <3> QED
      BY <1>2, <1>3, <3>1 DEF Reports
  <2>3. \A e \in Elements : page'[e] # n
    BY <1>2, <1>3 DEF TypeOK
  <2>4. ~Read(n)'
    BY <1>1 DEF Read, NewLoad, File
  <2> QED
    BY <2>1, <2>2, <2>3, <2>4 DEF LoadInv
<1> QED
  BY <1>1, <1>4, <1>5 DEF LoadsInv

LEMMA LoadsInvAnswer ==
  ASSUME TypeOK, LoadsInv, NEW i \in DOMAIN loads, NEW f \in File,
         NEW outcome \in {"read", "failed"}, Answer(i, f, outcome)
  PROVE  LoadsInv'
<1>1. /\ DOMAIN loads' = DOMAIN loads
      /\ loads[i] \in Load
      /\ loads'[i] \in Load
      /\ loads'[i].status[f] = outcome
      /\ \A g \in File : g # f => loads'[i].status[g] = loads[i].status[g]
      /\ \A j \in DOMAIN loads : j # i => loads'[j] = loads[j]
  BY AnswerLoads
\* Load i was waiting for file f, and its other file stays as it is.
<1>2. loads[i].status[f] = "pending"
  BY DEF Answer
<1>3. /\ ~Has(loads[i], "failed") => Reports(i) = {}
      /\ Has(loads[i], "failed") => \E k \in Reports(i) : Reports(i) = {k}
      /\ \A e \in Elements : page[e] # i
  BY <1>2 DEF LoadsInv, LoadInv, Has, Read
<1>4. console \in Seq(DOMAIN loads)
  BY DEF TypeOK
<1>5. CASE Reject(loads[i], i) /\ outcome = "failed"
  <2>1. Has(loads'[i], "failed")
    BY <1>1, <1>5 DEF Has
  <2>2. \A j \in DOMAIN loads : j # i => Reports(j)' = Reports(j)
    BY <1>4, <1>5, ReportAppended DEF Reject, Reports
  <2>3. \E k \in Reports(i)' : Reports(i)' = {k}
    <3>1. CASE Has(loads[i], "failed")
      BY <1>3, <1>5, <3>1 DEF Reject, Reports
    <3>2. CASE ~Has(loads[i], "failed")
      <4>1. Reports(i)' = {Len(console) + 1}
        BY <1>3, <1>4, <1>5, <3>2, ReportAppended DEF Reject
      <4> QED
        BY <4>1
    <3> QED
      BY <3>1, <3>2
  <2>4. LoadInv(i)'
    BY <1>3, <1>5, <2>1, <2>3 DEF LoadInv, Reject, Read, Has
  <2>5. ASSUME NEW j \in DOMAIN loads, j # i PROVE LoadInv(j)'
    BY <1>1, <1>5, <2>2, <2>5 DEF LoadsInv, LoadInv, Read, Reject
  <2> QED
    BY <1>1, <2>4, <2>5 DEF LoadsInv
<1>6. CASE Render(i) /\ ~Has(loads'[i], "pending") /\ ~Has(loads'[i], "failed")
  <2>1. \A j \in DOMAIN loads : j # i => Reports(j)' = Reports(j)
    BY <1>4, <1>6, RenderReports, ReportAppended
  <2>2. \A e \in Elements : page'[e] \in {i, page[e]}
    BY <1>6, RenderOutcomes
  <2>3. Read(i)'
    BY <1>1, <1>6 DEF Has, Read, Load
  <2>4. LoadInv(i)'
    <3>1. ~Has(loads[i], "failed")
      BY <1>1, <1>2, <1>6 DEF Has
    <3>2. Reports(i)' = {Len(console) + 1}
      BY <1>3, <1>4, <1>6, <3>1, RenderReports, ReportAppended
    <3> QED
      BY <1>6, <2>3, <3>2 DEF LoadInv
  <2>5. ASSUME NEW j \in DOMAIN loads, j # i PROVE LoadInv(j)'
    BY <1>1, <2>1, <2>2, <2>5 DEF LoadsInv, LoadInv, Read
  <2> QED
    BY <1>1, <2>4, <2>5 DEF LoadsInv
<1>7. CASE /\ UNCHANGED <<page, console>> /\ outcome # "failed"
           /\ Has(loads'[i], "pending") \/ Has(loads'[i], "failed")
  <2>1. \A j : Reports(j)' = Reports(j)
    BY <1>7 DEF Reports
  <2>2. Has(loads'[i], "failed") <=> Has(loads[i], "failed")
    BY <1>1, <1>2, <1>7 DEF Has
  <2>3. LoadInv(i)'
    <3>1. ~Read(i)'
      BY <1>7 DEF Read, Has
    <3> QED
      BY <1>3, <2>1, <2>2, <1>7, <3>1 DEF LoadInv
  <2>4. ASSUME NEW j \in DOMAIN loads, j # i PROVE LoadInv(j)'
    BY <1>1, <1>7, <2>1, <2>4 DEF LoadsInv, LoadInv, Read
  <2> QED
    BY <1>1, <2>3, <2>4 DEF LoadsInv
<1> QED
  BY <1>5, <1>6, <1>7, AnswerOutcomes

LEMMA LoadsInvStep == TypeOK /\ LoadsInv /\ [Next]_vars => LoadsInv'
<1> SUFFICES ASSUME TypeOK, LoadsInv, [Next]_vars PROVE LoadsInv'
  OBVIOUS
<1>1. CASE UNCHANGED vars
  BY <1>1 DEF vars, LoadsInv, LoadInv, Read, Reports
<1> QED
  BY <1>1, LoadsInvSelect, LoadsInvAnswer DEF Next, AnswerSome

\* A load of which a fetch failed is reported once and leaves no trace on the
\* page, for any number of overlapping loads (script.js:11-18).
THEOREM FailuresReported == Spec => []FailedLoadsReported
<1>1. LoadsInv => FailedLoadsReported
  BY DEF LoadsInv, LoadInv, FailedLoadsReported, Has, Read
<1> QED
  BY <1>1, LoadsInvInit, LoadsInvStep, TypeCorrect, PTL DEF Spec

\* The report says nothing of the load: every load that has been answered is
\* reported once, read or not, whatever canvases there are and also when
\* Chart.js has come.  ErrorsAreFailures fails on every load that is read.
THEOREM EveryLoadReported ==
  Spec => [](\A i \in DOMAIN loads :
               ~Has(loads[i], "pending") => \E k \in Reports(i) : Reports(i) = {k})
<1> DEFINE Reported ==
             \A i \in DOMAIN loads :
               ~Has(loads[i], "pending") => \E k \in Reports(i) : Reports(i) = {k}
<1>1. TypeOK /\ LoadsInv => Reported
  <2> SUFFICES ASSUME TypeOK, LoadsInv, NEW i \in DOMAIN loads, ~Has(loads[i], "pending")
               PROVE  \E k \in Reports(i) : Reports(i) = {k}
    OBVIOUS
  <2>1. loads[i] \in Load
    BY DEF TypeOK
  <2>2. Has(loads[i], "failed") \/ Read(i)
    BY <2>1 DEF Has, Read, Load
  <2> QED
    BY <2>2 DEF LoadsInv, LoadInv
<1> HIDE DEF Reported
<1>2. Spec => []Reported
  BY <1>1, LoadsInvInit, LoadsInvStep, TypeCorrect, PTL DEF Spec
<1> QED
  BY <1>2 DEF Reported
-----------------------------------------------------------------------------
\* With the canvases of index.html, render completes the cards, the bar chart,
\* the list and the chart of mispredictions, and nothing after them.
LEMMA RenderVisible ==
  ASSUME Canvases = {"barChart", "missChart"}, chartLibrary, NEW i, Render(i)
  PROVE  \A e \in {"cards", "list", "barChart", "missChart"} : page'[e] = i
<1>1. {1, 2, 3, 4} \subseteq Completed
  BY DEF Completed, Throws, Charts, Steps
<1>2. \A e \in {"cards", "list", "barChart", "missChart"} : \E k \in {1, 2, 3, 4} : Steps[k] = e
  BY DEF Steps
<1> QED
  BY <1>1, <1>2 DEF Render, Elements, Charts

\* What is visible is of one load, for any number of overlapping and failing
\* loads, on the page that index.html describes (script.js:22-58).
THEOREM OneLoad ==
  ASSUME Canvases = {"barChart", "missChart"}
  PROVE  Spec => []OneLoadVisible
<1>1. Visible = {"cards", "list", "barChart", "missChart"}
  BY DEF Visible, Charts
<1>2. Init => OneLoadVisible
  BY <1>1 DEF Init, OneLoadVisible, Elements, Charts
<1>3. OneLoadVisible /\ [Next]_vars => OneLoadVisible'
  <2> SUFFICES ASSUME OneLoadVisible, [Next]_vars PROVE OneLoadVisible'
    OBVIOUS
  <2>1. CASE page' = page /\ chartLibrary' = chartLibrary
    BY <2>1 DEF OneLoadVisible
  <2>2. ASSUME NEW i, Render(i), chartLibrary' = chartLibrary PROVE OneLoadVisible'
    <3>1. CASE chartLibrary
      BY <1>1, <2>2, <3>1, RenderVisible DEF OneLoadVisible
    <3>2. CASE ~chartLibrary
      BY <2>2, <3>2 DEF OneLoadVisible
    <3> QED
      BY <3>1, <3>2
  <2>3. ASSUME NEW i \in DOMAIN loads, NEW f \in File, NEW outcome \in {"read", "failed"},
               Answer(i, f, outcome)
        PROVE  OneLoadVisible'
    BY <2>1, <2>2, <2>3, AnswerOutcomes DEF Answer, Reject
  <2>4. CASE (\E test \in Tests : Select(test)) \/ UNCHANGED vars
    BY <2>1, <2>4 DEF Select, vars
  <2> QED
    BY <2>3, <2>4 DEF Next, AnswerSome
<1> QED
  BY <1>2, <1>3, PTL DEF Spec
-----------------------------------------------------------------------------
(***************************************************************************)
(* Campaign: what is on disk agrees with what the user knows, and only the *)
(* load of the selected test waits, with no tool running.                  *)
(***************************************************************************)
Contents == (Tests \X Nat) \cup {Cut}

CampaignType ==
  /\ build \in [Tests -> Nat]
  /\ files \in [Tests -> [File -> Contents]]
  /\ fate \in [Tests -> [File -> {"measured", "cut", "unmeasured"}]]
  /\ got \in Seq([File -> Contents]) /\ Len(got) = Len(loads)

\* A tool that runs writes the file that the user means, and if that is the
\* one of its program, then of the program as it is now.
RunOnCourse ==
  run = Idle \/
    /\ run \in [phase : {"executing", "writing"}, program : Contents, f : File,
                name : Tests, meant : Tests]
    /\ run.name = run.meant
    /\ run.meant = run.program[1] => run.program = Program(run.meant)

FilesFollow ==
  \A name \in Tests, f \in File :
    /\ fate[name][f] = "measured" => files[name][f] = Program(name)
    /\ fate[name][f] = "cut" => files[name][f] = Cut

OnePending ==
  /\ ~Quiet => run = Idle
  /\ \A i \in DOMAIN loads : i # Current => ~Has(loads[i], "pending")
  /\ loads[Current].base = selected

\* While a load waits, what it has read is on disk; once it has been read, it
\* is what the page shows.
ReadFromDisk ==
  /\ ~Quiet => \A f \in File :
       loads[Current].status[f] = "read" =>
         got[Current][f] = files[selected][f] /\ got[Current][f] # Cut
  /\ Quiet /\ ~Has(loads[Current], "failed") => page["cards"] = Current

CampaignInv ==
  TypeOK /\ CampaignType /\ RunOnCourse /\ FilesFollow /\ OnePending /\ ReadFromDisk

everything == <<vars, shell, got>>

LEMMA ProgramsAreContents ==
  ASSUME CampaignType
  PROVE  /\ \A test \in Tests : Program(test) \in Contents
         /\ Cut \in Contents
BY DEF CampaignType, Program, Contents

LEMMA LastLoad == TypeOK => Current \in DOMAIN loads /\ Current = Len(loads)
BY LenProperties DEF TypeOK, Current

\* The page does in the campaign what it does by itself.
LEMMA PageSteps == [CampaignNext]_everything => [Next]_vars
BY DEF CampaignNext, Shell, Rebuild, StartTool, OpenFile, OpenFails, CloseFile, Kill,
       SelectQuietly, Fetch, Next, AnswerSome, everything

LEMMA CampaignInvInit == CampaignInit => CampaignInv
<1> SUFFICES ASSUME CampaignInit PROVE CampaignInv
  OBVIOUS
<1>1. TypeOK
  BY TypeInit DEF CampaignInit
<1>2. build \in [Tests -> Nat] /\ \A test \in Tests : Program(test) \in Contents
  BY DEF CampaignInit, Program, Contents
<1>3. DOMAIN loads = {1} /\ loads[1] = NewLoad(FirstTest) /\ Current = 1
  BY DEF CampaignInit, Init, Current
<1>4. CampaignType
  <2>1. [f \in File |-> Cut] \in [File -> Contents]
    BY DEF Contents
  <2>2. got \in Seq([File -> Contents]) /\ Len(got) = 1
    BY <2>1 DEF CampaignInit
  <2> QED
    BY <1>2, <1>3, <2>2 DEF CampaignInit, CampaignType, Current
<1>5. RunOnCourse /\ FilesFollow
  BY DEF CampaignInit, RunOnCourse, FilesFollow
<1>6. OnePending
  BY <1>3 DEF CampaignInit, Init, OnePending, NewLoad
<1>7. ReadFromDisk
  BY <1>3 DEF ReadFromDisk, NewLoad, Quiet, Has, File
<1> QED
  BY <1>1, <1>4, <1>5, <1>6, <1>7 DEF CampaignInv

\* The steps of the shell leave the page alone, and happen when no load waits.
LEMMA ShellStep ==
  ASSUME CampaignInv, Shell
  PROVE  /\ UNCHANGED <<vars, got>>
         /\ Quiet
         /\ TypeOK' /\ OnePending' /\ ReadFromDisk'
<1>1. UNCHANGED <<vars, got>>
  BY DEF Shell, Rebuild, StartTool, OpenFile, OpenFails, CloseFile, Kill
<1>2. Quiet
  BY DEF CampaignInv, OnePending, Shell, Rebuild, StartTool, OpenFile, OpenFails, CloseFile,
     Kill, Idle
<1>3. Quiet'
  BY <1>1, <1>2 DEF vars, Quiet, Has
<1>4. TypeOK'
  BY <1>1 DEF CampaignInv, TypeOK, vars
<1>5. OnePending' /\ ReadFromDisk'
  BY <1>1, <1>2, <1>3 DEF CampaignInv, OnePending, ReadFromDisk, vars, Current, Has
<1> QED
  BY <1>1, <1>2, <1>4, <1>5

LEMMA ShellKeepsInv == CampaignInv /\ Shell => CampaignInv'
<1> SUFFICES ASSUME CampaignInv, Shell PROVE CampaignInv'
  OBVIOUS
<1> USE DEF CampaignInv
<1>1. /\ TypeOK' /\ OnePending' /\ ReadFromDisk'
      /\ loads' = loads /\ got' = got
  BY ShellStep DEF vars
<1>2. SUFFICES CampaignType' /\ RunOnCourse' /\ FilesFollow'
  BY <1>1
<1>3. ASSUME NEW test \in Tests, Rebuild(test)
      PROVE  CampaignType' /\ RunOnCourse' /\ FilesFollow'
  <2>1. /\ build' \in [Tests -> Nat] /\ files' = files
        /\ \A name \in Tests : name # test => Program(name)' = Program(name)
    BY <1>3 DEF Rebuild, CampaignType, Program
  <2>2. /\ fate' \in [Tests -> [File -> {"measured", "cut", "unmeasured"}]]
        /\ \A name \in Tests : name # test => fate'[name] = fate[name]
        /\ \A f \in File : fate'[test][f] = IF fate[test][f] = "cut" THEN "cut" ELSE "unmeasured"
    BY <1>3 DEF Rebuild, CampaignType
  <2>3. CampaignType' /\ RunOnCourse'
    BY <1>1, <1>3, <2>1, <2>2 DEF Rebuild, CampaignType, RunOnCourse, Idle
  <2>4. FilesFollow'
    BY <2>1, <2>2 DEF FilesFollow
  <2> QED
    BY <2>3, <2>4
<1>4. ASSUME NEW test \in Tests, NEW f \in File, NEW given \in BOOLEAN, StartTool(test, f, given)
      PROVE  CampaignType' /\ RunOnCourse' /\ FilesFollow'
  <2>1. build' = build /\ files' = files /\ fate' = fate
    BY <1>4 DEF StartTool
  <2>2. CampaignType' /\ FilesFollow'
    BY <1>1, <2>1 DEF CampaignType, FilesFollow, Program
  <2>3. PICK name \in Tests : name = KnobOutputFile(test, given) /\ name = Meant(test, given)
    BY CampaignAssumption DEF KnobOutputFile, Meant
  <2>4. PICK program \in Contents : program = Program(test)
    BY ProgramsAreContents
  <2>5. run' = [phase |-> "executing", program |-> program, f |-> f, name |-> name, meant |-> name]
    BY <1>4, <2>3, <2>4 DEF StartTool
  <2>6. name = program[1] => program = Program(name)'
    BY <2>1, <2>4 DEF Program
  <2>7. RunOnCourse'
    BY <2>5, <2>6 DEF RunOnCourse
  <2> QED
    BY <2>2, <2>7
<1>5. ASSUME OpenFile \/ CloseFile
      PROVE  CampaignType' /\ RunOnCourse' /\ FilesFollow'
  <2>1. /\ build' = build
        /\ run \in [phase : {"executing", "writing"}, program : Contents, f : File,
                    name : Tests, meant : Tests]
        /\ run.name = run.meant
        /\ run.meant = run.program[1] => run.program = Program(run.meant)
    BY <1>5 DEF OpenFile, CloseFile, RunOnCourse, Idle
  <2>2. \A name \in Tests : Program(name)' = Program(name)
    BY <2>1 DEF Program
  <2>3. PICK name \in Tests, f \in File : name = run.name /\ name = run.meant /\ f = run.f
    BY <2>1
  <2>4. ASSUME NEW c \in Contents, NEW r \in {"measured", "cut", "unmeasured"},
               files' = [files EXCEPT ![name][f] = c],
               fate' = [fate EXCEPT ![name][f] = r],
               r = "measured" => c = Program(name),
               r = "cut" => c = Cut
        PROVE  CampaignType' /\ FilesFollow'
    <3>1. /\ files' \in [Tests -> [File -> Contents]]
          /\ \A m \in Tests, g \in File :
               files'[m][g] = IF m = name /\ g = f THEN c ELSE files[m][g]
      BY <2>4 DEF CampaignType
    <3>2. /\ fate' \in [Tests -> [File -> {"measured", "cut", "unmeasured"}]]
          /\ \A m \in Tests, g \in File :
               fate'[m][g] = IF m = name /\ g = f THEN r ELSE fate[m][g]
      BY <2>4 DEF CampaignType
    <3>3. CampaignType'
      BY <1>1, <2>1, <3>1, <3>2 DEF CampaignType
    <3>4. FilesFollow'
      BY <2>2, <2>4, <3>1, <3>2 DEF FilesFollow
    <3> QED
      BY <3>3, <3>4
  <2>5. CASE OpenFile
    <3>1. CampaignType' /\ FilesFollow'
      BY <2>3, <2>4, <2>5, ProgramsAreContents DEF OpenFile
    <3>2. RunOnCourse'
      BY <2>1, <2>2, <2>5 DEF OpenFile, RunOnCourse
    <3> QED
      BY <3>1, <3>2
  <2>6. CASE CloseFile
    <3>1. CampaignType' /\ FilesFollow'
      BY <2>1, <2>3, <2>4, <2>6 DEF CloseFile
    <3>2. RunOnCourse'
      BY <2>6 DEF CloseFile, RunOnCourse
    <3> QED
      BY <3>1, <3>2
  <2> QED
    BY <1>5, <2>5, <2>6
<1>6. ASSUME OpenFails \/ Kill
      PROVE  CampaignType' /\ RunOnCourse' /\ FilesFollow'
  <2>1. run' = Idle /\ build' = build /\ files' = files /\ fate' = fate
    BY <1>6 DEF OpenFails, Kill
  <2> QED
    BY <1>1, <2>1 DEF CampaignType, RunOnCourse, FilesFollow, Program
<1> QED
  BY <1>3, <1>4, <1>5, <1>6 DEF Shell

LEMMA SelectKeepsInv ==
  ASSUME CampaignInv, NEW test \in Tests, SelectQuietly(test)
  PROVE  CampaignInv'
<1> USE DEF CampaignInv
<1>1. Select(test) /\ run = Idle /\ Quiet /\ UNCHANGED shell /\ TypeOK'
  BY TypeStep DEF SelectQuietly, Next
<1>2. /\ Len(loads') = Len(loads) + 1
      /\ DOMAIN loads' = DOMAIN loads \cup {Len(loads) + 1}
      /\ loads'[Len(loads) + 1] = NewLoad(test)
      /\ \A j \in DOMAIN loads : loads'[j] = loads[j]
  BY <1>1, SelectLoads
<1>3. Current' = Len(loads) + 1 /\ loads'[Current'] = NewLoad(test) /\ Current' \in DOMAIN loads'
  BY <1>2 DEF Current
<1>4. CampaignType'
  <2>1. [f \in File |-> Cut] \in [File -> Contents]
    BY DEF Contents
  <2>2. got' \in Seq([File -> Contents]) /\ Len(got') = Len(got) + 1
    BY <2>1, AppendProperties DEF SelectQuietly, CampaignType
  <2> QED
    BY <1>1, <1>2, <2>2 DEF shell, CampaignType
<1>5. RunOnCourse' /\ FilesFollow'
  BY <1>1 DEF shell, RunOnCourse, FilesFollow, Program
<1>6. OnePending'
  <2>1. \A i \in DOMAIN loads' : i # Current' => ~Has(loads'[i], "pending")
    BY <1>1, <1>2, <1>3 DEF Quiet
  <2>2. loads'[Current'].base = selected'
    BY <1>1, <1>3 DEF Select, NewLoad
  <2> QED
    BY <1>1, <2>1, <2>2 DEF shell, OnePending
<1>7. ReadFromDisk'
  <2>1. \A f \in File : loads'[Current'].status[f] = "pending"
    BY <1>3 DEF NewLoad
  <2>2. ~Quiet'
    BY <1>3, <2>1 DEF Quiet, Has, File
  <2> QED
    BY <2>1, <2>2 DEF ReadFromDisk
<1> QED
  BY <1>1, <1>4, <1>5, <1>6, <1>7

\* render always brings the cards up to date.
LEMMA CardsRendered == ASSUME NEW i, Render(i) PROVE page'["cards"] = i
<1>1. 1 \in Completed /\ Steps[1] = "cards"
  BY DEF Completed, Throws, Charts, Steps
<1> QED
  BY <1>1 DEF Render, Elements

\* What a fetch of load i of file f does: it is the load that waits, and what
\* has been read of it is on disk.
LEMMA FetchStep ==
  ASSUME CampaignInv, NEW i \in DOMAIN loads, NEW f \in File, Fetch(i, f)
  PROVE  /\ i = Current /\ Current' = Current /\ i \in DOMAIN loads'
         /\ run = Idle /\ selected' = selected
         /\ UNCHANGED shell
         /\ loads'[i].base = selected
         /\ CampaignType'
         /\ \A j \in DOMAIN loads' : j # i => ~Has(loads'[j], "pending")
         /\ \A g \in File : loads'[i].status[g] = "read" =>
              got'[i][g] = files[selected][g] /\ got'[i][g] # Cut
         /\ \/ Render(i) /\ \A g \in File : loads'[i].status[g] = "read"
            \/ page' = page /\ (Has(loads'[i], "failed") \/ Has(loads'[i], "pending"))
<1> USE DEF CampaignInv
<1>1. PICK outcome \in {"read", "failed"} :
        /\ Answer(i, f, outcome)
        /\ \/ /\ outcome = "read"
              /\ files[loads[i].base][f] # Cut
              /\ got' = [got EXCEPT ![i][f] = files[loads[i].base][f]]
           \/ outcome = "failed" /\ got' = got
  BY DEF Fetch
<1>2. UNCHANGED shell /\ selected' = selected
  BY <1>1 DEF Fetch, Answer
<1>3. /\ Len(loads') = Len(loads) /\ DOMAIN loads' = DOMAIN loads
      /\ loads'[i] \in Load
      /\ loads'[i].base = loads[i].base
      /\ loads'[i].status[f] = outcome
      /\ \A g \in File : g # f => loads'[i].status[g] = loads[i].status[g]
      /\ \A j \in DOMAIN loads : j # i => loads'[j] = loads[j]
  BY <1>1, AnswerLoads
<1>4. loads[i].status[f] = "pending" /\ i = Current /\ ~Quiet /\ run = Idle
  BY <1>1 DEF Answer, OnePending, Quiet, Has
<1>5. loads[i].base = selected /\ selected \in Tests
  BY <1>4 DEF OnePending, TypeOK
<1>6. /\ got' \in Seq([File -> Contents]) /\ Len(got') = Len(got)
      /\ outcome = "read" => got'[i][f] = files[selected][f] /\ got'[i][f] # Cut
      /\ \A g \in File : g # f => got'[i][g] = got[i][g]
  <2>1. i \in 1 .. Len(got) /\ got \in Seq([File -> Contents]) /\ got[i] \in [File -> Contents]
    <3>1. i \in 1 .. Len(got) /\ got \in Seq([File -> Contents])
      BY LenProperties DEF CampaignType, TypeOK
    <3> QED
      BY <3>1, ElementOfSeq
  <2>2. CASE outcome = "failed"
    BY <1>1, <2>1, <2>2
  <2>3. CASE outcome = "read"
    <3>1. PICK c \in Contents : c = files[selected][f] /\ c # Cut
      BY <1>1, <1>5, <2>3 DEF CampaignType
    <3>2. got' = [got EXCEPT ![i] = [got[i] EXCEPT ![f] = c]]
      BY <1>1, <1>5, <2>3, <3>1
    <3>3. [got[i] EXCEPT ![f] = c] \in [File -> Contents]
      BY <2>1
    <3>4. got' \in Seq([File -> Contents]) /\ Len(got') = Len(got)
      BY <2>1, <3>2, <3>3, ExceptSeq
    <3>5. got'[i] = [got[i] EXCEPT ![f] = c]
      BY <2>1, <3>2
    <3> QED
      BY <2>1, <3>1, <3>4, <3>5
  <2> QED
    BY <2>2, <2>3
<1>7. CampaignType'
  BY <1>2, <1>3, <1>6 DEF CampaignType, shell
<1>8. \A g \in File : loads'[i].status[g] = "read" =>
         got'[i][g] = files[selected][g] /\ got'[i][g] # Cut
  BY <1>3, <1>4, <1>6 DEF ReadFromDisk
<1>9. \/ Render(i) /\ \A g \in File : loads'[i].status[g] = "read"
      \/ page' = page /\ (Has(loads'[i], "failed") \/ Has(loads'[i], "pending"))
  <2>1. CASE Reject(loads[i], i) /\ outcome = "failed"
    BY <1>3, <2>1 DEF Reject, Has
  <2>2. CASE Render(i) /\ ~Has(loads'[i], "pending") /\ ~Has(loads'[i], "failed")
    BY <1>3, <2>2 DEF Has, Load
  <2>3. CASE UNCHANGED <<page, console>> /\ outcome # "failed" /\ ~Render(i)
    <3>1. Has(loads'[i], "failed") \/ Has(loads'[i], "pending")
      BY <1>1, <2>3 DEF Answer
    <3> QED
      BY <2>3, <3>1
  <2> QED
    BY <1>1, <2>1, <2>2, <2>3, AnswerOutcomes
<1>10. \A j \in DOMAIN loads' : j # i => ~Has(loads'[j], "pending")
  BY <1>3, <1>4 DEF OnePending
<1> QED
  BY <1>2, <1>3, <1>4, <1>5, <1>7, <1>8, <1>9, <1>10 DEF Current

LEMMA FetchKeepsInv ==
  ASSUME CampaignInv, NEW i \in DOMAIN loads, NEW f \in File, Fetch(i, f)
  PROVE  CampaignInv'
<1> USE DEF CampaignInv
<1>1. /\ i = Current /\ Current' = Current /\ i \in DOMAIN loads'
      /\ run = Idle /\ selected' = selected
      /\ UNCHANGED shell
      /\ loads'[i].base = selected
      /\ CampaignType'
      /\ \A j \in DOMAIN loads' : j # i => ~Has(loads'[j], "pending")
      /\ \A g \in File : loads'[i].status[g] = "read" =>
           got'[i][g] = files[selected][g] /\ got'[i][g] # Cut
      /\ \/ Render(i) /\ \A g \in File : loads'[i].status[g] = "read"
         \/ page' = page /\ (Has(loads'[i], "failed") \/ Has(loads'[i], "pending"))
  BY FetchStep
<1>2. TypeOK'
  BY PageSteps, TypeStep DEF CampaignNext
<1>3. RunOnCourse' /\ FilesFollow'
  BY <1>1 DEF shell, RunOnCourse, FilesFollow, Program
<1>4. OnePending'
  BY <1>1 DEF shell, OnePending
<1>5. ReadFromDisk'
  <2>1. Quiet' /\ ~Has(loads'[i], "failed") => page'["cards"] = i
    BY <1>1, CardsRendered DEF Quiet
  <2> QED
    BY <1>1, <2>1 DEF shell, ReadFromDisk
<1> QED
  BY <1>1, <1>2, <1>3, <1>4, <1>5

LEMMA CampaignInvStep == CampaignInv /\ [CampaignNext]_everything => CampaignInv'
<1>1. ASSUME CampaignInv, UNCHANGED everything
      PROVE  CampaignInv'
  BY <1>1 DEF everything, vars, shell, CampaignInv, TypeOK, CampaignType, RunOnCourse,
     FilesFollow, OnePending, ReadFromDisk, Quiet, Has, Current, Program
<1> QED
  BY <1>1, ShellKeepsInv, SelectKeepsInv, FetchKeepsInv DEF CampaignNext

\* A user who waits for the page sees the selected test once its files have
\* been read, for any number of loads, failed ones among them (script.js:9-19).
THEOREM PatientSeesTestcase == CampaignSpec => []ThisTestcase
<1>1. CampaignInv => ThisTestcase
  <2> SUFFICES ASSUME CampaignInv, Quiet, ~Has(loads[Current], "failed")
               PROVE  page["cards"] > 0 /\ loads[page["cards"]].base = selected
    BY DEF ThisTestcase
  <2>1. page["cards"] = Current /\ loads[Current].base = selected
    BY DEF CampaignInv, ReadFromDisk, OnePending
  <2>2. Current > 0
    BY DEF CampaignInv, TypeOK, Current
  <2> QED
    BY <2>1, <2>2
<1> QED
  BY <1>1, CampaignInvInit, CampaignInvStep, PTL DEF CampaignSpec, everything

\* The page never comes to display an older result of a test that has been
\* measured since it was built, for any number of builds, tool runs, kills and
\* failures (MyBranch.cpp:133-161, script.js:9-19).
THEOREM MeasurementDisplayed == CampaignSpec => DisplaysMeasurement
<1> DEFINE Faithful ==
             \A i \in DOMAIN loads : Displays(i) =>
               \A f \in File :
                 CASE fate[selected][f] = "measured" -> got'[i][f] = Program(selected)
                   [] fate[selected][f] = "cut"      -> FALSE
                   [] OTHER                          -> TRUE
<1>1. ASSUME CampaignInv, CampaignNext
      PROVE  Faithful
  <2>1. ASSUME page' = page
        PROVE  Faithful
    BY <2>1 DEF Displays
  <2>2. CASE Shell \/ \E test \in Tests : SelectQuietly(test)
    <3>1. page' = page
      BY <1>1, <2>2, ShellStep DEF vars, SelectQuietly, Select
    <3> QED
      BY <2>1, <3>1
  <2>3. ASSUME NEW i \in DOMAIN loads, NEW f \in File, Fetch(i, f)
        PROVE  Faithful
    <3>1. /\ \A g \in File : loads'[i].status[g] = "read" =>
               got'[i][g] = files[selected][g] /\ got'[i][g] # Cut
          /\ \/ Render(i) /\ \A g \in File : loads'[i].status[g] = "read"
             \/ page' = page
      BY <1>1, <2>3, FetchStep
    <3>2. CASE Render(i) /\ \A g \in File : loads'[i].status[g] = "read"
      <4>1. page'["cards"] = i
        BY <3>2, CardsRendered
      <4>2. \A g \in File : got'[i][g] = files[selected][g] /\ got'[i][g] # Cut
        BY <3>1, <3>2
      <4>3. \A g \in File :
              /\ fate[selected][g] = "measured" => got'[i][g] = Program(selected)
              /\ fate[selected][g] # "cut"
        BY <1>1, <4>2 DEF CampaignInv, FilesFollow, TypeOK
      <4> QED
        BY <4>1, <4>3 DEF Displays
    <3> QED
      BY <2>1, <3>1, <3>2
  <2> QED
    BY <1>1, <2>2, <2>3 DEF CampaignNext
<1>2. CampaignInv /\ [CampaignNext]_everything => [Faithful]_everything
  BY <1>1
<1> QED
  BY <1>2, CampaignInvInit, CampaignInvStep, PTL
     DEF CampaignSpec, DisplaysMeasurement, everything

\* The patient use of the page is a use of it: what holds of the page however
\* it is used holds in a campaign, where files are missing, cut short or old.
THEOREM CampaignUsesPage == CampaignSpec => Spec
<1>1. CampaignInit => Init
  BY DEF CampaignInit
<1> QED
  BY <1>1, PageSteps, PTL DEF CampaignSpec, Spec, everything
=============================================================================
