------------------------------ MODULE Campaign ------------------------------
(***************************************************************************)
(* How the parts are used together: programs are built and rebuilt, the    *)
(* pintools are run on them from a shell and write the results directory,  *)
(* and the page reads it.                                                  *)
(*                                                                         *)
(* A tool run may be killed, before Fini or while Fini writes; its results *)
(* file may fail to open; the -o option may be forgotten; a fetch may      *)
(* fail.  The user is a patient one: commands run one after the other in   *)
(* the foreground, and the page is left alone while a command runs and     *)
(* while it is loading.  The server of the page and the browser deliver    *)
(* the files as they are, not from a cache.                                *)
(*                                                                         *)
(* What a results file holds is reduced to the program it was measured on, *)
(* a test and its build; MyBranch and MyTage have the numbers.             *)
(***************************************************************************)
EXTENDS Dashboard

CONSTANTS
  DefaultName,   \* the value of -o if it is not given: "test1"
  MaxBuilds,     \* bound on the builds of each program
  MaxRuns        \* bound on the number of tool runs

ASSUME CampaignAssumption ==
  /\ DefaultName \in Tests
  /\ MaxBuilds \in Nat /\ MaxRuns \in Nat

VARIABLES
  build,   \* test -> the number of times its program has been rebuilt
  run,     \* the tool run in progress, Idle if there is none
  runs,    \* tool runs started
  files,   \* the results directory: name -> file -> the program it is about
  got,     \* load -> file -> what its fetch has read
  fate     \* name -> file -> what the user knows of its last measurement

shell == <<build, run, runs, files, fate>>

Program(test) == <<test, build[test]>>

\* A file that has been opened for writing and not completed: no valid JSON.
Cut == <<>>

Idle == [phase |-> "none"]

\* The files of the repository are there when the page opens.
CampaignInit ==
  /\ Init
  /\ build = [test \in Tests |-> 0]
  /\ run = Idle
  /\ runs = 0
  /\ files = [name \in Tests |-> [f \in File |-> Program(name)]]
  /\ got = <<[f \in File |-> Cut]>>
  /\ fate = [name \in Tests |-> [f \in File |-> "measured"]]
-----------------------------------------------------------------------------
(***************************************************************************)
(* The shell.                                                              *)
(***************************************************************************)
\* The program of a test is compiled anew.
Rebuild(test) ==
  /\ run = Idle /\ Quiet
  /\ build[test] < MaxBuilds
  /\ build' = [build EXCEPT ![test] = @ + 1]
  /\ fate' = [fate EXCEPT ![test] =
                [f \in File |-> IF @[f] = "cut" THEN "cut" ELSE "unmeasured"]]
  /\ UNCHANGED <<vars, run, runs, files, got>>

\* Mutant: the option is not looked at.
KnobOutputFileMut(test, given) == DefaultName

\* KnobOutputFile.Value()
KnobOutputFile(test, given) == IF given THEN test ELSE DefaultName

\* The name that the user means: the one of the option, else the default.
Meant(test, given) == IF given THEN test ELSE DefaultName

\* pin -t MyBranch.so [-o test] -- ./program, or the same with MyTage.so.
StartTool(test, f, given) ==
  /\ run = Idle /\ Quiet
  /\ runs < MaxRuns
  /\ runs' = runs + 1
  /\ run' = [phase |-> "executing", program |-> Program(test), f |-> f,
             name |-> KnobOutputFile(test, given), meant |-> Meant(test, given)]
  /\ UNCHANGED <<vars, build, files, got, fate>>

\* Fini opens the file, which empties it.
OpenFile ==
  /\ run.phase = "executing"
  /\ run' = [run EXCEPT !.phase = "writing"]
  /\ files' = [files EXCEPT ![run.name][run.f] = Cut]
  /\ fate' = [fate EXCEPT ![run.meant][run.f] = "cut"]
  /\ UNCHANGED <<vars, build, runs, got>>

\* Fini cannot open the file: the tool ends as if it had.
OpenFails ==
  /\ run.phase = "executing"
  /\ run' = Idle
  /\ UNCHANGED <<vars, build, runs, files, got, fate>>

\* Fini has written the report and closes the file.
CloseFile ==
  /\ run.phase = "writing"
  /\ run' = Idle
  /\ files' = [files EXCEPT ![run.name][run.f] = run.program]
  /\ fate' = [fate EXCEPT ![run.meant][run.f] =
                IF run.meant = run.program[1] THEN "measured" ELSE "unmeasured"]
  /\ UNCHANGED <<vars, build, runs, got>>

\* The tool and the program under test are killed.
Kill ==
  /\ run # Idle
  /\ run' = Idle
  /\ UNCHANGED <<vars, build, runs, files, got, fate>>

Shell ==
  \/ \E test \in Tests : Rebuild(test)
  \/ \E test \in Tests, f \in File, given \in BOOLEAN : StartTool(test, f, given)
  \/ OpenFile
  \/ OpenFails
  \/ CloseFile
  \/ Kill
-----------------------------------------------------------------------------
(***************************************************************************)
(* The page.                                                               *)
(***************************************************************************)
SelectQuietly(test) ==
  /\ run = Idle /\ Quiet
  /\ Select(test)
  /\ got' = Append(got, [f \in File |-> Cut])
  /\ UNCHANGED shell

\* The answer to a fetch: response.json() takes a whole file only.
Fetch(i, f) ==
  LET content == files[loads[i].base][f]
  IN  /\ \/ /\ content # Cut
            /\ Answer(i, f, "read")
            /\ got' = [got EXCEPT ![i][f] = content]
         \/ /\ Answer(i, f, "failed")
            /\ UNCHANGED got
      /\ UNCHANGED shell

CampaignNext ==
  \/ Shell
  \/ \E test \in Tests : SelectQuietly(test)
  \/ \E i \in DOMAIN loads, f \in File : Fetch(i, f)

CampaignSpec == CampaignInit /\ [][CampaignNext]_<<vars, shell, got>>
-----------------------------------------------------------------------------
Displays(i) == page["cards"] # i /\ page'["cards"] = i

\* Whenever the page comes to display a load, each of its two reports is of
\* the program of the selected test as it was last built, if that has been
\* measured; a measurement that was cut short shows nothing, and in particular
\* nothing older.  What is left to chance is a test that was not measured after
\* its program was rebuilt, or overwritten by a run without -o, or measured by
\* a tool that could not open its file: then the page displays old results, and
\* possibly a pair of different programs.
DisplaysMeasurement ==
  [][\A i \in DOMAIN loads : Displays(i) =>
       \A f \in File :
         CASE fate[selected][f] = "measured" -> got'[i][f] = Program(selected)
           [] fate[selected][f] = "cut"      -> FALSE
           [] OTHER                          -> TRUE
    ]_<<vars, shell, got>>
=============================================================================
