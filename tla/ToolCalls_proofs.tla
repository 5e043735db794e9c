-------------------------- MODULE ToolCalls_proofs --------------------------
(***************************************************************************)
(* What TLAPS proves of ToolCalls for any calls, files and bounds: a call  *)
(* is answered by what it did, a change is made once unless a crash took   *)
(* its record back, and a whole-file write keeps the work that was there.  *)
(*                                                                         *)
(* The invariant says of each place of a call how the files stand to what  *)
(* they were when it began, the ones the editor saved meanwhile aside.     *)
(***************************************************************************)
EXTENDS ToolCalls, TLAPS, SequenceTheorems

-----------------------------------------------------------------------------
(* The inductive invariant.                                                *)

Running == step \notin {"model", "next"}

\* The tools that can be at each step of a call
ToolsAt ==
  [ capture |-> {"write_file", "edit_file"},
    match   |-> {"edit_file", "apply_patch"},
    write   |-> {"write_file", "edit_file", "create_files", "apply_patch"},
    lint    |-> {"write_file", "edit_file"},
    revert  |-> {"write_file", "edit_file"} ]

CallInv ==
  /\ ~Running => at = 1
  /\ Running => /\ todo # <<>>
                /\ HasParts => at <= Len(Call.parts)
                /\ AlreadyPerformed(Call) => step = "answered" /\ answer = "skipped"
  /\ step \in DOMAIN ToolsAt => Call.tool \in ToolsAt[step]

\* A change has been made once for its receipt, and once more for each record of it
\* that a crash has undone; ran are the receipts the checkpoint does not have yet.
ReceiptInv ==
  /\ ToSet(job.receipts) = ToSet(disk.receipts) \cup ran
  /\ ran \cap ToSet(disk.receipts) = {}
  /\ step = "model" => ran = {}
  /\ \A c \in Calls : times[c] = lost[c] + IF c \in ToSet(job.receipts) THEN 1 ELSE 0

Was(p) == before[job.repo][p]

\* The files of P are as they were when the call began, or the editor saved them.
Kept(P) == \A p \in P \ touched : File(p) = Was(p)

Alone == Running /\ ~HasParts

\* The file the call is about
Its(condition) == Call.path \in touched \/ condition

Written == IF Call.tool = "edit_file" THEN Call.to ELSE Call.content

\* A write that passed the guard leaves no stub where real work was.
Guarded == Call.tool = "write_file" => Its(Was(Call.path) \in Large => Call.content \notin Tiny)

Untouched == Alone /\ step \in {"guard", "capture", "match", "write"} => Kept(Paths)

Captured ==
  Alone /\ step \in {"match", "write", "lint", "revert"} => Its(previous = Was(Call.path))

Allowed == Alone /\ step \in {"capture", "write", "lint", "revert"} => Guarded

\* edit_file writes over what it looked for.
Matched ==
  Alone /\ step \in {"write", "lint", "revert"} /\ Call.tool = "edit_file" =>
    Its(Was(Call.path) = Call.from)

IsWritten ==
  Alone /\ step \in {"lint", "revert"} => Kept(Paths \ {Call.path}) /\ Its(File(Call.path) = Written)

\* What an answer tells of the files
Told ==
  Running /\ step = "answered" =>
    /\ answer # "none"
    /\ answer \in {"skipped", "refused", "failed", "reverted"} => Kept(Paths)
    /\ answer \in {"done", "broken"} =>
         /\ Call.tool \in {"write_file", "edit_file"} =>
              /\ Kept(Paths \ {Call.path}) /\ Its(File(Call.path) = Written) /\ Guarded
              /\ Call.tool = "edit_file" => Its(Was(Call.path) = Call.from)
         /\ Call.tool = "delete_file" => Its(File(Call.path) = Absent)
         /\ Call.tool = "move_file" =>
              \/ {Call.path, Call.to} \cap touched # {}
              \/ /\ File(Call.to) = Was(Call.path)
                 /\ Call.to # Call.path => File(Call.path) = Absent

FilesInv == Untouched /\ Captured /\ Allowed /\ Matched /\ IsWritten /\ Told

IInv == TypeOK /\ CallInv /\ ReceiptInv /\ FilesInv

-----------------------------------------------------------------------------
(* Calls and their parts.                                                  *)

\* What a call has besides its tool
LEMMA CallIs ==
  ASSUME NEW c \in Calls
  PROVE  /\ c.tool \in GRAPH_DIRTYING_TOOLS \cup {"run_command", "create_project"}
         /\ c.tool \in {"write_file", "run_command"} => c.path \in Paths /\ c.content \in Contents
         /\ c.tool = "edit_file" => c.path \in Paths /\ c.from \in Contents /\ c.to \in Contents
         /\ c.tool = "delete_file" => c.path \in Paths
         /\ c.tool = "move_file" => c.path \in Paths /\ c.to \in Paths
         /\ c.tool = "create_files" => c.parts \in Seq(NewFile) /\ c.parts # <<>>
         /\ c.tool = "apply_patch" => c.parts \in Seq(Hunk) /\ c.parts # <<>>
<1>1. IsCall(c)
  BY ToolAssumption
<1> QED
  BY <1>1 DEF IsCall, GRAPH_DIRTYING_TOOLS

\* The part a running call is at is the call itself, or a file or hunk of it.
LEMMA PartIs ==
  ASSUME TypeOK, CallInv, Running
  PROVE  /\ Call \in Calls
         /\ ~HasParts => Part = Call /\ IsLast
         /\ HasParts => /\ Len(Call.parts) \in Nat /\ at <= Len(Call.parts)
                        /\ Part.tool = IF Call.tool = "create_files" THEN "new" ELSE "hunk"
                        /\ Part \in NewFile \cup Hunk /\ Call # Part
<1>1. Call \in Calls
  BY DEF TypeOK, CallInv, Call
<1>2. ~HasParts => Part = Call /\ IsLast
  BY DEF Part, IsLast
<1>3. ASSUME HasParts
      PROVE  /\ Len(Call.parts) \in Nat /\ at <= Len(Call.parts)
             /\ Part.tool = IF Call.tool = "create_files" THEN "new" ELSE "hunk"
             /\ Part \in NewFile \cup Hunk
  <2>1. at \in 1 .. Len(Call.parts) /\ Len(Call.parts) \in Nat
    BY <1>1, <1>3, CallIs DEF CallInv, TypeOK, HasParts
  <2>2. CASE Call.tool = "create_files"
    <3>1. Part \in NewFile
      BY <1>1, <1>3, <2>1, <2>2, CallIs DEF Part
    <3> QED
      BY <2>1, <2>2, <3>1 DEF NewFile
  <2>3. CASE Call.tool = "apply_patch"
    <3>1. Part \in Hunk
      BY <1>1, <1>3, <2>1, <2>3, CallIs DEF Part
    <3> QED
      BY <2>1, <2>3, <3>1 DEF Hunk
  <2> QED
    BY <1>3, <2>2, <2>3 DEF HasParts
<1>4. HasParts => Call # Part
  BY <1>3 DEF HasParts
<1> QED
  BY <1>1, <1>2, <1>3, <1>4

\* A write into the job's repository changes the one file.
LEMMA PutIs ==
  ASSUME TypeOK, job' = job, NEW p \in Paths, NEW c \in MaybeContents, Put(p, c)
  PROVE  files' \in Files /\ \A q \in Paths : File(q)' = IF q = p THEN c ELSE File(q)
BY DEF TypeOK, Files, Job, Put, File

\* A step that leaves the files and the job alone leaves every file the job sees alone.
LEMMA SameFiles ==
  ASSUME TypeOK, UNCHANGED <<files, job>>
  PROVE  files' \in Files /\ \A q \in Paths : File(q)' = File(q)
BY DEF TypeOK, File

-----------------------------------------------------------------------------
(* Types.                                                                  *)

\* The steps that belong to one call and leave the job alone
WithinCall ==
  \/ GuardWrite \/ GuardEdit \/ Capture \/ Match \/ WriteOut \/ Lint \/ Revert
  \/ DeleteFile \/ MoveFile \/ RunCommand

\* The steps inside one call leave the job, its round, the editor and the history alone.
LEMMA WithinCallIs ==
  ASSUME WithinCall
  PROVE  /\ UNCHANGED <<exists, job, disk, todo, human, ghosts>>
         /\ Running /\ step # "answered" /\ step' \notin {"model", "next"}
BY DEF WithinCall, GuardWrite, GuardEdit, Capture, Match, WriteOut, Lint, Revert, DeleteFile,
   MoveFile, RunCommand, Quiet, Running, Done, Goto, Say

\* Where Done goes
LEMMA DoneIs ==
  ASSUME NEW a \in Answers, Done(a), TypeOK, CallInv, Running
  PROVE  /\ step' \in {"answered", "guard"} /\ answer' \in Answers /\ at' \in Nat \ {0}
         /\ step' = "guard" => HasParts /\ at' <= Len(Call.parts)
         /\ step' = "answered" => at' = at /\ answer' = IF HasParts THEN "done" ELSE a
<1>1. ~HasParts => Call = Part /\ IsLast
  BY PartIs
<1>2. HasParts => Call # Part /\ Len(Call.parts) \in Nat /\ at <= Len(Call.parts) /\ at \in Nat \ {0}
  BY PartIs DEF TypeOK
<1>3. CASE IsLast
  BY <1>1, <1>2, <1>3 DEF Done, Say, Goto, TypeOK, Answers
<1>4. CASE ~IsLast
  <2>1. HasParts /\ at # Len(Call.parts)
    BY <1>4 DEF IsLast
  <2>2. step' = "guard" /\ at' = at + 1 /\ answer' = answer
    BY <1>4 DEF Done, Goto
  <2> QED
    BY <1>2, <2>1, <2>2 DEF TypeOK
<1> QED
  BY <1>3, <1>4

\* The first state has the types.
LEMMA InitType == Init => TypeOK
<1> SUFFICES ASSUME Init PROVE TypeOK
  OBVIOUS
<1>1. files \in Files
  <2>1. PICK f \in Initial :
          files = [r \in {Platform, Project} |->
                     IF r = Project /\ exists THEN f ELSE [p \in Paths |-> Absent]]
    BY DEF Init
  <2>2. f \in [Paths -> MaybeContents] /\ [p \in Paths |-> Absent] \in [Paths -> MaybeContents]
    BY ToolAssumption DEF MaybeContents
  <2> QED
    BY <2>1, <2>2 DEF Files
<1>2. job \in Job /\ exists \in BOOLEAN
  BY ToolAssumption DEF Init, Job
<1>3. todo \in Seq(Calls) /\ Len(todo) <= RoundCalls
  BY ToolAssumption DEF Init
<1>4. times \in [Calls -> Nat] /\ lost \in [Calls -> Nat]
  BY DEF Init
<1> QED
  BY <1>1, <1>2, <1>3, <1>4, ToolAssumption DEF Init, TypeOK, Steps, Answers, MaybeContents

\* The steps inside one call keep the types.
LEMMA WithinCallTypes ==
  ASSUME IInv, WithinCall
  PROVE  TypeOK'
<1> USE DEF IInv
<1>1. /\ UNCHANGED <<exists, job, disk, todo, saves, saver, crashes, before, touched, times, lost, ran, worked>>
      /\ Running
  BY WithinCallIs DEF human, ghosts
<1>2. \A a \in Answers : Done(a) => step' \in Steps /\ answer' \in Answers /\ at' \in Nat \ {0}
  BY <1>1, DoneIs DEF Steps
<1>3. Call \in Calls /\ (~HasParts => Part = Call)
  BY <1>1, PartIs
<1>4. step' \in Steps /\ answer' \in Answers /\ at' \in Nat \ {0}
  <2>1. CASE GuardWrite
    BY <1>2, <2>1 DEF GuardWrite, Goto, Steps, Answers, TypeOK
  <2>2. CASE GuardEdit
    BY <1>2, <2>2 DEF GuardEdit, Goto, Steps, Answers, TypeOK
  <2>3. CASE Match
    BY <1>2, <2>3 DEF Match, Goto, Steps, Answers, TypeOK
  <2>4. CASE WriteOut
    BY <1>2, <2>4 DEF WriteOut, Goto, Steps, Answers, TypeOK
  <2>5. CASE Capture \/ Lint \/ Revert \/ DeleteFile \/ MoveFile \/ RunCommand
    BY <2>5 DEF Capture, Lint, Revert, DeleteFile, MoveFile, RunCommand, callVars, Say, Goto, Steps,
       Answers, TypeOK
  <2> QED
    BY <2>1, <2>2, <2>3, <2>4, <2>5 DEF WithinCall
<1>5. previous' \in MaybeContents
  <2>1. CASE Capture
    <3>1. Call.path \in Paths /\ job.repo \in {Platform, Project} /\ files \in Files
      BY <1>3, <2>1, CallIs DEF Capture, CallInv, ToolsAt, TypeOK, Job
    <3> QED
      BY <2>1, <3>1 DEF Capture, File, Files
  <2>2. CASE ~Capture
    BY <2>2 DEF WithinCall, GuardWrite, GuardEdit, Match, WriteOut, Lint, Revert, DeleteFile,
       MoveFile, RunCommand, callVars, TypeOK
  <2> QED
    BY <2>1, <2>2
<1>6. files' \in Files
  <2>1. CASE WriteOut
    <3>1. Part.path \in Paths
      BY <1>1, <1>3, <2>1, PartIs, CallIs DEF WriteOut, CallInv, ToolsAt, HasParts, NewFile, Hunk
    <3>2. (IF Part.tool \in {"edit_file", "hunk"} THEN Part.to ELSE Part.content) \in MaybeContents
      BY <1>1, <1>3, <2>1, PartIs, CallIs DEF WriteOut, CallInv, ToolsAt, HasParts, NewFile, Hunk,
         MaybeContents
    <3> QED
      BY <1>1, <2>1, <3>1, <3>2, PutIs DEF WriteOut
  <2>2. CASE Revert
    <3>1. Call.path \in Paths /\ previous \in MaybeContents
      BY <1>3, <2>2, CallIs DEF Revert, CallInv, ToolsAt, TypeOK
    <3> QED
      BY <1>1, <2>2, <3>1, PutIs DEF Revert, RevertTarget
  <2>3. CASE DeleteFile
    BY <1>1, <1>3, <2>3, PutIs, SameFiles, CallIs DEF DeleteFile, MaybeContents
  <2>4. CASE RunCommand
    BY <1>1, <1>3, <2>4, PutIs, CallIs DEF RunCommand, MaybeContents
  <2>5. CASE MoveFile
    <3>1. Call.path \in Paths /\ Call.to \in Paths
      BY <1>3, <2>5, CallIs DEF MoveFile
    <3>2. File(Call.path) \in MaybeContents /\ Absent \in MaybeContents
      BY <3>1 DEF TypeOK, Files, Job, File, MaybeContents
    <3>3. job.repo \in {Platform, Project} /\ files[job.repo] \in [Paths -> MaybeContents]
      BY DEF TypeOK, Files, Job
    <3>4. [files[job.repo] EXCEPT ![Call.path] = Absent, ![Call.to] = File(Call.path)]
            \in [Paths -> MaybeContents]
      BY <3>1, <3>2, <3>3
    <3> QED
      BY <2>5, <3>3, <3>4 DEF MoveFile, TypeOK, Files
  <2>6. CASE GuardWrite \/ GuardEdit \/ Capture \/ Match \/ Lint
    BY <2>6 DEF GuardWrite, GuardEdit, Capture, Match, Lint, TypeOK
  <2> QED
    BY <2>1, <2>2, <2>3, <2>4, <2>5, <2>6 DEF WithinCall
<1> QED
  BY <1>1, <1>4, <1>5, <1>6 DEF TypeOK

\* A round of calls is a sequence of them, and what is left after one as well.
LEMMA CallsOfRound ==
  ASSUME NEW n \in Nat, NEW s \in [1 .. n -> Calls]
  PROVE  s \in Seq(Calls) /\ Len(s) = n
OBVIOUS

\* So do the steps of a round: its start, the start of a call, its receipt, its end.
LEMMA RoundTypes ==
  ASSUME IInv, StartRound \/ Begin \/ CreateProject \/ Receipt \/ EndRound
  PROVE  TypeOK'
<1> USE DEF IInv
<1>1. CASE StartRound
  <2>1. PICK n \in 1 .. (RoundCalls - job.round) : todo' \in [1 .. n -> Calls]
    BY <1>1 DEF StartRound
  <2>2. job.round \in Nat /\ RoundCalls \in Nat /\ MaxRounds \in Nat /\ n \in Nat /\ n <= RoundCalls
    BY <2>1, ToolAssumption DEF TypeOK, Job
  <2>3. todo' \in Seq(Calls) /\ Len(todo') <= RoundCalls
    <3>1. todo' \in Seq(Calls) /\ Len(todo') = n
      BY <2>1, <2>2, CallsOfRound
    <3> QED
      BY <2>2, <3>1
  <2>4. job' \in Job
    <3>1. job.round + 1 \in 0 .. MaxRounds /\ job' = [job EXCEPT !.round = job.round + 1]
      BY <1>1, <2>2 DEF StartRound
    <3> QED
      BY <3>1 DEF TypeOK, Job
  <2> QED
    BY <1>1, <2>3, <2>4 DEF StartRound, TypeOK, Goto, Steps, callVars, human
<1>2. CASE Begin
  BY <1>2 DEF Begin, TypeOK, Say, Goto, Steps, Answers, callVars, human
<1>3. CASE CreateProject
  <2>1. files' \in Files
    BY <1>3 DEF CreateProject, TypeOK, Files, MaybeContents
  <2>2. job' \in Job /\ exists' \in BOOLEAN
    BY <1>3 DEF CreateProject, TypeOK, Job
  <2> QED
    BY <1>3, <2>1, <2>2 DEF CreateProject, TypeOK, Say, Goto, Steps, Answers, callVars, human
<1>4. CASE Receipt
  <2>1. Call \in Calls /\ todo # <<>>
    BY <1>4, PartIs DEF Receipt, Running, CallInv
  <2>2. Tail(todo) \in Seq(Calls) /\ Len(Tail(todo)) <= RoundCalls
    BY <2>1, HeadTailProperties, ToolAssumption DEF TypeOK
  <2>3. job' \in Job
    <3>1. \A c \in Calls : Append(job.receipts, c) \in Seq(Calls)
      BY DEF TypeOK, Job
    <3>2. job' = job \/ job' = [job EXCEPT !.receipts = Append(job.receipts, Call)]
      BY <1>4 DEF Receipt
    <3>3. Append(job.receipts, Call) \in Seq(Calls)
      BY <2>1, <3>1
    <3> QED
      BY <3>2, <3>3 DEF TypeOK, Job
  <2>5. times' \in [Calls -> Nat] /\ ran' \subseteq Calls
    <3>1. times \in [Calls -> Nat] /\ ran \subseteq Calls
      BY DEF TypeOK
    <3>2. /\ times' = times \/ times' = [times EXCEPT ![Call] = times[Call] + 1]
          /\ ran' = ran \/ ran' = ran \cup {Call}
      BY <1>4 DEF Receipt
    <3> QED
      BY <2>1, <3>1, <3>2
  <2>4. worked' \subseteq Calls
    BY <1>4, <2>1 DEF Receipt, TypeOK
  <2> QED
    BY <1>4, <2>2, <2>3, <2>4, <2>5 DEF Receipt, TypeOK, Goto, Steps, Answers, MaybeContents, human
<1>5. CASE EndRound
  BY <1>5 DEF EndRound, Saved, TypeOK, Goto, Steps, callVars, human
<1> QED
  BY <1>1, <1>2, <1>3, <1>4, <1>5

\* So do a crash and a save in the editor.
LEMMA OtherTypes ==
  ASSUME IInv, CrashAndRestart \/ SaveChecks \/ SaveWrites
  PROVE  TypeOK'
<1> USE DEF IInv
<1>1. CASE CrashAndRestart
  <2>1. <<>> \in Seq(Calls) /\ Len(<<>>) <= RoundCalls
    BY ToolAssumption
  <2>2. crashes' \in 0 .. MaxCrashes
    BY <1>1, ToolAssumption DEF CrashAndRestart, TypeOK
  <2>3. lost' \in [Calls -> Nat]
    BY <1>1 DEF CrashAndRestart, TypeOK
  <2> QED
    BY <1>1, <2>1, <2>2, <2>3 DEF CrashAndRestart, TypeOK, Steps, Answers, MaybeContents
<1>2. CASE SaveChecks
  <2>1. saves' \in 0 .. MaxSaves
    BY <1>2, ToolAssumption DEF SaveChecks, TypeOK
  <2> QED
    BY <1>2, <2>1 DEF SaveChecks, TypeOK, callVars, ghosts
<1>3. CASE SaveWrites
  <2>1. saver \in [path : Paths, content : Contents]
    BY <1>3, ToolAssumption DEF SaveWrites, TypeOK
  <2>2. files' \in Files
    BY <1>3, <2>1 DEF SaveWrites, TypeOK, Files, MaybeContents
  <2> QED
    BY <1>3, <2>1, <2>2 DEF SaveWrites, TypeOK, callVars
<1> QED
  BY <1>1, <1>2, <1>3

-----------------------------------------------------------------------------
(* Calls and receipts.                                                     *)

\* Every step keeps the place of the running call.
LEMMA WithinCallPlace ==
  ASSUME IInv, WithinCall
  PROVE  CallInv'
<1> USE DEF IInv
<1>1. UNCHANGED <<job, todo>> /\ Running /\ step # "answered" /\ step' \notin {"model", "next"}
  BY WithinCallIs
<1>2. /\ ~AlreadyPerformed(Call) /\ todo # <<>>
      /\ AlreadyPerformed(Call)' = AlreadyPerformed(Call)
      /\ HasParts' = HasParts /\ Call' = Call
  BY <1>1 DEF CallInv, AlreadyPerformed, HasParts, Call
<1>3. HasParts => at <= Len(Call.parts)
  BY <1>1 DEF CallInv
<1>4. \A a \in Answers : Done(a) =>
        /\ step' \in {"answered", "guard"}
        /\ HasParts => at' <= Len(Call.parts)
  BY <1>1, <1>3, DoneIs
<1>5. (HasParts => at' <= Len(Call.parts)) /\ (step' \in DOMAIN ToolsAt => Call.tool \in ToolsAt[step'])
  <2>1. CASE GuardWrite
    BY <1>3, <1>4, <2>1 DEF GuardWrite, Goto, Answers, ToolsAt
  <2>2. CASE GuardEdit
    BY <1>3, <1>4, <2>2 DEF GuardEdit, Goto, Answers, ToolsAt
  <2>3. CASE Match
    BY <1>3, <1>4, <2>3 DEF Match, Goto, Answers, ToolsAt, CallInv
  <2>4. CASE WriteOut
    <3>1. CASE Call = Part
      <4>1. ~HasParts
        BY <1>1, <3>1, PartIs
      <4>2. step' = "lint" /\ at' = at
        BY <2>4, <3>1 DEF WriteOut, Goto
      <4>3. Call.tool \in {"write_file", "edit_file"}
        BY <2>4, <4>1 DEF WriteOut, CallInv, ToolsAt, HasParts
      <4> QED
        BY <4>1, <4>2, <4>3 DEF ToolsAt
    <3>2. CASE Call # Part
      BY <1>4, <2>4, <3>2 DEF WriteOut, Answers, ToolsAt
    <3> QED
      BY <3>1, <3>2
  <2>5. CASE Capture \/ Lint \/ Revert
    BY <1>3, <2>5 DEF Capture, Lint, Revert, callVars, Say, Goto, ToolsAt, CallInv
  <2>6. CASE DeleteFile \/ MoveFile \/ RunCommand
    BY <1>3, <2>6 DEF DeleteFile, MoveFile, RunCommand, callVars, Say, Goto, ToolsAt
  <2> QED
    BY <2>1, <2>2, <2>3, <2>4, <2>5, <2>6 DEF WithinCall
<1> QED
  BY <1>1, <1>2, <1>5 DEF CallInv, Running

\* What is known of the place in a call is kept outside the calls.
LEMMA OthersKeepPlace ==
  ASSUME IInv, \/ StartRound \/ Begin \/ CreateProject \/ Receipt \/ EndRound
               \/ CrashAndRestart \/ SaveChecks \/ SaveWrites
  PROVE  CallInv'
<1> USE DEF IInv
<1>1. CASE StartRound
  BY <1>1 DEF StartRound, CallInv, Running, Goto, ToolsAt, callVars
<1>2. CASE EndRound
  BY <1>2 DEF EndRound, CallInv, Running, Goto, ToolsAt, callVars
<1>3. CASE Receipt
  BY <1>3 DEF Receipt, CallInv, Running, Goto, ToolsAt
<1>4. CASE CrashAndRestart
  BY <1>4 DEF CrashAndRestart, CallInv, Running, ToolsAt
<1>5. CASE Begin
  <2>1. at = 1 /\ todo # <<>> /\ UNCHANGED <<at, todo, job>>
    BY <1>5 DEF Begin, CallInv, Running, callVars
  <2>2. /\ Call' = Call /\ HasParts' = HasParts
        /\ AlreadyPerformed(Call)' = AlreadyPerformed(Call)
    BY <2>1 DEF Call, HasParts, AlreadyPerformed
  <2>3. HasParts => 1 <= Len(Call.parts)
    <3>1. Call \in Calls
      BY <2>1 DEF Call, TypeOK
    <3>2. HasParts => \E S : Call.parts \in Seq(S) /\ Call.parts # <<>>
      BY <3>1, CallIs DEF HasParts
    <3>3. ASSUME NEW S, NEW s \in Seq(S), s # <<>> PROVE 1 <= Len(s)
      BY <3>3, EmptySeq
    <3> QED
      BY <3>2, <3>3
  <2>4. /\ step' \in {"answered", "guard"}
        /\ AlreadyPerformed(Call) => step' = "answered" /\ answer' = "skipped"
    BY <1>5 DEF Begin, Say, Goto
  <2> QED
    BY <2>1, <2>2, <2>3, <2>4 DEF CallInv, Running, ToolsAt
<1>6. CASE CreateProject
  <2>1. /\ UNCHANGED <<at, todo>> /\ todo # <<>> /\ step' = "answered" /\ Call.tool = "create_project"
    BY <1>6 DEF CreateProject, CallInv, Running, callVars, Say, Goto
  <2>2. Call' = Call
    BY <2>1 DEF Call
  <2> QED
    BY <2>1, <2>2 DEF CallInv, Running, ToolsAt, HasParts, AlreadyPerformed, GRAPH_DIRTYING_TOOLS
<1>7. CASE SaveChecks \/ SaveWrites
  BY <1>7 DEF SaveChecks, SaveWrites, callVars, CallInv, Running, HasParts, Call, AlreadyPerformed
<1> QED
  BY <1>1, <1>2, <1>3, <1>4, <1>5, <1>6, <1>7

\* A receipt more is one element more.
LEMMA ReceiptsOf ==
  ASSUME NEW s \in Seq(Calls), NEW c \in Calls
  PROVE  ToSet(Append(s, c)) = ToSet(s) \cup {c}
<1>1. Len(s) \in Nat /\ Len(Append(s, c)) = Len(s) + 1 /\ Append(s, c) \in Seq(Calls)
  OBVIOUS
<1>2. \A i \in 1 .. Len(s) : Append(s, c)[i] = s[i]
  OBVIOUS
<1>3. Append(s, c)[Len(s) + 1] = c
  OBVIOUS
<1>4. DOMAIN s = 1 .. Len(s) /\ DOMAIN Append(s, c) = 1 .. Len(s) + 1
  BY <1>1
<1>5. 1 .. Len(s) + 1 = (1 .. Len(s)) \cup {Len(s) + 1}
  BY <1>1
<1> QED
  BY <1>2, <1>3, <1>4, <1>5 DEF ToSet

\* A receipt is given to a call that has none, and taken back by a crash only.
LEMMA ReceiptStep ==
  ASSUME IInv, Next
  PROVE  ReceiptInv'
<1> USE DEF IInv
<1>0. /\ job.receipts \in Seq(Calls) /\ disk.receipts \in Seq(Calls)
      /\ job' = job => job'.receipts = job.receipts
      /\ times \in [Calls -> Nat] /\ lost \in [Calls -> Nat]
  BY DEF TypeOK, Job
<1>1. CASE StartRound
  <2>1. job'.receipts = job.receipts /\ UNCHANGED <<disk, times, lost>> /\ ran = {} /\ ran' = {}
    BY <1>1 DEF StartRound, ReceiptInv, TypeOK, Job
  <2> QED
    BY <2>1 DEF ReceiptInv
<1>2. CASE EndRound
  BY <1>2 DEF EndRound, Saved, ReceiptInv
<1>3. CASE Receipt
  <2>1. UNCHANGED <<disk, lost>> /\ step' = "next" /\ Call \in Calls /\ step = "answered"
    BY <1>3, PartIs DEF Receipt, Goto, Running
  <2>2. CASE EarnsReceipt(Call, answer)
    <3>1. Call \notin ToSet(job.receipts)
      BY <2>1, <2>2 DEF EarnsReceipt, CallInv, Running, AlreadyPerformed
    <3>2. /\ job' = [job EXCEPT !.receipts = Append(job.receipts, Call)]
          /\ times' = [times EXCEPT ![Call] = times[Call] + 1] /\ ran' = ran \cup {Call}
      BY <1>3, <2>2 DEF Receipt
    <3>3. job'.receipts = Append(job.receipts, Call)
      BY <3>2 DEF TypeOK, Job
    <3>4. ToSet(job'.receipts) = ToSet(job.receipts) \cup {Call}
      BY <1>0, <2>1, <3>3, ReceiptsOf
    <3>5. ASSUME NEW c \in Calls
          PROVE  times'[c] = lost[c] + IF c \in ToSet(job'.receipts) THEN 1 ELSE 0
      <4>1. times[c] = lost[c] + (IF c \in ToSet(job.receipts) THEN 1 ELSE 0)
        BY DEF ReceiptInv
      <4>2. CASE c = Call
        <5>1. times'[c] = times[c] + 1 /\ times[c] = lost[c] + 0 /\ lost[c] \in Nat
          BY <1>0, <3>1, <3>2, <4>1, <4>2
        <5>2. c \in ToSet(job'.receipts)
          BY <3>4, <4>2
        <5> QED
          BY <5>1, <5>2
      <4>3. CASE c # Call
        BY <1>0, <3>2, <3>4, <4>1, <4>3
      <4> QED
        BY <4>2, <4>3
    <3>6. /\ ToSet(job'.receipts) = ToSet(disk.receipts) \cup ran'
          /\ ran' \cap ToSet(disk.receipts) = {}
      BY <3>1, <3>2, <3>4 DEF ReceiptInv
    <3> QED
      BY <2>1, <3>5, <3>6 DEF ReceiptInv
  <2>3. CASE ~EarnsReceipt(Call, answer)
    BY <1>3, <2>1, <2>3 DEF Receipt, ReceiptInv
  <2> QED
    BY <2>2, <2>3
<1>4. CASE CrashAndRestart
  <2>1. /\ job' = disk /\ disk' = disk /\ ran' = {} /\ times' = times
        /\ lost' = [c \in Calls |-> IF c \in ran THEN lost[c] + 1 ELSE lost[c]]
    BY <1>4 DEF CrashAndRestart
  <2>2. ASSUME NEW c \in Calls
        PROVE  times[c] = lost'[c] + IF c \in ToSet(disk.receipts) THEN 1 ELSE 0
    <3>1. times[c] = lost[c] + (IF c \in ToSet(job.receipts) THEN 1 ELSE 0)
      BY DEF ReceiptInv
    <3>2. c \in ToSet(job.receipts) <=> c \in ran \/ c \in ToSet(disk.receipts)
      BY DEF ReceiptInv
    <3>3. ~(c \in ran /\ c \in ToSet(disk.receipts))
      BY DEF ReceiptInv
    <3>4. lost'[c] = IF c \in ran THEN lost[c] + 1 ELSE lost[c]
      BY <2>1
    <3>5. lost[c] \in Nat
      BY <1>0
    <3> QED
      BY <3>1, <3>2, <3>3, <3>4, <3>5
  <2> QED
    BY <2>1, <2>2 DEF ReceiptInv
<1>5. CASE Begin
  BY <1>5 DEF Begin, Say, Goto, ReceiptInv
<1>6. CASE CreateProject
  <2>1. job'.receipts = job.receipts /\ UNCHANGED <<disk, times, lost, ran>> /\ step' = "answered"
    BY <1>6 DEF CreateProject, Say, Goto, TypeOK, Job
  <2> QED
    BY <2>1 DEF ReceiptInv
<1>7. CASE SaveChecks \/ SaveWrites
  BY <1>7 DEF SaveChecks, SaveWrites, ghosts, ReceiptInv
<1>8. CASE WithinCall
  BY <1>8, WithinCallIs DEF ghosts, ReceiptInv
<1> QED
  BY <1>1, <1>2, <1>3, <1>4, <1>5, <1>6, <1>7, <1>8 DEF Next, WithinCall

-----------------------------------------------------------------------------
(* The files.                                                              *)

\* A call is its own business until it is answered.
LEMMA SameCall ==
  ASSUME IInv, WithinCall
  PROVE  /\ Call' = Call /\ HasParts' = HasParts /\ touched' = touched /\ Alone' = Alone
         /\ \A p : Was(p)' = Was(p)
         /\ Running /\ step # "answered"
BY WithinCallIs DEF ghosts, Call, HasParts, Alone, Running, Was

\* A call of several files or hunks says that it is done; what became of each is in
\* its text.
LEMMA SeveralSteps ==
  ASSUME IInv, WithinCall, HasParts
  PROVE  FilesInv'
<1> USE DEF IInv
<1>1. Call.tool \in {"create_files", "apply_patch"} /\ HasParts' /\ Call' = Call /\ Running
  BY SameCall DEF HasParts
<1>2. \A a \in Answers : Done(a) /\ step' = "answered" => answer' = "done"
  BY <1>1, DoneIs
<1>3. step' = "answered" => answer' = "done"
  <2>1. CASE GuardWrite
    BY <1>2, <2>1 DEF GuardWrite, Goto, Answers
  <2>2. CASE GuardEdit
    BY <1>2, <2>2 DEF GuardEdit, Goto, Answers
  <2>3. CASE Match
    BY <1>2, <2>3 DEF Match, Goto, Answers
  <2>4. CASE WriteOut
    BY <1>2, <2>4 DEF WriteOut, Goto, Answers
  <2>5. CASE Capture \/ Lint \/ Revert \/ DeleteFile \/ MoveFile \/ RunCommand
    BY <1>1, <2>5 DEF Capture, Lint, Revert, DeleteFile, MoveFile, RunCommand, CallInv, ToolsAt
  <2> QED
    BY <2>1, <2>2, <2>3, <2>4, <2>5 DEF WithinCall
<1> QED
  BY <1>1, <1>3 DEF FilesInv, Untouched, Captured, Allowed, Matched, IsWritten, Told, Alone

\* The steps before the write leave the files alone: it writes what the guards let
\* through, where edit_file found what it looks for.
LEMMA BeforeTheWrite ==
  ASSUME IInv, GuardWrite \/ GuardEdit \/ Capture \/ Match, ~HasParts
  PROVE  FilesInv'
<1> USE DEF IInv
<1>1. WithinCall /\ UNCHANGED <<files, job>>
  BY WithinCallIs DEF WithinCall, GuardWrite, GuardEdit, Capture, Match
<1>2. /\ Call' = Call /\ touched' = touched /\ Alone /\ Alone' /\ Call \in Calls /\ ~HasParts'
      /\ \A p : Was(p)' = Was(p)
  BY <1>1, SameCall, PartIs DEF Alone
<1>3. \A p \in Paths : File(p)' = File(p)
  BY <1>1, SameFiles
<1>4. Kept(Paths) /\ Kept(Paths)'
  <2>1. Kept(Paths)
    BY <1>2 DEF FilesInv, Untouched, GuardWrite, GuardEdit, Capture, Match
  <2> QED
    BY <1>2, <1>3, <2>1 DEF Kept
<1>5. \A a \in Answers : Done(a) => step' = "answered" /\ answer' = a
  <2>1. Running
    BY <1>1, WithinCallIs
  <2> QED
    BY <2>1, DoneIs
<1>6. Untouched'
  BY <1>4 DEF Untouched
<1>7. CASE GuardWrite
  <2>1. Call.tool = "write_file" /\ Part = Call /\ Call.path \in Paths
    BY <1>1, <1>2, <1>7, PartIs, CallIs, SameCall DEF GuardWrite, HasParts
  <2>2. CASE step' = "answered" /\ answer' = "refused"
    BY <1>2, <1>4, <1>6, <2>2 DEF FilesInv, Captured, Allowed, Matched, IsWritten, Told
  <2>3. CASE step' = "capture" /\ ~Destroys(File(Call.path), Call.content)
    <3>1. Guarded'
      BY <1>2, <1>4, <2>1, <2>3 DEF Guarded, Its, Kept, Destroys
    <3> QED
      BY <1>6, <2>3, <3>1 DEF FilesInv, Captured, Allowed, Matched, IsWritten, Told
  <2> QED
    BY <1>5, <1>7, <2>1, <2>2, <2>3 DEF GuardWrite, Goto, Answers
<1>8. CASE GuardEdit
  <2>1. Call.tool = "edit_file" /\ Part = Call
    BY <1>1, <1>2, <1>8, PartIs, SameCall DEF GuardEdit, HasParts
  <2>2. CASE step' = "answered" /\ answer' = "refused"
    BY <1>2, <1>4, <1>6, <2>2 DEF FilesInv, Captured, Allowed, Matched, IsWritten, Told
  <2>3. CASE step' = "capture"
    BY <1>2, <1>6, <2>1, <2>3 DEF FilesInv, Captured, Allowed, Guarded, Matched, IsWritten, Told
  <2> QED
    BY <1>5, <1>8, <2>1, <2>2, <2>3 DEF GuardEdit, Goto, Answers
<1>9. CASE Capture
  <2>1. Call.tool \in {"write_file", "edit_file"} /\ Call.path \in Paths /\ Guarded
    BY <1>2, <1>9, CallIs DEF Capture, CallInv, ToolsAt, FilesInv, Allowed
  <2>2. /\ previous' = File(Call.path)
        /\ step' = IF Call.tool = "write_file" THEN "write" ELSE "match"
    BY <1>9 DEF Capture, Goto
  <2>3. Its(previous = Was(Call.path))'
    BY <1>2, <1>4, <2>1, <2>2 DEF Its, Kept
  <2>4. Guarded'
    BY <1>2, <2>1 DEF Guarded, Its
  <2> QED
    BY <1>2, <1>6, <2>1, <2>2, <2>3, <2>4 DEF FilesInv, Captured, Allowed, Matched, IsWritten, Told
<1>10. CASE Match
  <2>1. Call.tool = "edit_file" /\ Call.path \in Paths /\ Part = Call /\ previous' = previous
    BY <1>1, <1>2, <1>10, PartIs, CallIs, SameCall DEF Match, CallInv, ToolsAt, HasParts
  <2>2. CASE step' = "answered" /\ answer' = "failed"
    BY <1>2, <1>4, <1>6, <2>2 DEF FilesInv, Captured, Allowed, Matched, IsWritten, Told
  <2>3. CASE step' = "write" /\ File(Call.path) = Call.from
    <3>1. Its(previous = Was(Call.path))'
      BY <1>2, <1>10, <2>1 DEF Match, FilesInv, Captured, Its
    <3>2. Its(Was(Call.path) = Call.from)'
      BY <1>2, <1>4, <2>1, <2>3 DEF Its, Kept
    <3> QED
      BY <1>2, <1>6, <2>1, <2>3, <3>1, <3>2 DEF FilesInv, Captured, Allowed, Guarded, Matched,
         IsWritten, Told
  <2> QED
    BY <1>5, <1>10, <2>1, <2>2, <2>3 DEF Match, Goto, Answers
<1> QED
  BY <1>7, <1>8, <1>9, <1>10

\* The write puts what it was given in the file, a revert what was captured.
LEMMA TheWrite ==
  ASSUME IInv, WriteOut \/ Lint \/ Revert, ~HasParts
  PROVE  FilesInv'
<1> USE DEF IInv
<1>1. WithinCall /\ job' = job
  BY WithinCallIs DEF WithinCall
<1>2. /\ Call' = Call /\ touched' = touched /\ Alone /\ Alone' /\ Call \in Calls /\ ~HasParts'
      /\ \A p : Was(p)' = Was(p)
  BY <1>1, SameCall, PartIs DEF Alone
<1>3. Call.tool \in {"write_file", "edit_file"} /\ Part = Call
  BY <1>1, <1>2, PartIs, SameCall DEF WriteOut, Lint, Revert, CallInv, ToolsAt, HasParts
<1>4. Call.path \in Paths /\ Written \in MaybeContents
  BY <1>2, <1>3, CallIs DEF Written, MaybeContents
<1>5. /\ Its(previous = Was(Call.path)) /\ Guarded
      /\ Call.tool = "edit_file" => Its(Was(Call.path) = Call.from)
  BY <1>2 DEF FilesInv, Captured, Allowed, Matched, WriteOut, Lint, Revert
<1>6. /\ Guarded'
      /\ Call.tool = "edit_file" => Its(Was(Call.path) = Call.from)'
      /\ Written' = Written
  BY <1>2, <1>5 DEF Guarded, Its, Written
<1>7. CASE WriteOut
  <2>1. step' = "lint" /\ previous' = previous /\ Put(Call.path, Written)
    BY <1>3, <1>7 DEF WriteOut, Goto, Written
  <2>2. \A p \in Paths : File(p)' = IF p = Call.path THEN Written ELSE File(p)
    BY <1>1, <1>4, <2>1, PutIs
  <2>3. Kept(Paths)
    BY <1>2, <1>7 DEF FilesInv, Untouched, WriteOut
  <2>4. Kept(Paths \ {Call.path})' /\ Its(File(Call.path) = Written)'
    BY <1>2, <1>4, <1>6, <2>2, <2>3 DEF Kept, Its
  <2>5. Its(previous = Was(Call.path))'
    BY <1>2, <1>5, <2>1 DEF Its
  <2> QED
    BY <1>2, <1>6, <2>1, <2>4, <2>5 DEF FilesInv, Untouched, Captured, Allowed, Matched, IsWritten, Told
<1>8. CASE Lint
  <2>1. /\ previous' = previous /\ step' \in {"answered", "revert"}
        /\ step' = "answered" => answer' \in {"broken", "done"}
        /\ UNCHANGED <<files, job>>
    BY <1>1, <1>8 DEF Lint, Say, Goto, callVars
  <2>2. \A p \in Paths : File(p)' = File(p)
    BY <2>1, SameFiles
  <2>3. Kept(Paths \ {Call.path})' /\ Its(File(Call.path) = Written)'
    <3>1. Kept(Paths \ {Call.path}) /\ Its(File(Call.path) = Written)
      BY <1>2, <1>8 DEF FilesInv, IsWritten, Lint
    <3> QED
      BY <1>2, <1>4, <1>6, <2>2, <3>1 DEF Kept, Its
  <2>4. Its(previous = Was(Call.path))'
    BY <1>2, <1>5, <2>1 DEF Its
  <2> QED
    BY <1>2, <1>3, <1>6, <2>1, <2>3, <2>4 DEF FilesInv, Untouched, Captured, Allowed, Matched,
       IsWritten, Told
<1>9. CASE Revert
  <2>1. step' = "answered" /\ answer' = "reverted" /\ Put(Call.path, previous)
    BY <1>9 DEF Revert, Say, Goto, RevertTarget
  <2>2. \A p \in Paths : File(p)' = IF p = Call.path THEN previous ELSE File(p)
    BY <1>1, <1>4, <2>1, PutIs DEF TypeOK
  <2>3. Kept(Paths \ {Call.path})
    BY <1>2, <1>9 DEF FilesInv, IsWritten, Revert
  <2>4. Kept(Paths)'
    BY <1>2, <1>5, <2>2, <2>3 DEF Kept, Its
  <2> QED
    BY <2>1, <2>4 DEF FilesInv, Untouched, Captured, Allowed, Matched, IsWritten, Told
<1> QED
  BY <1>7, <1>8, <1>9

\* The tools of one step
LEMMA AtOnce ==
  ASSUME IInv, DeleteFile \/ MoveFile \/ RunCommand
  PROVE  FilesInv'
<1> USE DEF IInv
<1>1. WithinCall /\ job' = job /\ step' = "answered"
  BY WithinCallIs DEF WithinCall, DeleteFile, MoveFile, RunCommand, Say, Goto
<1>2. /\ Call' = Call /\ touched' = touched /\ Alone /\ Call \in Calls
      /\ \A p : Was(p)' = Was(p)
  BY <1>1, SameCall, PartIs DEF Alone, HasParts, DeleteFile, MoveFile, RunCommand
<1>3. Kept(Paths)
  BY <1>2 DEF FilesInv, Untouched, DeleteFile, MoveFile, RunCommand
<1>4. SUFFICES Told'
  BY <1>1 DEF FilesInv, Untouched, Captured, Allowed, Matched, IsWritten
<1>5. ASSUME files' = files PROVE Kept(Paths)'
  <2>1. \A p \in Paths : File(p)' = File(p)
    BY <1>1, <1>5, SameFiles
  <2> QED
    BY <1>2, <1>3, <2>1 DEF Kept
<1>6. CASE DeleteFile
  <2>1. Call.tool = "delete_file" /\ Call.path \in Paths
    BY <1>2, <1>6, CallIs DEF DeleteFile
  <2>2. CASE answer' = "failed" /\ files' = files
    BY <1>5, <2>2 DEF Told
  <2>3. CASE answer' = "done" /\ Put(Call.path, Absent)
    <3>1. File(Call.path)' = Absent
      <4>1. \A p \in Paths : File(p)' = IF p = Call.path THEN Absent ELSE File(p)
        BY <1>1, <2>1, <2>3, PutIs DEF MaybeContents
      <4> QED
        BY <1>2, <2>1, <4>1 DEF File
    <3> QED
      BY <1>2, <2>1, <2>3, <3>1 DEF Told, Its, File
  <2> QED
    BY <1>6, <2>2, <2>3 DEF DeleteFile, Say
<1>7. CASE MoveFile
  <2>1. Call.tool = "move_file" /\ Call.path \in Paths /\ Call.to \in Paths
    BY <1>2, <1>7, CallIs DEF MoveFile
  <2>2. CASE answer' = "failed" /\ files' = files
    BY <1>5, <2>2 DEF Told
  <2>3. CASE /\ answer' = "done"
             /\ files' = [files EXCEPT ![job.repo] =
                            [@ EXCEPT ![Call.path] = Absent, ![Call.to] = File(Call.path)]]
    <3>1. \A p \in Paths : File(p)' = IF p = Call.to THEN File(Call.path)
                                      ELSE IF p = Call.path THEN Absent ELSE File(p)
      BY <1>1, <2>1, <2>3 DEF TypeOK, Files, Job, File
    <3>2. Call.path \notin touched => File(Call.path) = Was(Call.path)
      BY <1>3, <2>1 DEF Kept
    <3>3. /\ File(Call.to)' = File(Call.path)
          /\ Call.to # Call.path => File(Call.path)' = Absent
      BY <1>2, <2>1, <3>1 DEF File
    <3> QED
      BY <1>2, <2>1, <2>3, <3>2, <3>3 DEF Told, File, Was
  <2> QED
    BY <1>7, <2>2, <2>3 DEF MoveFile, Say
<1>8. CASE RunCommand
  BY <1>2, <1>8 DEF RunCommand, Say, Told
<1> QED
  BY <1>6, <1>7, <1>8

\* Between calls there is nothing to tell; the call that creates the project begins
\* anew in it; and what the editor saves is set aside.
LEMMA OtherSteps ==
  ASSUME IInv, \/ StartRound \/ Begin \/ CreateProject \/ Receipt \/ EndRound
               \/ CrashAndRestart \/ SaveChecks \/ SaveWrites
  PROVE  FilesInv'
<1> USE DEF IInv
<1>1. CASE StartRound \/ Receipt \/ EndRound \/ CrashAndRestart
  <2>1. ~Running'
    BY <1>1 DEF StartRound, Receipt, EndRound, CrashAndRestart, Goto, Running
  <2> QED
    BY <2>1 DEF FilesInv, Untouched, Captured, Allowed, Matched, IsWritten, Told, Alone
<1>2. CASE Begin \/ CreateProject
  <2>1. Kept(Paths)'
    BY <1>2 DEF Begin, CreateProject, Kept, File, Was
  <2>2. \/ step' = "guard"
        \/ step' = "answered" /\ answer' \in {"skipped", "refused"}
        \/ step' = "answered" /\ answer' = "done" /\ Call'.tool = "create_project"
    BY <1>2 DEF Begin, CreateProject, Say, Goto, Call
  <2> QED
    BY <2>1, <2>2 DEF FilesInv, Untouched, Captured, Allowed, Matched, IsWritten, Told
<1>3. CASE SaveChecks
  <2>1. UNCHANGED <<files, job, todo, step, previous, answer, before, touched>>
    BY <1>3 DEF SaveChecks, callVars, ghosts
  <2> QED
    BY <2>1 DEF FilesInv, Untouched, Captured, Allowed, Matched, IsWritten, Told, Alone, HasParts,
       Running, Kept, Its, Guarded, File, Was, Written, Call
<1>4. CASE SaveWrites
  <2>1. /\ UNCHANGED <<job, todo, step, previous, answer, before>>
        /\ touched' = touched \cup {saver.path}
        /\ files' = [files EXCEPT ![Project][saver.path] = saver.content]
    BY <1>4 DEF SaveWrites, callVars
  <2>2. /\ Call' = Call /\ HasParts' = HasParts /\ Alone' = Alone /\ Running' = Running
        /\ \A p : Was(p)' = Was(p)
        /\ Written' = Written
    BY <2>1 DEF Call, HasParts, Alone, Running, Was, Written
  <2>3. \A p \in Paths \ touched' : p \notin touched /\ File(p)' = File(p)
    BY <2>1 DEF TypeOK, Files, Job, File
  <2>4. \A P \in SUBSET Paths : Kept(P) => \A p \in P \ touched' : File(p)' = Was(p)
    BY <2>3 DEF Kept
  <2>5. Call.path \in Paths /\ Its(File(Call.path) = Written) => Its(File(Call.path) = Written)'
    BY <2>1, <2>2, <2>3 DEF Its
  <2>6. Guarded => Guarded'
    BY <2>1, <2>2 DEF Guarded, Its
  <2>7. Untouched'
    BY <2>1, <2>2, <2>4 DEF FilesInv, Untouched, Kept
  <2>8. Captured' /\ Allowed' /\ Matched'
    BY <2>1, <2>2, <2>6 DEF FilesInv, Captured, Allowed, Matched, Its
  <2>9. Running /\ Call.tool \in {"write_file", "edit_file", "delete_file", "move_file"} =>
          Call.path \in Paths /\ (Call.tool = "move_file" => Call.to \in Paths)
    BY PartIs, CallIs
  <2>10. IsWritten'
    <3> SUFFICES ASSUME Alone, step \in {"lint", "revert"}
                 PROVE  Kept(Paths \ {Call.path})' /\ Its(File(Call.path) = Written)'
      BY <2>1, <2>2 DEF IsWritten
    <3>1. Call.path \in Paths
      BY <2>9 DEF Alone, CallInv, ToolsAt
    <3>2. Kept(Paths \ {Call.path}) /\ Its(File(Call.path) = Written)
      BY DEF FilesInv, IsWritten
    <3>3. Kept(Paths \ {Call.path})'
      BY <2>2, <2>4, <3>2 DEF Kept
    <3> QED
      BY <2>5, <3>1, <3>2, <3>3
  <2>11. Told'
    <3>1. CASE Running /\ step = "answered" /\ answer \in {"skipped", "refused", "failed", "reverted"}
      BY <2>1, <2>2, <2>4, <3>1 DEF FilesInv, Told, Kept
    <3>2. CASE Running /\ step = "answered" /\ answer \in {"done", "broken"}
      <4>1. Call.tool \in {"write_file", "edit_file"} =>
              /\ Kept(Paths \ {Call.path})' /\ Its(File(Call.path) = Written)' /\ Guarded'
              /\ Call.tool = "edit_file" => Its(Was(Call.path) = Call.from)'
        BY <2>1, <2>2, <2>4, <2>5, <2>6, <2>9, <3>2 DEF FilesInv, Told, Kept, Its
      <4>2. Call.tool = "delete_file" => Its(File(Call.path) = Absent)'
        BY <2>1, <2>2, <2>3, <2>9, <3>2 DEF FilesInv, Told, Its
      <4>3. Call.tool = "move_file" =>
              \/ {Call.path, Call.to} \cap touched' # {}
              \/ /\ File(Call.to)' = Was(Call.path)'
                 /\ Call.to # Call.path => File(Call.path)' = Absent
        <5> SUFFICES ASSUME Call.tool = "move_file", {Call.path, Call.to} \cap touched' = {}
                     PROVE  /\ File(Call.to)' = Was(Call.path)'
                            /\ Call.to # Call.path => File(Call.path)' = Absent
          OBVIOUS
        <5>1. Call.path \in Paths \ touched' /\ Call.to \in Paths \ touched'
          BY <2>9, <3>2
        <5>2. /\ File(Call.to) = Was(Call.path)
              /\ Call.to # Call.path => File(Call.path) = Absent
          BY <2>3, <3>2, <5>1 DEF FilesInv, Told
        <5> QED
          BY <2>2, <2>3, <5>1, <5>2 DEF File, Was
      <4> QED
        BY <2>1, <2>2, <3>2, <4>1, <4>2, <4>3 DEF Told
    <3>3. CASE ~(Running /\ step = "answered")
      BY <2>1, <2>2, <3>3 DEF Told
    <3>4. Running /\ step = "answered" =>
            answer \in {"skipped", "refused", "failed", "reverted", "done", "broken"}
      BY DEF FilesInv, Told, TypeOK, Answers
    <3> QED
      BY <3>1, <3>2, <3>3, <3>4
  <2> QED
    BY <2>7, <2>8, <2>10, <2>11 DEF FilesInv
<1> QED
  BY <1>1, <1>2, <1>3, <1>4

-----------------------------------------------------------------------------
(* The invariant, and the properties.                                      *)

\* A job that has not made a call yet satisfies the invariant.
LEMMA InitIInv == Init => IInv
<1> SUFFICES ASSUME Init PROVE IInv
  OBVIOUS
<1>1. TypeOK
  BY InitType
<1>2. ~Running /\ step = "model" /\ at = 1 /\ ran = {} /\ disk = job /\ job.receipts = <<>>
      /\ times = [c \in Calls |-> 0] /\ lost = [c \in Calls |-> 0]
  BY DEF Init, Running
<1>3. CallInv
  BY <1>2 DEF CallInv, ToolsAt
<1>4. ToSet(job.receipts) = {}
  BY <1>2 DEF ToSet
<1>5. ReceiptInv
  BY <1>2, <1>4 DEF ReceiptInv
<1>6. FilesInv
  BY <1>2 DEF FilesInv, Untouched, Captured, Allowed, Matched, IsWritten, Told, Alone
<1> QED
  BY <1>1, <1>3, <1>5, <1>6 DEF IInv

\* Every step keeps the invariant.
LEMMA NextIInv == IInv /\ [Next]_vars => IInv'
<1> SUFFICES ASSUME IInv, [Next]_vars PROVE IInv'
  OBVIOUS
<1>1. CASE WithinCall
  <2>1. FilesInv'
    BY <1>1, SeveralSteps, BeforeTheWrite, TheWrite, AtOnce DEF WithinCall
  <2> QED
    BY <1>1, <2>1, WithinCallTypes, WithinCallPlace, ReceiptStep DEF IInv, WithinCall, Next
<1>2. CASE \/ StartRound \/ Begin \/ CreateProject \/ Receipt \/ EndRound
           \/ CrashAndRestart \/ SaveChecks \/ SaveWrites
  BY <1>2, RoundTypes, OtherTypes, OthersKeepPlace, OtherSteps, ReceiptStep DEF IInv, Next
<1>3. CASE UNCHANGED vars
  <2>1. UNCHANGED <<files, exists, job, disk, todo, step, at, previous, answer, saves, saver,
                    crashes, before, touched, times, lost, ran, worked>>
    BY <1>3 DEF vars
  <2>2. TypeOK' /\ ReceiptInv'
    BY <2>1 DEF IInv, TypeOK, ReceiptInv
  <2>3. CallInv' /\ FilesInv'
    BY <2>1 DEF IInv, CallInv, AlreadyPerformed, FilesInv, Untouched, Captured, Allowed, Matched,
       IsWritten, Told, Alone, HasParts, Running, Kept, Its, Guarded, File, Was, Written, Call
  <2> QED
    BY <2>2, <2>3 DEF IInv
<1> QED
  BY <1>1, <1>2, <1>3 DEF Next, WithinCall

\* The invariant holds throughout a job, with the editor's saves and the crashes.
THEOREM Invariance == Spec => []IInv
BY InitIInv, NextIInv, PTL DEF Spec

\* What execute_tool answers is what became of the files.
THEOREM AnswersHold == Spec => []AnswersAreTrue
<1>1. IInv => AnswersAreTrue
  <2> SUFFICES ASSUME IInv, step = "answered", PathsOf(Call) \cap touched = {}
               PROVE  /\ answer \in {"skipped", "refused", "failed", "reverted"} => Same(Call)
                      /\ answer \in {"done", "broken"} =>
                           /\ Call.tool = "write_file" => File(Call.path) = Call.content
                           /\ Call.tool = "edit_file" =>
                                Was(Call.path) = Call.from /\ File(Call.path) = Call.to
                           /\ Call.tool = "delete_file" => File(Call.path) = Absent
                           /\ Call.tool = "move_file" =>
                                /\ File(Call.to) = Was(Call.path)
                                /\ Call.to # Call.path => File(Call.path) = Absent
    BY DEF AnswersAreTrue, Was
  <2>1. Running /\ Told /\ Call \in Calls
    BY PartIs DEF Running, IInv, FilesInv
  <2>2. PathsOf(Call) \subseteq Paths
    <3>1. CASE Call.tool \in {"create_files", "apply_patch"}
      <4>1. ASSUME NEW S, NEW s \in Seq(S), NEW i \in DOMAIN s PROVE s[i] \in S
        OBVIOUS
      <4>2. \A i \in DOMAIN Call.parts : Call.parts[i] \in NewFile \cup Hunk
        BY <2>1, <3>1, <4>1, CallIs
      <4> QED
        BY <3>1, <4>2 DEF PathsOf, NewFile, Hunk
    <3>2. CASE Call.tool \notin {"create_files", "apply_patch"}
      BY <2>1, <3>2, CallIs DEF PathsOf, GRAPH_DIRTYING_TOOLS
    <3> QED
      BY <3>1, <3>2
  <2>3. answer \in {"skipped", "refused", "failed", "reverted"} => Same(Call)
    BY <2>1, <2>2 DEF Told, Kept, Same, Was
  <2>4. Call.tool \in {"write_file", "edit_file", "delete_file"} => Call.path \in PathsOf(Call)
    BY DEF PathsOf
  <2>5. Call.tool = "move_file" => {Call.path, Call.to} \subseteq PathsOf(Call)
    BY DEF PathsOf
  <2> QED
    BY <2>1, <2>3, <2>4, <2>5 DEF Told, Its, Written
<1> QED
  BY <1>1, Invariance, PTL

\* Receipts, checkpoints and restarts make a change once, unless a crash took the
\* record of it back.
THEOREM MadeOnce == Spec => []OnlyALostRoundIsRepeated
<1>1. IInv => OnlyALostRoundIsRepeated
  <2> SUFFICES ASSUME IInv, NEW c \in Calls PROVE times[c] <= 1 + lost[c]
    BY DEF OnlyALostRoundIsRepeated
  <2>1. lost[c] \in Nat /\ times[c] = lost[c] + IF c \in ToSet(job.receipts) THEN 1 ELSE 0
    BY DEF IInv, TypeOK, ReceiptInv
  <2> QED
    BY <2>1
<1> QED
  BY <1>1, Invariance, PTL

\* write_file's guard, capture, write, lint and revert never leave a stub where real
\* work was.
THEOREM WorkIsKept == Spec => []WholeFileWritesKeepWork
<1>1. IInv => WholeFileWritesKeepWork
  <2> SUFFICES ASSUME IInv, step \notin {"model", "next"}, Call.tool = "write_file",
                      NEW p \in Paths \ touched, Was(p) \in Large
               PROVE  File(p) \notin Tiny
    BY DEF WholeFileWritesKeepWork, Was
  <2>1. Running /\ Alone /\ Large \cap Tiny = {}
    BY ToolAssumption DEF Running, Alone, HasParts
  <2>2. CASE File(p) = Was(p)
    BY <2>1, <2>2
  <2>3. CASE p = Call.path /\ File(p) = Call.content /\ Guarded
    BY <2>3 DEF Guarded, Its
  <2>4. CASE step \in {"guard", "capture", "match", "write"}
    BY <2>1, <2>2, <2>4 DEF IInv, FilesInv, Untouched, Kept
  <2>5. CASE step \in {"lint", "revert"}
    BY <2>1, <2>2, <2>3, <2>5 DEF IInv, FilesInv, IsWritten, Allowed, Kept, Its, Written
  <2>6. CASE step = "answered"
    BY <2>1, <2>2, <2>3, <2>6 DEF IInv, TypeOK, Answers, FilesInv, Told, Kept, Its, Written
  <2> QED
    BY <2>4, <2>5, <2>6 DEF IInv, TypeOK, Steps
<1> QED
  BY <1>1, Invariance, PTL

=============================================================================
