---------------------- MODULE BuildTransactionProofs -----------------------
(***************************************************************************)
(* What BuildTransaction guarantees for every number of builds, every set  *)
(* of contracts, every interleaving, and every failure and crash.          *)
(***************************************************************************)
EXTENDS BuildTransaction, FiniteSetTheorems, TLAPS

-----------------------------------------------------------------------------
(* The inductive invariant.                                                *)

Handover == {"worker", "protocol", "handoff"}

Live(b) == worker[b] \in {"compiling", "encoded", "handedOff"}

\* What the directory of a build holds at each step of its worker and its
\* parent; a parent that was killed says nothing of its directory but what its
\* worker does there.
WorkerHolds(b) ==
    /\ worker[b] = "compiling" => holds[b] = {"worker"}
    /\ worker[b] = "encoded" => holds[b] = {"worker", "protocol"}
    /\ worker[b] = "handedOff" => holds[b] = Handover
    /\ Live(b) => pc[b] \in {"compiling", "crashed"} /\ tools[b] = {}

ParentHolds(b) ==
    /\ pc[b] \in {"idle", "staged"} =>
           worker[b] = "absent" /\ holds[b] = {} /\ tools[b] = {}
    /\ pc[b] = "compiling" =>
           /\ worker[b] # "absent" /\ tools[b] = {}
           /\ worker[b] = "exited" => holds[b] = Handover
    /\ pc[b] \in {"verifying", "checking", "printing", "printed", "unscratched"} =>
           worker[b] = "exited"
    /\ pc[b] = "verifying" => holds[b] = {"protocol"} /\ tools[b] = {}
    /\ pc[b] = "checking" =>
           holds[b] = {"protocol", "scratch"} /\ tools[b] = {"verifier"}
    /\ pc[b] = "printing" =>
           holds[b] = {"protocol"} /\ tools[b] = {"printer"} /\ contracts[b] = {}
    /\ pc[b] = "printed" =>
           holds[b] = {"protocol", "modules"} /\ tools[b] = {} /\ contracts[b] = {}
    /\ pc[b] = "unscratched" =>
           holds[b] = {"modules"} /\ tools[b] = {} /\ contracts[b] = {}
    /\ pc[b] \in {"complete", "placing", "backing", "replacing", "restoring"} =>
           Whole(b)
    /\ tools[b] \in {{}, {"verifier"}, {"printer"}}

Stays(b) ==
    /\ pc[b] \in (Working \ {"cleaning"}) \cup {"unrestored"} => b \in staged
    /\ pc[b] = "failed" /\ worker[b] # "absent" => b \in staged

Holder(b) ==
    /\ backup[b] # NoOutput =>
           pc[b] \in {"replacing", "restoring", "cleaning", "crashed",
                      "unrestored", "uncleaned"}
    /\ pc[b] \in {"replacing", "restoring", "cleaning"} => backup[b] # NoOutput

Installed(d) == target = d \/ \E c \in Builds : backup[c] = d

\* An output is in one place: a rename leaves nothing behind.
InOnePlace(b) ==
    backup[b] # NoOutput =>
        /\ backup[b] # target
        /\ \A c \in Builds : backup[c] = backup[b] => c = b

\* An output that is anywhere was finished, its build touches it no more, and
\* only a removal took anything from it.
InstalledIsFinal(b) ==
    Installed(b) =>
        /\ holds[b] \subseteq Product
        /\ contracts[b] = {} /\ worker[b] = "exited" /\ tools[b] = {}
        /\ pc[b] \in {"cleaning", "succeeded", "uncleaned", "crashed"}

\* The same of the output that was there before.
PreviousIsLeft == holds[Previous] \subseteq Product

\* What is in place is complete, and so is what a build may put back.
OutputIsComplete == target # NoOutput => Complete(target)

BackupIsComplete(b) ==
    pc[b] \in {"replacing", "restoring", "unrestored"} =>
        backup[b] # NoOutput /\ Complete(backup[b])

\* While the name is free, a build that will not remove its backup holds a
\* complete one.
GapIsHeld ==
    SomeOutput /\ target = NoOutput =>
        \E d \in Builds :
            /\ backup[d] # NoOutput /\ Complete(backup[d])
            /\ pc[d] \in {"replacing", "restoring", "crashed", "unrestored"}

IInv ==
    /\ TypeOK
    /\ \A b \in Builds : WorkerHolds(b)
    /\ \A b \in Builds : ParentHolds(b)
    /\ \A b \in Builds : Stays(b)
    /\ \A b \in Builds : Holder(b)
    /\ \A b \in Builds : InOnePlace(b)
    /\ \A b \in Builds : InstalledIsFinal(b)
    /\ PreviousIsLeft
    /\ OutputIsComplete
    /\ \A b \in Builds : BackupIsComplete(b)
    /\ GapIsHeld

LEMMA InitIInv == Init => IInv
BY Distinct DEF Init, IInv, TypeOK, WorkerHolds, Live, ParentHolds, Stays, Holder,
       InOnePlace, InstalledIsFinal, Installed, PreviousIsLeft, OutputIsComplete,
       BackupIsComplete, Complete, Product, GapIsHeld, SomeOutput, Outputs,
       Directories, Working

-----------------------------------------------------------------------------
(* Every step keeps the invariant, part by part.  The steps of a build are  *)
(* those that prepare its directory and those that put it into place.       *)

Step(b) == Parent(b) \/ Worker(b) \/ Crash(b) \/ Damage(b)

Prepare(b) ==
    \/ OpenStaging(b) \/ StartWorker(b) \/ ReadHandoff(b)
    \/ StartVerifier(b) \/ FinishVerifier(b)
    \/ StartPrinter(b) \/ PrintModules(b)
    \/ RemoveProtocolScratch(b) \/ WriteManifest(b)

Install(b) ==
    \/ InspectTarget(b) \/ Place(b) \/ BackUp(b) \/ Replace(b)
    \/ CannotReplace(b) \/ Restore(b) \/ Clean(b)

LEMMA StepCases ==
  ASSUME NEW b \in Builds, Step(b)
  PROVE  \/ Prepare(b) \/ Worker(b) \/ Install(b) \/ RemoveSome(b)
         \/ Fail(b) \/ Crash(b) \/ Damage(b)
BY DEF Step, Parent, Prepare, Install

\* A removal takes artifacts from the backup of its own build, which is no
\* other output and is nobody else's backup.
LEMMA RemovalFacts ==
  ASSUME IInv, NEW b \in Builds, RemoveSome(b)
  PROVE  /\ backup[b] \in Directories
         /\ backup[b] # target
         /\ \A c \in Builds : backup[c] = backup[b] => c = b
         /\ Installed(backup[b])
         /\ holds' \in [Directories -> SUBSET {"worker", "handoff", "protocol",
                         "scratch", "modules", "damage", "manifest"}]
         /\ \A d \in Directories \ {backup[b]} : holds'[d] = holds[d]
         /\ holds'[backup[b]] \subseteq holds[backup[b]]
         /\ holds'[backup[b]] # Product
BY DEF IInv, TypeOK, RemoveSome, At, Holder, InOnePlace, Installed, Outputs,
       InstalledIsFinal, PreviousIsLeft, Directories

\* Every variable keeps its type.
LEMMA StepType ==
  ASSUME IInv, NEW b \in Builds, Step(b)
  PROVE  TypeOK'
<1> USE DEF IInv, TypeOK, Working, Ended, Outputs, Directories, Goes, At,
            process, files, published
<1>1. CASE Prepare(b)
  BY <1>1 DEF Prepare, OpenStaging, StartWorker, ReadHandoff, StartVerifier,
          FinishVerifier, NextContract, StartPrinter, PrintModules,
          RemoveProtocolScratch, WriteManifest
<1>2. CASE Worker(b)
  BY <1>2 DEF Worker, WorkerStages, WorkerHandsOff, WorkerExits
<1>3. CASE Install(b)
  BY <1>3 DEF Install, InspectTarget, Place, Installs, BackUp, Replace,
          CannotReplace, Restore, Clean
<1>4. CASE Fail(b)
  BY <1>4 DEF Fail, WorkerEnded
<1>5. CASE Crash(b)
  BY <1>5 DEF Crash
<1>6. CASE Damage(b)
  BY <1>6 DEF Damage
<1>7. CASE RemoveSome(b)
  BY <1>7, RemovalFacts DEF RemoveSome
<1> QED
  BY StepCases, <1>1, <1>2, <1>3, <1>4, <1>5, <1>6, <1>7

\* What the directory of a build holds, that a failed one is kept, and who
\* holds a backup.
LEMMA StepLocal ==
  ASSUME IInv, NEW b \in Builds, Step(b), NEW c \in Builds
  PROVE  (WorkerHolds(c) /\ ParentHolds(c) /\ Stays(c) /\ Holder(c))'
<1> USE DEF IInv, TypeOK, WorkerHolds, Live, ParentHolds, Stays, Holder, Whole,
            Complete, Product, Handover, Directories, Working, Goes, At, process, files, published
<1>1. CASE Prepare(b)
  BY <1>1 DEF Prepare, OpenStaging, StartWorker, ReadHandoff, StartVerifier,
          FinishVerifier, NextContract, StartPrinter, PrintModules,
          RemoveProtocolScratch, WriteManifest
<1>2. CASE Worker(b)
  BY <1>2 DEF Worker, WorkerStages, WorkerHandsOff, WorkerExits
<1>3. CASE Install(b)
  BY <1>3 DEF Install, InspectTarget, Place, Installs, BackUp, Replace,
          CannotReplace, Restore, Clean
<1>4. CASE Fail(b)
  BY <1>4 DEF Fail, WorkerEnded
<1>5. CASE Crash(b)
  BY <1>5 DEF Crash
<1>6. CASE Damage(b)
  BY <1>6 DEF Damage
<1>7. CASE RemoveSome(b)
  <2>1. CASE c = backup[b]
    <3>1. InstalledIsFinal(c) /\ Installed(c)
      BY <1>7, <2>1, RemovalFacts
    <3> QED
      BY <1>7, <3>1 DEF RemoveSome, InstalledIsFinal
  <2>2. CASE c # backup[b]
    BY <1>7, <2>2, RemovalFacts DEF RemoveSome
  <2> QED
    BY <2>1, <2>2
<1> QED
  BY StepCases, <1>1, <1>2, <1>3, <1>4, <1>5, <1>6, <1>7

\* Nothing but a removal changes what an output holds, the previous one or that
\* of a build: its build has ended its tools and prepares no more.
LEMMA OutputsUntouched ==
  ASSUME IInv, NEW b \in Builds, Step(b), NEW d \in Directories,
         d = Previous \/ Installed(d)
  PROVE  /\ ~RemoveSome(b) => holds'[d] = holds[d]
         /\ d \in Builds => /\ contracts'[d] = contracts[d]
                            /\ worker'[d] = worker[d]
                            /\ tools'[d] = tools[d]
<1> USE Distinct DEF IInv, TypeOK, InstalledIsFinal, Directories, Working,
            Goes, At, process, files, published
<1>1. CASE Prepare(b)
  BY <1>1 DEF Prepare, OpenStaging, StartWorker, ReadHandoff, StartVerifier,
          FinishVerifier, NextContract, StartPrinter, PrintModules,
          RemoveProtocolScratch, WriteManifest
<1>2. CASE Worker(b)
  BY <1>2 DEF Worker, WorkerStages, WorkerHandsOff, WorkerExits
<1>3. CASE Install(b)
  BY <1>3 DEF Install, InspectTarget, Place, Installs, BackUp, Replace,
          CannotReplace, Restore, Clean
<1>4. CASE Fail(b)
  BY <1>4 DEF Fail, WorkerEnded
<1>5. CASE Crash(b)
  BY <1>5 DEF Crash
<1>6. CASE Damage(b)
  BY <1>6 DEF Damage
<1>7. CASE RemoveSome(b)
  BY <1>7 DEF RemoveSome
<1> QED
  BY StepCases, <1>1, <1>2, <1>3, <1>4, <1>5, <1>6, <1>7

\* Only the installation changes what is where and who may put a backup back.
LEMMA PublishedUntouched ==
  ASSUME IInv, NEW b \in Builds, Step(b), ~Install(b)
  PROVE  /\ UNCHANGED <<target, backup>>
         /\ \A c \in Builds \ {b} : pc'[c] = pc[c]
         /\ pc'[b] # pc[b] =>
                /\ pc[b] # "unrestored"
                /\ pc'[b] \notin {"replacing", "restoring", "unrestored"}
                /\ pc[b] \in {"replacing", "restoring"} => pc'[b] = "crashed"
                /\ pc[b] \in {"cleaning", "succeeded", "uncleaned", "crashed"} =>
                       pc'[b] = "crashed"
<1> USE DEF IInv, TypeOK, Working, Goes, At, process, files, published
<1>1. CASE Prepare(b)
  BY <1>1 DEF Prepare, OpenStaging, StartWorker, ReadHandoff, StartVerifier,
          FinishVerifier, NextContract, StartPrinter, PrintModules,
          RemoveProtocolScratch, WriteManifest
<1>2. CASE Worker(b)
  BY <1>2 DEF Worker, WorkerStages, WorkerHandsOff, WorkerExits
<1>4. CASE Fail(b)
  BY <1>4 DEF Fail, WorkerEnded
<1>5. CASE Crash(b)
  BY <1>5 DEF Crash
<1>6. CASE Damage(b)
  BY <1>6 DEF Damage
<1>7. CASE RemoveSome(b)
  BY <1>7 DEF RemoveSome
<1> QED
  BY StepCases, <1>1, <1>2, <1>4, <1>5, <1>6, <1>7

\* An output is in one place, and final: a finished one is renamed to the output
\* name, to a backup name and back, and nobody else takes anything from it.
LEMMA StepInstalled ==
  ASSUME IInv, NEW b \in Builds, Step(b), NEW c \in Builds
  PROVE  (InOnePlace(c) /\ InstalledIsFinal(c) /\ PreviousIsLeft)'
<1>1. CASE Install(b)
  <2> USE Distinct DEF IInv, TypeOK, InOnePlace, InstalledIsFinal, Installed,
              PreviousIsLeft, Outputs, Directories, Goes, At, process, files, published
  <2>1. CASE Place(b) \/ Replace(b)
    BY <1>1, <2>1 DEF Place, Replace, Installs, ParentHolds, Holder, Whole, Complete
  <2>2. CASE BackUp(b)
    BY <1>1, <2>2 DEF BackUp, Holder
  <2>3. CASE Restore(b)
    BY <1>1, <2>3 DEF Restore
  <2>4. CASE Clean(b)
    BY <1>1, <2>4 DEF Clean
  <2>5. CASE InspectTarget(b) \/ CannotReplace(b)
    BY <1>1, <2>5 DEF InspectTarget, CannotReplace
  <2> QED
    BY <1>1, <2>1, <2>2, <2>3, <2>4, <2>5 DEF Install
<1>2. CASE ~Install(b)
  <2>1. UNCHANGED <<target, backup>>
    BY <1>2, PublishedUntouched
  <2>2. InOnePlace(c)'
    BY <2>1 DEF IInv, InOnePlace
  <2>3. ASSUME NEW d \in Directories, d = Previous \/ Installed(d)
        PROVE  holds'[d] \subseteq holds[d]
    BY <2>3, RemovalFacts, OutputsUntouched
  <2>4. PreviousIsLeft'
    BY <2>3 DEF IInv, PreviousIsLeft, Directories
  <2>5. ASSUME Installed(c)'
        PROVE  InstalledIsFinal(c)'
    <3>1. Installed(c)
      BY <2>1, <2>5 DEF Installed
    <3>2. c \in Directories
      BY DEF Directories
    <3>3. /\ contracts'[c] = contracts[c] /\ worker'[c] = worker[c]
          /\ tools'[c] = tools[c] /\ holds'[c] \subseteq holds[c]
      BY <2>3, <3>1, <3>2, OutputsUntouched
    <3>4. pc'[c] \in {"cleaning", "succeeded", "uncleaned", "crashed"}
      BY <3>1, <1>2, PublishedUntouched DEF IInv, InstalledIsFinal
    <3> QED
      BY <3>1, <3>3, <3>4 DEF IInv, InstalledIsFinal
  <2> QED
    BY <2>2, <2>4, <2>5 DEF InstalledIsFinal
<1> QED
  BY <1>1, <1>2

\* What is complete stays complete unless its own build removes it, and a
\* removal completes nothing.
LEMMA CompleteOutputs ==
  ASSUME IInv, NEW b \in Builds, Step(b), NEW d \in Directories, Installed(d)
  PROVE  /\ ~(RemoveSome(b) /\ d = backup[b]) => Complete(d)' = Complete(d)
         /\ RemoveSome(b) /\ d = backup[b] => ~Complete(d)'
<1>1. CASE RemoveSome(b)
  BY <1>1, RemovalFacts DEF Complete
<1>2. CASE ~RemoveSome(b)
  BY <1>2, OutputsUntouched DEF Complete
<1> QED
  BY <1>1, <1>2

\* The output is complete, and so is a backup that may be put back.
LEMMA StepComplete ==
  ASSUME IInv, NEW b \in Builds, Step(b), NEW c \in Builds
  PROVE  (OutputIsComplete /\ BackupIsComplete(c))'
<1>1. CASE Install(b)
  <2> USE Distinct DEF IInv, TypeOK, OutputIsComplete, BackupIsComplete, Complete,
              Outputs, Directories, Goes, At, process, files, published
  <2>1. CASE Place(b) \/ Replace(b)
    BY <1>1, <2>1 DEF Place, Replace, Installs, ParentHolds, Whole
  <2>2. CASE BackUp(b)
    BY <1>1, <2>2 DEF BackUp
  <2>3. CASE Restore(b)
    BY <1>1, <2>3 DEF Restore
  <2>4. CASE Clean(b)
    BY <1>1, <2>4 DEF Clean
  <2>5. CASE InspectTarget(b) \/ CannotReplace(b)
    BY <1>1, <2>5 DEF InspectTarget, CannotReplace
  <2> QED
    BY <1>1, <2>1, <2>2, <2>3, <2>4, <2>5 DEF Install
<1>2. CASE ~Install(b)
  <2>1. UNCHANGED <<target, backup>>
    BY <1>2, PublishedUntouched
  <2>2. OutputIsComplete'
    <3>1. SUFFICES ASSUME target # NoOutput PROVE Complete(target)'
      BY <2>1 DEF OutputIsComplete
    <3>2. target \in Directories /\ Installed(target) /\ Complete(target)
      BY <3>1 DEF IInv, TypeOK, Outputs, Installed, OutputIsComplete
    <3>3. ~(RemoveSome(b) /\ target = backup[b])
      BY RemovalFacts
    <3>4. holds'[target] = holds[target]
      BY <3>2, <3>3, RemovalFacts, OutputsUntouched
    <3> QED
      BY <2>1, <3>2, <3>4 DEF Complete
  <2>3. BackupIsComplete(c)'
    <3>1. SUFFICES ASSUME pc'[c] \in {"replacing", "restoring", "unrestored"}
                   PROVE  backup[c] # NoOutput /\ Complete(backup[c])'
      BY <2>1 DEF BackupIsComplete
    <3>2. pc[c] = pc'[c]
      BY <1>2, <3>1, PublishedUntouched
    <3>3. backup[c] # NoOutput /\ Complete(backup[c])
      BY <3>1, <3>2 DEF IInv, BackupIsComplete
    <3>4. backup[c] \in Directories /\ Installed(backup[c])
      BY <3>3 DEF IInv, TypeOK, Outputs, Installed
    <3>5. ~(RemoveSome(b) /\ backup[c] = backup[b])
      BY <3>1, <3>2, RemovalFacts DEF RemoveSome, At
    <3>6. holds'[backup[c]] = holds[backup[c]]
      BY <3>4, <3>5, RemovalFacts, OutputsUntouched
    <3> QED
      BY <2>1, <3>3, <3>6 DEF Complete
  <2> QED
    BY <2>2, <2>3
<1> QED
  BY <1>1, <1>2

\* The name is free only while a complete backup is held that is not to be
\* removed, if there was a complete output.
LEMMA StepGap ==
  ASSUME IInv, NEW b \in Builds, Step(b)
  PROVE  GapIsHeld'
<1>1. CASE Install(b)
  <2>1. holds' = holds
    BY <1>1 DEF Install, InspectTarget, Place, Installs, BackUp, Replace,
            CannotReplace, Restore, Clean, files
  <2> USE <2>1, Distinct DEF IInv, TypeOK, GapIsHeld, SomeOutput, OutputIsComplete,
              Complete, Outputs, Directories, Goes, At, process, files, published
  <2>2. CASE Place(b) \/ Replace(b)
    BY <1>1, <2>2 DEF Place, Replace, Installs
  <2>3. CASE BackUp(b)
    BY <1>1, <2>3 DEF BackUp
  <2>4. CASE Restore(b)
    BY <1>1, <2>4 DEF Restore, BackupIsComplete
  <2>5. CASE Clean(b)
    BY <1>1, <2>5 DEF Clean, Product
  <2>6. CASE InspectTarget(b) \/ CannotReplace(b)
    BY <1>1, <2>6 DEF InspectTarget, CannotReplace
  <2> QED
    BY <1>1, <2>2, <2>3, <2>4, <2>5, <2>6 DEF Install
<1>2. CASE ~Install(b)
  <2>1. UNCHANGED <<target, backup>>
    BY <1>2, PublishedUntouched
  <2>2. SUFFICES ASSUME SomeOutput', target = NoOutput PROVE GapIsHeld'
    BY <2>1 DEF GapIsHeld
  <2>3. SomeOutput
    <3>1. PICK d \in Directories :
              Complete(d)' /\ (target = d \/ \E e \in Builds : backup[e] = d)
      BY <2>1, <2>2 DEF SomeOutput
    <3>2. Installed(d)
      BY <3>1 DEF Installed
    <3>3. Complete(d)
      BY <3>1, <3>2, CompleteOutputs
    <3> QED
      BY <3>1, <3>3 DEF SomeOutput
  <2>4. PICK e \in Builds :
            /\ backup[e] # NoOutput /\ Complete(backup[e])
            /\ pc[e] \in {"replacing", "restoring", "crashed", "unrestored"}
    BY <2>2, <2>3 DEF IInv, GapIsHeld
  <2>5. backup[e] \in Directories /\ Installed(backup[e])
    BY <2>4 DEF IInv, TypeOK, Outputs, Installed
  <2>6. ~(RemoveSome(b) /\ backup[e] = backup[b])
    BY <2>4, RemovalFacts DEF RemoveSome, At
  <2>7. holds'[backup[e]] = holds[backup[e]]
    BY <2>5, <2>6, RemovalFacts, OutputsUntouched
  <2>8. pc'[e] \in {"replacing", "restoring", "crashed", "unrestored"}
    BY <1>2, <2>4, PublishedUntouched
  <2> QED
    BY <2>1, <2>4, <2>7, <2>8 DEF GapIsHeld, Complete
<1> QED
  BY <1>1, <1>2

LEMMA NextIInv == IInv /\ [Next]_vars => IInv'
<1> SUFFICES ASSUME IInv, [Next]_vars PROVE IInv'
  OBVIOUS
<1>1. ASSUME NEW b \in Builds, Step(b) PROVE IInv'
  <2>1. TypeOK' /\ GapIsHeld'
    BY <1>1, StepType, StepGap
  <2>2. ASSUME NEW c \in Builds
        PROVE  /\ WorkerHolds(c)' /\ ParentHolds(c)' /\ Stays(c)' /\ Holder(c)'
               /\ InOnePlace(c)' /\ InstalledIsFinal(c)' /\ BackupIsComplete(c)'
    BY <1>1, StepLocal, StepInstalled, StepComplete
  <2>3. OutputIsComplete' /\ PreviousIsLeft'
    BY <1>1, StepInstalled, StepComplete
  <2> QED
    BY <2>1, <2>2, <2>3 DEF IInv
<1>2. CASE UNCHANGED vars
  BY <1>2 DEF IInv, TypeOK, WorkerHolds, Live, ParentHolds, Stays, Holder, Whole,
              InOnePlace, InstalledIsFinal, Installed, PreviousIsLeft,
              OutputIsComplete, BackupIsComplete, Complete, GapIsHeld, SomeOutput,
              vars, process, files, published
<1> QED
  BY <1>1, <1>2 DEF Next, Step

-----------------------------------------------------------------------------
(* The theorems.                                                           *)

\* The inductive invariant holds of every behaviour, type correctness with it.
THEOREM TransactionInvariant == Spec => [](IInv /\ TypeOK)
<1>1. IInv => TypeOK
  BY DEF IInv
<1> QED
  BY InitIInv, NextIInv, <1>1, PTL DEF Spec

\* What is under the output name is a whole build, and what a build moved aside
\* is complete as long as that build may put it back: the removal of a backup,
\* which may stop half-way, takes nothing from either (installOutputDirectory
\* renames only what writePrintPlanTo completed, and removes a backup only after
\* another output took its place).
THEOREM PublishedOutputsAreWhole == Spec => []PublishedIsWhole
<1>1. IInv => PublishedIsWhole
  BY Distinct DEF IInv, InstalledIsFinal, Installed, OutputIsComplete,
     BackupIsComplete, PublishedIsWhole, Whole
<1> QED
  BY TransactionInvariant, <1>1, PTL

\* The compilation worker, the contract verifier and the printer of a build
\* never run at once (prepareBuildInWorker waits for the worker; each TS-Go
\* client is closed before the next one starts).
THEOREM SeparateLifetimes == Spec => []LifetimesNeverOverlap
<1>1. IInv => LifetimesNeverOverlap
  <2> SUFFICES ASSUME IInv, NEW b \in Builds
               PROVE  Cardinality(tools[b]) + (IF WorkerEnded(b) THEN 0 ELSE 1) <= 1
    BY DEF LifetimesNeverOverlap
  <2>1. Cardinality({}) = 0 /\ Cardinality({"verifier"}) = 1
            /\ Cardinality({"printer"}) = 1
    BY FS_EmptySet, FS_Singleton
  <2>2. ~WorkerEnded(b) => tools[b] = {}
    BY DEF IInv, TypeOK, WorkerHolds, Live, WorkerEnded
  <2>3. tools[b] \in {{}, {"verifier"}, {"printer"}}
    BY DEF IInv, ParentHolds
  <2> QED
    BY <2>1, <2>2, <2>3
<1> QED
  BY TransactionInvariant, <1>1, PTL

\* An output moved aside is removed only by the build that replaced it, and put
\* back by one that fails (the two renames and the rollback of
\* installOutputDirectory).
THEOREM BackupsAreAccountedFor == Spec => []BackupIsAccountedFor
<1>1. IInv => BackupIsAccountedFor
  BY DEF IInv, Holder, BackupIsAccountedFor
<1> QED
  BY TransactionInvariant, <1>1, PTL

\* A build that fails before the output was replaced publishes nothing and
\* keeps its staging directory (preserveOutputFailure).
THEOREM FailuresPublishNothing == Spec => []FailurePublishesNothing
<1>1. IInv => FailurePublishesNothing
  BY DEF IInv, Stays, InstalledIsFinal, Installed, FailurePublishesNothing
<1> QED
  BY TransactionInvariant, <1>1, PTL

\* Once there is a complete output there always is one on disk, in its place or
\* under a backup name, whatever fails, dies or runs beside it, and however far
\* the removal of another one came (installOutputDirectory).
THEOREM AnOutputIsAlwaysKept == Spec => KeepsACopy
<1>1. ASSUME IInv, NEW b \in Builds, Step(b), SomeOutput PROVE SomeOutput'
  <2>1. IInv'
    BY <1>1, NextIInv DEF Next, Step
  <2>2. CASE target' # NoOutput
    BY <2>1, <2>2 DEF IInv, TypeOK, Outputs, OutputIsComplete, SomeOutput
  <2>3. CASE target' = NoOutput /\ target # NoOutput
    <3>1. Install(b)
      BY <1>1, <2>3, PublishedUntouched
    <3>2. BackUp(b)
      BY <3>1, <2>3, Distinct DEF Install, InspectTarget, Place, Installs, BackUp,
         Replace, CannotReplace, Restore, Clean, published, IInv, TypeOK, At, Goes,
         BackupIsComplete
    <3>3. backup'[b] \in Directories /\ Complete(backup[b])'
      BY <2>1, <2>3, <3>2 DEF BackUp, At, Goes, IInv, TypeOK, Outputs, BackupIsComplete
    <3> QED
      BY <3>3 DEF SomeOutput
  <2>4. CASE target' = NoOutput /\ target = NoOutput
    <3>1. PICK e \in Builds :
              /\ backup[e] # NoOutput /\ Complete(backup[e])
              /\ pc[e] \in {"replacing", "restoring", "crashed", "unrestored"}
      BY <1>1, <2>4 DEF IInv, GapIsHeld
    <3>2. backup[e] \in Directories /\ Installed(backup[e])
      BY <1>1, <3>1 DEF IInv, TypeOK, Outputs, Installed
    <3>3. ~(RemoveSome(b) /\ backup[e] = backup[b])
      BY <1>1, <3>1, RemovalFacts DEF RemoveSome, At
    <3>4. holds'[backup[e]] = holds[backup[e]]
      BY <1>1, <3>2, <3>3, RemovalFacts, OutputsUntouched
    <3>5. backup'[e] = backup[e]
      <4>1. CASE Install(b)
        BY <1>1, <2>4, <3>1, <4>1, Distinct DEF Install, InspectTarget, Place,
           Installs, BackUp, Replace, CannotReplace, Restore, Clean, published,
           IInv, TypeOK, At, Goes
      <4>2. CASE ~Install(b)
        BY <1>1, <4>2, PublishedUntouched
      <4> QED
        BY <4>1, <4>2
    <3> QED
      BY <3>1, <3>2, <3>4, <3>5 DEF SomeOutput, Complete
  <2> QED
    BY <2>2, <2>3, <2>4
<1>2. IInv /\ [Next]_vars => [SomeOutput => SomeOutput']_vars
  BY <1>1 DEF Next, Step
<1> QED
  BY TransactionInvariant, <1>2, PTL DEF Spec, KeepsACopy
=============================================================================
