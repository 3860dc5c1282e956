------------------------- MODULE BuildTransaction --------------------------
(***************************************************************************)
(* One build of the command (internal/command): a staging directory beside *)
(* the output, a compilation worker in a process of its own that hands the *)
(* encoded program over through files of that directory, the TS-Go         *)
(* processes that verify implementation contracts and print the program,   *)
(* and the renames that put the staging directory in the place of the      *)
(* previous output.  Several builds of one output directory may run: after *)
(* one another, when the earlier one crashed, or side by side, since       *)
(* nothing locks the directory.                                            *)
(*                                                                         *)
(* A file system call may fail at every step, a process may die at every   *)
(* step, and an encoded file may be damaged after it was sealed.  What a   *)
(* file says is abstracted to which artifacts a directory holds whole.     *)
(*                                                                         *)
(* An operator named Bug... is a mistaken form of the definition after it  *)
(* and is used by no specification: it says what a property would catch.   *)
(***************************************************************************)
EXTENDS Naturals, FiniteSets

CONSTANTS
    Builds,    \* invocations of the command on one output directory
    Previous,  \* the output an earlier canonical build left
    NoOutput,  \* nothing under that name
    Contracts  \* selected contract verifications, in the order they run

ASSUME Distinct == Previous \notin Builds /\ NoOutput \notin Builds \cup {Previous}

VARIABLES
    pc,         \* where the parent process of a build is
    worker,     \* its compilation worker
    tools,      \* its TS-Go processes that run: "verifier", "printer"
    contracts,  \* contract verifications it has left to run
    staged,     \* builds whose staging directory exists
    holds,      \* artifacts whole in a directory, wherever it is
    intact,     \* its encoded files are as they were sealed
    target,     \* whose directory is the output directory
    backup      \* whose directory it moved aside

process == <<worker, tools, contracts>>
files == <<staged, holds, intact>>
published == <<target, backup>>
vars == <<pc, process, files, published>>

Directories == Builds \cup {Previous}

Outputs == Directories \cup {NoOutput}

\* What a complete output holds.
Product == {"modules", "manifest"}

\* The parent returned: with the report, with an error after which the output
\* is what it was, with an error after the output was replaced, with an error
\* that leaves the previous output under its backup name; or it was killed.
Ended == {"succeeded", "failed", "uncleaned", "unrestored", "crashed"}

Working == {"staged", "compiling", "verifying", "checking", "printing",
            "printed", "unscratched", "complete", "placing", "backing",
            "replacing", "restoring", "cleaning"}

Init ==
    /\ pc = [b \in Builds |-> "idle"]
    /\ worker = [b \in Builds |-> "absent"]
    /\ tools = [b \in Builds |-> {}]
    /\ contracts \in [Builds -> SUBSET Contracts]
    /\ staged = {}
    /\ holds = [d \in Directories |-> IF d = Previous THEN Product ELSE {}]
    /\ intact = [b \in Builds |-> TRUE]
    /\ target \in {Previous, NoOutput}
    /\ backup = [b \in Builds |-> NoOutput]

Goes(b, step) == pc' = [pc EXCEPT ![b] = step]

At(b, step) == pc[b] = step

-----------------------------------------------------------------------------
(* The compilation worker.                                                 *)

\* MkdirAll and MkdirTemp: a directory no other build has.
OpenStaging(b) ==
    /\ At(b, "idle")
    /\ \/ /\ staged' = staged \cup {b}
          /\ Goes(b, "staged")
       \/ /\ staged' = staged
          /\ Goes(b, "failed")
    /\ UNCHANGED <<process, holds, intact, published>>

\* The project, the log, and the process.
StartWorker(b) ==
    /\ At(b, "staged")
    /\ Goes(b, "compiling")
    /\ holds' = [holds EXCEPT ![b] = {"worker"}]
    /\ worker' = [worker EXCEPT ![b] = "compiling"]
    /\ UNCHANGED <<tools, contracts, staged, intact, published>>

\* stagePrintPlan: every target file encoded, its digest in the plan.
WorkerStages(b) ==
    /\ worker[b] = "compiling"
    /\ worker' = [worker EXCEPT ![b] = "encoded"]
    /\ holds' = [holds EXCEPT ![b] = @ \cup {"protocol"}]
    /\ UNCHANGED <<pc, tools, contracts, staged, intact, published>>

\* writeExclusive of the handoff, the worker's last effect.
WorkerHandsOff(b) ==
    /\ worker[b] = "encoded"
    /\ worker' = [worker EXCEPT ![b] = "handedOff"]
    /\ holds' = [holds EXCEPT ![b] = @ \cup {"handoff"}]
    /\ UNCHANGED <<pc, tools, contracts, staged, intact, published>>

\* It exits well only when the handoff is written; it may die at any point,
\* the handoff written or not.
WorkerExits(b) ==
    /\ worker[b] \in {"compiling", "encoded", "handedOff"}
    /\ \/ /\ worker[b] = "handedOff"
          /\ worker' = [worker EXCEPT ![b] = "exited"]
       \/ worker' = [worker EXCEPT ![b] = "died"]
    /\ UNCHANGED <<pc, tools, contracts, files, published>>

BugReadHandoffEarly(b) ==
    /\ At(b, "compiling")
    /\ worker[b] \in {"handedOff", "exited"}
    /\ "handoff" \in holds[b]
    /\ Goes(b, "verifying")
    /\ holds' = [holds EXCEPT ![b] = @ \ {"worker", "handoff"}]
    /\ UNCHANGED <<process, staged, intact, published>>

\* worker.Run has returned: the handoff is read and validated, then the files
\* of the worker are removed.
ReadHandoff(b) ==
    /\ At(b, "compiling")
    /\ worker[b] = "exited"
    /\ "handoff" \in holds[b]
    /\ Goes(b, "verifying")
    /\ holds' = [holds EXCEPT ![b] = @ \ {"worker", "handoff"}]
    /\ UNCHANGED <<process, staged, intact, published>>

-----------------------------------------------------------------------------
(* Contract verification and printing.                                     *)

\* Package contracts are verified before callable contracts, each by a TS-Go
\* process of its own in a scratch directory of its own.
StartVerifier(b) ==
    /\ At(b, "verifying")
    /\ contracts[b] # {}
    /\ Goes(b, "checking")
    /\ tools' = [tools EXCEPT ![b] = @ \cup {"verifier"}]
    /\ holds' = [holds EXCEPT ![b] = @ \cup {"scratch"}]
    /\ UNCHANGED <<worker, contracts, staged, intact, published>>

NextContract(b) ==
    IF "package" \in contracts[b] THEN "package" ELSE "callable"

\* Every payload matched its digest and every contract its program; the
\* process has ended and the scratch is gone.
FinishVerifier(b) ==
    /\ At(b, "checking")
    /\ intact[b]
    /\ tools' = [tools EXCEPT ![b] = @ \ {"verifier"}]
    /\ contracts' = [contracts EXCEPT ![b] = @ \ {NextContract(b)}]
    /\ Goes(b, "verifying")
    /\ holds' = [holds EXCEPT ![b] = @ \ {"scratch"}]
    /\ UNCHANGED <<worker, staged, intact, published>>

StartPrinter(b) ==
    /\ At(b, "verifying")
    /\ contracts[b] = {}
    /\ Goes(b, "printing")
    /\ tools' = [tools EXCEPT ![b] = @ \cup {"printer"}]
    /\ UNCHANGED <<worker, contracts, files, published>>

BugPrintUnchecked(b) ==
    /\ At(b, "printing")
    /\ Goes(b, "printed")
    /\ tools' = [tools EXCEPT ![b] = @ \ {"printer"}]
    /\ holds' = [holds EXCEPT ![b] = @ \cup {IF intact[b] THEN "modules" ELSE "damage"}]
    /\ UNCHANGED <<worker, contracts, staged, intact, published>>

\* Each payload is checked against its digest and printed; then the process
\* is closed.
PrintModules(b) ==
    /\ At(b, "printing")
    /\ intact[b]
    /\ Goes(b, "printed")
    /\ tools' = [tools EXCEPT ![b] = @ \ {"printer"}]
    /\ holds' = [holds EXCEPT ![b] = @ \cup {"modules"}]
    /\ UNCHANGED <<worker, contracts, staged, intact, published>>

RemoveProtocolScratch(b) ==
    /\ At(b, "printed")
    /\ Goes(b, "unscratched")
    /\ holds' = [holds EXCEPT ![b] = @ \ {"protocol"}]
    /\ UNCHANGED <<process, staged, intact, published>>

\* The package document and the manifest, then the check of the whole Go tool.
WriteManifest(b) ==
    /\ At(b, "unscratched")
    /\ Goes(b, "complete")
    /\ holds' = [holds EXCEPT ![b] = @ \cup {"manifest"}]
    /\ UNCHANGED <<process, staged, intact, published>>

-----------------------------------------------------------------------------
(* Installation.  A rename onto a name that holds an output fails: an      *)
(* output is never an empty directory.                                     *)

InspectTarget(b) ==
    /\ At(b, "complete")
    /\ Goes(b, IF target = NoOutput THEN "placing" ELSE "backing")
    /\ UNCHANGED <<process, files, published>>

Installs(b) ==
    /\ target = NoOutput
    /\ target' = b
    /\ staged' = staged \ {b}
    /\ UNCHANGED <<process, holds, intact, backup>>

Place(b) ==
    /\ At(b, "placing")
    /\ Installs(b)
    /\ Goes(b, "succeeded")

\* rename(target, backup): the output goes and its backup appears at once.
BackUp(b) ==
    /\ At(b, "backing")
    /\ target # NoOutput
    /\ backup' = [backup EXCEPT ![b] = target]
    /\ target' = NoOutput
    /\ Goes(b, "replacing")
    /\ UNCHANGED <<process, files>>

Replace(b) ==
    /\ At(b, "replacing")
    /\ Installs(b)
    /\ Goes(b, "cleaning")

BugNoRollback(b) ==
    /\ At(b, "replacing")
    /\ Goes(b, "failed")
    /\ UNCHANGED <<process, files, published>>

\* The rename of the staging directory failed.
CannotReplace(b) ==
    /\ At(b, "replacing")
    /\ Goes(b, "restoring")
    /\ UNCHANGED <<process, files, published>>

BugRestoreUnnamed(b) ==
    /\ At(b, "restoring")
    /\ \/ /\ target = NoOutput
          /\ target' = backup[b]
          /\ backup' = [backup EXCEPT ![b] = {}]
          /\ Goes(b, "failed")
       \/ /\ UNCHANGED published
          /\ Goes(b, "unrestored")
    /\ UNCHANGED <<process, files>>

Restore(b) ==
    /\ At(b, "restoring")
    /\ \/ /\ target = NoOutput
          /\ target' = backup[b]
          /\ backup' = [backup EXCEPT ![b] = NoOutput]
          /\ Goes(b, "failed")
       \/ /\ UNCHANGED published
          /\ Goes(b, "unrestored")
    /\ UNCHANGED <<process, files>>

BugRemoveTooSoon(b) ==
    /\ pc[b] \in {"replacing", "cleaning"}
    /\ \E artifact \in holds[backup[b]] :
          holds' = [holds EXCEPT ![backup[b]] = @ \ {artifact}]
    /\ UNCHANGED <<pc, process, staged, intact, published>>

\* RemoveAll(backup) takes the old output away file by file.
RemoveSome(b) ==
    /\ At(b, "cleaning")
    /\ \E artifact \in holds[backup[b]] :
          holds' = [holds EXCEPT ![backup[b]] = @ \ {artifact}]
    /\ UNCHANGED <<pc, process, staged, intact, published>>

\* It returns when nothing is left, or with an error and whatever is left then;
\* the error is reported although the output is new.
Clean(b) ==
    /\ At(b, "cleaning")
    /\ \/ /\ holds[backup[b]] = {}
          /\ backup' = [backup EXCEPT ![b] = NoOutput]
          /\ Goes(b, "succeeded")
       \/ /\ UNCHANGED backup
          /\ Goes(b, "uncleaned")
    /\ UNCHANGED <<process, files, target>>

-----------------------------------------------------------------------------
(* Failures and crashes.                                                   *)

WorkerEnded(b) == worker[b] \in {"absent", "exited", "died"}

BugFailRemovesStaging(b) ==
    /\ pc[b] \in Working \ {"replacing", "restoring", "cleaning"}
    /\ WorkerEnded(b)
    /\ Goes(b, "failed")
    /\ tools' = [tools EXCEPT ![b] = {}]
    /\ staged' = staged \ {b}
    /\ UNCHANGED <<worker, contracts, holds, intact, published>>

BugFailWhenIntact(b) ==
    /\ pc[b] \in Working \ {"replacing", "restoring", "cleaning"}
    /\ worker[b] \in {"absent", "exited"}
    /\ Goes(b, "failed")
    /\ tools' = [tools EXCEPT ![b] = {}]
    /\ UNCHANGED <<worker, contracts, files, published>>

\* Any call of the parent before the previous output is moved may return an
\* error: a file system call, a worker that did not exit well, a payload that
\* does not match its digest, a refused contract, a tool that changed.  A
\* running TS-Go client is closed on the way out; the staging directory stays.
Fail(b) ==
    /\ pc[b] \in Working \ {"replacing", "restoring", "cleaning"}
    /\ WorkerEnded(b)
    /\ Goes(b, "failed")
    /\ tools' = [tools EXCEPT ![b] = {}]
    /\ UNCHANGED <<worker, contracts, files, published>>

\* The parent is killed.  Its worker goes on.
Crash(b) ==
    /\ pc[b] \in Working
    /\ Goes(b, "crashed")
    /\ UNCHANGED <<process, files, published>>

\* An encoded file changes on disk after it was sealed.
Damage(b) ==
    /\ intact[b]
    /\ "protocol" \in holds[b]
    /\ intact' = [intact EXCEPT ![b] = FALSE]
    /\ UNCHANGED <<pc, process, staged, holds, published>>

Parent(b) ==
    \/ OpenStaging(b) \/ StartWorker(b) \/ ReadHandoff(b)
    \/ StartVerifier(b) \/ FinishVerifier(b)
    \/ StartPrinter(b) \/ PrintModules(b)
    \/ RemoveProtocolScratch(b) \/ WriteManifest(b)
    \/ InspectTarget(b) \/ Place(b) \/ BackUp(b) \/ Replace(b)
    \/ CannotReplace(b) \/ Restore(b) \/ RemoveSome(b) \/ Clean(b)
    \/ Fail(b)

Worker(b) == WorkerStages(b) \/ WorkerHandsOff(b) \/ WorkerExits(b)

Next == \E b \in Builds : Parent(b) \/ Worker(b) \/ Crash(b) \/ Damage(b)

\* A parent that can take a step takes one, and a worker ends.
Fairness == \A b \in Builds : WF_vars(Parent(b)) /\ WF_vars(Worker(b))

Spec == Init /\ [][Next]_vars

FairSpec == Spec /\ Fairness

-----------------------------------------------------------------------------
(* Properties.                                                             *)

\* Every variable holds what its comment says.
TypeOK ==
    /\ pc \in [Builds -> {"idle"} \cup Working \cup Ended]
    /\ worker \in [Builds -> {"absent", "compiling", "encoded", "handedOff",
                              "exited", "died"}]
    /\ tools \in [Builds -> SUBSET {"verifier", "printer"}]
    /\ contracts \in [Builds -> SUBSET Contracts]
    /\ staged \subseteq Builds
    /\ holds \in [Directories ->
                     SUBSET {"worker", "handoff", "protocol", "scratch",
                             "modules", "damage", "manifest"}]
    /\ intact \in [Builds -> BOOLEAN]
    /\ target \in Outputs
    /\ backup \in [Builds -> Outputs]

Complete(d) == holds[d] = Product

\* The printed modules and the manifest, every contract verified, no scratch of
\* the worker, the protocol or a verifier, and no process left in it.
Whole(b) ==
    /\ Complete(b)
    /\ contracts[b] = {}
    /\ worker[b] = "exited"
    /\ tools[b] = {}

\* What has the output name is a whole build, and stays one while other builds
\* remove what they moved aside.  What a build moved aside is complete as long
\* as the build may put it back or says that it could not: removal, which may
\* fail or be killed half-way, starts only after another output is in place.
PublishedIsWhole ==
    /\ target \in Builds => Whole(target)
    /\ target = Previous => Complete(Previous)
    /\ \A b \in Builds :
          pc[b] \in {"replacing", "restoring", "unrestored"} => Complete(backup[b])

\* The compiler, the contract verifier and the printer of a build never run
\* at once, so their memory peaks do not add up.
LifetimesNeverOverlap ==
    \A b \in Builds :
        Cardinality(tools[b]) + (IF WorkerEnded(b) THEN 0 ELSE 1) <= 1

\* An output moved aside is never forgotten: a build that holds one is between
\* its renames, was killed there, or returned an error that says so; a build
\* that succeeds has removed it and a build that just fails has put it back.
BackupIsAccountedFor ==
    \A b \in Builds :
        backup[b] # NoOutput =>
            pc[b] \in {"replacing", "restoring", "cleaning", "crashed",
                       "unrestored", "uncleaned"}

\* A build that fails before it replaced the output publishes nothing, and its
\* staging directory is kept as the failure artifact.
FailurePublishesNothing ==
    \A b \in Builds :
        pc[b] \in {"failed", "unrestored"} =>
            /\ target # b
            /\ \A c \in Builds : backup[c] # b
            /\ worker[b] # "absent" => b \in staged

\* Whatever fails or is killed, and however builds interleave, once there is a
\* complete output there always is one: it is in the output directory or under
\* a backup name, where nothing of it has been removed.
SomeOutput ==
    \E d \in Directories :
        Complete(d) /\ (target = d \/ \E b \in Builds : backup[b] = d)

KeepsACopy == [][SomeOutput => SomeOutput']_vars

\* Every build ends.
EveryBuildEnds ==
    \A b \in Builds : (pc[b] \in Working) ~> (pc[b] \in Ended)

\* A failed build keeps the encoded program its worker sealed
\* (docs/spec/architecture.md: "The output transaction removes scratch only
\* after successful publication ... A failure therefore preserves the immutable
\* protocol").
FailureKeepsProtocol ==
    \A b \in Builds :
        pc[b] = "failed" /\ worker[b] = "exited" => "protocol" \in holds[b]
=============================================================================
