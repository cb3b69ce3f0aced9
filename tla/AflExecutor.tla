---------------------------- MODULE AflExecutor -----------------------------
(***************************************************************************)
(* The hybrid-fuzzing loop: AFLExecutor and AFLExecutorState of            *)
(* qsym/afl.py, TestcaseMinimizer of qsym/minimizer.py and the files both  *)
(* keep.  AFL adds files to its queue and finds crashes at any time; the   *)
(* executor picks the best unprocessed file, runs the pintool on it under  *)
(* a time limit, keeps those new inputs that cover something new, and      *)
(* remembers what it did - on disk only when it shuts down.                *)
(*                                                                         *)
(* A new input is a record of the edges it covers and whether it crashes   *)
(* the target.  The executor may be interrupted by an exception or Ctrl-C  *)
(* (its cleanup runs, and runs again at exit) or killed (it does not), at  *)
(* any step.  Reports are mailed: the option -m is given.                  *)
(***************************************************************************)
EXTENDS Integers, Sequences, FiniteSets, FiniteSetsExt

CONSTANTS
    File,            \* AFL queue files; a larger one has the better score
    Edge,            \* bits of AFL's coverage map
    Test,            \* the new inputs the pintool may produce
    DefaultTimeout,  \* DEFAULT_TIMEOUT, seconds
    MaxTimeout,      \* MAX_TIMEOUT, seconds
    MinHangFiles,    \* MIN_HANG_FILES
    MaxReports,      \* MAX_ERROR_REPORTS and MAX_CRASH_REPORTS
    MaxTests,        \* bound on the new inputs of one pintool run
    MaxIndex,        \* bound on the files the executor queues
    MaxCrashes,      \* bound on the crashes AFL finds
    MaxStops,        \* bound on interrupts and kills
    Torn             \* a file whose writing was cut short

ASSUME FileAssumption == File \subseteq Nat /\ IsFiniteSet(File)
ASSUME BoundsAssumption ==
    {MinHangFiles, MaxReports, MaxTests, MaxIndex, MaxCrashes, MaxStops,
     DefaultTimeout, MaxTimeout} \subseteq Nat
ASSUME TestAssumption == Test \subseteq [cov : SUBSET Edge, crash : BOOLEAN]

VARIABLES
    aflQueue,    \* AFL's queue directory
    aflCrashes,  \* number of files in AFL's crashes directory
    state,       \* AFLExecutorState
    metadata,    \* the pickled state on disk
    bitmap,      \* TestcaseMinimizer.bitmap, by crash or not
    bitmapFile,  \* out_dir/afl-bitmap and afl-crash-bitmap
    queue,       \* my_queue: <<index, source file>> -> new input
    pc,          \* where the executor is
    cur,         \* the file being run
    pending,     \* q.get_testcases() not yet looked at
    listed,      \* the number of crashes check_crashes has listed
    mails,       \* observer: how often each crash was mailed
    overwritten, \* observer: a queued input was overwritten
    lostTests,   \* observer: inputs dropped by a stop inside run_file
    hung,        \* observer: files that hung since the last clear
    struck,      \* observer: the critical places where a stop struck
    killed,      \* observer: the executor was killed
    stops        \* observer: interrupts and kills so far

env == <<aflQueue, aflCrashes>>
disk == <<metadata, bitmapFile, queue>>
local == <<cur, pending, listed>>
observers == <<mails, overwritten, lostTests, hung, struck, killed, stops>>
vars == <<aflQueue, aflCrashes, state, metadata, bitmap, bitmapFile, queue, pc,
          cur, pending, listed, mails, overwritten, lostTests, hung, struck,
          killed, stops>>

State == [hang : SUBSET File, processed : SUBSET File, done : SUBSET File,
          timeout : Nat, index : Nat, errorReports : 0..MaxReports,
          crashReports : 0..MaxReports, lastCrash : Nat]
ASSUME TornAssumption == (\A edges \in SUBSET Edge : Torn # edges) /\ Torn \notin State

Names == (0..MaxIndex) \X File
Running == {"idle", "sleep", "running", "ended", "cases", "write", "tick",
            "move", "crashes", "mail", "mailed"}
Exiting == {"cleanup", "exported", "atexit"}

(* Between handle_by_return_code and processed.add, between send_mail and   *)
(* the note that the crash was reported, and with a file half written       *)
Critical == {"ended", "mailed", "write", "cleanup", "atexit"}

TypeOK ==
    /\ aflQueue \subseteq File
    /\ aflCrashes \in 0..MaxCrashes
    /\ state \in State
    /\ metadata \in {Torn} \cup State
    /\ bitmap \in [BOOLEAN -> SUBSET Edge]
    /\ bitmapFile \in [BOOLEAN -> {Torn} \cup SUBSET Edge]
    /\ DOMAIN queue \subseteq Names
    /\ \A n \in DOMAIN queue : queue[n] \in Test
    /\ pc \in Running \cup Exiting \cup {"down", "refused"}
    /\ cur \in File \cup {0}
    /\ pending \in Seq(Test)
    /\ listed \in 0..MaxCrashes
    /\ mails \in [1..MaxCrashes -> Nat]
    /\ overwritten \in BOOLEAN
    /\ lostTests \in BOOLEAN
    /\ hung \subseteq File
    /\ struck \subseteq Critical
    /\ killed \in BOOLEAN
    /\ stops \in 0..MaxStops

(* AFLExecutorState().  lastCrash is crashes[fuzzer] + 1. *)
FreshState ==
    [hang |-> {}, processed |-> {}, done |-> {}, timeout |-> DefaultTimeout,
     index |-> 0, errorReports |-> 0, crashReports |-> 0, lastCrash |-> 0]

EmptyBitmap == [c \in BOOLEAN |-> {}]

Init ==
    /\ aflQueue = {}
    /\ aflCrashes = 0
    /\ state = FreshState
    /\ metadata = FreshState     \* no metadata file: the same as a fresh one
    /\ bitmap = EmptyBitmap
    /\ bitmapFile = EmptyBitmap
    /\ queue = <<>>
    /\ pc = "idle"
    /\ cur = 0
    /\ pending = <<>>
    /\ listed = 0
    /\ mails = [c \in 1..MaxCrashes |-> 0]
    /\ overwritten = FALSE
    /\ lostTests = FALSE
    /\ hung = {}
    /\ struck = {}
    /\ killed = FALSE
    /\ stops = 0

-----------------------------------------------------------------------------
(* AFL, at any time *)

AflAddsFile(f) ==
    /\ f \notin aflQueue
    /\ aflQueue' = aflQueue \cup {f}
    /\ UNCHANGED <<aflCrashes, state, disk, bitmap, pc, local, observers>>

AflFindsCrash ==
    /\ aflCrashes < MaxCrashes
    /\ aflCrashes' = aflCrashes + 1
    /\ UNCHANGED <<aflQueue, state, disk, bitmap, pc, local, observers>>

-----------------------------------------------------------------------------
(* AFLExecutor.run *)

(* sync_files *)
SyncFiles == aflQueue \ (state.done \cup state.processed)

(* increase_timeout: the next one *)
IncreaseTimeout(t) == IF t < MaxTimeout THEN t * 2 ELSE DefaultTimeout

(* Mutant: before all files were tried. *)
HandleEmptyFilesEager ==
    /\ pc = "idle"
    /\ Cardinality(state.hang) > MinHangFiles
    /\ state' = [state EXCEPT !.timeout = IncreaseTimeout(@)]
    /\ pc' = "sleep"
    /\ UNCHANGED <<env, disk, bitmap, local, observers>>

(* handle_empty_files, up to the sleep of a minute in increase_timeout *)
HandleEmptyFiles ==
    /\ pc = "idle"
    /\ SyncFiles = {}
    /\ Cardinality(state.hang) > MinHangFiles
    /\ state' = [state EXCEPT !.timeout = IncreaseTimeout(@)]
    /\ pc' = "sleep"
    /\ UNCHANGED <<env, disk, bitmap, local, observers>>

(* clear *)
Clear ==
    /\ pc = "sleep"
    /\ state' = [state EXCEPT !.hang = {}, !.processed = {}]
    /\ hung' = {}
    /\ pc' = "idle"
    /\ UNCHANGED <<env, disk, bitmap, local, mails, overwritten, lostTests, struck,
                   killed, stops>>

(* run_file: copy the best file and start the pintool *)
RunFile(f) ==
    /\ pc = "idle"
    /\ f \in SyncFiles
    /\ \A g \in SyncFiles : g <= f
    /\ pc' = "running"
    /\ cur' = f
    /\ UNCHANGED <<env, state, disk, bitmap, pending, listed, observers>>

Killed == {124, -9}                     \* by the signals of timeout -k
Error == {128 + 11, -11, 128 + 6, -6}   \* segfault or abort

(* report_error: the number of reports *)
ReportError(n) == Min({MaxReports, n + 1})

(* handle_by_return_code *)
HandleByReturnCode(s, code, f) ==
    IF code \in Killed THEN [s EXCEPT !.hang = @ \cup {f}]
    ELSE [s EXCEPT !.done = @ \cup {f},
                   !.errorReports = IF code \in Error THEN ReportError(@) ELSE @]

(* run_target returns *)
TargetEnds(code) ==
    /\ pc = "running"
    /\ state' = HandleByReturnCode(state, code, cur)
    /\ hung' = IF code \in Killed THEN hung \cup {cur} ELSE hung
    /\ pc' = "ended"
    /\ UNCHANGED <<env, disk, bitmap, local, mails, overwritten, lostTests, struck,
                   killed, stops>>

(* Mutant: the file is not remembered as processed. *)
GetTestcasesOnly(tests) ==
    /\ pc = "ended"
    /\ state.index + Len(tests) <= MaxIndex
    /\ pending' = tests
    /\ pc' = "cases"
    /\ UNCHANGED <<env, state, disk, bitmap, cur, listed, observers>>

(* The file is processed, and the new inputs are listed: they are there     *)
(* however the target ended.                                                *)
GetTestcases(tests) ==
    /\ pc = "ended"
    /\ state.index + Len(tests) <= MaxIndex
    /\ state' = [state EXCEPT !.processed = @ \cup {cur}]
    /\ pending' = tests
    /\ pc' = "cases"
    /\ UNCHANGED <<env, disk, bitmap, cur, listed, observers>>

(* check_testcase and is_interesting_testcase: a crashing input counts      *)
(* against a map of its own.                                                *)
IsInteresting(t) == ~ (t.cov \subseteq bitmap[t.crash])

(* Mutant: crashing inputs go into the map of the others. *)
CheckNewOneMap ==
    /\ pc = "cases"
    /\ pending # <<>>
    /\ IsInteresting(Head(pending))
    /\ bitmap' = [bitmap EXCEPT ![FALSE] = @ \cup Head(pending).cov]
    /\ bitmapFile' = [bitmapFile EXCEPT ![FALSE] = Torn]
    /\ pc' = "write"
    /\ UNCHANGED <<env, state, metadata, queue, local, observers>>

CheckNew ==
    /\ pc = "cases"
    /\ pending # <<>>
    /\ IsInteresting(Head(pending))
    /\ bitmap' = [bitmap EXCEPT ![Head(pending).crash] = @ \cup Head(pending).cov]
    /\ bitmapFile' = [bitmapFile EXCEPT ![Head(pending).crash] = Torn]
    /\ pc' = "write"
    /\ UNCHANGED <<env, state, metadata, queue, local, observers>>

CheckOld ==
    /\ pc = "cases"
    /\ pending # <<>>
    /\ ~ IsInteresting(Head(pending))
    /\ pending' = Tail(pending)
    /\ UNCHANGED <<env, state, disk, bitmap, pc, cur, listed, observers>>

(* write_bitmap_file returns *)
WriteBitmap ==
    /\ pc = "write"
    /\ bitmapFile' = [bitmapFile EXCEPT ![Head(pending).crash] = bitmap[Head(pending).crash]]
    /\ pc' = "tick"
    /\ UNCHANGED <<env, state, metadata, queue, bitmap, local, observers>>

(* Mutant: the index stays. *)
TickNot ==
    /\ pc = "tick"
    /\ pc' = "move"
    /\ UNCHANGED <<env, state, disk, bitmap, local, observers>>

(* tick: the file name gets the old index *)
Tick ==
    /\ pc = "tick"
    /\ state' = [state EXCEPT !.index = @ + 1]
    /\ pc' = "move"
    /\ UNCHANGED <<env, disk, bitmap, local, observers>>

(* shutil.move to my_queue *)
MoveTest ==
    /\ pc = "move"
    /\ LET name == <<state.index - 1, cur>>
       IN  /\ queue' = [n \in DOMAIN queue \cup {name} |->
                           IF n = name THEN Head(pending) ELSE queue[n]]
           /\ overwritten' = (overwritten \/ name \in DOMAIN queue)
    /\ pending' = Tail(pending)
    /\ pc' = "cases"
    /\ UNCHANGED <<env, state, metadata, bitmap, bitmapFile, cur, listed, mails,
                   lostTests, hung, struck, killed, stops>>

(* check_crashes, after the last new input: list the crashes, ... *)
ListCrashes ==
    /\ pc = "cases"
    /\ pending = <<>>
    /\ listed' = aflCrashes
    /\ pc' = "crashes"
    /\ UNCHANGED <<env, state, disk, bitmap, cur, pending, observers>>

(* ... and for each new one, report_crash counts the report, ... *)
CountReport ==
    /\ pc = "crashes"
    /\ state.lastCrash < listed
    /\ state.crashReports < MaxReports
    /\ state' = [state EXCEPT !.crashReports = @ + 1]
    /\ pc' = "mail"
    /\ UNCHANGED <<env, disk, bitmap, local, observers>>

(* ... runs the ASAN binary and sends the mail, ... *)
SendMail ==
    /\ pc = "mail"
    /\ mails' = [mails EXCEPT ![state.lastCrash + 1] = @ + 1]
    /\ pc' = "mailed"
    /\ UNCHANGED <<env, state, disk, bitmap, local, overwritten, lostTests, hung,
                   struck, killed, stops>>

(* Mutant: the crash is not noted. *)
NoteCrashNot ==
    /\ pc = "mailed"
    /\ pc' = "crashes"
    /\ UNCHANGED <<env, state, disk, bitmap, local, observers>>

(* ... and the crash is noted, also when there were reports enough. *)
NoteCrash ==
    /\ \/ pc = "mailed"
       \/ /\ pc = "crashes"
          /\ state.lastCrash < listed
          /\ state.crashReports = MaxReports
    /\ state' = [state EXCEPT !.lastCrash = @ + 1]
    /\ pc' = "crashes"
    /\ UNCHANGED <<env, disk, bitmap, local, observers>>

FinishFile ==
    /\ pc = "crashes"
    /\ state.lastCrash >= listed
    /\ pc' = "idle"
    /\ cur' = 0
    /\ listed' = 0
    /\ UNCHANGED <<env, state, disk, bitmap, pending, observers>>

-----------------------------------------------------------------------------
(* Stops and restarts *)

Stopped ==
    /\ stops < MaxStops
    /\ stops' = stops + 1
    /\ cur' = 0
    /\ pending' = <<>>
    /\ listed' = 0
    /\ lostTests' = (lostTests \/ pending # <<>> \/ pc \in {"running", "ended"})
    /\ struck' = struck \cup ({pc} \cap Critical)
    /\ UNCHANGED <<env, bitmapFile, queue, mails, overwritten, hung>>

(* An exception or KeyboardInterrupt: cleanup opens the metadata file, ... *)
Interrupt ==
    /\ pc \in Running
    /\ metadata' = Torn
    /\ pc' = "cleanup"
    /\ Stopped
    /\ UNCHANGED <<state, bitmap, killed>>

(* The process is gone, and what it had in memory. *)
MemoryLost == state' = FreshState /\ bitmap' = EmptyBitmap

(* cleanup returns: to main's finally, or at exit *)
CleanupReturns ==
    \/ pc = "cleanup" /\ pc' = "exported" /\ UNCHANGED <<state, bitmap>>
    \/ pc = "atexit" /\ pc' = "down" /\ MemoryLost

(* Mutant: the state cannot be written, and cleanup drops the exception. *)
ExportStateNot ==
    /\ CleanupReturns
    /\ UNCHANGED <<env, disk, local, observers>>

(* ... export_state writes it, ... *)
ExportState ==
    /\ CleanupReturns
    /\ metadata' = state
    /\ UNCHANGED <<env, bitmapFile, queue, local, observers>>

(* ... unless it is interrupted too: cleanup drops every exception. *)
InterruptExport ==
    /\ CleanupReturns
    /\ Stopped
    /\ UNCHANGED <<metadata, killed>>

(* The constructor has registered cleanup for the exit, too: it opens the   *)
(* file once more.                                                          *)
AtExit ==
    /\ pc = "exported"
    /\ metadata' = Torn
    /\ pc' = "atexit"
    /\ UNCHANGED <<env, state, bitmap, bitmapFile, queue, local, observers>>

(* SIGKILL or a power failure: nothing is saved. *)
Kill ==
    /\ pc \in Running \cup Exiting
    /\ killed' = TRUE
    /\ pc' = "down"
    /\ MemoryLost
    /\ Stopped
    /\ UNCHANGED metadata

(* Mutant: the maps start empty. *)
StartEmpty ==
    /\ pc = "down"
    /\ metadata # Torn
    /\ pc' = "idle"
    /\ state' = metadata
    /\ bitmap' = EmptyBitmap
    /\ UNCHANGED <<env, disk, local, observers>>

(* AFLExecutor(): initialize_bitmap asserts the size of the maps, and       *)
(* import_state unpickles the metadata.                                     *)
Start ==
    /\ pc = "down"
    /\ IF \/ \E c \in BOOLEAN : bitmapFile[c] = Torn
          \/ metadata = Torn
       THEN pc' = "refused" /\ UNCHANGED <<state, bitmap>>
       ELSE pc' = "idle" /\ state' = metadata /\ bitmap' = bitmapFile
    /\ UNCHANGED <<env, disk, local, observers>>

-----------------------------------------------------------------------------
Code == {0, 128 + 11} \cup Killed
TestLists == UNION {[1..n -> Test] : n \in 0..MaxTests}

ExecutorStep ==
    \/ HandleEmptyFiles \/ Clear
    \/ \E f \in File : RunFile(f)
    \/ \E code \in Code : TargetEnds(code)
    \/ \E tests \in TestLists : GetTestcases(tests)
    \/ CheckNew \/ CheckOld \/ WriteBitmap \/ Tick \/ MoveTest
    \/ ListCrashes \/ CountReport \/ SendMail \/ NoteCrash \/ FinishFile
    \/ ExportState \/ AtExit

Next ==
    \/ ExecutorStep
    \/ \E f \in File : AflAddsFile(f)
    \/ AflFindsCrash
    \/ Interrupt \/ InterruptExport \/ Kill \/ Start

Spec == Init /\ [][Next]_vars

(* The loop goes on, and the target ends: timeout -k sees to that. *)
FairSpec == Spec /\ WF_vars(ExecutorStep)

-----------------------------------------------------------------------------
Queued(c) == {queue[n] : n \in {m \in DOMAIN queue : queue[m].crash = c}}
Covered(c) == UNION {t.cov : t \in Queued(c)}

(* The maps know of everything that is in the queue, also after a restart:  *)
(* an input that repeats known coverage never gets in.                      *)
QueueInBitmap ==
    pc \in Running => \A c \in BOOLEAN :
        \A n \in DOMAIN queue : queue[n].crash = c => queue[n].cov \subseteq bitmap[c]

(* ... and, the other way round, the maps claim no coverage that no queued  *)
(* input has, unless the executor was stopped in the middle of a run or a   *)
(* queued input was overwritten: is_interesting_testcase saves the map      *)
(* before the input is moved.                                               *)
BitmapInQueue ==
    pc \in {"idle", "running"} /\ ~lostTests /\ ~overwritten =>
        \A c \in BOOLEAN : bitmap[c] = Covered(c)

(* A queued input is overwritten only after a kill: an interrupt exports    *)
(* the index, wherever it strikes, and one that keeps it from doing so      *)
(* keeps the executor from starting again.                                  *)
OverwriteOnlyAfterKill == overwritten => killed

(* The executor refuses to start (a truncated map or metadata file) only    *)
(* after a stop in the middle of a write.                                   *)
RefusesOnlyIfCut == pc = "refused" => struck \cap {"write", "cleanup", "atexit"} # {}

(* A file that hung is not run again before clear starts the next pass over *)
(* all files, also after an interrupt and a restart: cleanup saves that it  *)
(* was processed.  The exceptions are a kill, after which the executor      *)
(* remembers what an earlier shutdown saved, and an interrupt between       *)
(* handle_by_return_code and the note that the file was processed.          *)
HungNotRerun == pc = "running" /\ cur \in hung => killed \/ "ended" \in struck

(* No crash is noted as seen without having been mailed, unless there were  *)
(* reports enough, and a crash is mailed twice only if a kill made the      *)
(* executor forget, or an interrupt struck between the mail and the note.   *)
ReportsOncePerCrash ==
    /\ \A c \in 1..state.lastCrash : mails[c] > 0 \/ state.crashReports = MaxReports
    /\ \A c \in 1..MaxCrashes : mails[c] > 1 => killed \/ "mailed" \in struck

(* Every file that has to be run is run, whichever of finitely many files   *)
(* AFL adds meanwhile and whether it is there for the first time or after   *)
(* the timeout was raised, unless the executor is stopped.                  *)
EveryFileRun ==
    \A f \in File : f \in SyncFiles ~>
        (f \in state.done \cup state.processed \/ pc \notin Running)
=============================================================================
