------------------------- MODULE AflExecutorProofs --------------------------
(***************************************************************************)
(* What the fuzzing loop keeps across stops and restarts, for every set of *)
(* files, inputs and edges and every number of stops: the maps and the     *)
(* queue agree, no queued input is overwritten and no file is run again    *)
(* without one of the two reasons that are named.                          *)
(***************************************************************************)
EXTENDS AflExecutor, TLAPS

(* Where the process exists, and where run_file is saving an input. *)
Alive == Running \cup Exiting
Saving == {"write", "tick", "move"}

(* What the place in the program says about its local variables. *)
LocalInv ==
    /\ pc \in {"running", "ended", "cases"} \cup Saving => cur \in File
    /\ pc \in Saving => pending # <<>>
    /\ pc \in {"cases", "write", "tick"} => state.index + Len(pending) <= MaxIndex
    /\ pc = "move" => state.index > 0 /\ state.index + Len(pending) <= MaxIndex + 1

(* The map of queue c as the executor has it, or would read it. *)
Map(c) == IF pc \in Alive THEN bitmap[c] ELSE bitmapFile[c]

(* The input that is in the map already and not yet in the queue. *)
Unmoved(c) == IF pc \in Saving /\ Head(pending).crash = c THEN Head(pending).cov ELSE {}

(* The file of a map is the map, or torn. *)
FileInv == pc \in Alive => \A c \in BOOLEAN : bitmapFile[c] \in {Torn, bitmap[c]}

(* A map has what is queued or about to be, whoever reads it. *)
KnownInv ==
    \A c \in BOOLEAN : Map(c) # Torn =>
        /\ \A n \in DOMAIN queue : queue[n].crash = c => queue[n].cov \subseteq Map(c)
        /\ Unmoved(c) \subseteq Map(c)

(* ... and nothing else, as long as no input was lost. *)
NothingElseInv ==
    ~lostTests /\ ~overwritten =>
        \A c \in BOOLEAN : Map(c) # Torn => Map(c) \subseteq Covered(c) \cup Unmoved(c)

(* A stop strikes before a torn file is left behind. *)
TornInv ==
    /\ \A c \in BOOLEAN : bitmapFile[c] = Torn =>
          "write" \in struck \/ (pc = "write" /\ c = Head(pending).crash)
    /\ metadata = Torn =>
          {"cleanup", "atexit"} \cap struck # {} \/ pc \in {"cleanup", "atexit"}
    /\ pc = "refused" => struck \cap {"write", "cleanup", "atexit"} # {}

(* The state the executor has, or would start from. *)
Current == IF pc \in Alive THEN state ELSE metadata

(* Without a kill, no name of the queue is given out again. *)
IndexInv ==
    /\ pc \in {"cleanup", "atexit"} => metadata = Torn
    /\ ~killed => /\ ~overwritten
                  /\ Current # Torn => \A n \in DOMAIN queue :
                        n[1] < (IF pc = "move" THEN Current.index - 1 ELSE Current.index)

(* Without a kill, what hung has been processed, and the executor knows. *)
HungInv ==
    /\ pc = "running" => cur \notin state.processed
    /\ ~killed /\ "ended" \notin struck /\ Current # Torn =>
          hung \subseteq Current.processed \cup (IF pc = "ended" THEN {cur} ELSE {})

(* Noted crashes were found by AFL, and mailed or there were reports enough. *)
Noted(s) ==
    /\ s.lastCrash <= aflCrashes
    /\ \A c \in 1..s.lastCrash : mails[c] > 0 \/ s.crashReports = MaxReports
NotedInv ==
    /\ listed <= aflCrashes
    /\ Noted(state)
    /\ metadata # Torn => Noted(metadata)
    /\ pc \in {"mail", "mailed"} => state.lastCrash < listed
    /\ pc = "mailed" => mails[state.lastCrash + 1] > 0

(* Mailed crashes are noted, but for the one mailed last. *)
MailedInv ==
    ~killed /\ "mailed" \notin struck =>
        /\ \A c \in 1..MaxCrashes : mails[c] <= 1
        /\ Current # Torn => \A c \in 1..MaxCrashes :
              mails[c] > 0 => c <= Current.lastCrash
                              \/ (pc = "mailed" /\ c = Current.lastCrash + 1)

IInv == /\ TypeOK /\ LocalInv /\ FileInv /\ KnownInv /\ NothingElseInv /\ TornInv
        /\ IndexInv /\ HungInv /\ NotedInv /\ MailedInv

-----------------------------------------------------------------------------
(* The counter of error reports saturates. *)
LEMMA ReportErrorRange ==
    ASSUME NEW n \in 0..MaxReports
    PROVE  ReportError(n) \in 0..MaxReports
<1>1. {MaxReports, n + 1} \subseteq Int /\ MaxReports \in Nat
  BY BoundsAssumption
<1>2. \E x \in {MaxReports, n + 1} : \A y \in {MaxReports, n + 1} : x <= y
  BY <1>1
<1>3. /\ ReportError(n) \in {MaxReports, n + 1}
      /\ \A y \in {MaxReports, n + 1} : ReportError(n) <= y
  BY <1>2 DEF ReportError, Min
<1> QED
  BY <1>1, <1>3

(* A fresh process has a state and maps. *)
LEMMA FreshTypes == FreshState \in State /\ EmptyBitmap \in [BOOLEAN -> SUBSET Edge]
BY BoundsAssumption DEF FreshState, State, EmptyBitmap

(* The fields of a state, and one of them replaced. *)
LEMMA StateFields ==
    ASSUME NEW s \in State
    PROVE  /\ s.hang \subseteq File /\ s.processed \subseteq File /\ s.done \subseteq File
           /\ s.timeout \in Nat /\ s.index \in Nat /\ s.lastCrash \in Nat
           /\ s.errorReports \in 0..MaxReports /\ s.crashReports \in 0..MaxReports
BY DEF State

LEMMA StateUpdates ==
    ASSUME NEW s \in State
    PROVE  /\ \A n \in Nat : [s EXCEPT !.index = n] \in State
           /\ \A n \in Nat : [s EXCEPT !.lastCrash = n] \in State
           /\ \A r \in 0..MaxReports : [s EXCEPT !.crashReports = r] \in State
           /\ \A F \in SUBSET File : [s EXCEPT !.hang = F] \in State
           /\ \A F \in SUBSET File : \A r \in 0..MaxReports :
                 [s EXCEPT !.done = F, !.errorReports = r] \in State
BY DEF State

(* The time limit is a number. *)
LEMMA TimeoutRange == \A t \in Nat : IncreaseTimeout(t) \in Nat
BY BoundsAssumption DEF IncreaseTimeout

(* A list of new inputs is a sequence of them. *)
LEMMA TestListsSeq ==
    ASSUME NEW tests \in TestLists
    PROVE  tests \in Seq(Test) /\ Len(tests) \in Nat
<1>1. PICK n \in 0..MaxTests : tests \in [1..n -> Test]
  BY DEF TestLists
<1> QED
  BY <1>1, BoundsAssumption

(* The input that is looked at, and those after it. *)
LEMMA PendingFacts ==
    ASSUME TypeOK, pending # <<>>
    PROVE  /\ Head(pending) \in Test
           /\ Head(pending).cov \subseteq Edge /\ Head(pending).crash \in BOOLEAN
           /\ Tail(pending) \in Seq(Test)
           /\ Len(Tail(pending)) = Len(pending) - 1
           /\ Len(pending) \in Nat
BY TestAssumption DEF TypeOK

(* A step keeps the types. *)
LEMMA TypeStep ==
    ASSUME TypeOK, LocalInv, [Next]_vars
    PROVE  TypeOK'
<1>1. ASSUME NEW f \in File, AflAddsFile(f) PROVE TypeOK'
  BY <1>1 DEF AflAddsFile, disk, local, observers, TypeOK, Running, Exiting
<1>2. ASSUME AflFindsCrash PROVE TypeOK'
  BY <1>2, BoundsAssumption DEF AflFindsCrash, disk, local, observers, TypeOK, Running,
         Exiting
<1>3. ASSUME HandleEmptyFiles PROVE TypeOK'
  <2>1. state' \in State
    BY <1>3, TimeoutRange DEF HandleEmptyFiles, TypeOK, State
  <2> QED
    BY <1>3, <2>1 DEF HandleEmptyFiles, env, disk, local, observers, TypeOK, Running,
           Exiting
<1>4. ASSUME Clear PROVE TypeOK'
  <2>1. state' \in State
    BY <1>4 DEF Clear, TypeOK, State
  <2> QED
    BY <1>4, <2>1 DEF Clear, env, disk, local, observers, TypeOK, Running, Exiting
<1>5. ASSUME NEW f \in File, RunFile(f) PROVE TypeOK'
  BY <1>5 DEF RunFile, SyncFiles, env, disk, observers, TypeOK, Running, Exiting
<1>6. ASSUME NEW code \in Code, TargetEnds(code) PROVE TypeOK'
  <2>1. state \in State /\ cur \in File
    BY <1>6 DEF TargetEnds, TypeOK, LocalInv
  <2>2. state.hang \cup {cur} \in SUBSET File /\ state.done \cup {cur} \in SUBSET File
        /\ ReportError(state.errorReports) \in 0..MaxReports
        /\ state.errorReports \in 0..MaxReports
    BY <2>1, StateFields, ReportErrorRange
  <2>3. state' \in State
    BY <1>6, <2>1, <2>2, StateUpdates DEF TargetEnds, HandleByReturnCode
  <2> QED
    BY <1>6, <2>1, <2>3 DEF TargetEnds, env, disk, local, TypeOK, Running, Exiting
<1>7. ASSUME NEW tests \in TestLists, GetTestcases(tests) PROVE TypeOK'
  <2>1. state' \in State
    BY <1>7, LocalInv DEF GetTestcases, TypeOK, State, LocalInv, Saving
  <2> QED
    BY <1>7, <2>1, TestListsSeq DEF GetTestcases, env, disk, observers, TypeOK, Running,
           Exiting
<1>8. ASSUME CheckNew PROVE TypeOK'
  BY <1>8, PendingFacts DEF CheckNew, IsInteresting, env, local, observers, TypeOK,
         Running, Exiting
<1>9. ASSUME CheckOld PROVE TypeOK'
  BY <1>9, PendingFacts DEF CheckOld, env, disk, observers, TypeOK, Running, Exiting
<1>10. ASSUME WriteBitmap PROVE TypeOK'
  BY <1>10, PendingFacts DEF WriteBitmap, env, local, observers, TypeOK, Running,
         Exiting, LocalInv, Saving
<1>11. ASSUME Tick PROVE TypeOK'
  <2>1. state \in State /\ state.index + 1 \in Nat
    BY <1>11, StateFields DEF Tick, TypeOK
  <2>2. state' \in State
    BY <1>11, <2>1, StateUpdates DEF Tick
  <2> QED
    BY <1>11, <2>2 DEF Tick, env, disk, local, observers, TypeOK, Running, Exiting
<1>12. ASSUME MoveTest PROVE TypeOK'
  <2> DEFINE name == <<state.index - 1, cur>>
  <2>1. pending # <<>> /\ state.index \in Nat /\ state.index > 0 /\ Len(pending) > 0
        /\ state.index + Len(pending) <= MaxIndex + 1 /\ cur \in File
        /\ Len(pending) \in Nat /\ MaxIndex \in Nat
    BY <1>12, StateFields, BoundsAssumption DEF MoveTest, LocalInv, Saving, TypeOK
  <2>2. name \in Names
    BY <2>1 DEF Names
  <2>3. DOMAIN queue' \subseteq Names /\ \A n \in DOMAIN queue' : queue'[n] \in Test
    BY <1>12, <2>1, <2>2, PendingFacts DEF MoveTest, TypeOK
  <2>4. overwritten' \in BOOLEAN
    BY <1>12 DEF MoveTest, TypeOK
  <2>5. pending' \in Seq(Test)
    BY <1>12, <2>1, PendingFacts DEF MoveTest
  <2> QED
    BY <1>12, <2>3, <2>4, <2>5 DEF MoveTest, env, TypeOK, Running, Exiting
<1>13. ASSUME ListCrashes PROVE TypeOK'
  BY <1>13 DEF ListCrashes, env, disk, observers, TypeOK, Running, Exiting
<1>14. ASSUME CountReport PROVE TypeOK'
  <2>1. state \in State /\ state.crashReports + 1 \in 0..MaxReports
    BY <1>14, StateFields, BoundsAssumption DEF CountReport, TypeOK
  <2>2. state' \in State
    BY <1>14, <2>1, StateUpdates DEF CountReport
  <2> QED
    BY <1>14, <2>2 DEF CountReport, env, disk, local, observers, TypeOK, Running,
           Exiting
<1>15. ASSUME SendMail PROVE TypeOK'
  <2>1. state.lastCrash + 1 \in Nat
    BY StateFields DEF TypeOK
  <2>2. mails' \in [1..MaxCrashes -> Nat]
    <3>1. CASE state.lastCrash + 1 \in 1..MaxCrashes
      BY <1>15, <3>1 DEF SendMail, TypeOK
    <3>2. CASE state.lastCrash + 1 \notin 1..MaxCrashes
      BY <1>15, <3>2 DEF SendMail, TypeOK
    <3> QED
      BY <3>1, <3>2
  <2> QED
    BY <1>15, <2>2 DEF SendMail, env, disk, local, TypeOK, Running, Exiting
<1>16. ASSUME NoteCrash PROVE TypeOK'
  <2>1. state \in State /\ state.lastCrash + 1 \in Nat
    BY <1>16, StateFields DEF NoteCrash, TypeOK
  <2>2. state' \in State
    BY <1>16, <2>1, StateUpdates DEF NoteCrash
  <2> QED
    BY <1>16, <2>2 DEF NoteCrash, env, disk, local, observers, TypeOK, Running, Exiting
<1>17. ASSUME FinishFile PROVE TypeOK'
  BY <1>17, BoundsAssumption DEF FinishFile, env, disk, observers, TypeOK, Running,
         Exiting
<1>18. ASSUME ExportState PROVE TypeOK'
  BY <1>18, FreshTypes DEF ExportState, CleanupReturns, MemoryLost, env, local,
         observers, TypeOK, Running, Exiting
<1>19. ASSUME AtExit PROVE TypeOK'
  BY <1>19 DEF AtExit, env, local, observers, TypeOK, Running, Exiting
<1>20. ASSUME Interrupt PROVE TypeOK'
  BY <1>20, BoundsAssumption DEF Interrupt, Stopped, env, TypeOK, Running, Exiting
<1>21. ASSUME InterruptExport PROVE TypeOK'
  BY <1>21, FreshTypes, BoundsAssumption DEF InterruptExport, CleanupReturns,
         MemoryLost, Stopped, env, TypeOK, Running, Exiting
<1>22. ASSUME Kill PROVE TypeOK'
  BY <1>22, FreshTypes, BoundsAssumption DEF Kill, MemoryLost, Stopped, env, TypeOK,
         Running, Exiting
<1>23. ASSUME Start PROVE TypeOK'
  BY <1>23 DEF Start, env, disk, local, observers, TypeOK, Running, Exiting
<1>24. CASE UNCHANGED vars
  BY <1>24 DEF vars, TypeOK, Running, Exiting
<1> QED
  BY <1>1, <1>2, <1>3, <1>4, <1>5, <1>6, <1>7, <1>8, <1>9, <1>10, <1>11, <1>12, <1>13,
     <1>14, <1>15, <1>16, <1>17, <1>18, <1>19, <1>20, <1>21, <1>22, <1>23, <1>24
     DEF Next, ExecutorStep

(* The local variables fit the place in the program. *)
LEMMA LocalStep ==
    ASSUME TypeOK, LocalInv, [Next]_vars
    PROVE  LocalInv'
<1>1. ASSUME NEW f \in File, AflAddsFile(f) PROVE LocalInv'
  BY <1>1 DEF AflAddsFile, local, LocalInv, Saving
<1>2. ASSUME AflFindsCrash PROVE LocalInv'
  BY <1>2 DEF AflFindsCrash, local, LocalInv, Saving
<1>3. ASSUME HandleEmptyFiles PROVE LocalInv'
  BY <1>3 DEF HandleEmptyFiles, local, LocalInv, Saving
<1>4. ASSUME Clear PROVE LocalInv'
  BY <1>4 DEF Clear, local, LocalInv, Saving
<1>5. ASSUME NEW f \in File, RunFile(f) PROVE LocalInv'
  BY <1>5 DEF RunFile, SyncFiles, LocalInv, Saving
<1>6. ASSUME NEW code \in Code, TargetEnds(code) PROVE LocalInv'
  BY <1>6 DEF TargetEnds, HandleByReturnCode, local, LocalInv, Saving
<1>7. ASSUME NEW tests \in TestLists, GetTestcases(tests) PROVE LocalInv'
  BY <1>7, TestListsSeq DEF GetTestcases, LocalInv, Saving, TypeOK
<1>8. ASSUME CheckNew PROVE LocalInv'
  BY <1>8, PendingFacts DEF CheckNew, IsInteresting, local, LocalInv, Saving
<1>9. ASSUME CheckOld PROVE LocalInv'
  BY <1>9, PendingFacts, StateFields, BoundsAssumption DEF CheckOld, LocalInv, Saving,
         TypeOK
<1>10. ASSUME WriteBitmap PROVE LocalInv'
  BY <1>10 DEF WriteBitmap, local, LocalInv, Saving
<1>11. ASSUME Tick PROVE LocalInv'
  <2>1. state \in State /\ state.index \in Nat /\ Len(pending) \in Nat /\ MaxIndex \in Nat
        /\ pending # <<>> /\ cur \in File /\ state.index + Len(pending) <= MaxIndex
    BY <1>11, StateFields, BoundsAssumption DEF Tick, TypeOK, LocalInv, Saving
  <2>2. state'.index = state.index + 1 /\ pc' = "move" /\ UNCHANGED <<cur, pending>>
    BY <1>11, <2>1 DEF Tick, local, State
  <2> QED
    BY <2>1, <2>2 DEF LocalInv, Saving
<1>12. ASSUME MoveTest PROVE LocalInv'
  <2>1. state.index \in Nat /\ Len(pending) \in Nat /\ MaxIndex \in Nat
        /\ pending # <<>> /\ cur \in File /\ state.index + Len(pending) <= MaxIndex + 1
    BY <1>12, StateFields, BoundsAssumption DEF MoveTest, TypeOK, LocalInv, Saving
  <2>2. Len(pending') = Len(pending) - 1 /\ pc' = "cases" /\ UNCHANGED <<state, cur>>
    BY <1>12, <2>1, PendingFacts DEF MoveTest
  <2> QED
    BY <2>1, <2>2 DEF LocalInv, Saving
<1>13. ASSUME ListCrashes PROVE LocalInv'
  BY <1>13 DEF ListCrashes, LocalInv, Saving
<1>14. ASSUME CountReport PROVE LocalInv'
  BY <1>14 DEF CountReport, local, LocalInv, Saving
<1>15. ASSUME SendMail PROVE LocalInv'
  BY <1>15 DEF SendMail, local, LocalInv, Saving
<1>16. ASSUME NoteCrash PROVE LocalInv'
  BY <1>16 DEF NoteCrash, local, LocalInv, Saving
<1>17. ASSUME FinishFile PROVE LocalInv'
  BY <1>17 DEF FinishFile, LocalInv, Saving
<1>18. ASSUME ExportState PROVE LocalInv'
  BY <1>18 DEF ExportState, CleanupReturns, MemoryLost, local, LocalInv, Saving
<1>19. ASSUME AtExit PROVE LocalInv'
  BY <1>19 DEF AtExit, local, LocalInv, Saving
<1>20. ASSUME Interrupt PROVE LocalInv'
  BY <1>20 DEF Interrupt, Stopped, LocalInv, Saving
<1>21. ASSUME InterruptExport PROVE LocalInv'
  BY <1>21 DEF InterruptExport, CleanupReturns, MemoryLost, Stopped, LocalInv, Saving
<1>22. ASSUME Kill PROVE LocalInv'
  BY <1>22 DEF Kill, MemoryLost, Stopped, LocalInv, Saving
<1>23. ASSUME Start PROVE LocalInv'
  BY <1>23 DEF Start, local, LocalInv, Saving
<1>24. CASE UNCHANGED vars
  BY <1>24 DEF vars, LocalInv, Saving
<1> QED
  BY <1>1, <1>2, <1>3, <1>4, <1>5, <1>6, <1>7, <1>8, <1>9, <1>10, <1>11, <1>12, <1>13,
     <1>14, <1>15, <1>16, <1>17, <1>18, <1>19, <1>20, <1>21, <1>22, <1>23, <1>24
     DEF Next, ExecutorStep

(* The file of a map stays the map, or torn. *)
LEMMA FileStep ==
    ASSUME TypeOK, LocalInv, FileInv, [Next]_vars
    PROVE  FileInv'
<1>1. ASSUME NEW f \in File, AflAddsFile(f) PROVE FileInv'
  BY <1>1 DEF AflAddsFile, disk, FileInv, Alive, Running, Exiting, Saving
<1>2. ASSUME AflFindsCrash PROVE FileInv'
  BY <1>2 DEF AflFindsCrash, disk, FileInv, Alive, Running, Exiting, Saving
<1>3. ASSUME HandleEmptyFiles PROVE FileInv'
  BY <1>3 DEF HandleEmptyFiles, disk, FileInv, Alive, Running, Exiting, Saving
<1>4. ASSUME Clear PROVE FileInv'
  BY <1>4 DEF Clear, disk, FileInv, Alive, Running, Exiting, Saving
<1>5. ASSUME NEW f \in File, RunFile(f) PROVE FileInv'
  BY <1>5 DEF RunFile, SyncFiles, disk, FileInv, Alive, Running, Exiting, Saving
<1>6. ASSUME NEW code \in Code, TargetEnds(code) PROVE FileInv'
  BY <1>6 DEF TargetEnds, HandleByReturnCode, disk, FileInv, Alive, Running, Exiting,
         Saving
<1>7. ASSUME NEW tests \in TestLists, GetTestcases(tests) PROVE FileInv'
  BY <1>7 DEF GetTestcases, disk, FileInv, Alive, Running, Exiting, Saving
<1>8. ASSUME CheckNew PROVE FileInv'
  BY <1>8, PendingFacts DEF CheckNew, IsInteresting, FileInv, Alive, Running, Exiting,
         Saving, TypeOK
<1>9. ASSUME CheckOld PROVE FileInv'
  BY <1>9 DEF CheckOld, disk, FileInv, Alive, Running, Exiting, Saving
<1>10. ASSUME WriteBitmap PROVE FileInv'
  BY <1>10, PendingFacts DEF WriteBitmap, FileInv, Alive, Running, Exiting, Saving,
         TypeOK, LocalInv
<1>11. ASSUME Tick PROVE FileInv'
  BY <1>11 DEF Tick, disk, FileInv, Alive, Running, Exiting, Saving
<1>12. ASSUME MoveTest PROVE FileInv'
  BY <1>12 DEF MoveTest, FileInv, Alive, Running, Exiting, Saving
<1>13. ASSUME ListCrashes PROVE FileInv'
  BY <1>13 DEF ListCrashes, disk, FileInv, Alive, Running, Exiting, Saving
<1>14. ASSUME CountReport PROVE FileInv'
  BY <1>14 DEF CountReport, disk, FileInv, Alive, Running, Exiting, Saving
<1>15. ASSUME SendMail PROVE FileInv'
  BY <1>15 DEF SendMail, disk, FileInv, Alive, Running, Exiting, Saving
<1>16. ASSUME NoteCrash PROVE FileInv'
  BY <1>16 DEF NoteCrash, disk, FileInv, Alive, Running, Exiting, Saving
<1>17. ASSUME FinishFile PROVE FileInv'
  BY <1>17 DEF FinishFile, disk, FileInv, Alive, Running, Exiting, Saving
<1>18. ASSUME ExportState PROVE FileInv'
  BY <1>18 DEF ExportState, CleanupReturns, MemoryLost, FileInv, Alive, Running,
         Exiting, Saving
<1>19. ASSUME AtExit PROVE FileInv'
  BY <1>19 DEF AtExit, FileInv, Alive, Running, Exiting, Saving
<1>20. ASSUME Interrupt PROVE FileInv'
  BY <1>20 DEF Interrupt, Stopped, FileInv, Alive, Running, Exiting, Saving
<1>21. ASSUME InterruptExport PROVE FileInv'
  BY <1>21 DEF InterruptExport, CleanupReturns, MemoryLost, Stopped, FileInv, Alive,
         Running, Exiting, Saving
<1>22. ASSUME Kill PROVE FileInv'
  BY <1>22 DEF Kill, MemoryLost, Stopped, FileInv, Alive, Running, Exiting, Saving
<1>23. ASSUME Start PROVE FileInv'
  BY <1>23 DEF Start, disk, FileInv, Alive, Running, Exiting, Saving, TypeOK
<1>24. CASE UNCHANGED vars
  BY <1>24 DEF vars, FileInv, Alive, Running, Exiting, Saving
<1> QED
  BY <1>1, <1>2, <1>3, <1>4, <1>5, <1>6, <1>7, <1>8, <1>9, <1>10, <1>11, <1>12, <1>13,
     <1>14, <1>15, <1>16, <1>17, <1>18, <1>19, <1>20, <1>21, <1>22, <1>23, <1>24
     DEF Next, ExecutorStep

(* A torn file is due to a stop, also after a step. *)
LEMMA TornStep ==
    ASSUME TypeOK, LocalInv, TornInv, [Next]_vars
    PROVE  TornInv'
<1>1. ASSUME NEW f \in File, AflAddsFile(f) PROVE TornInv'
  BY <1>1 DEF AflAddsFile, disk, local, observers, TornInv, Saving
<1>2. ASSUME AflFindsCrash PROVE TornInv'
  BY <1>2 DEF AflFindsCrash, disk, local, observers, TornInv, Saving
<1>3. ASSUME HandleEmptyFiles PROVE TornInv'
  BY <1>3 DEF HandleEmptyFiles, disk, local, observers, TornInv, Saving
<1>4. ASSUME Clear PROVE TornInv'
  BY <1>4 DEF Clear, disk, local, observers, TornInv, Saving
<1>5. ASSUME NEW f \in File, RunFile(f) PROVE TornInv'
  BY <1>5 DEF RunFile, SyncFiles, disk, observers, TornInv, Saving
<1>6. ASSUME NEW code \in Code, TargetEnds(code) PROVE TornInv'
  BY <1>6 DEF TargetEnds, HandleByReturnCode, disk, local, observers, TornInv, Saving
<1>7. ASSUME NEW tests \in TestLists, GetTestcases(tests) PROVE TornInv'
  BY <1>7 DEF GetTestcases, disk, observers, TornInv, Saving
<1>8. ASSUME CheckNew PROVE TornInv'
  BY <1>8, PendingFacts, TornAssumption DEF CheckNew, IsInteresting, local, observers,
         TornInv, Saving, TypeOK
<1>9. ASSUME CheckOld PROVE TornInv'
  BY <1>9 DEF CheckOld, disk, observers, TornInv, Saving
<1>10. ASSUME WriteBitmap PROVE TornInv'
  BY <1>10, PendingFacts, TornAssumption DEF WriteBitmap, local, observers, TornInv,
         Saving, TypeOK, LocalInv
<1>11. ASSUME Tick PROVE TornInv'
  BY <1>11 DEF Tick, disk, local, observers, TornInv, Saving
<1>12. ASSUME MoveTest PROVE TornInv'
  BY <1>12 DEF MoveTest, TornInv, Saving
<1>13. ASSUME ListCrashes PROVE TornInv'
  BY <1>13 DEF ListCrashes, disk, observers, TornInv, Saving
<1>14. ASSUME CountReport PROVE TornInv'
  BY <1>14 DEF CountReport, disk, local, observers, TornInv, Saving
<1>15. ASSUME SendMail PROVE TornInv'
  BY <1>15 DEF SendMail, disk, local, TornInv, Saving
<1>16. ASSUME NoteCrash PROVE TornInv'
  BY <1>16 DEF NoteCrash, disk, local, observers, TornInv, Saving
<1>17. ASSUME FinishFile PROVE TornInv'
  BY <1>17 DEF FinishFile, disk, observers, TornInv, Saving
<1>18. ASSUME ExportState PROVE TornInv'
  BY <1>18, TornAssumption DEF ExportState, CleanupReturns, MemoryLost, local,
         observers, TornInv, Saving, TypeOK
<1>19. ASSUME AtExit PROVE TornInv'
  BY <1>19 DEF AtExit, local, observers, TornInv, Saving
<1>20. ASSUME Interrupt PROVE TornInv'
  BY <1>20 DEF Interrupt, Stopped, TornInv, Saving, Running, Critical
<1>21. ASSUME InterruptExport PROVE TornInv'
  BY <1>21 DEF InterruptExport, CleanupReturns, MemoryLost, Stopped, TornInv, Saving,
         Critical
<1>22. ASSUME Kill PROVE TornInv'
  BY <1>22 DEF Kill, MemoryLost, Stopped, TornInv, Saving, Running, Exiting, Critical
<1>23. ASSUME Start PROVE TornInv'
  BY <1>23 DEF Start, disk, local, observers, TornInv, Saving
<1>24. CASE UNCHANGED vars
  BY <1>24 DEF vars, TornInv, Saving
<1> QED
  BY <1>1, <1>2, <1>3, <1>4, <1>5, <1>6, <1>7, <1>8, <1>9, <1>10, <1>11, <1>12, <1>13,
     <1>14, <1>15, <1>16, <1>17, <1>18, <1>19, <1>20, <1>21, <1>22, <1>23, <1>24
     DEF Next, ExecutorStep

(* What hung stays processed, and a shutdown saves that. *)
LEMMA HungStep ==
    ASSUME TypeOK, LocalInv, IndexInv, HungInv, [Next]_vars
    PROVE  HungInv'
<1>1. ASSUME NEW f \in File, AflAddsFile(f) PROVE HungInv'
  BY <1>1 DEF AflAddsFile, disk, local, observers, HungInv, Current, Alive, Running,
         Exiting
<1>2. ASSUME AflFindsCrash PROVE HungInv'
  BY <1>2 DEF AflFindsCrash, disk, local, observers, HungInv, Current, Alive, Running,
         Exiting
<1>3. ASSUME HandleEmptyFiles PROVE HungInv'
  BY <1>3, TornAssumption DEF HandleEmptyFiles, disk, local, observers, HungInv,
         Current, Alive,
         Running, Exiting, TypeOK, State
<1>4. ASSUME Clear PROVE HungInv'
  BY <1>4 DEF Clear, disk, local, observers, HungInv, Current, Alive, Running, Exiting,
         TypeOK, State
<1>5. ASSUME NEW f \in File, RunFile(f) PROVE HungInv'
  BY <1>5 DEF RunFile, SyncFiles, disk, observers, HungInv, Current, Alive, Running,
         Exiting
<1>6. ASSUME NEW code \in Code, TargetEnds(code) PROVE HungInv'
  BY <1>6, TornAssumption DEF TargetEnds, HandleByReturnCode, disk, local, observers,
         HungInv, Current,
         Alive, Running, Exiting, TypeOK, State
<1>7. ASSUME NEW tests \in TestLists, GetTestcases(tests) PROVE HungInv'
  BY <1>7, TornAssumption DEF GetTestcases, disk, observers, HungInv, Current, Alive,
         Running, Exiting,
         TypeOK, State
<1>8. ASSUME CheckNew PROVE HungInv'
  BY <1>8 DEF CheckNew, IsInteresting, local, observers, HungInv, Current, Alive,
         Running, Exiting
<1>9. ASSUME CheckOld PROVE HungInv'
  BY <1>9 DEF CheckOld, disk, observers, HungInv, Current, Alive, Running, Exiting
<1>10. ASSUME WriteBitmap PROVE HungInv'
  BY <1>10 DEF WriteBitmap, local, observers, HungInv, Current, Alive, Running, Exiting
<1>11. ASSUME Tick PROVE HungInv'
  BY <1>11, TornAssumption DEF Tick, disk, local, observers, HungInv, Current, Alive,
         Running, Exiting,
         TypeOK, State
<1>12. ASSUME MoveTest PROVE HungInv'
  BY <1>12 DEF MoveTest, HungInv, Current, Alive, Running, Exiting
<1>13. ASSUME ListCrashes PROVE HungInv'
  BY <1>13 DEF ListCrashes, disk, observers, HungInv, Current, Alive, Running, Exiting
<1>14. ASSUME CountReport PROVE HungInv'
  BY <1>14, TornAssumption DEF CountReport, disk, local, observers, HungInv, Current,
         Alive, Running,
         Exiting, TypeOK, State
<1>15. ASSUME SendMail PROVE HungInv'
  BY <1>15 DEF SendMail, disk, local, HungInv, Current, Alive, Running, Exiting
<1>16. ASSUME NoteCrash PROVE HungInv'
  BY <1>16, TornAssumption DEF NoteCrash, disk, local, observers, HungInv, Current,
         Alive, Running,
         Exiting, TypeOK, State
<1>17. ASSUME FinishFile PROVE HungInv'
  BY <1>17 DEF FinishFile, disk, observers, HungInv, Current, Alive, Running, Exiting
<1>18. ASSUME ExportState PROVE HungInv'
  BY <1>18 DEF ExportState, CleanupReturns, MemoryLost, local, observers, HungInv,
         Current, Alive, Running, Exiting, FreshState
<1>19. ASSUME AtExit PROVE HungInv'
  BY <1>19 DEF AtExit, local, observers, HungInv, Current, Alive, Running, Exiting
<1>20. ASSUME Interrupt PROVE HungInv'
  BY <1>20 DEF Interrupt, Stopped, HungInv, Current, Alive, Running, Exiting, Critical
<1>21. ASSUME InterruptExport PROVE HungInv'
  BY <1>21 DEF InterruptExport, CleanupReturns, MemoryLost, Stopped, HungInv, Current,
         Alive, Running, Exiting, IndexInv, Critical
<1>22. ASSUME Kill PROVE HungInv'
  BY <1>22 DEF Kill, MemoryLost, Stopped, HungInv, Current, Alive, Running, Exiting,
         FreshState, Critical
<1>23. ASSUME Start PROVE HungInv'
  BY <1>23 DEF Start, disk, local, observers, HungInv, Current, Alive, Running, Exiting
<1>24. CASE UNCHANGED vars
  BY <1>24 DEF vars, HungInv, Current, Alive, Running, Exiting
<1> QED
  BY <1>1, <1>2, <1>3, <1>4, <1>5, <1>6, <1>7, <1>8, <1>9, <1>10, <1>11, <1>12, <1>13,
     <1>14, <1>15, <1>16, <1>17, <1>18, <1>19, <1>20, <1>21, <1>22, <1>23, <1>24
     DEF Next, ExecutorStep

(* No name of the queue is given out again. *)
LEMMA IndexStep ==
    ASSUME TypeOK, LocalInv, IndexInv, [Next]_vars
    PROVE  IndexInv'
<1>1. ASSUME NEW f \in File, AflAddsFile(f) PROVE IndexInv'
  BY <1>1 DEF AflAddsFile, disk, observers, IndexInv, Current, Alive, Running, Exiting
<1>2. ASSUME AflFindsCrash PROVE IndexInv'
  BY <1>2 DEF AflFindsCrash, disk, observers, IndexInv, Current, Alive, Running, Exiting
<1>3. ASSUME HandleEmptyFiles PROVE IndexInv'
  BY <1>3, TornAssumption DEF HandleEmptyFiles, disk, observers, IndexInv, Current,
         Alive, Running, Exiting, TypeOK, State
<1>4. ASSUME Clear PROVE IndexInv'
  BY <1>4, TornAssumption DEF Clear, disk, observers, IndexInv, Current, Alive, Running,
         Exiting, TypeOK, State
<1>5. ASSUME NEW f \in File, RunFile(f) PROVE IndexInv'
  BY <1>5 DEF RunFile, SyncFiles, disk, observers, IndexInv, Current, Alive, Running,
         Exiting
<1>6. ASSUME NEW code \in Code, TargetEnds(code) PROVE IndexInv'
  BY <1>6, TornAssumption DEF TargetEnds, HandleByReturnCode, disk, observers, IndexInv,
         Current, Alive, Running, Exiting, TypeOK, State
<1>7. ASSUME NEW tests \in TestLists, GetTestcases(tests) PROVE IndexInv'
  BY <1>7, TornAssumption DEF GetTestcases, disk, observers, IndexInv, Current, Alive,
         Running, Exiting, TypeOK, State
<1>8. ASSUME CheckNew PROVE IndexInv'
  BY <1>8 DEF CheckNew, IsInteresting, observers, IndexInv, Current, Alive, Running,
         Exiting
<1>9. ASSUME CheckOld PROVE IndexInv'
  BY <1>9 DEF CheckOld, disk, observers, IndexInv, Current, Alive, Running, Exiting
<1>10. ASSUME WriteBitmap PROVE IndexInv'
  BY <1>10 DEF WriteBitmap, observers, IndexInv, Current, Alive, Running, Exiting
<1>11. ASSUME Tick PROVE IndexInv'
  BY <1>11, StateFields, TornAssumption DEF Tick, disk, observers, IndexInv, Current,
         Alive, Running, Exiting, TypeOK, State, Names
<1>12. ASSUME MoveTest PROVE IndexInv'
  BY <1>12, StateFields, TornAssumption DEF MoveTest, IndexInv, Current, Alive, Running,
         Exiting, TypeOK, Names
<1>13. ASSUME ListCrashes PROVE IndexInv'
  BY <1>13 DEF ListCrashes, disk, observers, IndexInv, Current, Alive, Running, Exiting
<1>14. ASSUME CountReport PROVE IndexInv'
  BY <1>14, TornAssumption DEF CountReport, disk, observers, IndexInv, Current, Alive,
         Running, Exiting, TypeOK, State
<1>15. ASSUME SendMail PROVE IndexInv'
  BY <1>15 DEF SendMail, disk, IndexInv, Current, Alive, Running, Exiting
<1>16. ASSUME NoteCrash PROVE IndexInv'
  BY <1>16, TornAssumption DEF NoteCrash, disk, observers, IndexInv, Current, Alive,
         Running, Exiting, TypeOK, State
<1>17. ASSUME FinishFile PROVE IndexInv'
  BY <1>17 DEF FinishFile, disk, observers, IndexInv, Current, Alive, Running, Exiting
<1>18. ASSUME ExportState PROVE IndexInv'
  BY <1>18, TornAssumption DEF ExportState, CleanupReturns, MemoryLost, observers,
         IndexInv, Current, Alive, Running, Exiting, TypeOK
<1>19. ASSUME AtExit PROVE IndexInv'
  BY <1>19 DEF AtExit, observers, IndexInv, Current, Alive, Running, Exiting
<1>20. ASSUME Interrupt PROVE IndexInv'
  BY <1>20, StateFields, TornAssumption DEF Interrupt, Stopped, IndexInv, Current,
         Alive, Running, Exiting, TypeOK, Names
<1>21. ASSUME InterruptExport PROVE IndexInv'
  BY <1>21 DEF InterruptExport, CleanupReturns, MemoryLost, Stopped, IndexInv, Current,
         Alive, Running, Exiting
<1>22. ASSUME Kill PROVE IndexInv'
  BY <1>22 DEF Kill, MemoryLost, Stopped, IndexInv, Current, Alive, Running, Exiting,
         FreshState, Critical
<1>23. ASSUME Start PROVE IndexInv'
  BY <1>23 DEF Start, disk, observers, IndexInv, Current, Alive, Running, Exiting
<1>24. CASE UNCHANGED vars
  BY <1>24 DEF vars, IndexInv, Current, Alive, Running, Exiting
<1> QED
  BY <1>1, <1>2, <1>3, <1>4, <1>5, <1>6, <1>7, <1>8, <1>9, <1>10, <1>11, <1>12, <1>13,
     <1>14, <1>15, <1>16, <1>17, <1>18, <1>19, <1>20, <1>21, <1>22, <1>23, <1>24
     DEF Next, ExecutorStep

(* Noted crashes stay mailed. *)
LEMMA NotedStep ==
    ASSUME TypeOK, LocalInv, NotedInv, [Next]_vars
    PROVE  NotedInv'
<1>1. ASSUME NEW f \in File, AflAddsFile(f) PROVE NotedInv'
  BY <1>1 DEF AflAddsFile, disk, local, observers, NotedInv, Noted
<1>2. ASSUME AflFindsCrash PROVE NotedInv'
  BY <1>2, StateFields DEF AflFindsCrash, disk, local, observers, NotedInv, Noted,
         TypeOK
<1>3. ASSUME HandleEmptyFiles PROVE NotedInv'
  BY <1>3, TornAssumption DEF HandleEmptyFiles, env, disk, local, observers, NotedInv,
         Noted, TypeOK, State
<1>4. ASSUME Clear PROVE NotedInv'
  BY <1>4, TornAssumption DEF Clear, env, disk, local, observers, NotedInv, Noted,
         TypeOK, State
<1>5. ASSUME NEW f \in File, RunFile(f) PROVE NotedInv'
  BY <1>5 DEF RunFile, SyncFiles, env, disk, observers, NotedInv, Noted
<1>6. ASSUME NEW code \in Code, TargetEnds(code) PROVE NotedInv'
  BY <1>6, TornAssumption DEF TargetEnds, HandleByReturnCode, env, disk, local,
         observers, NotedInv, Noted, TypeOK, State
<1>7. ASSUME NEW tests \in TestLists, GetTestcases(tests) PROVE NotedInv'
  BY <1>7, TornAssumption DEF GetTestcases, env, disk, observers, NotedInv, Noted,
         TypeOK, State
<1>8. ASSUME CheckNew PROVE NotedInv'
  BY <1>8 DEF CheckNew, IsInteresting, env, local, observers, NotedInv, Noted
<1>9. ASSUME CheckOld PROVE NotedInv'
  BY <1>9 DEF CheckOld, env, disk, observers, NotedInv, Noted
<1>10. ASSUME WriteBitmap PROVE NotedInv'
  BY <1>10 DEF WriteBitmap, env, local, observers, NotedInv, Noted
<1>11. ASSUME Tick PROVE NotedInv'
  BY <1>11, TornAssumption DEF Tick, env, disk, local, observers, NotedInv, Noted,
         TypeOK, State
<1>12. ASSUME MoveTest PROVE NotedInv'
  BY <1>12 DEF MoveTest, env, NotedInv, Noted
<1>13. ASSUME ListCrashes PROVE NotedInv'
  BY <1>13 DEF ListCrashes, env, disk, observers, NotedInv, Noted, TypeOK
<1>14. ASSUME CountReport PROVE NotedInv'
  BY <1>14, StateFields, BoundsAssumption DEF CountReport, env, disk, local, observers,
         NotedInv, Noted, TypeOK, State
<1>15. ASSUME SendMail PROVE NotedInv'
  <2>1. state \in State /\ state.lastCrash \in Nat /\ listed \in Nat /\ aflCrashes \in 0..MaxCrashes
        /\ state.lastCrash < listed /\ listed <= aflCrashes /\ MaxCrashes \in Nat
        /\ mails \in [1..MaxCrashes -> Nat]
    BY <1>15, StateFields, BoundsAssumption DEF SendMail, TypeOK, NotedInv
  <2>2. state.lastCrash + 1 \in 1..MaxCrashes
    BY <2>1
  <2>3. /\ mails'[state.lastCrash + 1] > 0
        /\ \A c \in 1..MaxCrashes : mails[c] > 0 => mails'[c] > 0
    BY <1>15, <2>1, <2>2 DEF SendMail
  <2>4. pc' = "mailed" /\ UNCHANGED <<state, listed, aflCrashes, metadata>>
    BY <1>15 DEF SendMail, env, disk, local
  <2>5. ASSUME NEW s \in State, Noted(s) PROVE \A c \in 1..s.lastCrash : c \in 1..MaxCrashes
    BY <2>1, <2>5, StateFields DEF Noted
  <2>6. \A s \in State : Noted(s) => /\ s.lastCrash <= aflCrashes
                                     /\ \A c \in 1..s.lastCrash :
                                           mails'[c] > 0 \/ s.crashReports = MaxReports
    BY <2>3, <2>5 DEF Noted
  <2>7. metadata # Torn => metadata \in State
    BY DEF TypeOK
  <2> QED
    BY <2>1, <2>3, <2>4, <2>6, <2>7 DEF NotedInv, Noted
<1>16. ASSUME NoteCrash PROVE NotedInv'
  <2>1. state \in State /\ state.lastCrash \in Nat /\ listed \in Nat /\ aflCrashes \in Nat
        /\ state.lastCrash < listed /\ listed <= aflCrashes
    BY <1>16, StateFields DEF NoteCrash, TypeOK, NotedInv
  <2>2. /\ state'.lastCrash = state.lastCrash + 1 /\ state'.crashReports = state.crashReports
        /\ pc' = "crashes" /\ UNCHANGED <<listed, aflCrashes, mails, metadata>>
    BY <1>16, <2>1 DEF NoteCrash, env, disk, local, observers, State
  <2>3. mails[state.lastCrash + 1] > 0 \/ state.crashReports = MaxReports
    BY <1>16 DEF NoteCrash, NotedInv
  <2>4. \A c \in 1..state.lastCrash + 1 : c \in 1..state.lastCrash \/ c = state.lastCrash + 1
    BY <2>1
  <2>5. Noted(state)'
    BY <2>1, <2>2, <2>3, <2>4 DEF NotedInv, Noted
  <2> QED
    BY <2>1, <2>2, <2>5 DEF NotedInv, Noted
<1>17. ASSUME FinishFile PROVE NotedInv'
  BY <1>17, StateFields DEF FinishFile, env, disk, observers, NotedInv, Noted, TypeOK
<1>18. ASSUME ExportState PROVE NotedInv'
  BY <1>18, BoundsAssumption DEF ExportState, CleanupReturns, MemoryLost, env, local,
         observers, NotedInv, Noted, FreshState, TypeOK
<1>19. ASSUME AtExit PROVE NotedInv'
  BY <1>19 DEF AtExit, env, local, observers, NotedInv, Noted
<1>20. ASSUME Interrupt PROVE NotedInv'
  BY <1>20, BoundsAssumption DEF Interrupt, Stopped, env, NotedInv, Noted, TypeOK
<1>21. ASSUME InterruptExport PROVE NotedInv'
  BY <1>21, BoundsAssumption DEF InterruptExport, CleanupReturns, MemoryLost, Stopped,
         env, NotedInv, Noted, FreshState, TypeOK
<1>22. ASSUME Kill PROVE NotedInv'
  BY <1>22, BoundsAssumption DEF Kill, MemoryLost, Stopped, env, NotedInv, Noted,
         FreshState, TypeOK
<1>23. ASSUME Start PROVE NotedInv'
  BY <1>23 DEF Start, env, disk, local, observers, NotedInv, Noted
<1>24. CASE UNCHANGED vars
  BY <1>24 DEF vars, NotedInv, Noted
<1> QED
  BY <1>1, <1>2, <1>3, <1>4, <1>5, <1>6, <1>7, <1>8, <1>9, <1>10, <1>11, <1>12, <1>13,
     <1>14, <1>15, <1>16, <1>17, <1>18, <1>19, <1>20, <1>21, <1>22, <1>23, <1>24
     DEF Next, ExecutorStep

(* Mailed crashes stay noted. *)
LEMMA MailedStep ==
    ASSUME TypeOK, LocalInv, NotedInv, IndexInv, MailedInv, [Next]_vars
    PROVE  MailedInv'
<1>1. ASSUME NEW f \in File, AflAddsFile(f) PROVE MailedInv'
  BY <1>1 DEF AflAddsFile, disk, observers, MailedInv, Current, Alive, Running, Exiting
<1>2. ASSUME AflFindsCrash PROVE MailedInv'
  BY <1>2 DEF AflFindsCrash, disk, observers, MailedInv, Current, Alive, Running,
         Exiting
<1>3. ASSUME HandleEmptyFiles PROVE MailedInv'
  BY <1>3, TornAssumption DEF HandleEmptyFiles, disk, observers, MailedInv, Current,
         Alive, Running, Exiting, TypeOK, State
<1>4. ASSUME Clear PROVE MailedInv'
  BY <1>4, TornAssumption DEF Clear, disk, observers, MailedInv, Current, Alive,
         Running, Exiting, TypeOK, State
<1>5. ASSUME NEW f \in File, RunFile(f) PROVE MailedInv'
  BY <1>5 DEF RunFile, SyncFiles, disk, observers, MailedInv, Current, Alive, Running,
         Exiting
<1>6. ASSUME NEW code \in Code, TargetEnds(code) PROVE MailedInv'
  BY <1>6, TornAssumption DEF TargetEnds, HandleByReturnCode, disk, observers,
         MailedInv, Current, Alive, Running, Exiting, TypeOK, State
<1>7. ASSUME NEW tests \in TestLists, GetTestcases(tests) PROVE MailedInv'
  BY <1>7, TornAssumption DEF GetTestcases, disk, observers, MailedInv, Current, Alive,
         Running, Exiting, TypeOK, State
<1>8. ASSUME CheckNew PROVE MailedInv'
  BY <1>8 DEF CheckNew, IsInteresting, observers, MailedInv, Current, Alive, Running,
         Exiting
<1>9. ASSUME CheckOld PROVE MailedInv'
  BY <1>9 DEF CheckOld, disk, observers, MailedInv, Current, Alive, Running, Exiting
<1>10. ASSUME WriteBitmap PROVE MailedInv'
  BY <1>10 DEF WriteBitmap, observers, MailedInv, Current, Alive, Running, Exiting
<1>11. ASSUME Tick PROVE MailedInv'
  BY <1>11, TornAssumption DEF Tick, disk, observers, MailedInv, Current, Alive,
         Running, Exiting, TypeOK, State
<1>12. ASSUME MoveTest PROVE MailedInv'
  BY <1>12 DEF MoveTest, MailedInv, Current, Alive, Running, Exiting
<1>13. ASSUME ListCrashes PROVE MailedInv'
  BY <1>13 DEF ListCrashes, disk, observers, MailedInv, Current, Alive, Running, Exiting
<1>14. ASSUME CountReport PROVE MailedInv'
  BY <1>14, StateFields, TornAssumption DEF CountReport, disk, observers, MailedInv,
         Current, Alive, Running, Exiting, TypeOK, State
<1>15. ASSUME SendMail PROVE MailedInv'
  <2>1. state.lastCrash + 1 \in 1..MaxCrashes /\ state.lastCrash \in Nat
    BY <1>15, StateFields, BoundsAssumption DEF SendMail, TypeOK, NotedInv
  <2>2. /\ pc = "mail" /\ pc' = "mailed" /\ UNCHANGED <<state, killed, struck>>
        /\ mails' = [mails EXCEPT ![state.lastCrash + 1] = @ + 1]
        /\ mails \in [1..MaxCrashes -> Nat] /\ state # Torn
    BY <1>15, TornAssumption DEF SendMail, TypeOK
  <2>3. Current = state /\ Current' = state
    BY <2>2 DEF Current, Alive, Running
  <2> QED
    BY <2>1, <2>2, <2>3 DEF MailedInv
<1>16. ASSUME NoteCrash PROVE MailedInv'
  <2>1. state \in State /\ state.lastCrash \in Nat /\ state # Torn
        /\ mails \in [1..MaxCrashes -> Nat]
    BY StateFields, TornAssumption DEF TypeOK
  <2>2. /\ state' \in State /\ state'.lastCrash = state.lastCrash + 1
        /\ pc' = "crashes" /\ UNCHANGED <<mails, killed, struck>>
    BY <1>16, <2>1 DEF NoteCrash, observers, State
  <2>3. Current = state /\ Current' = state'
    BY <1>16, <2>2 DEF NoteCrash, Current, Alive, Running
  <2>4. ASSUME NEW c \in 1..MaxCrashes, c <= state.lastCrash \/ c = state.lastCrash + 1
        PROVE  c <= state.lastCrash + 1
    BY <2>1, <2>4
  <2> QED
    BY <2>1, <2>2, <2>3, <2>4 DEF MailedInv
<1>17. ASSUME FinishFile PROVE MailedInv'
  BY <1>17 DEF FinishFile, disk, observers, MailedInv, Current, Alive, Running, Exiting
<1>18. ASSUME ExportState PROVE MailedInv'
  BY <1>18, TornAssumption DEF ExportState, CleanupReturns, MemoryLost, observers,
         MailedInv, Current, Alive, Running, Exiting, TypeOK, IndexInv
<1>19. ASSUME AtExit PROVE MailedInv'
  BY <1>19 DEF AtExit, observers, MailedInv, Current, Alive, Running, Exiting
<1>20. ASSUME Interrupt PROVE MailedInv'
  BY <1>20, StateFields, TornAssumption DEF Interrupt, Stopped, MailedInv, Current,
         Alive, Running, Exiting, TypeOK, Critical
<1>21. ASSUME InterruptExport PROVE MailedInv'
  BY <1>21 DEF InterruptExport, CleanupReturns, MemoryLost, Stopped, MailedInv, Current,
         Alive, Running, Exiting, IndexInv, Critical
<1>22. ASSUME Kill PROVE MailedInv'
  BY <1>22 DEF Kill, MemoryLost, Stopped, MailedInv, Current, Alive, Running, Exiting
<1>23. ASSUME Start PROVE MailedInv'
  BY <1>23 DEF Start, disk, observers, MailedInv, Current, Alive, Running, Exiting
<1>24. CASE UNCHANGED vars
  BY <1>24 DEF vars, MailedInv, Current, Alive, Running, Exiting
<1> QED
  BY <1>1, <1>2, <1>3, <1>4, <1>5, <1>6, <1>7, <1>8, <1>9, <1>10, <1>11, <1>12, <1>13,
     <1>14, <1>15, <1>16, <1>17, <1>18, <1>19, <1>20, <1>21, <1>22, <1>23, <1>24
     DEF Next, ExecutorStep

(* The maps keep what is queued. *)
LEMMA KnownStep ==
    ASSUME TypeOK, LocalInv, FileInv, KnownInv, [Next]_vars
    PROVE  KnownInv'
<1>1. ASSUME NEW f \in File, AflAddsFile(f) PROVE KnownInv'
  BY <1>1 DEF AflAddsFile, disk, local, KnownInv, Map, Unmoved, Alive, Running, Exiting,
         Saving
<1>2. ASSUME AflFindsCrash PROVE KnownInv'
  BY <1>2 DEF AflFindsCrash, disk, local, KnownInv, Map, Unmoved, Alive, Running,
         Exiting, Saving
<1>3. ASSUME HandleEmptyFiles PROVE KnownInv'
  BY <1>3 DEF HandleEmptyFiles, disk, local, KnownInv, Map, Unmoved, Alive, Running,
         Exiting, Saving
<1>4. ASSUME Clear PROVE KnownInv'
  BY <1>4 DEF Clear, disk, local, KnownInv, Map, Unmoved, Alive, Running, Exiting,
         Saving
<1>5. ASSUME NEW f \in File, RunFile(f) PROVE KnownInv'
  BY <1>5 DEF RunFile, SyncFiles, disk, KnownInv, Map, Unmoved, Alive, Running, Exiting,
         Saving
<1>6. ASSUME NEW code \in Code, TargetEnds(code) PROVE KnownInv'
  BY <1>6 DEF TargetEnds, HandleByReturnCode, disk, local, KnownInv, Map, Unmoved,
         Alive, Running, Exiting, Saving
<1>7. ASSUME NEW tests \in TestLists, GetTestcases(tests) PROVE KnownInv'
  BY <1>7 DEF GetTestcases, disk, KnownInv, Map, Unmoved, Alive, Running, Exiting,
         Saving
<1>8. ASSUME CheckNew PROVE KnownInv'
  BY <1>8, PendingFacts, TornAssumption DEF CheckNew, IsInteresting, local, KnownInv,
         Map, Unmoved, Alive, Running, Exiting, Saving, TypeOK
<1>9. ASSUME CheckOld PROVE KnownInv'
  BY <1>9 DEF CheckOld, disk, KnownInv, Map, Unmoved, Alive, Running, Exiting, Saving
<1>10. ASSUME WriteBitmap PROVE KnownInv'
  BY <1>10, PendingFacts, TornAssumption DEF WriteBitmap, local, KnownInv, Map, Unmoved,
         Alive, Running, Exiting, Saving, TypeOK, LocalInv
<1>11. ASSUME Tick PROVE KnownInv'
  BY <1>11 DEF Tick, disk, local, KnownInv, Map, Unmoved, Alive, Running, Exiting,
         Saving
<1>12. ASSUME MoveTest PROVE KnownInv'
  BY <1>12, PendingFacts, TornAssumption DEF MoveTest, KnownInv, Map, Unmoved, Alive,
         Running, Exiting, Saving, TypeOK, LocalInv
<1>13. ASSUME ListCrashes PROVE KnownInv'
  BY <1>13 DEF ListCrashes, disk, KnownInv, Map, Unmoved, Alive, Running, Exiting,
         Saving
<1>14. ASSUME CountReport PROVE KnownInv'
  BY <1>14 DEF CountReport, disk, local, KnownInv, Map, Unmoved, Alive, Running,
         Exiting, Saving
<1>15. ASSUME SendMail PROVE KnownInv'
  BY <1>15 DEF SendMail, disk, local, KnownInv, Map, Unmoved, Alive, Running, Exiting,
         Saving
<1>16. ASSUME NoteCrash PROVE KnownInv'
  BY <1>16 DEF NoteCrash, disk, local, KnownInv, Map, Unmoved, Alive, Running, Exiting,
         Saving
<1>17. ASSUME FinishFile PROVE KnownInv'
  BY <1>17 DEF FinishFile, disk, KnownInv, Map, Unmoved, Alive, Running, Exiting, Saving
<1>18. ASSUME ExportState PROVE KnownInv'
  BY <1>18, TornAssumption DEF ExportState, CleanupReturns, MemoryLost, local, KnownInv,
         Map, Unmoved, Alive, Running, Exiting, Saving, FileInv, TypeOK
<1>19. ASSUME AtExit PROVE KnownInv'
  BY <1>19 DEF AtExit, local, KnownInv, Map, Unmoved, Alive, Running, Exiting, Saving
<1>20. ASSUME Interrupt PROVE KnownInv'
  BY <1>20, TornAssumption DEF Interrupt, Stopped, KnownInv, Map, Unmoved, Alive,
         Running, Exiting, Saving, LocalInv, TypeOK
<1>21. ASSUME InterruptExport PROVE KnownInv'
  BY <1>21, TornAssumption DEF InterruptExport, CleanupReturns, MemoryLost, Stopped,
         KnownInv, Map, Unmoved, Alive, Running, Exiting, Saving, FileInv, TypeOK
<1>22. ASSUME Kill PROVE KnownInv'
  BY <1>22, TornAssumption DEF Kill, MemoryLost, Stopped, KnownInv, Map, Unmoved, Alive,
         Running, Exiting, Saving, FileInv, LocalInv, TypeOK
<1>23. ASSUME Start PROVE KnownInv'
  BY <1>23, TornAssumption DEF Start, disk, local, KnownInv, Map, Unmoved, Alive,
         Running, Exiting, Saving, TypeOK
<1>24. CASE UNCHANGED vars
  BY <1>24 DEF vars, KnownInv, Map, Unmoved, Alive, Running, Exiting, Saving
<1> QED
  BY <1>1, <1>2, <1>3, <1>4, <1>5, <1>6, <1>7, <1>8, <1>9, <1>10, <1>11, <1>12, <1>13,
     <1>14, <1>15, <1>16, <1>17, <1>18, <1>19, <1>20, <1>21, <1>22, <1>23, <1>24
     DEF Next, ExecutorStep

(* The maps get nothing else. *)
LEMMA NothingElseStep ==
    ASSUME TypeOK, LocalInv, FileInv, NothingElseInv, [Next]_vars
    PROVE  NothingElseInv'
<1>1. ASSUME NEW f \in File, AflAddsFile(f) PROVE NothingElseInv'
  BY <1>1 DEF AflAddsFile, disk, local, observers, NothingElseInv, Covered, Queued, Map,
         Unmoved, Alive, Running, Exiting, Saving
<1>2. ASSUME AflFindsCrash PROVE NothingElseInv'
  BY <1>2 DEF AflFindsCrash, disk, local, observers, NothingElseInv, Covered, Queued,
         Map, Unmoved, Alive, Running, Exiting, Saving
<1>3. ASSUME HandleEmptyFiles PROVE NothingElseInv'
  BY <1>3 DEF HandleEmptyFiles, disk, local, observers, NothingElseInv, Covered, Queued,
         Map, Unmoved, Alive, Running, Exiting, Saving
<1>4. ASSUME Clear PROVE NothingElseInv'
  BY <1>4 DEF Clear, disk, local, observers, NothingElseInv, Covered, Queued, Map,
         Unmoved, Alive, Running, Exiting, Saving
<1>5. ASSUME NEW f \in File, RunFile(f) PROVE NothingElseInv'
  BY <1>5 DEF RunFile, SyncFiles, disk, observers, NothingElseInv, Covered, Queued, Map,
         Unmoved, Alive, Running, Exiting, Saving
<1>6. ASSUME NEW code \in Code, TargetEnds(code) PROVE NothingElseInv'
  BY <1>6 DEF TargetEnds, HandleByReturnCode, disk, local, observers, NothingElseInv,
         Covered, Queued, Map, Unmoved, Alive, Running, Exiting, Saving
<1>7. ASSUME NEW tests \in TestLists, GetTestcases(tests) PROVE NothingElseInv'
  BY <1>7 DEF GetTestcases, disk, observers, NothingElseInv, Covered, Queued, Map,
         Unmoved, Alive, Running, Exiting, Saving
<1>8. ASSUME CheckNew PROVE NothingElseInv'
  BY <1>8, PendingFacts, TornAssumption DEF CheckNew, IsInteresting, local, observers,
         NothingElseInv, Covered, Queued, Map, Unmoved, Alive, Running, Exiting, Saving,
         TypeOK
<1>9. ASSUME CheckOld PROVE NothingElseInv'
  BY <1>9 DEF CheckOld, disk, observers, NothingElseInv, Covered, Queued, Map, Unmoved,
         Alive, Running, Exiting, Saving
<1>10. ASSUME WriteBitmap PROVE NothingElseInv'
  BY <1>10, PendingFacts, TornAssumption DEF WriteBitmap, local, observers,
         NothingElseInv, Covered, Queued, Map, Unmoved, Alive, Running, Exiting, Saving,
         TypeOK, LocalInv
<1>11. ASSUME Tick PROVE NothingElseInv'
  BY <1>11 DEF Tick, disk, local, observers, NothingElseInv, Covered, Queued, Map,
         Unmoved, Alive, Running, Exiting, Saving
<1>12. ASSUME MoveTest PROVE NothingElseInv'
  <2> SUFFICES ASSUME ~lostTests', ~overwritten', NEW c \in BOOLEAN
               PROVE  Map(c)' \subseteq Covered(c)' \cup Unmoved(c)'
    BY DEF NothingElseInv
  <2> DEFINE name == <<state.index - 1, cur>>
  <2>1. pending # <<>> /\ Head(pending) \in Test
    BY <1>12, PendingFacts DEF MoveTest, LocalInv, Saving
  <2>2. name \notin DOMAIN queue /\ ~lostTests /\ ~overwritten
    BY <1>12 DEF MoveTest
  <2>3. /\ DOMAIN queue' = DOMAIN queue \cup {name} /\ queue'[name] = Head(pending)
        /\ \A n \in DOMAIN queue : queue'[n] = queue[n]
    BY <1>12, <2>2 DEF MoveTest
  <2>4. Map(c)' = bitmap[c] /\ Map(c) = bitmap[c] /\ bitmap[c] # Torn
    BY <1>12, TornAssumption DEF MoveTest, Map, Alive, Running, TypeOK
  <2>5. bitmap[c] \subseteq Covered(c) \cup Unmoved(c)
    BY <2>2, <2>4 DEF NothingElseInv
  <2>6. Covered(c) \subseteq Covered(c)'
    BY <2>3 DEF Covered, Queued
  <2>7. Unmoved(c) \subseteq Covered(c)'
    BY <2>3 DEF Covered, Queued, Unmoved
  <2> QED
    BY <2>4, <2>5, <2>6, <2>7
<1>13. ASSUME ListCrashes PROVE NothingElseInv'
  BY <1>13 DEF ListCrashes, disk, observers, NothingElseInv, Covered, Queued, Map,
         Unmoved, Alive, Running, Exiting, Saving
<1>14. ASSUME CountReport PROVE NothingElseInv'
  BY <1>14 DEF CountReport, disk, local, observers, NothingElseInv, Covered, Queued,
         Map, Unmoved, Alive, Running, Exiting, Saving
<1>15. ASSUME SendMail PROVE NothingElseInv'
  BY <1>15 DEF SendMail, disk, local, NothingElseInv, Covered, Queued, Map, Unmoved,
         Alive, Running, Exiting, Saving
<1>16. ASSUME NoteCrash PROVE NothingElseInv'
  BY <1>16 DEF NoteCrash, disk, local, observers, NothingElseInv, Covered, Queued, Map,
         Unmoved, Alive, Running, Exiting, Saving
<1>17. ASSUME FinishFile PROVE NothingElseInv'
  BY <1>17 DEF FinishFile, disk, observers, NothingElseInv, Covered, Queued, Map,
         Unmoved, Alive, Running, Exiting, Saving
<1>18. ASSUME ExportState PROVE NothingElseInv'
  BY <1>18, TornAssumption DEF ExportState, CleanupReturns, MemoryLost, local,
         observers, NothingElseInv, Covered, Queued, Map, Unmoved, Alive, Running,
         Exiting, Saving, FileInv, TypeOK
<1>19. ASSUME AtExit PROVE NothingElseInv'
  BY <1>19 DEF AtExit, local, observers, NothingElseInv, Covered, Queued, Map, Unmoved,
         Alive, Running, Exiting, Saving
<1>20. ASSUME Interrupt PROVE NothingElseInv'
  <2>1. ~lostTests' => ~lostTests /\ pc \notin Saving
    BY <1>20 DEF Interrupt, Stopped, LocalInv
  <2>2. pc \in Alive /\ pc' \notin Saving /\ UNCHANGED <<bitmapFile, queue, overwritten>>
    BY <1>20 DEF Interrupt, Stopped, Alive, Running, Exiting, Saving
  <2>3. \A c \in BOOLEAN : Map(c)' \in {Torn, Map(c)} /\ Map(c) = bitmap[c] /\ bitmap[c] # Torn
    BY <1>20, <2>2, TornAssumption DEF Interrupt, Map, Alive, Running, Exiting, TypeOK
  <2>4. \A c \in BOOLEAN : Covered(c)' = Covered(c)
    BY <2>2 DEF Covered, Queued
  <2>5. pc \notin Saving => \A c \in BOOLEAN : Unmoved(c) = {}
    BY DEF Unmoved
  <2> QED
    BY <2>1, <2>2, <2>3, <2>4, <2>5 DEF NothingElseInv
<1>21. ASSUME InterruptExport PROVE NothingElseInv'
  BY <1>21, TornAssumption DEF InterruptExport, CleanupReturns, MemoryLost, Stopped,
         NothingElseInv, Covered, Queued, Map, Unmoved, Alive, Running, Exiting, Saving,
         FileInv, TypeOK
<1>22. ASSUME Kill PROVE NothingElseInv'
  <2>1. ~lostTests' => ~lostTests /\ pc \notin Saving
    BY <1>22 DEF Kill, Stopped, LocalInv
  <2>2. pc \in Alive /\ pc' \notin Saving /\ UNCHANGED <<bitmapFile, queue, overwritten>>
    BY <1>22 DEF Kill, Stopped, Alive, Running, Exiting, Saving
  <2>3. \A c \in BOOLEAN : Map(c)' \in {Torn, Map(c)} /\ Map(c) = bitmap[c] /\ bitmap[c] # Torn
    BY <1>22, <2>2, TornAssumption DEF Kill, MemoryLost, FileInv, Map, Alive, Running,
           Exiting, TypeOK
  <2>4. \A c \in BOOLEAN : Covered(c)' = Covered(c)
    BY <2>2 DEF Covered, Queued
  <2>5. pc \notin Saving => \A c \in BOOLEAN : Unmoved(c) = {}
    BY DEF Unmoved
  <2> QED
    BY <2>1, <2>2, <2>3, <2>4, <2>5 DEF NothingElseInv
<1>23. ASSUME Start PROVE NothingElseInv'
  BY <1>23, TornAssumption DEF Start, disk, local, observers, NothingElseInv, Covered,
         Queued, Map, Unmoved, Alive, Running, Exiting, Saving, TypeOK
<1>24. CASE UNCHANGED vars
  BY <1>24 DEF vars, NothingElseInv, Covered, Queued, Map, Unmoved, Alive, Running,
         Exiting, Saving
<1> QED
  BY <1>1, <1>2, <1>3, <1>4, <1>5, <1>6, <1>7, <1>8, <1>9, <1>10, <1>11, <1>12, <1>13,
     <1>14, <1>15, <1>16, <1>17, <1>18, <1>19, <1>20, <1>21, <1>22, <1>23, <1>24
     DEF Next, ExecutorStep

-----------------------------------------------------------------------------
(* All of it holds at the start, ... *)
LEMMA InitInv == Init => IInv
<1> SUFFICES ASSUME Init PROVE IInv
  OBVIOUS
<1>1. DOMAIN queue = {} /\ pending = <<>>
  BY DEF Init
<1>2. TypeOK
  <2>1. bitmapFile \in [BOOLEAN -> {Torn} \cup SUBSET Edge] /\ bitmap \in [BOOLEAN -> SUBSET Edge]
    BY DEF Init, EmptyBitmap
  <2>2. state \in State /\ metadata \in {Torn} \cup State
    BY FreshTypes DEF Init
  <2>3. mails \in [1..MaxCrashes -> Nat] /\ aflCrashes \in 0..MaxCrashes
        /\ listed \in 0..MaxCrashes /\ stops \in 0..MaxStops
    BY BoundsAssumption DEF Init
  <2>4. pending \in Seq(Test) /\ pc \in Running
    BY DEF Init, Running
  <2> QED
    BY <1>1, <2>1, <2>2, <2>3, <2>4 DEF Init, TypeOK
<1>3. LocalInv /\ FileInv
  BY DEF Init, LocalInv, FileInv, Saving
<1>4. KnownInv /\ NothingElseInv
  BY <1>1 DEF Init, KnownInv, NothingElseInv, Map, Unmoved, Alive, Running, Saving,
         EmptyBitmap
<1>5. TornInv
  BY TornAssumption, FreshTypes DEF Init, TornInv, EmptyBitmap
<1>6. IndexInv
  BY <1>1 DEF Init, IndexInv
<1>7. HungInv /\ NotedInv /\ MailedInv
  BY BoundsAssumption DEF Init, HungInv, Current, NotedInv, Noted, MailedInv, FreshState
<1> QED
  BY <1>2, <1>3, <1>4, <1>5, <1>6, <1>7 DEF IInv

(* ... and after every step. *)
THEOREM Inductive == Spec => []IInv
<1>1. IInv /\ [Next]_vars => IInv'
  BY TypeStep, LocalStep, FileStep, KnownStep, NothingElseStep, TornStep, IndexStep,
     HungStep, NotedStep, MailedStep DEF IInv
<1> QED
  BY InitInv, <1>1, PTL DEF Spec

(* The variables of the fuzzing loop keep their types; the names of queued  *)
(* files stay below the bound on the index.                                 *)
THEOREM TypeCorrect == Spec => []TypeOK
<1>1. IInv => TypeOK
  BY DEF IInv
<1> QED
  BY Inductive, <1>1, PTL

(* is_interesting_testcase never lets an input in whose coverage is queued: *)
(* the maps have all of it, also when they are read after a restart.        *)
THEOREM QueueInBitmapHolds == Spec => []QueueInBitmap
<1>1. IInv => QueueInBitmap
  BY TornAssumption DEF IInv, KnownInv, QueueInBitmap, Map, Alive, TypeOK
<1> QED
  BY Inductive, <1>1, PTL

(* The maps claim nothing that was not queued, unless a stop struck inside  *)
(* run_file or an input was overwritten.                                    *)
THEOREM BitmapInQueueHolds == Spec => []BitmapInQueue
<1>1. IInv => BitmapInQueue
  <2> SUFFICES ASSUME IInv, pc \in {"idle", "running"}, ~lostTests, ~overwritten,
                      NEW c \in BOOLEAN
               PROVE  bitmap[c] = Covered(c)
    BY DEF BitmapInQueue
  <2>1. Map(c) = bitmap[c] /\ bitmap[c] # Torn /\ Unmoved(c) = {}
    BY TornAssumption DEF IInv, TypeOK, Map, Alive, Running, Unmoved, Saving
  <2>2. bitmap[c] \subseteq Covered(c)
    BY <2>1 DEF IInv, NothingElseInv
  <2>3. Covered(c) \subseteq bitmap[c]
    BY <2>1 DEF IInv, KnownInv, Covered, Queued
  <2> QED
    BY <2>2, <2>3
<1> QED
  BY Inductive, <1>1, PTL

(* Without a kill, the index that names queued inputs is never set back.    *)
THEOREM OverwriteOnlyAfterKillHolds == Spec => []OverwriteOnlyAfterKill
<1>1. IInv => OverwriteOnlyAfterKill
  BY DEF IInv, IndexInv, OverwriteOnlyAfterKill
<1> QED
  BY Inductive, <1>1, PTL

(* The executor starts again after every stop that leaves no file cut short. *)
THEOREM RefusesOnlyIfCutHolds == Spec => []RefusesOnlyIfCut
<1>1. IInv => RefusesOnlyIfCut
  BY DEF IInv, TornInv, RefusesOnlyIfCut
<1> QED
  BY Inductive, <1>1, PTL

(* A file that hung is not run again before the next pass, also after an    *)
(* interrupt and a restart, unless the executor was killed once or a stop   *)
(* struck between handle_by_return_code and processed.add.                  *)
THEOREM HungNotRerunHolds == Spec => []HungNotRerun
<1>1. IInv => HungNotRerun
  BY TornAssumption DEF IInv, TypeOK, HungInv, HungNotRerun, Current, Alive, Running
<1> QED
  BY Inductive, <1>1, PTL

(* report_crash mails every crash that is noted as seen while there are     *)
(* reports left, and none twice unless a kill, or an interrupt between mail *)
(* and note, made the executor forget.                                      *)
THEOREM ReportsOncePerCrashHolds == Spec => []ReportsOncePerCrash
<1>1. IInv => ReportsOncePerCrash
  BY DEF IInv, TypeOK, NotedInv, Noted, MailedInv, ReportsOncePerCrash
<1> QED
  BY Inductive, <1>1, PTL
=============================================================================
