---------------------- MODULE JournalCompaction_proofs ----------------------
(***************************************************************************)
(* The invariant of JournalCompaction is inductive: it holds for any number *)
(* of positions, weeks and crashes.                                        *)
(***************************************************************************)
EXTENDS JournalCompaction, TLAPS

\* What reading events by their position depends on.
LEMMA ReadingLemma ==
  ASSUME NEW p, NEW small, NEW large, small \subseteq large
  PROVE  /\ HasFlat(p, small) => HasFlat(p, large)
         /\ HasEntry(p, small) => HasEntry(p, large)
         /\ HasTrade(p, small) => HasTrade(p, large)
BY DEF HasFlat, HasEntry, HasTrade, EventsOf

\* Archiving takes whole positions, and only closed ones.
LEMMA ArchivingLemma ==
  ASSUME NEW events, NEW until, NEW id
  PROVE  /\ ToArchive(events, until, id) \subseteq events
         /\ \A e \in ToArchive(events, until, id) :
              /\ HasFlat(e.pos, ToArchive(events, until, id))
              /\ ~HasTrade(e.pos, events \ ToArchive(events, until, id))
         /\ \A e \in events \ ToArchive(events, until, id) :
              HasFlat(e.pos, events) => HasFlat(e.pos, events \ ToArchive(events, until, id))
<1> DEFINE archived == ToArchive(events, until, id)
<1>1. archived \subseteq events
  BY DEF ToArchive
<1>2. \A e, f \in events : e.pos = f.pos /\ e \in archived => f \in archived
  BY DEF ToArchive, EventsOf
<1>3. \A e \in archived : HasFlat(e.pos, events)
  BY DEF ToArchive
<1>4. \A e \in archived : HasFlat(e.pos, archived)
  BY <1>1, <1>2, <1>3 DEF HasFlat, EventsOf
<1>5. \A e \in archived : ~HasTrade(e.pos, events \ archived)
  BY <1>1, <1>2 DEF HasTrade, HasFlat, HasEntry, EventsOf
<1>6. \A e \in events \ archived :
        HasFlat(e.pos, events) => HasFlat(e.pos, events \ archived)
  BY <1>2 DEF HasFlat, EventsOf
<1> QED
  BY <1>1, <1>4, <1>5, <1>6

\* Of no events none are archived.
LEMMA ArchivingNothing == \A until, id : ToArchive({}, until, id) = {}
BY DEF ToArchive

\* The idle compaction is well typed and holds nothing.
LEMMA IdleIsTyped ==
  /\ IdleCompactor \in CompactorState
  /\ IdleCompactor.pc = "idle" /\ IdleCompactor.events = {} /\ IdleCompactor.archived = {}
  /\ IdleCompactor.archived =
       ToArchive(IdleCompactor.events, IdleCompactor.until, IdleCompactor.id)
BY ArchivingNothing DEF IdleCompactor, CompactorState, NO_ID

\* The invariant holds with empty files and no compaction.
LEMMA InitInvariant == Init => IInv
<1> SUFFICES ASSUME Init PROVE IInv
  OBVIOUS
<1>1. TypeOK
  BY IdleIsTyped DEF Init, TypeOK, NO_ID
<1>2. CompactorHolds
  BY IdleIsTyped DEF Init, CompactorHolds
<1>3. OpenHasNoFlat /\ IdsAreKnown
  BY DEF Init, OpenHasNoFlat, IdsAreKnown, NO_ID
<1>4. EntryLeavesWithFlat
  BY IdleIsTyped DEF Init, EntryLeavesWithFlat
<1>5. CountedOnce /\ CountedWasRead /\ LoadedHistoryKept
      /\ ArchivedPositionsAreClosed /\ ClosedIdsStayClosed
  BY DEF Init, CountedOnce, CountedWasRead, LoadedHistoryKept, ArchivedPositionsAreClosed,
     ClosedIdsStayClosed
<1> QED
  BY <1>1, <1>2, <1>3, <1>4, <1>5 DEF IInv

-----------------------------------------------------------------------------
(* Type correctness.                                                       *)

\* An event opened for writing is a journal event, of its position and kind.
LEMMA AppendIsTyped ==
  ASSUME TypeOK, NEW p \in Nat, NEW kind \in {"ENTRY", "OTHER", "FLAT"}
  PROVE  /\ Opened(Event(p, kind)) \in [event : JournalEvent, replaced : BOOLEAN]
         /\ Opened(Event(p, kind)).event.pos = p
         /\ Opened(Event(p, kind)).event.kind = kind
BY DEF TypeOK, Opened, Event, JournalEvent

\* A rewrite leaves a file of events, and an append under way as it was or replaced.
LEMMA RewriteIsTyped ==
  ASSUME TypeOK, NEW events \in SUBSET JournalEvent, Rewrite(events)
  PROVE  /\ journal' \in SUBSET JournalEvent
         /\ appending' \in [event : JournalEvent, replaced : BOOLEAN] \cup {NONE}
BY DEF TypeOK, Rewrite

\* Every step keeps every variable in its type.
LEMMA TypeStep == TypeOK /\ [Next]_vars => TypeOK'
<1> SUFFICES ASSUME TypeOK, [Next]_vars PROVE TypeOK'
  OBVIOUS
<1>1. CASE EventLoop
  <2>1. CASE PositionOpens
    BY <2>1, AppendIsTyped DEF PositionOpens, BeginAppend, TypeOK
  <2>2. CASE LateEvent
    BY <2>2, AppendIsTyped DEF LateEvent, BeginAppend, TypeOK
  <2>3. CASE PositionCloses
    BY <2>3, AppendIsTyped DEF PositionCloses, BeginAppend, TypeOK, NO_ID
  <2>4. CASE EndAppend
    BY <2>4 DEF EndAppend, TypeOK, JournalEvent
  <2>5. CASE StartCompaction
    <3>1. compactor' \in CompactorState
      BY <2>5, IdleIsTyped DEF StartCompaction, TypeOK, CompactorState
    <3> QED
      BY <2>5, <3>1 DEF StartCompaction, TypeOK
  <2> QED
    BY <1>1, <2>1, <2>2, <2>3, <2>4, <2>5 DEF EventLoop
<1>2. CASE Compactor
  <2>1. CASE Load
    <3>1. ToArchive(journal, compactor.until, compactor.id) \in SUBSET JournalEvent
      BY DEF ToArchive, TypeOK
    <3>2. compactor' \in CompactorState
      BY <2>1, <3>1, IdleIsTyped DEF Load, TypeOK, CompactorState
    <3> QED
      BY <2>1, <3>2 DEF Load, TypeOK, CompactorRuns
  <2>2. CASE WriteArchive
    BY <2>2 DEF WriteArchive, TypeOK, CompactorRuns, CompactorState
  <2>3. CASE CompactionFails
    BY <2>3, IdleIsTyped DEF CompactionFails, TypeOK, CompactorRuns
  <2>4. CASE ReplaceJournal
    BY <2>4, RewriteIsTyped DEF ReplaceJournal, TypeOK, CompactorRuns, CompactorState
  <2>5. CASE WriteSummary
    <3>1. Positions(compactor.archived) \in SUBSET Nat
      BY DEF Positions, TypeOK, CompactorState, JournalEvent
    <3> QED
      BY <2>5, <3>1, IdleIsTyped DEF WriteSummary, TypeOK, CompactorRuns
  <2>6. CASE SummaryFails
    BY <2>6 DEF SummaryFails, TypeOK, CompactorRuns, CompactorState
  <2>7. CASE Restore
    BY <2>7, RewriteIsTyped DEF Restore, TypeOK, CompactorRuns, CompactorState
  <2>8. CASE RestoreAgain
    <3>1. compactor.events \in SUBSET JournalEvent
      BY DEF TypeOK, CompactorState
    <3> QED
      BY <2>8, <3>1, RewriteIsTyped, IdleIsTyped DEF RestoreAgain, TypeOK, CompactorRuns
  <2> QED
    BY <1>2, <2>1, <2>2, <2>3, <2>4, <2>5, <2>6, <2>7, <2>8 DEF Compactor
<1>3. CASE NextWeek
  BY <1>3 DEF NextWeek, TypeOK
<1>4. CASE Restart
  <2>1. RecoveredIds \subseteq Nat
    BY DEF RecoveredIds, LatestUnclosed, Unclosed, TypeOK
  <2>2. /\ current' \in Nat /\ last_id' \in Nat
        /\ appending' \in [event : JournalEvent, replaced : BOOLEAN] \cup {NONE}
    BY <1>4, <2>1, AppendIsTyped DEF Restart, TypeOK, NO_ID
  <2>3. /\ UNCHANGED <<journal, archive, summary, week, recorded, loaded>>
        /\ due' \in BOOLEAN
    BY <1>4 DEF Restart
  <2>4. compactor' \in CompactorState /\ crashes' \in Nat
    BY <1>4, IdleIsTyped DEF Restart, TypeOK
  <2> QED
    BY <2>2, <2>3, <2>4 DEF TypeOK
<1>5. CASE UNCHANGED vars
  BY <1>5 DEF vars, TypeOK
<1> QED
  BY <1>1, <1>2, <1>3, <1>4, <1>5 DEF Next

-----------------------------------------------------------------------------
(* The other invariants.                                                   *)

\* The ids of closed positions, from what is known of the open one.
LEMMA ClosedIds == IdsAreKnown /\ OpenHasNoFlat => ClosedIdsStayClosed
<1> SUFFICES ASSUME IdsAreKnown, OpenHasNoFlat, NEW e \in loaded, e.kind = "FLAT",
                    e.pos = current
             PROVE FALSE
  BY DEF ClosedIdsStayClosed
<1>1. current # NO_ID
  BY DEF IdsAreKnown, NO_ID
<1>2. HasFlat(current, journal \cup loaded)
  BY DEF HasFlat, EventsOf
<1> QED
  BY <1>1, <1>2 DEF OpenHasNoFlat

\* What the thread archives it has read, and the rest is of other positions.
LEMMA ArchivedWasRead ==
  ASSUME CompactorHolds
  PROVE  /\ compactor.archived \subseteq compactor.events
         /\ \A e \in compactor.archived :
              /\ HasFlat(e.pos, compactor.archived)
              /\ HasFlat(e.pos, loaded)
              /\ ~HasTrade(e.pos, compactor.events \ compactor.archived)
         /\ \A e \in compactor.events \ compactor.archived :
              HasFlat(e.pos, compactor.events) =>
                HasFlat(e.pos, compactor.events \ compactor.archived)
<1>1. /\ compactor.archived = ToArchive(compactor.events, compactor.until, compactor.id)
      /\ compactor.events \subseteq loaded
  BY DEF CompactorHolds
<1>2. /\ compactor.archived \subseteq compactor.events
      /\ \A e \in compactor.archived :
           /\ HasFlat(e.pos, compactor.archived)
           /\ ~HasTrade(e.pos, compactor.events \ compactor.archived)
      /\ \A e \in compactor.events \ compactor.archived :
           HasFlat(e.pos, compactor.events) =>
             HasFlat(e.pos, compactor.events \ compactor.archived)
  <2> DEFINE archived == ToArchive(compactor.events, compactor.until, compactor.id)
  <2>1. /\ archived \subseteq compactor.events
        /\ \A e \in archived :
             /\ HasFlat(e.pos, archived)
             /\ ~HasTrade(e.pos, compactor.events \ archived)
        /\ \A e \in compactor.events \ archived :
             HasFlat(e.pos, compactor.events) => HasFlat(e.pos, compactor.events \ archived)
    BY ArchivingLemma
  <2>2. compactor.archived = archived
    BY <1>1
  <2> HIDE DEF archived
  <2> QED
    BY <2>1, <2>2
<1>3. compactor.archived \subseteq loaded
  BY <1>1, <1>2
<1>4. \A e \in compactor.archived : HasFlat(e.pos, loaded)
  BY <1>2, <1>3, ReadingLemma
<1> QED
  BY <1>2, <1>4

\* A step that touches no file and leaves the thread alone, starts or stops it.
LEMMA QuietStep ==
  ASSUME IInv, TypeOK', IdsAreKnown', OpenHasNoFlat',
         UNCHANGED <<journal, archive, summary, loaded>>,
         \/ compactor' = compactor
         \/ /\ compactor'.pc \in {"idle", "start"}
            /\ compactor'.events = {} /\ compactor'.archived = {}
  PROVE  IInv'
<1>1. ClosedIdsStayClosed'
  BY ClosedIds, PTL
<1>2. CountedOnce' /\ LoadedHistoryKept' /\ ArchivedPositionsAreClosed'
  BY DEF IInv, CountedOnce, LoadedHistoryKept, ArchivedPositionsAreClosed
<1>3. EntryLeavesWithFlat'
  BY DEF IInv, EntryLeavesWithFlat
<1>4. CompactorHolds'
  BY ArchivingNothing DEF IInv, CompactorHolds
<1>5. CountedWasRead'
  BY DEF IInv, CountedWasRead, HasTrade, HasFlat, HasEntry, EventsOf
<1> QED
  BY <1>1, <1>2, <1>3, <1>4, <1>5 DEF IInv

\* The event loop keeps the invariant ...
LEMMA EventLoopStep == ASSUME IInv, TypeOK', EventLoop PROVE IInv'
<1> USE DEF NO_ID
<1>1. CASE PositionOpens
  <2>1. last_id' = last_id + 1 /\ current' = last_id' /\ last_id \in Nat
    BY <1>1 DEF PositionOpens, IInv, TypeOK
  <2>2. appending'.event.pos = last_id' /\ appending'.event.kind = "ENTRY"
    BY <1>1 DEF PositionOpens, BeginAppend, Opened, Event
  <2>3. ~HasFlat(last_id', journal \cup loaded)
    BY <2>1 DEF IInv, IdsAreKnown, HasFlat, EventsOf
  <2>4. IdsAreKnown' /\ OpenHasNoFlat'
    BY <1>1, <2>1, <2>2, <2>3 DEF PositionOpens, BeginAppend, IInv, IdsAreKnown,
       OpenHasNoFlat, HasFlat, EventsOf
  <2> QED
    BY <1>1, <2>4, QuietStep DEF PositionOpens, BeginAppend
<1>2. CASE LateEvent
  <2>1. /\ appending'.event.pos \in 1..last_id
        /\ appending'.event.kind = "OTHER"
    BY <1>2 DEF LateEvent, BeginAppend, Opened, Event
  <2>2. IdsAreKnown' /\ OpenHasNoFlat'
    BY <1>2, <2>1 DEF LateEvent, BeginAppend, IInv, IdsAreKnown, OpenHasNoFlat,
       HasFlat, EventsOf
  <2> QED
    BY <1>2, <2>2, QuietStep DEF LateEvent, BeginAppend
<1>3. CASE PositionCloses
  <2>1. /\ appending'.event.pos = current /\ current' = 0 /\ current # 0
    BY <1>3 DEF PositionCloses, BeginAppend, Opened, Event
  <2>2. IdsAreKnown' /\ OpenHasNoFlat'
    BY <1>3, <2>1 DEF PositionCloses, BeginAppend, IInv, TypeOK, IdsAreKnown,
       OpenHasNoFlat, HasFlat, EventsOf
  <2> QED
    BY <1>3, <2>2, QuietStep DEF PositionCloses, BeginAppend
<1>4. CASE EndAppend
  <2> DEFINE event == appending.event
  <2>1. /\ journal \subseteq journal' /\ journal' \subseteq journal \cup {event}
        /\ appending # NONE /\ appending' = NONE
        /\ UNCHANGED <<archive, summary, compactor, current, last_id, loaded>>
    BY <1>4 DEF EndAppend
  <2>2. event.kind \in {"ENTRY", "FLAT"} =>
          ~HasFlat(event.pos, loaded) /\ event.pos \notin summary
    BY <2>1, ReadingLemma DEF IInv, OpenHasNoFlat, CountedWasRead, HasFlat, EventsOf
  <2>3. IdsAreKnown'
    BY <2>1 DEF IInv, IdsAreKnown
  <2>4. OpenHasNoFlat'
    BY <2>1 DEF IInv, OpenHasNoFlat, HasFlat, EventsOf
  <2>5. ClosedIdsStayClosed' /\ ArchivedPositionsAreClosed' /\ LoadedHistoryKept'
    BY <2>1 DEF IInv, ClosedIdsStayClosed, ArchivedPositionsAreClosed, LoadedHistoryKept
  <2>6. CountedOnce'
    BY <2>1, <2>2 DEF IInv, CountedOnce, HasFlat, HasEntry, EventsOf
  <2>7. EntryLeavesWithFlat'
    BY <2>1, <2>2 DEF IInv, EntryLeavesWithFlat, HasFlat, EventsOf
  <2>8. \A e \in compactor.archived : HasFlat(e.pos, loaded)
    BY ArchivedWasRead DEF IInv
  <2>9. \A e \in compactor.archived : ~HasTrade(e.pos, journal) => ~HasTrade(e.pos, journal')
    BY <2>1, <2>2, <2>8 DEF HasTrade, HasFlat, HasEntry, EventsOf
  <2>10. CompactorHolds'
    BY <2>1, <2>9 DEF IInv, CompactorHolds
  <2>11. CountedWasRead'
    BY <2>1 DEF IInv, CountedWasRead
  <2> QED
    BY <2>3, <2>4, <2>5, <2>6, <2>7, <2>10, <2>11 DEF IInv
<1>5. CASE StartCompaction
  <2>1. /\ compactor'.pc = "start"
        /\ compactor'.events = {} /\ compactor'.archived = {}
    BY <1>5 DEF StartCompaction, IdleCompactor
  <2>2. IdsAreKnown' /\ OpenHasNoFlat'
    BY <1>5 DEF StartCompaction, IInv, IdsAreKnown, OpenHasNoFlat
  <2> QED
    BY <1>5, <2>1, <2>2, QuietStep DEF StartCompaction
<1> QED
  BY <1>1, <1>2, <1>3, <1>4, <1>5 DEF EventLoop

\* Restoring what the thread read keeps what the invariant says of the journal.
LEMMA RewriteWithRead ==
  ASSUME IInv, TypeOK', compactor.pc \in {"restore", "check"},
         Rewrite(compactor.events),
         compactor' = IdleCompactor \/ compactor' = [compactor EXCEPT !.pc = "check"],
         UNCHANGED <<archive, summary, loaded, current, last_id>>
  PROVE  IInv'
<1>1. /\ journal' = compactor.events
      /\ compactor.events \subseteq loaded
      /\ loaded \subseteq compactor.events \cup archive
  BY DEF IInv, CompactorHolds, Rewrite
<1>2. /\ appending' # NONE => appending # NONE /\ appending'.event = appending.event
  BY DEF Rewrite, IInv, TypeOK
<1>3. IdsAreKnown'
  BY <1>1, <1>2 DEF IInv, IdsAreKnown
<1>4. OpenHasNoFlat'
  BY <1>1, <1>2 DEF IInv, OpenHasNoFlat, HasFlat, EventsOf
<1>5. ClosedIdsStayClosed' /\ ArchivedPositionsAreClosed' /\ LoadedHistoryKept'
  BY <1>1 DEF IInv, ClosedIdsStayClosed, ArchivedPositionsAreClosed, LoadedHistoryKept
<1>6. CountedOnce'
  BY <1>1 DEF IInv, CountedWasRead, CountedOnce, HasTrade
<1>7. EntryLeavesWithFlat'
  <2>1. compactor'.events = compactor.events \/ compactor'.events = {}
    BY IdleIsTyped DEF IInv, TypeOK, CompactorState
  <2> QED
    BY <1>1, <2>1 DEF IInv, EntryLeavesWithFlat
<1>8. CompactorHolds'
  <2>1. CASE compactor' = IdleCompactor
    BY <2>1, IdleIsTyped DEF CompactorHolds
  <2>2. CASE compactor' = [compactor EXCEPT !.pc = "check"]
    BY <1>1, <2>2 DEF IInv, CompactorHolds, TypeOK, CompactorState
  <2> QED
    BY <2>1, <2>2
<1>9. CountedWasRead'
  BY IdleIsTyped DEF IInv, TypeOK, CompactorState, CountedWasRead, HasTrade, HasFlat,
     HasEntry, EventsOf
<1> QED
  BY <1>3, <1>4, <1>5, <1>6, <1>7, <1>8, <1>9 DEF IInv

\* ... so does the compaction thread ...
LEMMA CompactorStep == ASSUME IInv, TypeOK', Compactor PROVE IInv'
<1> USE DEF CompactorRuns
<1> DEFINE Archived == compactor.archived
<1>0. CompactorHolds /\ ArchivedPositionsAreClosed /\ LoadedHistoryKept
  BY DEF IInv
<1>1. CASE Load
  <2>1. CASE ToArchive(journal, compactor.until, compactor.id) = {}
    <3>1. compactor' = IdleCompactor /\ UNCHANGED <<journal, appending, archive, summary>>
          /\ UNCHANGED <<current, last_id>> /\ loaded' = loaded \cup journal
      BY <1>1, <2>1 DEF Load
    <3>2. IdsAreKnown' /\ OpenHasNoFlat'
      BY <3>1 DEF IInv, IdsAreKnown, OpenHasNoFlat, HasFlat, EventsOf
    <3>3. ClosedIdsStayClosed'
      BY <3>2, ClosedIds, PTL
    <3>4. CountedOnce' /\ ArchivedPositionsAreClosed' /\ LoadedHistoryKept'
      BY <3>1 DEF IInv, CountedOnce, ArchivedPositionsAreClosed, LoadedHistoryKept
    <3>5. EntryLeavesWithFlat'
      BY <3>1, IdleIsTyped DEF IInv, EntryLeavesWithFlat, HasFlat, EventsOf
    <3>6. CompactorHolds'
      BY <3>1, IdleIsTyped DEF CompactorHolds
    <3>7. CountedWasRead'
      BY <3>1, IdleIsTyped DEF IInv, CountedWasRead, HasTrade, HasFlat, HasEntry, EventsOf
    <3> QED
      BY <3>2, <3>3, <3>4, <3>5, <3>6, <3>7 DEF IInv
  <2>2. CASE ToArchive(journal, compactor.until, compactor.id) # {}
    <3>1. /\ compactor'.pc = "loaded" /\ compactor'.events = journal
          /\ compactor'.archived = ToArchive(journal, compactor'.until, compactor'.id)
      BY <1>1, <2>2 DEF Load, IInv, TypeOK, CompactorState
    <3>2. /\ UNCHANGED <<journal, appending, archive, summary, current, last_id>>
          /\ loaded' = loaded \cup journal
      BY <1>1 DEF Load
    <3>3. IdsAreKnown' /\ OpenHasNoFlat'
      BY <3>2 DEF IInv, IdsAreKnown, OpenHasNoFlat, HasFlat, EventsOf
    <3>4. ClosedIdsStayClosed'
      BY <3>3, ClosedIds, PTL
    <3>5. CountedOnce' /\ ArchivedPositionsAreClosed' /\ LoadedHistoryKept'
      BY <3>2 DEF IInv, CountedOnce, ArchivedPositionsAreClosed, LoadedHistoryKept
    <3>6. EntryLeavesWithFlat'
      BY <3>1, <3>2 DEF IInv, EntryLeavesWithFlat, HasFlat, EventsOf
    <3>7. CompactorHolds'
      BY <3>1, <3>2 DEF IInv, LoadedHistoryKept, CompactorHolds
    <3>8. CountedWasRead'
      BY <3>1, <3>2 DEF IInv, CountedOnce, CountedWasRead, HasTrade, HasFlat, HasEntry,
         EventsOf
    <3> QED
      BY <3>3, <3>4, <3>5, <3>6, <3>7, <3>8 DEF IInv
  <2> QED
    BY <2>1, <2>2
<1>2. CASE WriteArchive
  <2>1. /\ archive' = archive \cup Archived
        /\ UNCHANGED <<journal, appending, summary, current, last_id, loaded>>
        /\ compactor' = [compactor EXCEPT !.pc = "archived"] /\ compactor.pc = "loaded"
    BY <1>2 DEF WriteArchive
  <2>2. /\ compactor'.events = compactor.events /\ compactor'.archived = Archived
        /\ compactor'.until = compactor.until /\ compactor'.id = compactor.id
        /\ compactor'.pc = "archived"
    BY <2>1 DEF IInv, TypeOK, CompactorState
  <2>3. IdsAreKnown' /\ OpenHasNoFlat' /\ ClosedIdsStayClosed' /\ CountedOnce'
        /\ LoadedHistoryKept'
    BY <2>1 DEF IInv, IdsAreKnown, OpenHasNoFlat, ClosedIdsStayClosed, CountedOnce,
       LoadedHistoryKept
  <2>4. ArchivedPositionsAreClosed'
    BY <1>0, <2>1, ArchivedWasRead, ReadingLemma DEF ArchivedPositionsAreClosed
  <2>5. EntryLeavesWithFlat' /\ CountedWasRead'
    BY <2>1, <2>2 DEF IInv, EntryLeavesWithFlat, CountedWasRead
  <2>6. CompactorHolds'
    BY <2>1, <2>2 DEF IInv, CompactorHolds
  <2> QED
    BY <2>3, <2>4, <2>5, <2>6 DEF IInv
<1>3. CASE CompactionFails
  <2>1. IdsAreKnown' /\ OpenHasNoFlat'
    BY <1>3 DEF CompactionFails, IInv, IdsAreKnown, OpenHasNoFlat
  <2> QED
    BY <1>3, <2>1, QuietStep, IdleIsTyped DEF CompactionFails
<1>4. CASE ReplaceJournal
  <2>1. /\ journal' = compactor.events \ Archived
        /\ compactor.pc = "archived"
        /\ compactor' = [compactor EXCEPT !.pc = "replaced"]
        /\ UNCHANGED <<archive, summary, current, last_id, loaded>>
    BY <1>4 DEF ReplaceJournal, Rewrite
  <2>2. /\ compactor'.events = compactor.events /\ compactor'.archived = Archived
        /\ compactor'.until = compactor.until /\ compactor'.id = compactor.id
        /\ compactor'.pc = "replaced"
    BY <2>1 DEF IInv, TypeOK, CompactorState
  <2>3. /\ compactor.events \subseteq loaded
        /\ loaded \subseteq compactor.events \cup archive
        /\ Archived \subseteq archive
    BY <2>1 DEF IInv, CompactorHolds
  <2>4. appending' # NONE => appending # NONE /\ appending'.event = appending.event
    BY <1>4 DEF ReplaceJournal, Rewrite, IInv, TypeOK
  <2>5. IdsAreKnown'
    BY <2>1, <2>3, <2>4 DEF IInv, IdsAreKnown
  <2>6. OpenHasNoFlat'
    BY <2>1, <2>3, <2>4 DEF IInv, OpenHasNoFlat, HasFlat, EventsOf
  <2>7. ClosedIdsStayClosed' /\ ArchivedPositionsAreClosed' /\ LoadedHistoryKept'
    BY <2>1, <2>3 DEF IInv, ClosedIdsStayClosed, ArchivedPositionsAreClosed,
       LoadedHistoryKept
  <2>8. CountedOnce'
    BY <2>1 DEF IInv, CountedWasRead, CountedOnce, HasTrade, HasFlat, HasEntry, EventsOf
  <2>9. EntryLeavesWithFlat'
    BY <1>0, <2>1, <2>2, ArchivedWasRead DEF IInv, EntryLeavesWithFlat
  <2>10. CompactorHolds'
    BY <1>0, <2>1, <2>2, <2>3, ArchivedWasRead DEF CompactorHolds
  <2>11. CountedWasRead'
    BY <2>1, <2>2 DEF IInv, CountedWasRead
  <2> QED
    BY <2>5, <2>6, <2>7, <2>8, <2>9, <2>10, <2>11 DEF IInv
<1>5. CASE WriteSummary
  <2>1. /\ summary' = summary \cup Positions(Archived)
        /\ UNCHANGED <<journal, appending, archive, current, last_id, loaded>>
        /\ compactor' = IdleCompactor /\ compactor.pc = "replaced"
    BY <1>5 DEF WriteSummary
  <2>2. IdsAreKnown' /\ OpenHasNoFlat' /\ ClosedIdsStayClosed'
        /\ ArchivedPositionsAreClosed' /\ LoadedHistoryKept'
    BY <2>1 DEF IInv, IdsAreKnown, OpenHasNoFlat, ClosedIdsStayClosed,
       ArchivedPositionsAreClosed, LoadedHistoryKept
  <2>3. CountedOnce'
    BY <1>0, <2>1 DEF IInv, CountedOnce, CompactorHolds, Positions, HasTrade
  <2>4. EntryLeavesWithFlat'
    BY <2>1, IdleIsTyped DEF IInv, EntryLeavesWithFlat
  <2>5. CompactorHolds'
    BY <2>1, IdleIsTyped DEF CompactorHolds
  <2>6. CountedWasRead'
    BY <1>0, <2>1, IdleIsTyped, ArchivedWasRead
       DEF IInv, CountedWasRead, Positions, HasTrade, HasFlat, HasEntry, EventsOf
  <2> QED
    BY <2>2, <2>3, <2>4, <2>5, <2>6 DEF IInv
<1>6. CASE SummaryFails
  <2>1. /\ UNCHANGED <<journal, appending, archive, summary, current, last_id, loaded>>
        /\ compactor' = [compactor EXCEPT !.pc = "restore"] /\ compactor.pc = "replaced"
    BY <1>6 DEF SummaryFails
  <2>2. /\ compactor'.events = compactor.events /\ compactor'.archived = Archived
        /\ compactor'.until = compactor.until /\ compactor'.id = compactor.id
        /\ compactor'.pc = "restore"
    BY <2>1 DEF IInv, TypeOK, CompactorState
  <2> QED
    BY <2>1, <2>2 DEF IInv, IdsAreKnown, OpenHasNoFlat, ClosedIdsStayClosed, CountedOnce,
       LoadedHistoryKept, ArchivedPositionsAreClosed, EntryLeavesWithFlat, CompactorHolds,
       CountedWasRead
<1>7. CASE Restore
  <2>1. CASE Rewrite(compactor.events)
    BY <1>7, <2>1, RewriteWithRead DEF Restore
  <2>2. CASE UNCHANGED <<journal, appending>>
    <3>1. /\ UNCHANGED <<journal, appending, archive, summary, current, last_id, loaded>>
          /\ compactor' = [compactor EXCEPT !.pc = "check"] /\ compactor.pc = "restore"
      BY <1>7, <2>2 DEF Restore
    <3>2. /\ compactor'.events = compactor.events /\ compactor'.archived = Archived
          /\ compactor'.until = compactor.until /\ compactor'.id = compactor.id
          /\ compactor'.pc = "check"
      BY <3>1 DEF IInv, TypeOK, CompactorState
    <3> QED
      BY <3>1, <3>2 DEF IInv, IdsAreKnown, OpenHasNoFlat, ClosedIdsStayClosed,
         CountedOnce, LoadedHistoryKept, ArchivedPositionsAreClosed, EntryLeavesWithFlat,
         CompactorHolds, CountedWasRead
  <2> QED
    BY <1>7, <2>1, <2>2 DEF Restore
<1>8. CASE RestoreAgain
  <2>1. CASE Rewrite(compactor.events)
    BY <1>8, <2>1, RewriteWithRead DEF RestoreAgain
  <2>2. CASE UNCHANGED <<journal, appending>>
    <3>1. IdsAreKnown' /\ OpenHasNoFlat'
      BY <1>8, <2>2 DEF RestoreAgain, IInv, IdsAreKnown, OpenHasNoFlat
    <3> QED
      BY <1>8, <2>2, <3>1, QuietStep, IdleIsTyped DEF RestoreAgain
  <2> QED
    BY <1>8, <2>1, <2>2 DEF RestoreAgain
<1> QED
  BY <1>1, <1>2, <1>3, <1>4, <1>5, <1>6, <1>7, <1>8 DEF Compactor

\* ... and so does a crash.
LEMMA RestartStep == ASSUME IInv, TypeOK', Restart PROVE IInv'
<1> USE DEF NO_ID
<1>1. UNCHANGED <<journal, archive, summary, loaded>> /\ compactor' = IdleCompactor
  BY DEF Restart
<1>2. IdsAreKnown' /\ OpenHasNoFlat'
  <2>1. CASE current' \in {NO_ID, current} /\ appending' = NONE /\ last_id' = last_id
    BY <1>1, <2>1 DEF IInv, TypeOK, IdsAreKnown, OpenHasNoFlat
  <2>2. CASE \E p \in RecoveredIds :
               /\ current' = p
               /\ last_id' = IF p > last_id THEN p ELSE last_id
               /\ appending' = Opened(Event(p, "ENTRY"))
    <3>1. PICK p \in RecoveredIds :
            /\ current' = p
            /\ last_id' = IF p > last_id THEN p ELSE last_id
            /\ appending' = Opened(Event(p, "ENTRY"))
      BY <2>2
    <3>2. /\ appending'.event.pos = p /\ appending'.event.kind = "ENTRY"
      BY <3>1 DEF Opened, Event
    <3>3. last_id \in Nat
      BY DEF IInv, TypeOK
    <3>4. CASE p \in 1..last_id /\ HasEntry(p, journal) /\ ~HasFlat(p, journal)
      <4>1. last_id' = last_id
        BY <3>1, <3>3, <3>4
      <4>2. ~HasFlat(p, loaded)
        BY <3>4 DEF IInv, EntryLeavesWithFlat, HasEntry, EventsOf
      <4>3. ~HasFlat(p, journal \cup loaded)
        BY <3>4, <4>2 DEF HasFlat, EventsOf
      <4> QED
        BY <1>1, <3>1, <3>2, <3>4, <4>1, <4>3 DEF IInv, IdsAreKnown, OpenHasNoFlat
    <3>5. CASE p = last_id + 1
      <4>1. last_id' = p
        BY <3>1, <3>3, <3>5
      <4>2. ~HasFlat(p, journal \cup loaded)
        BY <3>3, <3>5 DEF IInv, IdsAreKnown, HasFlat, EventsOf
      <4> QED
        BY <1>1, <3>1, <3>2, <3>3, <3>5, <4>1, <4>2 DEF IInv, IdsAreKnown, OpenHasNoFlat
    <3> QED
      BY <3>4, <3>5 DEF RecoveredIds, LatestUnclosed, Unclosed
  <2> QED
    BY <2>1, <2>2 DEF Restart
<1> QED
  BY <1>1, <1>2, QuietStep, IdleIsTyped

-----------------------------------------------------------------------------
(* The theorems.                                                           *)

\* Every reachable state of the journal, its archive and its summary satisfies the
\* inductive invariant.
THEOREM JournalInvariantCorrect == Spec => []IInv
<1>1. IInv /\ [Next]_vars => IInv'
  <2> SUFFICES ASSUME IInv, [Next]_vars PROVE IInv'
    OBVIOUS
  <2>1. TypeOK'
    BY TypeStep DEF IInv
  <2>2. CASE EventLoop
    BY <2>1, <2>2, EventLoopStep
  <2>3. CASE Compactor
    BY <2>1, <2>3, CompactorStep
  <2>4. CASE Restart
    BY <2>1, <2>4, RestartStep
  <2>5. CASE NextWeek \/ UNCHANGED vars
    <3>1. UNCHANGED <<journal, archive, summary, appending, compactor, current,
                      last_id, loaded>>
      BY <2>5 DEF NextWeek, vars
    <3>2. IdsAreKnown' /\ OpenHasNoFlat'
      BY <3>1 DEF IInv, IdsAreKnown, OpenHasNoFlat
    <3> QED
      BY <2>1, <3>1, <3>2, QuietStep
  <2> QED
    BY <2>2, <2>3, <2>4, <2>5 DEF Next
<1> QED
  BY InitInvariant, <1>1, PTL DEF Spec

\* A position counted in the summary is not counted in the journal again, however
\* compactions, crashes and late events interleave.
THEOREM CountedOnceCorrect == Spec => []CountedOnce
<1>1. IInv => CountedOnce
  BY DEF IInv
<1> QED
  BY JournalInvariantCorrect, <1>1, PTL

\* Nothing a compaction has read is ever lost from both the journal and the archive.
THEOREM LoadedHistoryKeptCorrect == Spec => []LoadedHistoryKept
<1>1. IInv => LoadedHistoryKept
  BY DEF IInv
<1> QED
  BY JournalInvariantCorrect, <1>1, PTL

\* The archive holds positions with their close only.
THEOREM ArchiveCorrect == Spec => []ArchivedPositionsAreClosed
<1>1. IInv => ArchivedPositionsAreClosed
  BY DEF IInv
<1> QED
  BY JournalInvariantCorrect, <1>1, PTL

\* No restart takes a position up again whose close a compaction has read.
THEOREM ClosedIdsCorrect == Spec => []ClosedIdsStayClosed
<1>1. IInv => ClosedIdsStayClosed
  BY DEF IInv
<1> QED
  BY JournalInvariantCorrect, <1>1, PTL
=============================================================================
