------------------------- MODULE JournalCompaction -------------------------
(***************************************************************************)
(* The trade journal, the event loop that appends to it, and the weekly    *)
(* compaction that rewrites it from another thread without a lock          *)
(* (src/reporting/trade_journal.py, src/reporting/journal_compactor.py and *)
(* the weekly loop of scripts/run_boll_cvd_live.py).  Files are sets of    *)
(* events: reports group events by position and never use their order.     *)
(* Events of no position (JOURNAL_COMPACTED, cash) always stay and are     *)
(* left out.                                                               *)
(***************************************************************************)
EXTENDS Naturals

CONSTANTS
  NONE,          \* no append in progress
  MaxPositions,  \* bound: position ids
  MaxWeeks,      \* bound: weekly summaries
  MaxCrashes     \* bound: crashes

ASSUME BoundsAssumption ==
  MaxPositions \in Nat /\ MaxWeeks \in Nat /\ MaxCrashes \in Nat

VARIABLES
  journal,    \* events in live_trade_events.jsonl
  archive,    \* events in the archive files
  summary,    \* positions counted by a SUMMARY_SNAPSHOT
  appending,  \* the append of the event loop, between open and write, or NONE
  compactor,  \* the thread of compact_after_weekly_summary
  current,    \* execution_state.current_position_id
  last_id,    \* ids handed out
  week,       \* the clock, in weekly summary times passed
  due,        \* the weekly summary was sent and compaction follows
  crashes,    \* crashes so far
  recorded,   \* history: positions whose FLAT was appended
  loaded      \* history: events some compaction read

vars == <<journal, archive, summary, appending, compactor, current,
          last_id, week, due, crashes, recorded, loaded>>

NO_ID == 0

\* JournalEvent.  ENTRY stands for STARTUP_RECOVERY too, OTHER for what is recorded
\* of a position after its close; events between the two change nothing here.
JournalEvent == [pos : Nat, kind : {"ENTRY", "OTHER", "FLAT"}, week : Nat]
Event(p, kind) == [pos |-> p, kind |-> kind, week |-> week]

EventsOf(p, events) == {e \in events : e.pos = p}
HasFlat(p, events) == \E e \in EventsOf(p, events) : e.kind = "FLAT"
HasEntry(p, events) == \E e \in EventsOf(p, events) : e.kind = "ENTRY"

\* Bug: events are archived by their own age, not by their position.
ToArchive_by_event(events, until, id) ==
  {e \in events : e.pos # id /\ e.week < until}

\* Bug: only the events before the summary time are archived.
ToArchive_before_cutoff(events, until, id) ==
  {e \in events :
     e.pos # id /\ HasFlat(e.pos, events) /\ e.week < until}

\* _closed_position_event_ids_to_archive: all events of the closed positions
\* whose last event is before the summary time.
ToArchive(events, until, id) ==
  {e \in events :
     /\ e.pos # id
     /\ HasFlat(e.pos, events)
     /\ \A other \in EventsOf(e.pos, events) : other.week < until}

IdleCompactor ==
  [pc |-> "idle", id |-> NO_ID, until |-> 0, events |-> {}, archived |-> {}]

CompactorState ==
  [pc : {"idle", "start", "loaded", "archived", "replaced", "restore", "check"},
   id : Nat, until : Nat, events : SUBSET JournalEvent, archived : SUBSET JournalEvent]

Init ==
  /\ journal = {} /\ archive = {} /\ summary = {}
  /\ appending = NONE
  /\ compactor = IdleCompactor
  /\ current = NO_ID
  /\ last_id = 0
  /\ week = 1
  /\ due = FALSE
  /\ crashes = 0
  /\ recorded = {} /\ loaded = {}

-----------------------------------------------------------------------------
(* The event loop.  LiveTradeJournal.append opens the file by its name and  *)
(* writes to the file it opened, which may have been replaced meanwhile.    *)

Opened(event) == [event |-> event, replaced |-> FALSE]

BeginAppend(event) ==
  /\ appending = NONE
  /\ appending' = Opened(event)
  /\ UNCHANGED <<journal, archive, summary, compactor, week, due, crashes,
                 recorded, loaded>>

EndAppend ==
  /\ appending # NONE
  /\ journal' = IF appending.replaced THEN journal ELSE journal \cup {appending.event}
  /\ recorded' = recorded \cup
       IF appending.event.kind = "FLAT" THEN {appending.event.pos} ELSE {}
  /\ appending' = NONE
  /\ UNCHANGED <<archive, summary, compactor, current, last_id, week, due,
                 crashes, loaded>>

PositionOpens ==
  /\ current = NO_ID
  /\ last_id < MaxPositions
  /\ last_id' = last_id + 1
  /\ current' = last_id'
  /\ BeginAppend(Event(last_id', "ENTRY"))

\* A worker that captured the id records something after the settlement.
LateEvent ==
  /\ \E p \in 1..last_id : p # current /\ BeginAppend(Event(p, "OTHER"))
  /\ UNCHANGED <<current, last_id>>

\* The flat settlement forgets the position and records its FLAT.
PositionCloses ==
  /\ current # NO_ID
  /\ current' = NO_ID
  /\ BeginAppend(Event(current, "FLAT"))
  /\ UNCHANGED last_id

\* A week passes; its summary may be sent, with compaction switched on.
NextWeek ==
  /\ week < MaxWeeks
  /\ week' = week + 1
  /\ due' \in BOOLEAN
  /\ UNCHANGED <<journal, archive, summary, appending, compactor, current,
                 last_id, crashes, recorded, loaded>>

\* The weekly loop reads the id under state_lock and starts the thread.
StartCompaction ==
  /\ due /\ compactor.pc = "idle"
  /\ due' = FALSE
  /\ compactor' = [IdleCompactor EXCEPT !.pc = "start", !.id = current, !.until = week]
  /\ UNCHANGED <<journal, archive, summary, appending, current, last_id,
                 week, crashes, recorded, loaded>>

-----------------------------------------------------------------------------
(* The compaction thread.                                                  *)

CompactorRuns ==
  UNCHANGED <<current, last_id, week, due, crashes, recorded>>

Load ==
  /\ compactor.pc = "start"
  /\ LET archived == ToArchive(journal, compactor.until, compactor.id)
     IN compactor' = IF archived = {} THEN IdleCompactor
                     ELSE [compactor EXCEPT !.pc = "loaded", !.events = journal,
                                            !.archived = archived]
  /\ loaded' = loaded \cup journal
  /\ CompactorRuns
  /\ UNCHANGED <<journal, appending, archive, summary>>

\* Bug: the archive of the week is overwritten.
WriteArchive_overwrites ==
  /\ compactor.pc = "loaded"
  /\ archive' = compactor.archived
  /\ compactor' = [compactor EXCEPT !.pc = "archived"]
  /\ CompactorRuns
  /\ UNCHANGED <<journal, appending, summary, loaded>>

\* A new archive file each time; it appears whole.
WriteArchive ==
  /\ compactor.pc = "loaded"
  /\ archive' = archive \cup compactor.archived
  /\ compactor' = [compactor EXCEPT !.pc = "archived"]
  /\ CompactorRuns
  /\ UNCHANGED <<journal, appending, summary, loaded>>

\* Writing the archive or the new journal raises before the journal changes.
CompactionFails ==
  /\ compactor.pc \in {"loaded", "archived"}
  /\ compactor' = IdleCompactor
  /\ CompactorRuns
  /\ UNCHANGED <<journal, appending, archive, summary, loaded>>

Rewrite(events) ==
  /\ journal' = events
  /\ appending' = IF appending = NONE THEN NONE ELSE [appending EXCEPT !.replaced = TRUE]

ReplaceJournal ==
  /\ compactor.pc = "archived"
  /\ Rewrite(compactor.events \ compactor.archived)
  /\ compactor' = [compactor EXCEPT !.pc = "replaced"]
  /\ CompactorRuns
  /\ UNCHANGED <<archive, summary, loaded>>

Positions(events) == {e.pos : e \in events}

\* Bug: the snapshot is written while the journal still holds the events.
WriteSummary_first ==
  /\ compactor.pc = "archived"
  /\ summary' = summary \cup Positions(compactor.archived)
  /\ CompactorRuns
  /\ UNCHANGED <<journal, appending, archive, compactor, loaded>>

WriteSummary ==
  /\ compactor.pc = "replaced"
  /\ summary' = summary \cup Positions(compactor.archived)
  /\ compactor' = IdleCompactor
  /\ CompactorRuns
  /\ UNCHANGED <<journal, appending, archive, loaded>>

SummaryFails ==
  /\ compactor.pc = "replaced"
  /\ compactor' = [compactor EXCEPT !.pc = "restore"]
  /\ CompactorRuns
  /\ UNCHANGED <<journal, appending, archive, summary, loaded>>

\* The inner handler puts the events read at the start back, if it can.
Restore ==
  /\ compactor.pc = "restore"
  /\ \/ Rewrite(compactor.events)
     \/ UNCHANGED <<journal, appending>>
  /\ compactor' = [compactor EXCEPT !.pc = "check"]
  /\ CompactorRuns
  /\ UNCHANGED <<archive, summary, loaded>>

\* The outer handler tries once more if the journal is not what was read.
RestoreAgain ==
  /\ compactor.pc = "check"
  /\ \/ journal # compactor.events /\ Rewrite(compactor.events)
     \/ UNCHANGED <<journal, appending>>
  /\ compactor' = IdleCompactor
  /\ CompactorRuns
  /\ UNCHANGED <<archive, summary, loaded>>

-----------------------------------------------------------------------------
(* Crash and startup.                                                      *)

LastWeek(p) ==
  CHOOSE w \in 0..week :
    /\ \E e \in EventsOf(p, journal) : e.week = w
    /\ \A e \in EventsOf(p, journal) : e.week <= w

\* find_latest_unclosed_position: ties of the week are left open.
Unclosed == {p \in 1..last_id : HasEntry(p, journal) /\ ~HasFlat(p, journal)}
LatestUnclosed == {p \in Unclosed : \A q \in Unclosed : LastWeek(q) <= LastWeek(p)}

\* Bug: any position of the journal may be taken up again.
RecoveredIds_any == 1..last_id

\* new_position_id without a time: the id of an unclosed position, else a new one.
RecoveredIds == IF Unclosed = {} THEN {last_id + 1} ELSE LatestUnclosed

\* An unrecorded append and the compaction are cut short.  The position may be
\* gone, be known from the saved state, or be recovered through the journal.
Restart ==
  /\ crashes < MaxCrashes
  /\ crashes' = crashes + 1
  /\ compactor' = IdleCompactor
  /\ due' = FALSE
  /\ \/ /\ current' \in {NO_ID, current}
        /\ appending' = NONE
        /\ UNCHANGED last_id
     \/ /\ current # NO_ID
        /\ \E p \in RecoveredIds :
             /\ current' = p
             /\ last_id' = IF p > last_id THEN p ELSE last_id
             /\ appending' = Opened(Event(p, "ENTRY"))
  /\ UNCHANGED <<journal, archive, summary, week, recorded, loaded>>

EventLoop ==
  PositionOpens \/ LateEvent \/ PositionCloses \/ EndAppend \/ StartCompaction
Compactor ==
  \/ Load \/ WriteArchive \/ CompactionFails \/ ReplaceJournal \/ WriteSummary
  \/ SummaryFails \/ Restore \/ RestoreAgain

Next == EventLoop \/ Compactor \/ NextWeek \/ Restart

Spec == Init /\ [][Next]_vars

-----------------------------------------------------------------------------
(* Properties.                                                             *)

TypeOK ==
  /\ journal \in SUBSET JournalEvent /\ archive \in SUBSET JournalEvent
  /\ loaded \in SUBSET JournalEvent
  /\ summary \in SUBSET Nat /\ recorded \in SUBSET Nat
  /\ week \in Nat /\ crashes \in Nat /\ due \in BOOLEAN
  /\ current \in Nat /\ last_id \in Nat
  /\ appending \in [event : JournalEvent, replaced : BOOLEAN] \cup {NONE}
  /\ compactor \in CompactorState

\* The overall report adds the summary to what it counts in the journal, so a
\* position in the summary has no trade left in the journal to be counted again:
\* not after a crash, a failed compaction, a retry or a late event.
CountedOnce == \A p \in summary : ~HasFlat(p, journal) /\ ~HasEntry(p, journal)

\* What a compaction has read is never lost: it stays in the journal or goes to
\* an archive wherever the compaction fails or is cut short.
LoadedHistoryKept == loaded \subseteq journal \cup archive

\* Only closed positions are archived, each with its FLAT.
ArchivedPositionsAreClosed == \A e \in archive : HasFlat(e.pos, archive)

\* A position whose close a compaction has read is not taken up again at
\* startup, although the journal may no longer show the close.
ClosedIdsStayClosed == \A e \in loaded : e.kind = "FLAT" => e.pos # current

-----------------------------------------------------------------------------
(* The inductive invariant: the properties with what they rest on.         *)

HasTrade(p, events) == HasFlat(p, events) \/ HasEntry(p, events)

\* Every event is of a position whose id was handed out.
IdsAreKnown ==
  /\ current <= last_id
  /\ \A e \in journal \cup loaded : e.pos \in 1..last_id
  /\ appending # NONE => appending.event.pos \in 1..last_id

\* The open position, and one whose trade is being appended, has no close yet.
OpenHasNoFlat ==
  /\ current # NO_ID => ~HasFlat(current, journal \cup loaded)
  /\ appending # NONE /\ appending.event.kind # "OTHER" =>
       ~HasFlat(appending.event.pos, journal \cup loaded)
  /\ appending # NONE /\ appending.event.kind = "FLAT" => appending.event.pos # current

\* A close that was read has not left the journal alone.
EntryLeavesWithFlat ==
  \A events \in {journal, compactor.events} :
    \A e \in events : e.kind = "ENTRY" /\ HasFlat(e.pos, loaded) => HasFlat(e.pos, events)

\* What the thread holds while it works.
CompactorHolds ==
  /\ compactor.pc \in {"idle", "start"} =>
       compactor.events = {} /\ compactor.archived = {}
  /\ compactor.pc \notin {"idle", "start"} => loaded \subseteq compactor.events \cup archive
  /\ compactor.events \subseteq loaded
  /\ compactor.archived = ToArchive(compactor.events, compactor.until, compactor.id)
  /\ compactor.pc # "loaded" => compactor.archived \subseteq archive
  /\ compactor.pc \in {"replaced", "restore"} =>
       \A e \in compactor.archived : ~HasTrade(e.pos, journal)

\* Positions in the summary were read closed, and are not about to be restored.
CountedWasRead ==
  \A p \in summary : HasFlat(p, loaded) /\ ~HasTrade(p, compactor.events)

IInv ==
  /\ TypeOK
  /\ CountedOnce
  /\ LoadedHistoryKept
  /\ ArchivedPositionsAreClosed
  /\ ClosedIdsStayClosed
  /\ IdsAreKnown
  /\ OpenHasNoFlat
  /\ EntryLeavesWithFlat
  /\ CompactorHolds
  /\ CountedWasRead

-----------------------------------------------------------------------------
(* What a docstring promises and the code does not keep.                   *)

\* "Append-only" journal, and archived events leave it only for a summary: when no
\* compaction runs, every recorded close is counted, in the journal or the summary.
RecordedClosesAreCounted ==
  compactor.pc = "idle" =>
    \A p \in recorded : HasFlat(p, journal) \/ p \in summary
=============================================================================
