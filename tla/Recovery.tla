------------------------------ MODULE Recovery ------------------------------
(***************************************************************************)
(* persistence: SnapshotWriter, SnapshotReader, MetadataManager and        *)
(* ReplayEngine, around a live matching engine whose commands are          *)
(* journaled.  The engine executes commands, the writer thread moves their *)
(* records to disk (module Journal has its loop in detail), a snapshot is  *)
(* saved and then named by the metadata, the process crashes at any point, *)
(* and ReplayEngine::recover rebuilds the book from what is on disk, one   *)
(* order or one record at a time.                                          *)
(*                                                                         *)
(* Command k has sequence k and, if it is a new order, order id k, so that *)
(* OrderIds are the numbers from 1 on.                                     *)
(* Checksums and the layout of files are data: a file cut short is torn.   *)
(*                                                                         *)
(* No code outside tests and benchmarks saves a snapshot or recovers.  As  *)
(* in replay_tests.cpp, the snapshot is saved before the metadata that     *)
(* names it; assumed is that no command is executed in between, and that   *)
(* the metadata names the writer's current file as the first to replay.    *)
(***************************************************************************)
EXTENDS MatchingEngine, FiniteSetsExt

CONSTANTS
  JournalCaps,   \* capacities of journal_queue_ to explore, positive
  FileRecords,   \* records that fit in a journal file, max_file_size_; positive
  MaxSnapshots   \* bound of the model: snapshots begun

VARIABLES
  mode,        \* live, then load, replay and the result of recover
  journal_cap, \* the capacity of journal_queue_, a member of JournalCaps
  pending,     \* journal_queue_: records the writer has not taken yet
  stream,      \* what the current file's stream has not passed on
  files,       \* the journal files: what of each is on disk
  saving,      \* <<>>, or <<the sequence of the snapshot being saved>>
  snapshots,   \* the snapshot files: sequence -> <<view>>, or <<>> when torn
  meta,        \* latest.meta: <<>> or <<its contents>>
  reading,     \* what read_levels has still to insert
  journal_idx, position, current_seq,  \* locals of recover and replay_journal
  views,       \* history: the live book after each command
  unrested,    \* history: new orders that did not come to rest in full
  unjournaled, \* history: commands whose record a full journal_queue_ refused
  begun        \* history: snapshots begun

disk == <<stream, files, snapshots, meta>>
locals == <<reading, journal_idx, position, current_seq>>
history == <<views, unrested, unjournaled, begun>>
recovery == <<mode, journal_cap, pending, saving, disk, locals, history>>

\* The book as a reader of its levels sees it: for each side and level the
\* price and the queue of ids and quantities.
View ==
  [side \in Sides |->
     [i \in DOMAIN levels[side] |->
        [price |-> levels[side][i].price,
         orders |-> [j \in DOMAIN levels[side][i].orders |->
                       LET o == live[levels[side][i].orders[j]]
                       IN  [id |-> o.id, remaining |-> o.remaining]]]]]
EmptyView == [side \in Sides |-> <<>>]

RecoveryInit ==
  /\ Init
  /\ mode = "live"
  /\ journal_cap \in JournalCaps
  /\ pending = <<>> /\ stream = <<>> /\ files = <<>>
  /\ saving = <<>> /\ snapshots = NoEntries /\ meta = <<>>
  /\ reading = <<>> /\ journal_idx = 0 /\ position = 0 /\ current_seq = 0
  /\ views = <<>> /\ unrested = {} /\ unjournaled = {} /\ begun = 0
-----------------------------------------------------------------------------
\* process_command for a command the risk checks passed: its record is appended
\* to the journal queue, unless that is full, and then it is executed in either
\* case.  A replace is journaled and does nothing else.
Live == mode = "live"
Executed == Len(views)
Ready == Live /\ Idle /\ Executed < MaxCommands

Journaled(kind, o) ==
  LET r == [sequence |-> Executed + 1, kind |-> kind, order |-> o]
  IN  \/ /\ Len(pending) < journal_cap
         /\ pending' = Append(pending, r) /\ UNCHANGED unjournaled
      \/ /\ Len(pending) = journal_cap
         /\ unjournaled' = unjournaled \cup {r.sequence} /\ UNCHANGED pending

NewOrder(o) ==
  /\ Ready /\ saving = <<>>
  /\ o.id = Executed + 1
  /\ Journaled("New", o)
  /\ SubmitOrder(o)
  /\ UNCHANGED <<mode, journal_cap, saving, disk, locals, views, unrested, begun>>

Match == Live /\ MatchStep /\ UNCHANGED recovery

\* The command is done; what it left behind is remembered.
NewOrderDone ==
  /\ Live /\ FinishSubmit
  /\ views' = Append(views, View')
  /\ unrested' = IF result' = "Success" /\ taker[1].order.type = "Limit"
                 THEN unrested ELSE unrested \cup {taker[1].order.id}
  /\ UNCHANGED <<mode, journal_cap, pending, saving, disk, locals, unjournaled, begun>>

CancelCommand(id) ==
  /\ Ready /\ saving = <<>>
  /\ Journaled("Cancel", [id |-> id])
  /\ \E a \in Accounts : CancelOrder(id, a)
  /\ views' = Append(views, View')
  /\ UNCHANGED <<mode, journal_cap, saving, disk, locals, unrested, begun>>

ReplaceCommand ==
  /\ Ready /\ saving = <<>>
  /\ Journaled("Replace", [id |-> 0])
  /\ views' = Append(views, View)
  /\ UNCHANGED <<book, engine, mode, journal_cap, saving, disk, locals, unrested, begun>>
-----------------------------------------------------------------------------
\* What is in the current file or on its way to it.
Header == [sequence |-> 0, kind |-> "Header"]
Records(s) == SelectSeq(s, LAMBDA r : r # Header)
CurrentRecords == Len(Records(files[Len(files)])) + Len(Records(stream))
MustRotate == files = <<>> \/ CurrentRecords >= FileRecords

\* The writer takes a record: write_entry, with rotate_file when there is no
\* file yet or the current one is full.  The stream of the old file is flushed;
\* the new file is empty on disk and its header is the first in its stream.
WriteEntry ==
  /\ Live /\ pending # <<>>
  /\ IF MustRotate
     THEN /\ files' = Append(IF files = <<>> THEN files
                             ELSE [files EXCEPT ![Len(files)] = @ \o stream], <<>>)
          /\ stream' = <<Header, Head(pending)>>
     ELSE /\ stream' = Append(stream, Head(pending))
          /\ UNCHANGED files
  /\ pending' = Tail(pending)
  /\ UNCHANGED <<book, engine, mode, journal_cap, saving, snapshots, meta, locals, history>>

\* flush(), or the stream passing on a part of what it holds by itself.
Flush ==
  /\ Live /\ stream # <<>>
  /\ \E k \in 1 .. Len(stream) :
       /\ files' = [files EXCEPT ![Len(files)] = @ \o SubSeq(stream, 1, k)]
       /\ stream' = SubSeq(stream, k + 1, Len(stream))
  /\ UNCHANGED <<book, engine, mode, journal_cap, pending, saving, snapshots, meta, locals, history>>
-----------------------------------------------------------------------------
\* SnapshotWriter::save truncates the file for this sequence, a torn file until
\* the header with the checksum is flushed.  An empty book's first header has
\* the right checksum already.
SnapshotBegin ==
  /\ Live /\ Idle /\ saving = <<>> /\ begun < MaxSnapshots /\ Executed > 0
  /\ saving' = <<Executed>>
  /\ snapshots' = Put(snapshots, Executed, <<>>)
  /\ begun' = begun + 1
  /\ UNCHANGED <<book, engine, mode, journal_cap, pending, stream, files, meta, locals, views, unrested, unjournaled>>

SnapshotEnd ==
  /\ Live /\ saving # <<>> /\ snapshots[saving[1]] = <<>>
  /\ snapshots' = [snapshots EXCEPT ![saving[1]] = <<View>>]
  /\ UNCHANGED <<book, engine, mode, journal_cap, pending, saving, stream, files, meta, locals, history>>

\* MetadataManager::save writes a temporary file and renames it: one step.  The
\* records after the snapshot go to the writer's current file or a later one.
SaveMetadata ==
  /\ Live /\ saving # <<>> /\ snapshots[saving[1]] # <<>>
  /\ meta' = <<[latest_snapshot_sequence |-> saving[1],
                current_journal_index |-> Max({1, Len(files)})]>>
  /\ saving' = <<>>
  /\ UNCHANGED <<book, engine, mode, journal_cap, pending, stream, files, snapshots, locals, history>>
-----------------------------------------------------------------------------
\* The process ends without warning: the disk is all that is left.
Crash ==
  /\ Live
  /\ mode' = "load"
  /\ pending' = <<>> /\ stream' = <<>> /\ saving' = <<>>
  /\ levels' = [side \in Sides |-> <<>>] /\ live' = NoEntries /\ lookup' = NoEntries
  /\ taker' = <<>> /\ ctx' = EmptyContext /\ result' = "Success"
  /\ submitted' = NoEntries /\ executed' = [id \in OrderIds |-> 0] /\ now' = 0
  /\ UNCHANGED <<alive, journal_cap, files, snapshots, meta, locals, history>>

\* recover: MetadataManager::load, then SnapshotReader::load of the file it
\* names.  Levels are read bids first, each side from its best level.
SnapshotNamed == meta # <<>> /\ meta[1].latest_snapshot_sequence \in DOMAIN snapshots

OrdersOf(view, side) ==
  Flattened([i \in DOMAIN view[side] |->
    [j \in DOMAIN view[side][i].orders |->
       LET o == view[side][i].orders[j]
       IN  [id |-> o.id, side |-> side, price |-> view[side][i].price, qty |-> o.remaining]]])

Load ==
  /\ mode = "load"
  /\ LET file == IF SnapshotNamed THEN snapshots[meta[1].latest_snapshot_sequence] ELSE <<>>
     IN  \/ /\ SnapshotNamed /\ file = <<>>
            /\ mode' = "failed"
            /\ UNCHANGED <<reading, journal_idx, current_seq>>
         \/ /\ SnapshotNamed /\ file # <<>>
            /\ mode' = "replay"
            /\ reading' = OrdersOf(file[1], "Buy") \o OrdersOf(file[1], "Sell")
            /\ journal_idx' = meta[1].current_journal_index
            /\ current_seq' = meta[1].latest_snapshot_sequence
         \/ /\ ~SnapshotNamed
            /\ mode' = "replay" /\ journal_idx' = 1 /\ current_seq' = 0
            /\ UNCHANGED reading
  /\ UNCHANGED <<book, engine, journal_cap, pending, saving, disk, position, history>>

\* One iteration of read_levels.
ReadOrder ==
  /\ mode = "replay" /\ reading # <<>>
  /\ Insert(Head(reading), now)
  /\ reading' = Tail(reading)
  /\ now' = now + 1
  /\ UNCHANGED <<taker, ctx, result, alive, submitted, executed, mode, journal_cap, pending, saving, disk,
                 journal_idx, position, current_seq, history>>

\* replay_journal opens the next file: none left is the end, and a file
\* without its header makes recover fail.
OpenJournal ==
  /\ mode = "replay" /\ reading = <<>> /\ position = 0
  /\ \/ /\ journal_idx > Len(files)
        /\ mode' = "recovered" /\ UNCHANGED position
     \/ /\ journal_idx <= Len(files) /\ files[journal_idx] = <<>>
        /\ mode' = "failed" /\ UNCHANGED position
     \/ /\ journal_idx <= Len(files) /\ files[journal_idx] # <<>>
        /\ position' = 1 /\ UNCHANGED mode
  /\ UNCHANGED <<book, engine, journal_cap, pending, saving, disk, reading, journal_idx, current_seq, history>>

\* Mutant: the last command of the snapshot is applied again.
AppliedBefore(seq) == seq < current_seq
Applied(seq) == seq <= current_seq

\* Is the order at the level where cancel finds its price?
InLocatedLevel(s) ==
  LET side == LocateSide(live[s].price)
  IN  s \in QueuedAt(levels[side][LevelAt(side, live[s].price)])

\* One record.  Replay inserts an order without matching it, so that the book
\* may be crossed and have a bid and an ask level at one price.  cancel then
\* takes an ask out of the bid level, whose list it is not in: a level keeps a
\* pointer to an order that was given back to the pool, and what recover goes on
\* to do is undefined.
ReplayRecord ==
  /\ mode = "replay" /\ position > 0 /\ position < Len(files[journal_idx])
  /\ position' = position + 1
  /\ LET r == files[journal_idx][position + 1]
         id == r.order.id
     IN  \/ /\ Applied(r.sequence)
            /\ UNCHANGED <<book, now, mode, current_seq>>
         \/ /\ ~Applied(r.sequence)
            /\ current_seq' = r.sequence
            /\ \/ /\ r.kind = "New"
                  /\ Insert(r.order, now)
                  /\ now' = now + 1 /\ UNCHANGED mode
               \/ /\ r.kind = "Cancel" /\ id \in DOMAIN lookup /\ InLocatedLevel(lookup[id])
                  /\ Cancel(id)
                  /\ UNCHANGED <<mode, now>>
               \/ /\ r.kind = "Cancel" /\ id \in DOMAIN lookup /\ ~InLocatedLevel(lookup[id])
                  /\ mode' = "undefined"
                  /\ UNCHANGED <<book, now>>
               \/ /\ r.kind \in {"Cancel", "Replace"} /\ id \notin DOMAIN lookup
                  /\ UNCHANGED <<book, mode, now>>
  /\ UNCHANGED <<taker, ctx, result, alive, submitted, executed, journal_cap, pending, saving, disk,
                 reading, journal_idx, history>>

NextJournal ==
  /\ mode = "replay" /\ position > 0 /\ position = Len(files[journal_idx])
  /\ journal_idx' = journal_idx + 1 /\ position' = 0
  /\ UNCHANGED <<book, engine, mode, journal_cap, pending, saving, disk, reading, current_seq, history>>
-----------------------------------------------------------------------------
Execute ==
  \/ \E o \in Orders : NewOrder(o)
  \/ Match \/ NewOrderDone
  \/ \E id \in OrderIds : id <= Executed /\ CancelCommand(id)
  \/ ReplaceCommand
Writer == WriteEntry \/ Flush
Snapshot == SnapshotBegin \/ SnapshotEnd \/ SaveMetadata
Recover == Load \/ ReadOrder \/ OpenJournal \/ ReplayRecord \/ NextJournal

RecoveryNext == Execute \/ Writer \/ Snapshot \/ Crash \/ Recover

RecoverySpec == RecoveryInit /\ [][RecoveryNext]_<<vars, recovery>>
-----------------------------------------------------------------------------
\* The commands that are safe: those in a snapshot the metadata names, and those
\* whose record is in a journal file.
Durable == UNION {{files[i][j].sequence : j \in DOMAIN files[i]} : i \in DOMAIN files}
InSnapshot == IF meta = <<>> THEN 0 ELSE meta[1].latest_snapshot_sequence
Safe == Max({0, InSnapshot} \cup Durable)

LiveView == IF Safe = 0 THEN EmptyView ELSE views[Safe]

\* "replaying the same log produces identical states" (README.md:91): when
\* recover returns true, the book is the one the live engine had after the last
\* command that is safe.  (A command that the crash interrupted has left no live
\* book to compare with.)
RecoveredIsLive == mode = "recovered" /\ Safe <= Len(views) => View = LiveView

\* It is, order by order and queue by queue, when all new orders among the
\* replayed commands had come to rest in full and no record was refused:
\* wherever the crash fell between journal, snapshot and metadata, no safe
\* command is forgotten and none is applied twice.
RecoveredUnlessMatched ==
  /\ mode = "recovered" /\ Safe <= Len(views)
  /\ (InSnapshot + 1 .. Safe) \cap (unrested \cup unjournaled) = {}
  => View = LiveView
=============================================================================
