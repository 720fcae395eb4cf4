------------------------------ MODULE Journal ------------------------------
(***************************************************************************)
(* The journal of one symbol: the thread of its EngineManager appends each *)
(* command that passed the risk checks to journal_queue_ and then executes *)
(* it; the thread of DiskJournal moves the queue to numbered files; the    *)
(* main thread starts and stops both, and the process may crash and be     *)
(* started again.                                                          *)
(*                                                                         *)
(* The two queues are atomic FIFOs here, which SPSCQueue implements for    *)
(* one producer and one consumer.  Commands are numbered as they are       *)
(* submitted, the size of a file is counted in records, and a record that  *)
(* a crash leaves half written counts as not written.                      *)
(***************************************************************************)
EXTENDS SequenceOps

CONSTANTS
  Policies,     \* subset of FlushPolicy to explore; EngineManager uses Batch
  BatchSize,    \* records per flush of the policy Batch, 1000 in the code
  FileRecords,  \* max_file_size_
  InboundCap, JournalCap,  \* capacities of inbound_queue_ and journal_queue_
  MaxCommands, MaxStarts, MaxProcesses  \* bounds of the model

ASSUME JournalAssumption ==
  /\ Policies \subseteq {"Never", "Interval", "Batch", "Immediate"}
  /\ BatchSize \in Nat \ {0} /\ FileRecords \in Nat \ {0}
  /\ InboundCap \in Nat \ {0} /\ JournalCap \in Nat \ {0}
  /\ MaxCommands \in Nat /\ MaxStarts \in Nat /\ MaxProcesses \in Nat

VARIABLES
  policy,                  \* policy_, chosen when the journal is constructed
  running, disk_running,   \* running_ of EngineManager and of DiskJournal
  main, engine, writer,    \* where the three threads are
  inbound, journal_queue,
  cmd, entry,              \* local of EngineManager::run, of DiskJournal::run
  batch_count,             \* local of DiskJournal::run
  is_open, current_bytes, file_index,  \* the current file
  stream,                  \* its records that did not reach the file system
  files,                   \* the disk: file number -> records
  sent, starts, processes, \* counters for the bounds
  executed, appended,      \* history: commands of this process, in order
  due                      \* history: how many were appended when stop began

control == <<running, disk_running, main, engine, writer>>
file == <<is_open, current_bytes, file_index, stream, files>>
bounds == <<sent, starts, processes>>
history == <<executed, appended, due>>
vars == <<policy, control, inbound, journal_queue, cmd, entry, batch_count, file, bounds, history>>

None == 0
Commands == 1 .. MaxCommands

Init ==
  /\ policy \in Policies
  /\ running = FALSE /\ disk_running = FALSE
  /\ main = "stopped" /\ engine = "none" /\ writer = "none"
  /\ inbound = <<>> /\ journal_queue = <<>>
  /\ cmd = None /\ entry = None /\ batch_count = 0
  /\ is_open = FALSE /\ current_bytes = 0 /\ file_index = 0 /\ stream = <<>>
  /\ files = <<>>
  /\ sent = 0 /\ starts = 0 /\ processes = 1
  /\ executed = <<>> /\ appended = <<>> /\ due = 0
-----------------------------------------------------------------------------
\* EngineManager::start and DiskJournal::start.
Start ==
  /\ main = "stopped" /\ starts < MaxStarts
  /\ starts' = starts + 1
  /\ running' = TRUE /\ disk_running' = TRUE
  /\ main' = "running" /\ engine' = "check" /\ writer' = "check"
  /\ batch_count' = 0
  /\ UNCHANGED <<policy, inbound, journal_queue, cmd, entry, file, sent, processes, history>>

\* Mutant: the flag of the engine's thread is not cleared.
StopDiskOnly ==
  /\ main = "running"
  /\ main' = "stop_disk"
  /\ UNCHANGED <<policy, running, disk_running, engine, writer, inbound, journal_queue, cmd, entry,
                 batch_count, file, bounds, history>>
\* EngineManager::stop: its flag, ...
StopEngine ==
  /\ main = "running"
  /\ running' = FALSE /\ main' = "stop_disk"
  /\ UNCHANGED <<policy, disk_running, engine, writer, inbound, journal_queue, cmd, entry,
                 batch_count, file, bounds, history>>

\* ... then DiskJournal::stop: its flag, ...
StopDisk ==
  /\ main = "stop_disk"
  /\ disk_running' = FALSE /\ main' = "join_disk"
  /\ due' = Len(appended)
  /\ UNCHANGED <<policy, running, engine, writer, inbound, journal_queue, cmd, entry,
                 batch_count, file, bounds, executed, appended>>

\* The records in the stream reach the current file.
Flushed(st) == IF st = <<>> THEN files ELSE [files EXCEPT ![file_index] = @ \o st]

\* ... the join and the closing of the file, ...
JoinDisk ==
  /\ main = "join_disk" /\ writer = "done"
  /\ main' = "join_engine"
  /\ files' = Flushed(stream) /\ stream' = <<>> /\ is_open' = FALSE
  /\ UNCHANGED <<policy, running, disk_running, engine, writer, inbound, journal_queue, cmd, entry,
                 batch_count, current_bytes, file_index, bounds, history>>

\* ... and only then the join of the engine's thread.
JoinEngine ==
  /\ main = "join_engine" /\ engine = "done"
  /\ main' = "stopped"
  /\ UNCHANGED <<policy, running, disk_running, engine, writer, inbound, journal_queue, cmd, entry,
                 batch_count, file, bounds, history>>
-----------------------------------------------------------------------------
\* The gateway thread submits the next command; a full queue drops it.
Submit ==
  /\ sent < MaxCommands
  /\ sent' = sent + 1
  /\ inbound' = IF Len(inbound) < InboundCap THEN Append(inbound, sent') ELSE inbound
  /\ UNCHANGED <<policy, control, journal_queue, cmd, entry, batch_count, file, starts, processes, history>>

\* EngineManager::run.
EngineCheck ==
  /\ engine = "check"
  /\ engine' = IF running THEN "pop" ELSE "done"
  /\ UNCHANGED <<policy, running, disk_running, main, writer, inbound, journal_queue, cmd, entry,
                 batch_count, file, bounds, history>>

EnginePop ==
  /\ engine = "pop"
  /\ \/ /\ inbound = <<>>
        /\ engine' = "check" /\ UNCHANGED <<inbound, cmd>>
     \/ /\ inbound # <<>>
        /\ engine' = "process" /\ cmd' = Head(inbound) /\ inbound' = Tail(inbound)
  /\ UNCHANGED <<policy, running, disk_running, main, writer, journal_queue, entry,
                 batch_count, file, bounds, history>>

\* process_command: the risk checks refuse the command, or MemoryJournal::append
\* pushes it, and what push returns is ignored.
EngineAppend ==
  /\ engine = "process"
  /\ \/ /\ engine' = "check"
        /\ UNCHANGED <<journal_queue, appended>>
     \/ /\ engine' = "execute"
        /\ \/ /\ Len(journal_queue) < JournalCap
              /\ journal_queue' = Append(journal_queue, cmd)
              /\ appended' = Append(appended, cmd)
           \/ /\ Len(journal_queue) = JournalCap
              /\ UNCHANGED <<journal_queue, appended>>
  /\ UNCHANGED <<policy, running, disk_running, main, writer, inbound, cmd, entry,
                 batch_count, file, bounds, executed, due>>

\* The rest of process_command: the matching engine, and the reports.
EngineExecute ==
  /\ engine = "execute"
  /\ engine' = "check"
  /\ executed' = Append(executed, cmd)
  /\ UNCHANGED <<policy, running, disk_running, main, writer, inbound, journal_queue, cmd, entry,
                 batch_count, file, bounds, appended, due>>
-----------------------------------------------------------------------------
\* Mutant: the loop ends with the flag, whatever the queue still holds.
CheckFlagOnly ==
  /\ writer = "check"
  /\ writer' = IF disk_running THEN "pop" ELSE "exit"
  /\ UNCHANGED <<policy, running, disk_running, main, engine, inbound, journal_queue, cmd, entry,
                 batch_count, file, bounds, history>>
\* DiskJournal::run: the loop condition, two loads.
WriterCheck ==
  /\ \/ writer = "check" /\ writer' = IF disk_running THEN "pop" ELSE "empty"
     \/ writer = "empty" /\ writer' = IF journal_queue = <<>> THEN "exit" ELSE "pop"
  /\ UNCHANGED <<policy, running, disk_running, main, engine, inbound, journal_queue, cmd, entry,
                 batch_count, file, bounds, history>>

\* An empty queue lets the policy Interval flush, when ten milliseconds passed.
WriterPop ==
  /\ writer = "pop"
  /\ \/ /\ journal_queue = <<>>
        /\ writer' = "check"
        /\ \/ UNCHANGED <<files, stream>>
           \/ policy = "Interval" /\ files' = Flushed(stream) /\ stream' = <<>>
        /\ UNCHANGED <<journal_queue, entry>>
     \/ /\ journal_queue # <<>>
        /\ writer' = "write" /\ entry' = Head(journal_queue) /\ journal_queue' = Tail(journal_queue)
        /\ UNCHANGED <<files, stream>>
  /\ UNCHANGED <<policy, running, disk_running, main, engine, inbound, cmd, batch_count,
                 is_open, current_bytes, file_index, bounds, history>>

\* Mutant: the batch is full one record late.
BatchLate(n) == policy = "Batch" /\ n > BatchSize
BatchFull(n) == policy = "Batch" /\ n >= BatchSize

\* Mutant: rotation closes the file without its buffered records.
RotateUnflushed == [i \in 1 .. file_index + 1 |-> IF i = file_index + 1 THEN <<>> ELSE files[i]]
\* rotate_file: flush and close the current file, truncate the next one.
RotateFile ==
  LET fs == Flushed(stream)
  IN  [i \in DOMAIN fs \cup {file_index + 1} |-> IF i = file_index + 1 THEN <<>> ELSE fs[i]]

MustRotate == ~is_open \/ current_bytes >= FileRecords

\* write_entry and the flush of the policy; the stream may pass on any part of
\* what it holds by itself.
WriteEntry ==
  LET rotate == MustRotate
      disk == IF rotate THEN RotateFile ELSE files
      held == Append(IF rotate THEN <<>> ELSE stream, entry)
      n == batch_count + 1
      flush == policy = "Immediate" \/ BatchFull(n)
  IN  /\ writer = "write"
      /\ writer' = "check" /\ entry' = None
      /\ is_open' = TRUE
      /\ file_index' = IF rotate THEN file_index + 1 ELSE file_index
      /\ current_bytes' = IF rotate THEN 1 ELSE current_bytes + 1
      /\ batch_count' = IF BatchFull(n) THEN 0 ELSE n
      /\ \E k \in 0 .. Len(held) :
           /\ flush => k = Len(held)
           /\ files' = [disk EXCEPT ![file_index'] = @ \o SubSeq(held, 1, k)]
           /\ stream' = SubSeq(held, k + 1, Len(held))
      /\ UNCHANGED <<policy, running, disk_running, main, engine, inbound, journal_queue, cmd,
                     bounds, history>>

\* The flush after the loop, which the policy Never skips.
WriterExit ==
  /\ writer = "exit"
  /\ writer' = "done"
  /\ \/ policy = "Never" /\ UNCHANGED <<files, stream>>
     \/ policy # "Never" /\ files' = Flushed(stream) /\ stream' = <<>>
  /\ UNCHANGED <<policy, running, disk_running, main, engine, inbound, journal_queue, cmd, entry,
                 batch_count, is_open, current_bytes, file_index, bounds, history>>
-----------------------------------------------------------------------------
\* The process ends, at any point or after a clean stop, and a new one is
\* constructed on the same directory: all that is left is the disk.
Restart ==
  /\ processes < MaxProcesses
  /\ processes' = processes + 1
  /\ running' = FALSE /\ disk_running' = FALSE
  /\ main' = "stopped" /\ engine' = "none" /\ writer' = "none"
  /\ inbound' = <<>> /\ journal_queue' = <<>>
  /\ cmd' = None /\ entry' = None /\ batch_count' = 0
  /\ is_open' = FALSE /\ current_bytes' = 0 /\ file_index' = 0 /\ stream' = <<>>
  /\ executed' = <<>> /\ appended' = <<>> /\ due' = 0
  /\ UNCHANGED <<policy, files, sent, starts>>

Main == Start \/ StopEngine \/ StopDisk \/ JoinDisk \/ JoinEngine
Engine == EngineCheck \/ EnginePop \/ EngineAppend \/ EngineExecute
Writer == WriterCheck \/ WriterPop \/ WriteEntry \/ WriterExit

Next == Main \/ Submit \/ Engine \/ Writer \/ Restart

Spec == Init /\ [][Next]_vars

\* Both threads are scheduled, and a stop that has begun goes on.
FairSpec ==
  /\ Spec
  /\ WF_vars(Engine) /\ WF_vars(Writer)
  /\ WF_vars(StopDisk) /\ WF_vars(JoinDisk) /\ WF_vars(JoinEngine)
-----------------------------------------------------------------------------
\* What this process has on disk.
Written == Flattened(SubSeq(files, 1, file_index))
Holding == IF writer = "write" THEN <<entry>> ELSE <<>>

\* The files of this process, the stream's buffer, the entry in the writer's
\* hands and the queue, read in this order, are exactly the appended commands:
\* nothing is lost, doubled or reordered on the way, across rotations, stops
\* and starts.
JournalInOrder == Written \o stream \o Holding \o journal_queue = appended

\* DiskJournal::stop returns only after every command appended before it was
\* called is on disk, whatever the policy and although the queue is still being
\* filled.
StopDrains == main \in {"join_engine", "stopped"} => Len(Written) >= due

\* What a crash can take from the writer: nothing it has written under
\* Immediate, less than one batch under Batch.
CrashLosesLittle ==
  /\ policy = "Immediate" => stream = <<>>
  /\ policy = "Batch" => Len(stream) < BatchSize

\* EngineManager::stop returns: the writer is not kept busy for ever by an
\* engine that goes on appending, and neither waits for the other.
StopReturns == main = "stop_disk" ~> main = "stopped"

\* Replaying the journal of a stopped engine gives the state it stopped with:
\* the journal holds exactly the commands it executed.
JournalIsComplete == main = "stopped" => Written = executed
=============================================================================
