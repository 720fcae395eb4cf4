--------------------------- MODULE JournalProofs ----------------------------
(***************************************************************************)
(* The journal of a symbol, for every batch size, file size, queue         *)
(* capacity and number of commands, starts and processes: what a crash can *)
(* take from it, that it keeps the order of the commands, and that a stop  *)
(* leaves nothing behind.                                                  *)
(***************************************************************************)
EXTENDS Journal, DataLemmas

\* How much the stream may hold back under each policy.  batch_count starts again
\* from 0 with every start, so a stopped journal must have nothing in its stream.
Holdback ==
  /\ policy = "Immediate" => stream = <<>>
  /\ policy = "Batch" => Len(stream) <= batch_count /\ batch_count < BatchSize

Ended == writer \in {"none", "done"}

IInv ==
  /\ stream \in Seq(Nat) /\ batch_count \in Nat /\ entry \in Nat
  /\ journal_queue \in Seq(Nat) /\ inbound \in Seq(Nat) /\ cmd \in Nat /\ sent \in Nat
  /\ Holdback
  /\ main \in {"stopped", "join_engine"} => Ended /\ stream = <<>>

\* The disk: the file being written is one of this process's files, the writer
\* leaves its loop only after stop cleared its flag, and from then on what was
\* appended before is in the files or in the stream.
Disk ==
  /\ files \in Seq(Seq(Nat)) /\ file_index \in Nat /\ file_index <= Len(files)
  /\ appended \in Seq(Nat) /\ due \in Nat /\ due <= Len(appended)
  /\ is_open \/ stream # <<>> => file_index > 0
  /\ JournalInOrder
  /\ disk_running => main \in {"running", "stop_disk"}
  /\ main \in {"running", "stop_disk"} => disk_running
  /\ writer \in {"empty", "exit", "done", "none"} => ~disk_running
  /\ writer \in {"exit", "done", "none"} => Len(Written) + Len(stream) >= due

DInv == IInv /\ Disk
-----------------------------------------------------------------------------
\* What remains of a sequence when its first k elements have gone.
LEMMA RestOfSeq ==
  ASSUME NEW s \in Seq(Nat), NEW k \in 0 .. Len(s)
  PROVE  /\ SubSeq(s, k + 1, Len(s)) \in Seq(Nat)
         /\ Len(SubSeq(s, k + 1, Len(s))) = Len(s) - k
  OBVIOUS

LEMMA EmptyRest ==
  ASSUME NEW s \in Seq(Nat), Len(s) = 0
  PROVE  s = <<>>
  OBVIOUS

LEMMA FirstAndRest ==
  ASSUME NEW s \in Seq(Nat), s # <<>>
  PROVE  Head(s) \in Nat /\ Tail(s) \in Seq(Nat)
  OBVIOUS

LEMMA OneMore ==
  ASSUME NEW s \in Seq(Nat), NEW x \in Nat
  PROVE  Append(s, x) \in Seq(Nat)
  OBVIOUS

LEMMA InitIInv == Init => IInv
  BY JournalAssumption DEF Init, IInv, Holdback, Ended, None

LEMMA WriteKeepsIInv ==
  ASSUME IInv, WriteEntry
  PROVE  IInv'
<1> DEFINE held == Append(IF MustRotate THEN <<>> ELSE stream, entry)
           n == batch_count + 1
<1>1. held \in Seq(Nat) /\ Len(held) <= Len(stream) + 1 /\ n \in Nat
  BY DEF IInv
<1>2. writer = "write" /\ writer' = "check" /\ main' = main /\ policy' = policy
  BY DEF WriteEntry
<1>3. batch_count' = (IF BatchFull(n) THEN 0 ELSE n) /\ entry' = None
  BY DEF WriteEntry
<1>4. UNCHANGED <<journal_queue, inbound, cmd, sent>>
  BY DEF WriteEntry, bounds
<1>5. PICK k \in 0 .. Len(held) :
        /\ policy = "Immediate" \/ BatchFull(n) => k = Len(held)
        /\ stream' = SubSeq(held, k + 1, Len(held))
  BY DEF WriteEntry
<1> HIDE DEF held
<1>6. stream' \in Seq(Nat) /\ Len(stream') = Len(held) - k
  BY <1>1, <1>5, RestOfSeq
<1>7. Holdback'
  <2>1. CASE policy = "Immediate"
    <3>1. Len(stream') = 0
      BY <1>1, <1>5, <1>6, <2>1
    <3> QED
      BY <1>2, <1>6, <2>1, <3>1, EmptyRest DEF Holdback
  <2>2. CASE policy = "Batch" /\ BatchFull(n)
    <3>1. Len(stream') = 0
      BY <1>1, <1>5, <1>6, <2>2
    <3> QED
      BY <1>2, <1>3, <2>2, <3>1, JournalAssumption DEF Holdback
  <2>3. CASE policy = "Batch" /\ ~BatchFull(n)
    <3>1. Len(stream') <= Len(stream) + 1
      BY <1>1, <1>5, <1>6 DEF IInv
    <3>2. Len(stream) <= batch_count /\ n < BatchSize
      BY <1>1, <2>3, JournalAssumption DEF IInv, Holdback, BatchFull
    <3>3. Len(stream') <= n
      BY <1>1, <1>6, <3>1, <3>2 DEF IInv
    <3> QED
      BY <1>2, <1>3, <2>3, <3>2, <3>3 DEF Holdback
  <2> QED
    BY <1>2, <2>1, <2>2, <2>3 DEF Holdback
<1>8. main \notin {"stopped", "join_engine"}
  BY <1>2 DEF IInv, Ended
<1> QED
  BY <1>1, <1>2, <1>3, <1>4, <1>6, <1>7, <1>8 DEF IInv, None

LEMMA StepIInv == IInv /\ [Next]_vars => IInv'
<1> SUFFICES ASSUME IInv, [Next]_vars PROVE IInv'
  OBVIOUS
<1> USE JournalAssumption DEF IInv, Holdback, Ended, None
<1>1. CASE Start
  BY <1>1 DEF Start, file, history
<1>2. CASE StopEngine \/ StopDisk \/ JoinEngine
  BY <1>2 DEF StopEngine, StopDisk, JoinEngine, file, bounds, history
<1>3. CASE JoinDisk
  BY <1>3 DEF JoinDisk, bounds
<1>4. CASE Submit
  BY <1>4 DEF Submit, control, file
<1>5. CASE Engine
  <2>1. UNCHANGED <<policy, main, writer, stream, batch_count, entry, sent>>
    BY <1>5 DEF Engine, EngineCheck, EnginePop, EngineAppend, EngineExecute, file, bounds
  <2>2. inbound' \in Seq(Nat) /\ cmd' \in Nat
    <3>1. \/ UNCHANGED <<inbound, cmd>>
          \/ inbound # <<>> /\ cmd' = Head(inbound) /\ inbound' = Tail(inbound)
      BY <1>5 DEF Engine, EngineCheck, EnginePop, EngineAppend, EngineExecute
    <3> QED
      BY <3>1, FirstAndRest
  <2>3. journal_queue' \in Seq(Nat)
    <3>1. journal_queue' = journal_queue \/ journal_queue' = Append(journal_queue, cmd)
      BY <1>5 DEF Engine, EngineCheck, EnginePop, EngineAppend, EngineExecute
    <3> QED
      BY <3>1, OneMore
  <2> QED
    BY <2>1, <2>2, <2>3
<1>6. CASE WriterCheck \/ WriterPop \/ WriterExit
  <2>1. UNCHANGED <<policy, main, batch_count, inbound, cmd, sent>>
    BY <1>6 DEF WriterCheck, WriterPop, WriterExit, file, bounds
  <2>2. journal_queue' \in Seq(Nat) /\ entry' \in Nat
    <3>1. \/ UNCHANGED <<journal_queue, entry>>
          \/ /\ journal_queue # <<>> /\ entry' = Head(journal_queue)
             /\ journal_queue' = Tail(journal_queue)
      BY <1>6 DEF WriterCheck, WriterPop, WriterExit
    <3> QED
      BY <3>1, FirstAndRest
  <2>3. stream' = stream \/ stream' = <<>>
    BY <1>6 DEF WriterCheck, WriterPop, WriterExit, file
  <2>4. writer \notin {"none", "done"}
    BY <1>6 DEF WriterCheck, WriterPop, WriterExit
  <2>5. stream' \in Seq(Nat) /\ Len(stream') <= Len(stream) /\ (stream = <<>> => stream' = <<>>)
    <3> HIDE DEF IInv
    <3>1. stream \in Seq(Nat)
      BY DEF IInv
    <3>2. CASE stream' = stream
      BY <3>1, <3>2
    <3>3. CASE stream' = <<>>
      BY <3>1, <3>3
    <3> QED
      BY <2>3, <3>2, <3>3
  <2> QED
    BY <2>1, <2>2, <2>4, <2>5
<1>7. CASE WriteEntry
  BY <1>7, WriteKeepsIInv
<1>8. CASE Restart
  BY <1>8 DEF Restart
<1>9. CASE UNCHANGED vars
  BY <1>9 DEF vars, control, file, bounds
<1> QED
  BY <1>1, <1>2, <1>3, <1>4, <1>5, <1>6, <1>7, <1>8, <1>9 DEF Next, Main, Writer

\* A crash takes no record that DiskJournal::run has written under Immediate, and
\* fewer than a batch of them under Batch, over rotations, stops and starts.
THEOREM CrashBound == Spec => []CrashLosesLittle
<1>1. IInv => CrashLosesLittle
  BY JournalAssumption DEF IInv, Holdback, CrashLosesLittle
<1> QED
  BY <1>1, InitIInv, StepIInv, PTL DEF Spec
-----------------------------------------------------------------------------
-----------------------------------------------------------------------------
\* The files 1 to n one after the other, a file with more records, and the disk
\* after the file after n was truncated.
Prefix(fs, n) == Flattened(SubSeq(fs, 1, n))
Grow(fs, n, st) == [fs EXCEPT ![n] = @ \o st]
NextFile(fs, n) == [i \in DOMAIN fs \cup {n + 1} |-> IF i = n + 1 THEN <<>> ELSE fs[i]]

LEMMA PrefixFacts ==
  ASSUME NEW fs \in Seq(Seq(Nat)), NEW n \in 0 .. Len(fs)
  PROVE  /\ SubSeq(fs, 1, n) \in Seq(Seq(Nat)) /\ Len(SubSeq(fs, 1, n)) = n
         /\ \A i \in 1 .. n : SubSeq(fs, 1, n)[i] = fs[i]
         /\ Prefix(fs, n) \in Seq(Nat)
<1>1. /\ SubSeq(fs, 1, n) \in Seq(Seq(Nat)) /\ Len(SubSeq(fs, 1, n)) = n
      /\ \A i \in 1 .. n : SubSeq(fs, 1, n)[i] = fs[i]
  OBVIOUS
<1> QED
  BY <1>1, FlattenedType DEF Prefix

LEMMA PrefixAgree ==
  ASSUME NEW fs \in Seq(Seq(Nat)), NEW gs \in Seq(Seq(Nat)), NEW n \in 0 .. Len(fs), n <= Len(gs),
         \A i \in 1 .. n : fs[i] = gs[i]
  PROVE  Prefix(fs, n) = Prefix(gs, n)
<1> DEFINE a == SubSeq(fs, 1, n)
           b == SubSeq(gs, 1, n)
<1>1. a \in Seq(Seq(Nat)) /\ Len(a) = n /\ \A i \in 1 .. n : a[i] = fs[i]
  BY PrefixFacts
<1>2. n \in 0 .. Len(gs)
  OBVIOUS
<1>3. b \in Seq(Seq(Nat)) /\ Len(b) = n /\ \A i \in 1 .. n : b[i] = gs[i]
  BY <1>2, PrefixFacts
<1> HIDE DEF a, b
<1>4. a = b
  BY <1>1, <1>3, SeqEqual
<1> QED
  BY <1>4 DEF Prefix, a, b

LEMMA PrefixSplit ==
  ASSUME NEW fs \in Seq(Seq(Nat)), NEW n \in 1 .. Len(fs)
  PROVE  Prefix(fs, n) = Prefix(fs, n - 1) \o fs[n] /\ fs[n] \in Seq(Nat)
<1> DEFINE a == SubSeq(fs, 1, n - 1)
           b == SubSeq(fs, 1, n)
<1>1. n - 1 \in 0 .. Len(fs) /\ n \in 0 .. Len(fs) /\ fs[n] \in Seq(Nat)
  OBVIOUS
<1>2. a \in Seq(Seq(Nat)) /\ Len(a) = n - 1 /\ \A i \in 1 .. n - 1 : a[i] = fs[i]
  BY <1>1, PrefixFacts
<1>3. b \in Seq(Seq(Nat)) /\ Len(b) = n /\ \A i \in 1 .. n : b[i] = fs[i]
  BY <1>1, PrefixFacts
<1> HIDE DEF a, b
<1>4. /\ Append(a, fs[n]) \in Seq(Seq(Nat)) /\ Len(Append(a, fs[n])) = n
      /\ \A i \in 1 .. n : Append(a, fs[n])[i] = b[i]
  <2> DEFINE e == fs[n]
  <2>0. e \in Seq(Nat) /\ n \in 1 .. n /\ \A i \in 1 .. n : b[i] = fs[i]
    BY <1>1, <1>3
  <2>3. b[n] = e
    BY <2>0
  <2>4. \A i \in 1 .. n - 1 : i \in 1 .. n
    OBVIOUS
  <2>5. \A i \in 1 .. n - 1 : a[i] = b[i]
    BY <1>2, <2>0, <2>4
  <2> HIDE DEF e
  <2>1. e \in Seq(Nat) /\ b[n] = e /\ \A i \in 1 .. n - 1 : a[i] = b[i]
    BY <2>0, <2>3, <2>5
  <2>2. /\ Append(a, e) \in Seq(Seq(Nat)) /\ Len(Append(a, e)) = Len(a) + 1
        /\ \A i \in 1 .. Len(a) : Append(a, e)[i] = a[i]
        /\ Append(a, e)[Len(a) + 1] = e
    BY <1>2, <2>1, AppendProperties
  <2> QED
    BY <1>2, <2>1, <2>2 DEF e
<1>5. b = Append(a, fs[n])
  BY ONLY <1>3, <1>4, SeqEqual
<1>6. Flattened(Append(a, fs[n])) = Flattened(a) \o fs[n]
  BY <1>1, <1>2, FlattenedType, FlattenedAppend
<1> QED
  BY <1>1, <1>5, <1>6 DEF Prefix, a, b

LEMMA PrefixNone ==
  ASSUME NEW fs
  PROVE  Prefix(fs, 0) = <<>>
<1>1. SubSeq(fs, 1, 0) = <<>>
  BY SubSeqEmpty
<1> QED
  BY <1>1, FlattenedEmpty DEF Prefix

LEMMA Assoc ==
  ASSUME NEW s \in Seq(Nat), NEW t \in Seq(Nat), NEW u \in Seq(Nat)
  PROVE  /\ s \o t \in Seq(Nat) /\ Len(s \o t) = Len(s) + Len(t)
         /\ (s \o t) \o u = s \o (t \o u)
  BY ConcatProperties, ConcatAssociative

\* Records written to file n come after all the records of the files 1 to n.
LEMMA GrowWrites ==
  ASSUME NEW fs \in Seq(Seq(Nat)), NEW n \in 1 .. Len(fs), NEW st \in Seq(Nat),
         NEW gs, gs = Grow(fs, n, st)
  PROVE  /\ gs \in Seq(Seq(Nat)) /\ Len(gs) = Len(fs)
         /\ Prefix(gs, n) = Prefix(fs, n) \o st
<1>1. fs[n] \in Seq(Nat) /\ n - 1 \in 0 .. Len(fs) /\ n - 1 <= Len(fs)
  OBVIOUS
<1>2. fs[n] \o st \in Seq(Nat)
  BY <1>1, ConcatProperties
<1>3. /\ gs \in Seq(Seq(Nat)) /\ Len(gs) = Len(fs) /\ gs[n] = fs[n] \o st
      /\ \A i \in 1 .. n - 1 : fs[i] = gs[i]
  BY <1>2 DEF Grow
<1>4. Prefix(gs, n - 1) = Prefix(fs, n - 1) /\ Prefix(fs, n - 1) \in Seq(Nat)
  BY <1>1, <1>3, PrefixAgree, PrefixFacts
<1>5. Prefix(gs, n) = Prefix(gs, n - 1) \o gs[n] /\ Prefix(fs, n) = Prefix(fs, n - 1) \o fs[n]
  BY <1>3, PrefixSplit
<1>6. Prefix(fs, n - 1) \o (fs[n] \o st) = (Prefix(fs, n - 1) \o fs[n]) \o st
  BY <1>1, <1>4, Assoc
<1> QED
  BY <1>3, <1>4, <1>5, <1>6

\* A new file adds nothing.
LEMMA NextFileEmpty ==
  ASSUME NEW fs \in Seq(Seq(Nat)), NEW n \in Nat, n <= Len(fs), NEW gs, gs = NextFile(fs, n)
  PROVE  /\ gs \in Seq(Seq(Nat)) /\ n + 1 <= Len(gs)
         /\ Prefix(gs, n + 1) = Prefix(fs, n)
<1> DEFINE m == IF n = Len(fs) THEN n + 1 ELSE Len(fs)
<1>1. m \in Nat /\ n + 1 <= m /\ DOMAIN fs \cup {n + 1} = 1 .. m /\ n \in 0 .. Len(fs)
  OBVIOUS
<1>2. \A i \in 1 .. m : (IF i = n + 1 THEN <<>> ELSE fs[i]) \in Seq(Nat)
  OBVIOUS
<1>3. gs = [i \in 1 .. m |-> IF i = n + 1 THEN <<>> ELSE fs[i]]
  BY <1>1 DEF NextFile
<1> HIDE DEF m
<1>4. gs \in Seq(Seq(Nat)) /\ Len(gs) = m
  BY <1>1, <1>2, <1>3
<1>5. gs[n + 1] = <<>> /\ \A i \in 1 .. n : fs[i] = gs[i]
  BY <1>1, <1>3
<1>6. n + 1 \in 1 .. Len(gs) /\ (n + 1) - 1 = n /\ n <= Len(gs)
  BY <1>1, <1>4
<1>7. Prefix(gs, n + 1) = Prefix(gs, n) \o <<>>
  BY <1>4, <1>5, <1>6, PrefixSplit
<1>8. Prefix(fs, n) = Prefix(gs, n) /\ Prefix(fs, n) \in Seq(Nat)
  BY <1>1, <1>4, <1>5, <1>6, PrefixAgree, PrefixFacts
<1> QED
  BY <1>1, <1>4, <1>7, <1>8, ConcatEmptySeq

Passed(held, k) == SubSeq(held, 1, k)
Buffered(held, k) == SubSeq(held, k + 1, Len(held))

\* Part of what is held goes to the file, the rest stays: together it is all there.
LEMMA HeldSplits ==
  ASSUME NEW held \in Seq(Nat), NEW k \in 0 .. Len(held)
  PROVE  /\ Passed(held, k) \in Seq(Nat) /\ Buffered(held, k) \in Seq(Nat)
         /\ Passed(held, k) \o Buffered(held, k) = held
<1>1. SubSeq(held, 1, k) \in Seq(Nat) /\ SubSeq(held, k + 1, Len(held)) \in Seq(Nat)
  OBVIOUS
<1>2. /\ 1 \in 1 .. Len(held) + 1 /\ k \in 1 - 1 .. Len(held) /\ Len(held) \in k .. Len(held)
  OBVIOUS
<1>3. SubSeq(held, 1, k) \o SubSeq(held, k + 1, Len(held)) = SubSeq(held, 1, Len(held))
  BY <1>2, ConcatAdjacentSubSeq
<1> QED
  BY <1>1, <1>3, SubSeqFull DEF Passed, Buffered

\* A record that moves from one place to the next keeps its place in the order.
LEMMA Moved ==
  ASSUME NEW s \in Seq(Nat), NEW q \in Seq(Nat), q # <<>>
  PROVE  (s \o <<>>) \o q = (s \o <<Head(q)>>) \o Tail(q)
<1>1. Head(q) \in Nat /\ Tail(q) \in Seq(Nat) /\ <<Head(q)>> \in Seq(Nat) /\ <<Head(q)>> \o Tail(q) = q
  OBVIOUS
<1>2. (s \o <<Head(q)>>) \o Tail(q) = s \o (<<Head(q)>> \o Tail(q))
  BY <1>1, Assoc
<1> QED
  BY <1>1, <1>2, ConcatEmptySeq

LEMMA Appended ==
  ASSUME NEW s \in Seq(Nat), NEW t \in Seq(Nat), NEW x \in Nat
  PROVE  /\ s \o Append(t, x) = Append(s \o t, x)
         /\ s \o <<x>> = Append(s, x)
         /\ Append(s, x) \in Seq(Nat) /\ Len(Append(s, x)) = Len(s) + 1
         /\ <<x>> \in Seq(Nat) /\ s \o <<>> = s
<1>1. <<x>> \in Seq(Nat) /\ s \o t \in Seq(Nat)
  OBVIOUS
<1>2. Append(t, x) = t \o <<x>> /\ Append(s, x) = s \o <<x>> /\ Append(s \o t, x) = (s \o t) \o <<x>>
  BY <1>1, AppendIsConcat
<1>3. (s \o t) \o <<x>> = s \o (t \o <<x>>)
  BY <1>1, Assoc
<1> QED
  BY <1>1, <1>2, <1>3, ConcatEmptySeq

-----------------------------------------------------------------------------
\* What is out of the writer's hands: on disk or in the stream.
Stored == Written \o stream

FilesOK ==
  /\ files \in Seq(Seq(Nat)) /\ file_index \in Nat /\ file_index <= Len(files)
  /\ is_open \/ stream # <<>> => file_index > 0

LEMMA StoredFacts ==
  ASSUME DInv
  PROVE  /\ FilesOK /\ Written = Prefix(files, file_index)
         /\ Written \in Seq(Nat) /\ Stored \in Seq(Nat) /\ Holding \in Seq(Nat)
         /\ Len(Stored) = Len(Written) + Len(stream)
         /\ (Stored \o Holding) \o journal_queue = appended
<1>1. FilesOK /\ stream \in Seq(Nat) /\ entry \in Nat
  BY DEF DInv, Disk, IInv, FilesOK
<1>2. Written = Prefix(files, file_index)
  BY DEF Written, Prefix
<1>3. file_index \in 0 .. Len(files)
  BY <1>1 DEF FilesOK
<1>4. Written \in Seq(Nat)
  BY <1>1, <1>2, <1>3, PrefixFacts DEF FilesOK
<1>5. Stored \in Seq(Nat) /\ Len(Stored) = Len(Written) + Len(stream)
  BY <1>1, <1>4, Assoc DEF Stored
<1>6. Holding \in Seq(Nat)
  <2>1. <<entry>> \in Seq(Nat) /\ <<>> \in Seq(Nat)
    BY <1>1
  <2> QED
    BY <2>1 DEF Holding
<1>7. (Stored \o Holding) \o journal_queue = appended
  BY DEF DInv, Disk, JournalInOrder, Stored
<1> QED
  BY <1>1, <1>2, <1>4, <1>5, <1>6, <1>7

\* A flush keeps the records and their order.
LEMMA FlushKeeps ==
  ASSUME DInv, NEW fs, fs = Flushed(stream)
  PROVE  /\ fs \in Seq(Seq(Nat)) /\ Len(fs) = Len(files)
         /\ Prefix(fs, file_index) = Stored
<1>1. FilesOK /\ Written = Prefix(files, file_index) /\ Written \in Seq(Nat) /\ stream \in Seq(Nat)
  BY StoredFacts DEF DInv, IInv
<1>2. CASE stream = <<>>
  <2>1. fs = files /\ Written \o stream = Written
    BY <1>1, <1>2, ConcatEmptySeq DEF Flushed
  <2> QED
    BY <1>1, <2>1 DEF FilesOK, Stored
<1>3. CASE stream # <<>>
  <2>1. fs = Grow(files, file_index, stream)
    BY <1>3 DEF Flushed, Grow
  <2>2. files \in Seq(Seq(Nat)) /\ file_index \in 1 .. Len(files)
    BY <1>1, <1>3 DEF FilesOK
  <2>3. stream \in Seq(Nat)
    BY <1>1
  <2>4. /\ fs \in Seq(Seq(Nat)) /\ Len(fs) = Len(files)
        /\ Prefix(fs, file_index) = Prefix(files, file_index) \o stream
    BY ONLY <2>1, <2>2, <2>3, GrowWrites
  <2> QED
    BY <1>1, <2>4 DEF Stored
<1> QED
  BY <1>2, <1>3

LEMMA FlushStep ==
  ASSUME DInv, files' = Flushed(stream), stream' = <<>>, file_index' = file_index,
         is_open' => is_open
  PROVE  FilesOK' /\ Stored' = Stored /\ Len(Written') + Len(stream') = Len(Stored)
<1>1. FilesOK /\ Stored \in Seq(Nat)
  BY StoredFacts
<1>2. /\ files' \in Seq(Seq(Nat)) /\ Len(files') = Len(files)
      /\ Prefix(files', file_index) = Stored
  BY FlushKeeps
<1>3. Written' = Stored
  BY <1>2 DEF Written, Prefix
<1>4. Stored' = Stored
  BY <1>1, <1>3, ConcatEmptySeq DEF Stored
<1>5. Len(Written') + Len(stream') = Len(Stored)
  BY <1>1, <1>3
<1> QED
  BY <1>1, <1>2, <1>4, <1>5 DEF FilesOK

LEMMA SameFiles ==
  ASSUME DInv, UNCHANGED <<files, stream, file_index>>, is_open' => is_open
  PROVE  FilesOK' /\ Stored' = Stored /\ Len(Written') + Len(stream') = Len(Stored)
<1>1. FilesOK /\ Len(Stored) = Len(Written) + Len(stream)
  BY StoredFacts
<1>2. Written' = Written
  BY DEF Written
<1> QED
  BY <1>1, <1>2 DEF FilesOK, Stored

\* write_entry adds its record at the end, with or without a rotation.
LEMMA WriteStores ==
  ASSUME DInv, WriteEntry
  PROVE  FilesOK' /\ Stored' = Append(Stored, entry)
<1> DEFINE disk == IF MustRotate THEN RotateFile ELSE files
           held == Append(IF MustRotate THEN <<>> ELSE stream, entry)
           m == IF MustRotate THEN file_index + 1 ELSE file_index
<1>1. /\ FilesOK /\ Written = Prefix(files, file_index) /\ Written \in Seq(Nat)
      /\ Stored \in Seq(Nat) /\ stream \in Seq(Nat) /\ entry \in Nat
  BY StoredFacts DEF DInv, IInv
<1>2. file_index' = m
  BY DEF WriteEntry
<1>3. PICK k \in 0 .. Len(held) :
        /\ files' = Grow(disk, m, Passed(held, k))
        /\ stream' = Buffered(held, k)
  BY <1>2 DEF WriteEntry, Grow, Passed, Buffered
<1>4. /\ disk \in Seq(Seq(Nat)) /\ m \in 1 .. Len(disk) /\ held \in Seq(Nat)
      /\ Prefix(disk, m) \o held = Append(Stored, entry)
  <2>1. CASE MustRotate
    <3> DEFINE fs == Flushed(stream)
    <3>1. disk = NextFile(fs, file_index) /\ m = file_index + 1 /\ held = <<entry>>
      BY <2>1 DEF RotateFile, NextFile
    <3>2. fs \in Seq(Seq(Nat)) /\ Len(fs) = Len(files) /\ Prefix(fs, file_index) = Stored
      BY FlushKeeps
    <3>3. file_index \in Nat /\ file_index <= Len(fs)
      BY <1>1, <3>2 DEF FilesOK
    <3> HIDE DEF fs, disk, held, m
    <3>4. disk \in Seq(Seq(Nat)) /\ file_index + 1 <= Len(disk) /\ Prefix(disk, file_index + 1) = Stored
      BY <3>1, <3>2, <3>3, NextFileEmpty
    <3>5. m \in 1 .. Len(disk)
      BY <3>1, <3>3, <3>4
    <3>6. <<entry>> \in Seq(Nat) /\ Stored \o <<entry>> = Append(Stored, entry)
      BY <1>1, Appended
    <3> QED
      BY <3>1, <3>4, <3>5, <3>6
  <2>2. CASE ~MustRotate
    <3>1. disk = files /\ m = file_index /\ held = Append(stream, entry)
      BY <2>2
    <3> HIDE DEF disk, held, m
    <3>2. file_index \in 1 .. Len(files) /\ files \in Seq(Seq(Nat))
      BY <1>1, <2>2 DEF MustRotate, FilesOK
    <3>3. Append(stream, entry) \in Seq(Nat) /\ Written \o Append(stream, entry) = Append(Stored, entry)
      BY <1>1, Appended DEF Stored
    <3> QED
      BY <1>1, <3>1, <3>2, <3>3
  <2> QED
    BY <2>1, <2>2
<1> HIDE DEF disk, held, m
<1>5. /\ files' \in Seq(Seq(Nat)) /\ Len(files') = Len(disk) /\ stream' \in Seq(Nat)
      /\ Prefix(files', m) \o stream' = Append(Stored, entry)
  <2> DEFINE x == Passed(held, k)
             y == Buffered(held, k)
             w == Prefix(disk, m)
  <2>1. x \in Seq(Nat) /\ y \in Seq(Nat) /\ x \o y = held
    BY <1>4, HeldSplits
  <2>2. files' = Grow(disk, m, x) /\ stream' = y
    BY <1>3
  <2>3. disk \in Seq(Seq(Nat)) /\ m \in 1 .. Len(disk) /\ m \in 0 .. Len(disk)
    BY <1>4
  <2>4. w \in Seq(Nat) /\ w \o held = Append(Stored, entry)
    BY <1>4, <2>3, PrefixFacts
  <2> HIDE DEF x, y
  <2>5. files' \in Seq(Seq(Nat)) /\ Len(files') = Len(disk) /\ Prefix(files', m) = w \o x
    BY <2>1, <2>2, <2>3, GrowWrites
  <2> HIDE DEF w
  <2>6. (w \o x) \o y = w \o held
    BY <2>1, <2>4, Assoc
  <2> QED
    BY <2>1, <2>2, <2>4, <2>5, <2>6
<1>6. Stored' = Append(Stored, entry)
  BY <1>2, <1>5 DEF Stored, Written, Prefix
<1>7. FilesOK'
  BY <1>2, <1>4, <1>5 DEF FilesOK
<1> QED
  BY <1>6, <1>7

LEMMA InitDisk == Init => Disk
<1> SUFFICES ASSUME Init PROVE Disk
  OBVIOUS
<1>1. Written = <<>>
  BY PrefixNone DEF Init, Written, Prefix
<1>2. <<>> \in Seq(Nat) /\ <<>> \in Seq(Seq(Nat)) /\ Len(<<>>) = 0
  OBVIOUS
<1>3. <<>> \o <<>> = <<>>
  BY <1>2, ConcatEmptySeq
<1>4. JournalInOrder
  BY <1>1, <1>3 DEF Init, JournalInOrder, Holding
<1> QED
  BY <1>1, <1>2, <1>4 DEF Init, Disk

\* Where the writer may be, given the flags.
Phases ==
  /\ disk_running => main \in {"running", "stop_disk"}
  /\ main \in {"running", "stop_disk"} => disk_running
  /\ writer \in {"empty", "exit", "done", "none"} => ~disk_running

Drained == writer \in {"exit", "done", "none"} => Len(Written) + Len(stream) >= due

LEMMA DiskIs ==
  Disk <=> /\ FilesOK /\ appended \in Seq(Nat) /\ due \in Nat /\ due <= Len(appended)
           /\ (Stored \o Holding) \o journal_queue = appended
           /\ Phases /\ Drained
  BY DEF Disk, FilesOK, JournalInOrder, Stored, Phases, Drained

\* A step that leaves the journal's contents alone.
LEMMA QuietStep ==
  ASSUME DInv, FilesOK', Stored' = Stored, Len(Written') + Len(stream') = Len(Stored),
         UNCHANGED <<journal_queue, appended, due>>, Holding' = Holding, Phases',
         writer' \in {"exit", "done", "none"} => Len(Stored) >= due
  PROVE  Disk'
<1>1. /\ appended \in Seq(Nat) /\ due \in Nat /\ due <= Len(appended)
      /\ (Stored \o Holding) \o journal_queue = appended
  BY DiskIs DEF DInv
<1>2. Drained'
  BY DEF Drained
<1>3. (Stored' \o Holding') \o journal_queue' = appended'
  BY <1>1
<1> QED
  BY <1>1, <1>2, <1>3 DEF Disk, FilesOK, JournalInOrder, Stored, Phases, Drained

LEMMA MainDisk ==
  ASSUME DInv, Main \/ Submit \/ EngineCheck \/ EnginePop \/ EngineExecute
  PROVE  Disk'
<1>1. /\ appended \in Seq(Nat) /\ Phases /\ Drained /\ IInv
      /\ Len(Stored) = Len(Written) + Len(stream)
  BY DiskIs, StoredFacts DEF DInv
<1>2. CASE Start
  <2>1. Holding' = Holding
    BY <1>1, <1>2 DEF Start, IInv, Ended, Holding
  <2>2. Phases' /\ writer' = "check" /\ UNCHANGED <<journal_queue, appended, due>>
    BY <1>1, <1>2 DEF Start, Phases, history
  <2>3. UNCHANGED <<files, stream, file_index, is_open>>
    BY <1>2 DEF Start, file
  <2> QED
    BY <2>1, <2>2, <2>3, SameFiles, QuietStep
<1>3. CASE StopEngine \/ JoinEngine \/ Submit \/ EngineCheck \/ EnginePop \/ EngineExecute
  <2>1. /\ UNCHANGED <<files, stream, file_index, is_open>>
        /\ UNCHANGED <<journal_queue, appended, due, writer, entry>>
    BY <1>3 DEF StopEngine, JoinEngine, Submit, EngineCheck, EnginePop, EngineExecute,
       file, history, control
  <2>2. Phases'
    <3>1. CASE StopEngine \/ JoinEngine
      BY <1>1, <3>1 DEF StopEngine, JoinEngine, Phases
    <3>2. CASE Submit \/ EngineCheck \/ EnginePop \/ EngineExecute
      <4>1. UNCHANGED <<main, disk_running, writer>>
        BY <3>2 DEF Submit, EngineCheck, EnginePop, EngineExecute, control
      <4> QED
        BY <1>1, <4>1 DEF Phases
    <3> QED
      BY <1>3, <3>1, <3>2
  <2>3. Holding' = Holding
    BY <2>1 DEF Holding
  <2>4. writer' \in {"exit", "done", "none"} => Len(Stored) >= due
    BY <1>1, <2>1 DEF Drained
  <2>5. FilesOK' /\ Stored' = Stored /\ Len(Written') + Len(stream') = Len(Stored)
    BY <2>1, SameFiles
  <2> QED
    BY ONLY DInv, <2>1, <2>2, <2>3, <2>4, <2>5, QuietStep
<1>4. CASE StopDisk
  <2>1. /\ UNCHANGED <<files, stream, file_index, is_open>>
        /\ UNCHANGED <<journal_queue, appended, writer, entry>> /\ due' = Len(appended)
    BY <1>4 DEF StopDisk, file
  <2>2. FilesOK' /\ Stored' = Stored
    BY <2>1, SameFiles
  <2>3. Phases' /\ writer' \notin {"exit", "done", "none"}
    BY <1>1, <1>4 DEF StopDisk, Phases
  <2>4. (Stored \o Holding) \o journal_queue = appended /\ Holding' = Holding
    BY <2>1, StoredFacts DEF Holding
  <2>5. appended' \in Seq(Nat) /\ due' \in Nat /\ due' <= Len(appended')
    BY <1>1, <2>1
  <2> QED
    BY <2>1, <2>2, <2>3, <2>4, <2>5 DEF Disk, FilesOK, JournalInOrder, Stored, Phases, Drained
<1>5. CASE JoinDisk
  <2>1. /\ files' = Flushed(stream) /\ stream' = <<>> /\ file_index' = file_index /\ ~is_open'
        /\ UNCHANGED <<journal_queue, appended, due, writer, entry>>
    BY <1>5 DEF JoinDisk, history
  <2>2. Phases'
    BY <1>1, <1>5 DEF JoinDisk, Phases
  <2>3. Holding' = Holding
    BY <2>1 DEF Holding
  <2>4. writer' \in {"exit", "done", "none"} => Len(Stored) >= due
    BY <1>1, <2>1 DEF Drained
  <2> QED
    BY <2>1, <2>2, <2>3, <2>4, FlushStep, QuietStep
<1> QED
  BY <1>2, <1>3, <1>4, <1>5 DEF Main


LEMMA AppendDisk ==
  ASSUME DInv, EngineAppend
  PROVE  Disk'
<1>1. /\ appended \in Seq(Nat) /\ due \in Nat /\ due <= Len(appended) /\ Phases /\ Drained
      /\ cmd \in Nat /\ journal_queue \in Seq(Nat)
      /\ Len(Stored) = Len(Written) + Len(stream)
      /\ Stored \in Seq(Nat) /\ Holding \in Seq(Nat)
      /\ (Stored \o Holding) \o journal_queue = appended
  BY DiskIs, StoredFacts DEF DInv, IInv
<1>2. UNCHANGED <<files, stream, file_index, is_open, writer, entry, due, main, disk_running>>
  BY DEF EngineAppend, file
<1>3. FilesOK' /\ Stored' = Stored /\ Len(Written') + Len(stream') = Len(Stored)
  BY <1>2, SameFiles
<1>4. Holding' = Holding /\ Phases' /\ Drained'
  BY <1>1, <1>2, <1>3 DEF Holding, Phases, Drained
<1>5. \/ UNCHANGED <<journal_queue, appended>>
      \/ journal_queue' = Append(journal_queue, cmd) /\ appended' = Append(appended, cmd)
  BY DEF EngineAppend
<1>6. /\ appended' \in Seq(Nat) /\ due <= Len(appended')
      /\ (Stored \o Holding) \o journal_queue' = appended'
  <2> DEFINE x == Stored \o Holding
  <2>1. x \in Seq(Nat)
    BY <1>1, Assoc
  <2>2. x \o journal_queue = appended
    BY <1>1
  <2> HIDE DEF x
  <2>7. x \o Append(journal_queue, cmd) = Append(x \o journal_queue, cmd)
    <3>1. x \in Seq(Nat) /\ journal_queue \in Seq(Nat) /\ cmd \in Nat
      BY <1>1, <2>1
    <3> QED
      BY ONLY <3>1, Appended
  <2>3. x \o Append(journal_queue, cmd) = Append(appended, cmd)
    BY <2>2, <2>7
  <2>4. Append(appended, cmd) \in Seq(Nat) /\ Len(Append(appended, cmd)) = Len(appended) + 1
    BY <1>1, Appended
  <2>5. CASE UNCHANGED <<journal_queue, appended>>
    BY <1>1, <2>2, <2>5 DEF x
  <2>6. CASE journal_queue' = Append(journal_queue, cmd) /\ appended' = Append(appended, cmd)
    <3>1. due <= Len(appended')
      BY <1>1, <2>4, <2>6
    <3> QED
      BY <2>3, <2>4, <2>6, <3>1 DEF x
  <2> QED
    BY <1>5, <2>5, <2>6
<1> QED
  BY <1>1, <1>2, <1>3, <1>4, <1>6 DEF Disk, FilesOK, JournalInOrder, Stored, Phases, Drained

LEMMA WriterDisk ==
  ASSUME DInv, WriterCheck \/ WriterPop \/ WriterExit
  PROVE  Disk'
<1>1. /\ appended \in Seq(Nat) /\ due \in Nat /\ due <= Len(appended) /\ Phases /\ Drained
      /\ stream \in Seq(Nat) /\ journal_queue \in Seq(Nat)
      /\ Len(Stored) = Len(Written) + Len(stream) /\ Stored \in Seq(Nat)
      /\ (Stored \o Holding) \o journal_queue = appended
  BY DiskIs, StoredFacts DEF DInv, IInv
<1>2. /\ UNCHANGED <<file_index, is_open, due, main, disk_running, appended>>
      /\ writer # "write" /\ Holding = <<>>
  BY DEF WriterCheck, WriterPop, WriterExit, file, history, Holding
<1>3. CASE WriterCheck
  <2>1. UNCHANGED <<files, stream, journal_queue>>
    BY <1>3 DEF WriterCheck, file
  <2>2. writer' # "write" /\ Holding' = <<>>
    BY <1>3 DEF WriterCheck, Holding
  <2>3. Phases'
    BY <1>1, <1>2, <1>3 DEF WriterCheck, Phases
  <2>4. writer' \in {"exit", "done", "none"} => Len(Stored) >= due
    <3> SUFFICES ASSUME writer' \in {"exit", "done", "none"} PROVE Len(Stored) >= due
      OBVIOUS
    <3>1. journal_queue = <<>>
      BY <1>3 DEF WriterCheck
    <3>2. Stored = appended
      BY <1>1, <1>2, <3>1, ConcatEmptySeq
    <3> QED
      BY <1>1, <3>2
  <2> QED
    BY <1>2, <2>1, <2>2, <2>3, <2>4, SameFiles, QuietStep
<1>4. ASSUME WriterPop, journal_queue = <<>> PROVE Disk'
  <2>1. /\ UNCHANGED <<files, stream>> \/ (files' = Flushed(stream) /\ stream' = <<>>)
        /\ writer' = "check" /\ UNCHANGED journal_queue
    BY <1>4 DEF WriterPop
  <2>2. Holding' = <<>> /\ Phases'
    BY <1>1, <1>2, <2>1 DEF Holding, Phases
  <2>3. FilesOK' /\ Stored' = Stored /\ Len(Written') + Len(stream') = Len(Stored)
    <3>1. CASE UNCHANGED <<files, stream>>
      BY <1>2, <3>1, SameFiles
    <3>2. CASE files' = Flushed(stream) /\ stream' = <<>>
      <4>1. file_index' = file_index /\ (is_open' => is_open)
        BY <1>2
      <4> QED
        BY ONLY DInv, <3>2, <4>1, FlushStep
    <3> QED
      BY <2>1, <3>1, <3>2
  <2> QED
    BY <1>2, <2>1, <2>2, <2>3, QuietStep
<1>5. ASSUME WriterPop, journal_queue # <<>> PROVE Disk'
  <2>1. /\ UNCHANGED <<files, stream>> /\ writer' = "write"
        /\ entry' = Head(journal_queue) /\ journal_queue' = Tail(journal_queue)
    BY <1>5 DEF WriterPop
  <2>2. FilesOK' /\ Stored' = Stored
    BY <1>2, <2>1, SameFiles
  <2>3. Phases' /\ Drained' /\ Holding' = <<Head(journal_queue)>>
    BY <1>1, <1>2, <2>1, <1>5 DEF Phases, Drained, Holding, WriterPop
  <2>4. (Stored \o <<>>) \o journal_queue = (Stored \o <<Head(journal_queue)>>) \o Tail(journal_queue)
    BY <1>1, <1>5, Moved
  <2>5. (Stored' \o Holding') \o journal_queue' = appended'
    BY <1>1, <1>2, <2>1, <2>2, <2>3, <2>4
  <2> QED
    BY <1>1, <1>2, <2>2, <2>3, <2>5
       DEF Disk, FilesOK, JournalInOrder, Stored, Phases, Drained
<1>6. CASE WriterExit
  <2>1. /\ UNCHANGED <<files, stream>> \/ (files' = Flushed(stream) /\ stream' = <<>>)
        /\ writer = "exit" /\ writer' = "done" /\ UNCHANGED journal_queue
    BY <1>6 DEF WriterExit
  <2>2. Holding' = <<>> /\ Phases' /\ Len(Stored) >= due
    BY <1>1, <1>2, <2>1 DEF Holding, Phases, Drained
  <2>3. FilesOK' /\ Stored' = Stored /\ Len(Written') + Len(stream') = Len(Stored)
    <3>1. CASE UNCHANGED <<files, stream>>
      BY <1>2, <3>1, SameFiles
    <3>2. CASE files' = Flushed(stream) /\ stream' = <<>>
      <4>1. file_index' = file_index /\ (is_open' => is_open)
        BY <1>2
      <4> QED
        BY ONLY DInv, <3>2, <4>1, FlushStep
    <3> QED
      BY <2>1, <3>1, <3>2
  <2> QED
    BY <1>2, <2>1, <2>2, <2>3, QuietStep
<1> QED
  BY <1>3, <1>4, <1>5, <1>6

LEMMA WriteDisk ==
  ASSUME DInv, WriteEntry
  PROVE  Disk'
<1>1. /\ appended \in Seq(Nat) /\ due \in Nat /\ due <= Len(appended) /\ Phases
      /\ entry \in Nat /\ Stored \in Seq(Nat)
      /\ (Stored \o Holding) \o journal_queue = appended
  BY DiskIs, StoredFacts DEF DInv, IInv
<1>2. /\ UNCHANGED <<due, main, disk_running, appended, journal_queue>>
      /\ writer = "write" /\ writer' = "check"
  BY DEF WriteEntry, history
<1>3. Holding = <<entry>> /\ Holding' = <<>> /\ Phases' /\ Drained'
  BY <1>1, <1>2 DEF Holding, Phases, Drained
<1>4. FilesOK' /\ Stored' = Append(Stored, entry)
  BY WriteStores
<1>5. Stored \o <<entry>> = Append(Stored, entry) /\ Append(Stored, entry) \o <<>> = Append(Stored, entry)
  BY <1>1, Appended
<1>6. (Stored' \o Holding') \o journal_queue' = appended'
  BY <1>1, <1>2, <1>3, <1>4, <1>5
<1> QED
  BY <1>1, <1>2, <1>3, <1>4, <1>6
     DEF Disk, FilesOK, JournalInOrder, Stored, Phases, Drained

LEMMA StepDInv == DInv /\ [Next]_vars => DInv'
<1> SUFFICES ASSUME DInv, [Next]_vars PROVE Disk'
  BY StepIInv DEF DInv
<1>1. CASE Main \/ Submit \/ EngineCheck \/ EnginePop \/ EngineExecute
  BY <1>1, MainDisk
<1>2. CASE EngineAppend
  BY <1>2, AppendDisk
<1>3. CASE WriterCheck \/ WriterPop \/ WriterExit
  BY <1>3, WriterDisk
<1>4. CASE WriteEntry
  BY <1>4, WriteDisk
<1>5. CASE Restart
  <2>1. /\ file_index' = 0 /\ stream' = <<>> /\ appended' = <<>> /\ due' = 0 /\ ~is_open'
        /\ journal_queue' = <<>> /\ writer' = "none" /\ main' = "stopped" /\ ~disk_running'
        /\ files' = files /\ files \in Seq(Seq(Nat))
    BY <1>5 DEF Restart, DInv, Disk
  <2>2. Written' = <<>>
    BY <2>1, PrefixNone DEF Written, Prefix
  <2>3. <<>> \in Seq(Nat) /\ <<>> \o <<>> = <<>> /\ Len(<<>>) = 0
    BY ConcatEmptySeq
  <2>4. JournalInOrder'
    BY <2>1, <2>2, <2>3 DEF JournalInOrder, Holding
  <2> QED
    BY <2>1, <2>2, <2>3, <2>4 DEF Disk
<1>6. CASE UNCHANGED vars
  BY <1>6 DEF vars, control, file, bounds, history, DInv, Disk, JournalInOrder, Written, Holding
<1> QED
  BY <1>1, <1>2, <1>3, <1>4, <1>5, <1>6 DEF Next, Engine, Writer
-----------------------------------------------------------------------------
\* The files of this process, the stream's buffer, the entry DiskJournal::run has
\* popped and the queue are together, in this order, exactly the commands that
\* MemoryJournal::append accepted: over rotations, partial flushes, stops, starts
\* and crashes nothing is lost, doubled or reordered.
THEOREM JournalKeepsOrder == Spec => []JournalInOrder
<1>1. Init => DInv
  BY InitIInv, InitDisk DEF DInv
<1>2. DInv => JournalInOrder
  BY DEF DInv, Disk
<1> QED
  BY <1>1, <1>2, StepDInv, PTL DEF Spec

\* When DiskJournal::stop has returned, every command appended before it was called
\* is in a file, under every flush policy and although the engine's thread may still
\* be appending.
THEOREM StopLosesNothing == Spec => []StopDrains
<1>1. Init => DInv
  BY InitIInv, InitDisk DEF DInv
<1>2. DInv => StopDrains
  <2> SUFFICES ASSUME DInv, main \in {"join_engine", "stopped"} PROVE Len(Written) >= due
    BY DEF StopDrains
  <2>1. stream = <<>> /\ Len(Written) + Len(stream) >= due
    BY DEF DInv, IInv, Disk, Ended
  <2>2. Written \in Seq(Nat) /\ due \in Nat
    BY StoredFacts DEF DInv, Disk
  <2>3. Len(stream) = 0 /\ Len(Written) \in Nat
    BY <2>1, <2>2
  <2> QED
    BY <2>1, <2>2, <2>3
<1> QED
  BY <1>1, <1>2, StepDInv, PTL DEF Spec
=============================================================================
