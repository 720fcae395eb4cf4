------------------------------ MODULE MCQueues ------------------------------
(* Both queues of ring_buffer.hpp in one run.  A behaviour is one of         *)
(* SPSCQueue or one of MPSCQueue, as which says; the other queue rests.      *)
EXTENDS SPSCQueue

CONSTANTS MpscProducers, MpscConsumer, MpscCapacity, MpscModulus, MpscStarts, MpscPushes

VARIABLES which, sequence, data, m_write_idx, m_read_idx, m_pc, m_pos, m_value,
          m_delivered, m_claimed, m_popped

Mpsc == INSTANCE MPSCQueue WITH
  Producers <- MpscProducers, Consumer <- MpscConsumer, Capacity <- MpscCapacity, Modulus <- MpscModulus,
  Starts <- MpscStarts, MaxPushes <- MpscPushes,
  write_idx <- m_write_idx, read_idx <- m_read_idx, pc <- m_pc, pos <- m_pos, value <- m_value,
  delivered <- m_delivered, claimed <- m_claimed, popped <- m_popped

mpsc == <<sequence, data, m_write_idx, m_read_idx, m_pc, m_pos, m_value, m_delivered,
          m_claimed, m_popped>>
queues == <<vars, mpsc, which>>

QueuesInit == which \in {"spsc", "mpsc"} /\ Init /\ Mpsc!Init

Spsc(A) == which = "spsc" /\ A /\ UNCHANGED <<mpsc, which>>
InMpsc(A) == which = "mpsc" /\ A /\ UNCHANGED <<vars, which>>

QueuesNext == Spsc(Next) \/ InMpsc(Mpsc!Next)

\* A thread inside an operation goes on, and a compare-and-swap that nobody
\* contends does not fail for ever.  The consumer loops of the exchange
\* (EngineManager::run, Exchange::run_response_loop, DiskJournal::run) call pop
\* again and again, DiskJournal::run with a call of empty in between.  Nothing
\* makes a producer push.
QueuesSpec ==
  /\ QueuesInit /\ [][QueuesNext]_queues
  /\ \A p \in Producers : WF_queues(Spsc(PushLoadRead(p) \/ PushSlot(p) \/ PushStore(p)))
  /\ \A c \in Consumers :
       /\ WF_queues(Spsc(PopLoadWrite(c) \/ PopSlot(c) \/ PopStore(c) \/ SizeLoadRead(c)))
       /\ SF_queues(Spsc(PopLoadRead(c)))
  /\ \A p \in MpscProducers : WF_queues(InMpsc(Mpsc!PushStep(p)))
  /\ WF_queues(InMpsc(Mpsc!PopBegin \/ Mpsc!PopStep))
  /\ SF_queues(InMpsc(Mpsc!ClaimPop))

\* MPSCQueue is free of data races on its cells.
MpscCellsExclusive == Mpsc!CellsExclusive

\* MPSCQueue is a bounded FIFO.
MpscImplementsFifo == Mpsc!ImplementsFifo

\* MPSCQueue delivers what a push has claimed a position for.
MpscClaimedIsDelivered == Mpsc!ClaimedIsDelivered
=============================================================================
