---------------------------- MODULE WriterQueue ----------------------------
(***************************************************************************)
(* The send path of a Peer: Peer.Send, the lock-free ring lockFreeQueue,   *)
(* the writerLoop goroutine of highPerfWriter, the writeLoop goroutines    *)
(* that start and stop it, and the fallback channel sendChan.              *)
(*                                                                         *)
(* Every load, store and compare-and-swap on a field another goroutine     *)
(* uses is a step of its own.  The counters are natural numbers (2^64      *)
(* messages are out of reach) but head-tail is taken in uint64, where it   *)
(* wraps when a producer's head is older than its tail.                    *)
(***************************************************************************)
EXTENDS Naturals, Sequences, FiniteSets

CONSTANTS
    Producer,        \* goroutines that call Peer.Send
    NoMessage,       \* a nil *message.Message
    ringBufferSize,  \* 8192 in writer.go
    writerBatchSize, \* 32 in writer.go
    SendCap,         \* capacity of sendChan (1024 in peer.New)
    MaxSends,        \* bound: messages sent by each producer
    MaxLinks,        \* bound: connection cycles of the peer
    MayFail          \* the connection may go down

ASSUME SizeAssumption  == ringBufferSize \in Nat \ {0}
ASSUME BatchAssumption == writerBatchSize \in Nat \ {0}
ASSUME WqBoundAssumption == {SendCap, MaxSends} \subseteq Nat /\ MaxLinks \in Nat \ {0}
ASSUME MayFailAssumption == MayFail \in BOOLEAN

\* The n-th message of producer p.
Message == Producer \X (1 .. MaxSends)
ASSUME NoMessageAssumption == NoMessage \notin Message

Link == 1 .. MaxLinks
Slot == 0 .. ringBufferSize - 1

VARIABLES
    head, tail,      \* lockFreeQueue.head, .tail
    msg, ready,      \* the fields of lockFreeQueue.slots
    notEmpty,        \* a token is in the channel notEmpty
    ppc,             \* where each producer is in Send and Push
    phead,           \* the head each producer has loaded
    sends,           \* messages each producer has begun to send
    wpc,             \* where writerLoop is; "off" when it does not run
    batch,           \* what the last PopBatch has collected
    started, done,   \* highPerfWriter.started; done is closed
    wconn,           \* highPerfWriter.conn: number of its link, 0 for nil
    sendChan,        \* Peer.sendChan
    link,            \* the live connection of the peer, 0 if there is none
    links,           \* connection cycles so far; connDone is that of the last
    lpc,             \* where the writeLoop of each cycle is
    watch,           \* the cycle whose connDone that writeLoop waits for
    taken,           \* history: messages popped from the ring, in order
    written, lost    \* history: messages written to a live connection, or
                     \* dropped with a failed write

ringVars == <<head, tail, msg, ready>>
prodVars == <<ppc, phead, sends>>
wrVars   == <<wpc, batch>>
lifeVars == <<started, done, wconn, link, links, lpc, watch>>
fateVars == <<taken, written, lost>>
linkVars == <<link, links, watch>>
runVars  == <<wpc, started, done>>
outVars  == <<sendChan, written, lost>>
wqVars == <<ringVars, notEmpty, prodVars, wrVars, lifeVars, sendChan, fateVars>>

\* A peer that has just opened its first connection.
WqInit ==
    /\ head = 0 /\ tail = 0 /\ notEmpty = FALSE
    /\ msg = [s \in Slot |-> NoMessage] /\ ready = [s \in Slot |-> FALSE]
    /\ ppc = [p \in Producer |-> "idle"] /\ phead = [p \in Producer |-> 0]
    /\ sends = [p \in Producer |-> 0]
    /\ wpc = "off" /\ batch = <<>>
    /\ started = FALSE /\ done = FALSE /\ wconn = 0
    /\ sendChan = <<>>
    /\ link = 1 /\ links = 1
    /\ lpc = [l \in Link |-> IF l = 1 THEN "spawn" ELSE "none"]
    /\ watch = [l \in Link |-> 0]
    /\ taken = <<>> /\ written = {} /\ lost = {}

-----------------------------------------------------------------------------
(* Peer.Send and lockFreeQueue.Push                                        *)

SendFrame == UNCHANGED <<wrVars, lifeVars, fateVars>>
PushFrame == SendFrame /\ UNCHANGED <<sends, sendChan>>

SlotOf(i) == i % ringBufferSize

\* The message producer p is sending.
Current(p) == <<p, sends[p]>>

MoveTo(p, l) == ppc' = [ppc EXCEPT ![p] = l]

\* Peer.Send refuses unless the peer is open.
SendBegin(p) ==
    /\ ppc[p] = "idle" /\ sends[p] < MaxSends /\ link # 0
    /\ sends' = [sends EXCEPT ![p] = @ + 1] /\ MoveTo(p, "check")
    /\ SendFrame /\ UNCHANGED <<ringVars, notEmpty, phead, sendChan>>

\* writer.Send: no Push unless the writer is started.
CheckStarted(p) ==
    /\ ppc[p] = "check"
    /\ MoveTo(p, IF started THEN "head" ELSE "fallback")
    /\ PushFrame /\ UNCHANGED <<ringVars, notEmpty, phead>>

LoadHead(p) ==
    /\ ppc[p] = "head"
    /\ phead' = [phead EXCEPT ![p] = head] /\ MoveTo(p, "tail")
    /\ PushFrame /\ UNCHANGED <<ringVars, notEmpty>>

MutFull(h, t) == h < t \/ h - t > ringBufferSize

\* head-tail >= ringBufferSize in uint64.
Full(h, t) == h < t \/ h - t >= ringBufferSize

LoadTail(p) ==
    /\ ppc[p] = "tail"
    /\ MoveTo(p, IF Full(phead[p], tail) THEN "fallback" ELSE "cas")
    /\ PushFrame /\ UNCHANGED <<ringVars, notEmpty, phead>>

MutCompareAndSwap(p) ==
    /\ ppc[p] = "cas"
    /\ head' = phead[p] + 1 /\ MoveTo(p, "write")
    /\ PushFrame /\ UNCHANGED <<tail, msg, ready, notEmpty, phead>>

\* Claim the slot, or start over if another producer was faster.
CompareAndSwap(p) ==
    /\ ppc[p] = "cas"
    /\ IF head = phead[p] THEN head' = head + 1 /\ MoveTo(p, "write")
                          ELSE head' = head /\ MoveTo(p, "head")
    /\ PushFrame /\ UNCHANGED <<tail, msg, ready, notEmpty, phead>>

WriteSlot(p) ==
    /\ ppc[p] = "write"
    /\ msg' = [msg EXCEPT ![SlotOf(phead[p])] = Current(p)] /\ MoveTo(p, "ready")
    /\ PushFrame /\ UNCHANGED <<head, tail, ready, notEmpty, phead>>

SetReady(p) ==
    /\ ppc[p] = "ready"
    /\ ready' = [ready EXCEPT ![SlotOf(phead[p])] = TRUE] /\ MoveTo(p, "signal")
    /\ PushFrame /\ UNCHANGED <<head, tail, msg, notEmpty, phead>>

MutSignalFallsThrough(p) ==
    /\ ppc[p] = "signal"
    /\ notEmpty' = TRUE /\ MoveTo(p, "fallback")
    /\ PushFrame /\ UNCHANGED <<ringVars, phead>>

\* Put the token, unless it is there already; Send returns nil.
Signal(p) ==
    /\ ppc[p] = "signal"
    /\ notEmpty' = TRUE /\ MoveTo(p, "idle")
    /\ PushFrame /\ UNCHANGED <<ringVars, phead>>

\* sendChan, or the error "send queue full".
Fallback(p) ==
    /\ ppc[p] = "fallback" /\ MoveTo(p, "idle")
    /\ sendChan' = IF Len(sendChan) < SendCap THEN Append(sendChan, Current(p))
                                              ELSE sendChan
    /\ SendFrame /\ UNCHANGED <<ringVars, notEmpty, phead, sends>>

Send(p) ==
    \/ SendBegin(p) \/ CheckStarted(p) \/ LoadHead(p) \/ LoadTail(p)
    \/ CompareAndSwap(p) \/ WriteSlot(p) \/ SetReady(p) \/ Signal(p)
    \/ Fallback(p)

-----------------------------------------------------------------------------
(* writerLoop and PopBatch                                                 *)

WriterFrame == UNCHANGED <<prodVars, lifeVars, sendChan>>

\* The select at the top of the loop picks any case that is ready.
Wake ==
    /\ wpc = "wait" /\ notEmpty
    /\ notEmpty' = FALSE /\ wpc' = "load" /\ batch' = <<>>
    /\ WriterFrame /\ UNCHANGED <<ringVars, fateVars>>

WriterExit ==
    /\ wpc = "wait" /\ done /\ wpc' = "off"
    /\ WriterFrame /\ UNCHANGED <<ringVars, notEmpty, batch, fateVars>>

\* Go on popping, or leave PopBatch with a full batch or an empty queue.
PopLoad ==
    /\ wpc = "load"
    /\ wpc' = IF Len(batch) < writerBatchSize /\ tail < head THEN "spin"
              ELSE IF batch = <<>> THEN "wait" ELSE "flush"
    /\ WriterFrame /\ UNCHANGED <<ringVars, notEmpty, batch, fateVars>>

MutPopSlot ==
    /\ wpc = "spin" /\ wpc' = "clear"
    /\ batch' = Append(batch, msg[SlotOf(tail)])
    /\ taken' = Append(taken, msg[SlotOf(tail)])
    /\ msg' = [msg EXCEPT ![SlotOf(tail)] = NoMessage]
    /\ WriterFrame /\ UNCHANGED <<head, tail, ready, notEmpty, written, lost>>

\* Spin until the producer is done, read the slot and set it to nil.
PopSlot ==
    /\ wpc = "spin" /\ ready[SlotOf(tail)] /\ wpc' = "clear"
    /\ batch' = Append(batch, msg[SlotOf(tail)])
    /\ taken' = Append(taken, msg[SlotOf(tail)])
    /\ msg' = [msg EXCEPT ![SlotOf(tail)] = NoMessage]
    /\ WriterFrame /\ UNCHANGED <<head, tail, ready, notEmpty, written, lost>>

ClearReady ==
    /\ wpc = "clear" /\ wpc' = "advance"
    /\ ready' = [ready EXCEPT ![SlotOf(tail)] = FALSE]
    /\ WriterFrame /\ UNCHANGED <<head, tail, msg, notEmpty, batch, fateVars>>

StoreTail ==
    /\ wpc = "advance" /\ wpc' = "load" /\ tail' = tail + 1
    /\ WriterFrame /\ UNCHANGED <<head, msg, ready, notEmpty, batch, fateVars>>

InSeq(s) == {s[i] : i \in DOMAIN s}

\* A write to the connection of link c (0: there is none).  It may fail before
\* the peer has noticed that its connection is gone.
WriteOk(c)  == c # 0 /\ c = link
WriteErr(c) == MayFail \/ ~WriteOk(c)

MutFlushBatchDrains ==
    /\ wpc = "flush" /\ wpc' = "wait" /\ notEmpty' = FALSE
    /\ written' = written \cup InSeq(batch)
    /\ WriterFrame /\ UNCHANGED <<ringVars, batch, taken, lost>>

\* One Write for the batch, to the writer's connection or else to the peer's;
\* on an error, or without a connection, the batch is gone.
FlushBatch ==
    /\ wpc = "flush" /\ wpc' = "wait"
    /\ LET c == IF wconn # 0 THEN wconn ELSE link IN
       \/ /\ WriteOk(c)
          /\ written' = written \cup InSeq(batch) /\ UNCHANGED lost
       \/ /\ WriteErr(c)
          /\ lost' = lost \cup InSeq(batch) /\ UNCHANGED written
    /\ WriterFrame /\ UNCHANGED <<ringVars, notEmpty, batch, taken>>

WriterLoop ==
    \/ Wake \/ WriterExit \/ PopLoad \/ PopSlot \/ ClearReady \/ StoreTail
    \/ FlushBatch

-----------------------------------------------------------------------------
(* Connection cycles and their writeLoop                                   *)

LoopFrame == UNCHANGED <<ringVars, notEmpty, prodVars, batch, taken>>

LinkUp ==
    /\ link = 0 /\ links < MaxLinks
    /\ links' = links + 1 /\ link' = links + 1
    /\ lpc' = [lpc EXCEPT ![links + 1] = "spawn"]
    /\ LoopFrame /\ UNCHANGED <<runVars, wconn, watch, outVars>>

\* errorCleanup closes the connection and connDone.
LinkDown ==
    /\ MayFail /\ link # 0 /\ link' = 0
    /\ LoopFrame /\ UNCHANGED <<runVars, wconn, links, lpc, watch, outVars>>

AddConnection(l) ==
    /\ lpc[l] = "spawn" /\ lpc' = [lpc EXCEPT ![l] = "start"]
    /\ wconn' = IF link # 0 THEN link ELSE wconn
    /\ LoopFrame /\ UNCHANGED <<runVars, linkVars, outVars>>

\* Stop holds the writer's mutex while it waits for writerLoop.
MuFree == \A l \in Link : lpc[l] # "stopping"

\* writer.Start, then connDone is read.
LoopStart(l) ==
    /\ lpc[l] = "start" /\ MuFree
    /\ IF started
       THEN UNCHANGED <<started, done, wpc>>
       ELSE started' = TRUE /\ done' = FALSE /\ wpc' = "wait"
    /\ watch' = [watch EXCEPT ![l] = links] /\ lpc' = [lpc EXCEPT ![l] = "serve"]
    /\ LoopFrame /\ UNCHANGED <<wconn, link, links, outVars>>

\* A message of sendChan, on whatever connection the peer has now; if the write
\* fails the loop reports it and leaves.
LoopServe(l) ==
    /\ lpc[l] = "serve" /\ sendChan # <<>>
    /\ sendChan' = Tail(sendChan)
    /\ \/ /\ WriteOk(link)
          /\ written' = written \cup {Head(sendChan)} /\ UNCHANGED <<lost, lpc>>
       \/ /\ WriteErr(link)
          /\ lost' = lost \cup {Head(sendChan)}
          /\ lpc' = [lpc EXCEPT ![l] = "stop"] /\ UNCHANGED written
    /\ LoopFrame /\ UNCHANGED <<runVars, wconn, linkVars>>

\* connDone of the watched cycle is closed.
LoopLeave(l) ==
    /\ lpc[l] = "serve" /\ (link = 0 \/ watch[l] < links)
    /\ lpc' = [lpc EXCEPT ![l] = "stop"]
    /\ LoopFrame /\ UNCHANGED <<runVars, wconn, linkVars, outVars>>

MutWriterStop(l) ==
    /\ lpc[l] = "stop" /\ MuFree
    /\ IF started
       THEN started' = FALSE /\ lpc' = [lpc EXCEPT ![l] = "stopping"]
       ELSE UNCHANGED started /\ lpc' = [lpc EXCEPT ![l] = "ended"]
    /\ LoopFrame /\ UNCHANGED <<wpc, done, wconn, linkVars, outVars>>

\* The deferred writer.Stop: nothing if it is stopped already.
WriterStop(l) ==
    /\ lpc[l] = "stop" /\ MuFree
    /\ IF started
       THEN started' = FALSE /\ done' = TRUE /\ lpc' = [lpc EXCEPT ![l] = "stopping"]
       ELSE UNCHANGED <<started, done>> /\ lpc' = [lpc EXCEPT ![l] = "ended"]
    /\ LoopFrame /\ UNCHANGED <<wpc, wconn, linkVars, outVars>>

WriterStopped(l) ==
    /\ lpc[l] = "stopping" /\ wpc = "off"
    /\ lpc' = [lpc EXCEPT ![l] = "ended"]
    /\ LoopFrame /\ UNCHANGED <<runVars, wconn, linkVars, outVars>>

WriteLoop(l) ==
    \/ AddConnection(l) \/ LoopStart(l) \/ LoopServe(l) \/ LoopLeave(l)
    \/ WriterStop(l) \/ WriterStopped(l)

WqNext ==
    \/ \E p \in Producer : Send(p)
    \/ WriterLoop
    \/ \E l \in Link : WriteLoop(l)
    \/ LinkUp \/ LinkDown

WqSpec == WqInit /\ [][WqNext]_wqVars

-----------------------------------------------------------------------------
(* Fairness: the scheduler runs every goroutine that can run.  The select  *)
(* of writerLoop chooses at random between done and notEmpty, so a closed  *)
(* done is taken in the end.  Nothing makes a producer begin a Send.       *)

WqFairness ==
    /\ \A p \in Producer : WF_wqVars(Send(p) /\ ~SendBegin(p))
    /\ WF_wqVars(WriterLoop) /\ SF_wqVars(WriterExit)
    /\ \A l \in Link : WF_wqVars(WriteLoop(l))

WqFairSpec == WqSpec /\ WqFairness

-----------------------------------------------------------------------------
(* Properties                                                              *)

ProducerPC == {"idle", "check", "head", "tail", "cas", "write", "ready", "signal",
               "fallback"}
WriterPC == {"off", "wait", "load", "spin", "clear", "advance", "flush"}
LoopPC   == {"none", "spawn", "start", "serve", "stop", "stopping", "ended"}

\* Types; PopBatch and sendChan keep their limits, and a batch never holds a nil.
WqTypeOK ==
    /\ head \in Nat /\ tail \in Nat /\ notEmpty \in BOOLEAN
    /\ msg \in [Slot -> Message \cup {NoMessage}] /\ ready \in [Slot -> BOOLEAN]
    /\ ppc \in [Producer -> ProducerPC] /\ phead \in [Producer -> Nat]
    /\ sends \in [Producer -> 0 .. MaxSends]
    /\ wpc \in WriterPC /\ batch \in Seq(Message) /\ Len(batch) <= writerBatchSize
    /\ started \in BOOLEAN /\ done \in BOOLEAN /\ wconn \in 0 .. MaxLinks
    /\ sendChan \in Seq(Message) /\ Len(sendChan) <= SendCap
    /\ link \in 0 .. MaxLinks /\ links \in 0 .. MaxLinks
    /\ lpc \in [Link -> LoopPC] /\ watch \in [Link -> 0 .. MaxLinks]
    /\ taken \in Seq(Message) /\ written \subseteq Message /\ lost \subseteq Message

\* A producer past its CompareAndSwap and not yet visible to the consumer.
Claims(p) == ppc[p] \in {"write", "ready"}

\* No lap: a producer about to fill its claimed slot finds it empty, and no other
\* producer holds it, so no queued message is ever overwritten.
SlotExclusive ==
    \A p \in Producer : Claims(p) =>
        /\ ~ready[SlotOf(phead[p])]
        /\ ppc[p] = "write" => msg[SlotOf(phead[p])] = NoMessage
        /\ \A q \in Producer \ {p} :
              Claims(q) => SlotOf(phead[q]) # SlotOf(phead[p])

\* The claimed and unread part of the ring as a sequence.
MessageAt(i) ==
    LET own == {p \in Producer : Claims(p) /\ phead[p] = i}
    IN  IF own # {} THEN Current(CHOOSE p \in own : TRUE) ELSE msg[SlotOf(i)]

NextToTake == IF wpc \in {"clear", "advance"} THEN tail + 1 ELSE tail

Waiting == [k \in 1 .. head - NextToTake |-> MessageAt(NextToTake + k - 1)]

Fifo == INSTANCE BoundedFifo
            WITH Capacity <- ringBufferSize, waiting <- Waiting, taken <- taken

\* The ring implements a bounded FIFO queue: every message whose slot was claimed
\* is handed to writerLoop exactly once and in claim order.
RefinesFifo == Fifo!Spec

\* No producer is between its CompareAndSwap and its signal.
Quiet == \A p \in Producer : ppc[p] \notin {"write", "ready", "signal"}

\* A writer that waits after a batch that was not full has its token whenever the
\* ring holds a message: the wake-up of a Push is not lost.
NoLostWakeup ==
    wpc = "wait" /\ Quiet /\ tail < head /\ Len(batch) < writerBatchSize => notEmpty

\* Messages some queue or the batch in flush still holds.
Queued == {msg[s] : s \in Slot} \cup InSeq(sendChan)
              \cup (IF wpc \in {"off", "wait"} THEN {} ELSE InSeq(batch))

\* No message is put on a connection twice, nor written after it was dropped, nor
\* written while it is still queued (Peer.Send, flushBatch, writeLoop).
WriteOnce ==
    /\ written \cap lost = {}
    /\ (written \cup lost) \cap Queued = {}

\* writer.Stop returns although it holds the mutex and waits for a writerLoop that
\* may spin on a slot whose producer has not finished.
WriterStopReturns == \A l \in Link : lpc[l] = "stopping" ~> lpc[l] = "ended"

=============================================================================
