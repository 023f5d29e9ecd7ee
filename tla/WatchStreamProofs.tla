------------------------- MODULE WatchStreamProofs --------------------------
(***************************************************************************)
(* Proofs about one gRPC watch stream, for any number of watches, any      *)
(* buffer sizes and any order of the client's requests, lost connections   *)
(* and closed subscriptions.                                               *)
(***************************************************************************)
EXTENDS WatchStream, TLAPS

ReaderState ==
    [pc : {"none", "create", "read", "send", "forget", "tell", "ended"}, last : BOOLEAN]

SourceState ==
    [subOpen : BOOLEAN, sub : Nat, open : BOOLEAN, queued : Nat, published : Nat]

\* Types, as far as the proof needs them.
StreamTypes ==
    /\ loop \in [pc : {"receiving", "answering", "closing", "returned"}, id : SUBSET Ids]
    /\ watches \subseteq Ids
    /\ ctxDone \subseteq Ids
    /\ reader \in [Ids -> ReaderState]
    /\ source \in [Ids -> SourceState]
    /\ told \in [Ids -> {"nothing", "created", "events", "canceled"}]
    /\ broken \in BOOLEAN

\* The table and the contexts: a watch is in the table from its start until it
\* is forgotten, and then its context is done.
TableInv(i) ==
    /\ At(i, "none") => i \notin watches
    /\ ~At(i, "none") => i \in watches \cup ctxDone
    /\ reader[i].pc \in {"tell", "ended"} => i \notin watches

\* The channel: there is none before the watch is created, the subscription is
\* closed before it, and a goroutine that returns has seen its end.
ChannelInv(i) ==
    /\ source[i].subOpen => source[i].open
    /\ reader[i].pc \in {"none", "create"} \/ reader[i].last => ~source[i].open
    /\ reader[i].pc \in {"none", "create", "read", "send"} => ~reader[i].last
    /\ At(i, "ended") => reader[i].last

\* What the client was told last.
ToldInv(i) == At(i, "ended") /\ ~broken => told[i] = "canceled"

StreamInv ==
    /\ StreamTypes
    /\ \A i \in Ids : TableInv(i) /\ ChannelInv(i) /\ ToldInv(i)
    /\ loop.pc = "returned" => \A i \in Ids : At(i, "none") \/ At(i, "ended")

-----------------------------------------------------------------------------

\* A step of the goroutine of a watch, or of the goroutines behind it, concerns
\* that watch only.
LEMMA OneWatchStep ==
    ASSUME StreamInv, StreamTypes', NEW i \in Ids,
           \A j \in Ids \ {i} : /\ reader'[j] = reader[j]
                                /\ source'[j] = source[j]
                                /\ told'[j] = told[j]
                                /\ j \in watches' <=> j \in watches
                                /\ j \in ctxDone' <=> j \in ctxDone,
           broken' = broken,
           TableInv(i)', ChannelInv(i)', ToldInv(i)',
           loop'.pc = "returned" => loop.pc = "returned" /\ reader'[i].pc \in {"none", "ended"}
    PROVE  StreamInv'
  <1>1. ASSUME NEW j \in Ids \ {i}
        PROVE  TableInv(j)' /\ ChannelInv(j)' /\ ToldInv(j)'
    BY DEF StreamInv, TableInv, ChannelInv, ToldInv, At
  <1> QED BY <1>1 DEF StreamInv, At

LEMMA StreamInit == Init => StreamInv
  <1> SUFFICES ASSUME Init PROVE StreamInv
    OBVIOUS
  <1>1. NoSource \in SourceState /\ ~NoSource.open /\ ~NoSource.subOpen
    BY DEF NoSource, SourceState
  <1>2. StreamTypes
    BY <1>1 DEF Init, StreamTypes, ReaderState
  <1>3. \A i \in Ids : TableInv(i) /\ ChannelInv(i) /\ ToldInv(i)
    BY <1>1 DEF Init, TableInv, ChannelInv, ToldInv, At
  <1> QED BY <1>2, <1>3 DEF Init, StreamInv

\* The receive loop.
LEMMA LoopSteps ==
    ASSUME StreamInv, Answer \/ RecvFails \/ Return \/ Break
    PROVE  StreamInv'
  <1>1. CASE Answer
    <2>1. PICK i \in loop.id : Tell(i, "canceled")
      BY <1>1 DEF Answer
    <2>2. i \in Ids
      BY DEF StreamInv, StreamTypes
    <2> QED BY <1>1, <2>1, <2>2 DEF Answer, Tell, StreamInv, StreamTypes, TableInv,
                                    ChannelInv, ToldInv, At
  <1>2. CASE RecvFails
    BY <1>2 DEF RecvFails, StreamInv, StreamTypes, TableInv, ChannelInv, ToldInv, At
  <1>3. CASE Return
    BY <1>3 DEF Return, StreamInv, StreamTypes, TableInv, ChannelInv, ToldInv, At
  <1>4. CASE Break
    BY <1>4 DEF Break, StreamInv, StreamTypes, TableInv, ChannelInv, ToldInv, At
  <1> QED BY <1>1, <1>2, <1>3, <1>4

\* A client's request about a watch.
LEMMA RequestSteps ==
    ASSUME StreamInv, NEW i \in Ids, RecvCreate(i) \/ RecvCancel(i)
    PROVE  StreamInv'
  <1> USE DEF StreamInv, StreamTypes, ReaderState
  <1>1. CASE RecvCreate(i)
    <2>1. StreamTypes'
      BY <1>1 DEF RecvCreate, Go
    <2>2. TableInv(i)' /\ ChannelInv(i)' /\ ToldInv(i)'
      BY <1>1 DEF RecvCreate, Go, TableInv, ChannelInv, ToldInv, At
    <2> QED BY <1>1, <2>1, <2>2, OneWatchStep DEF RecvCreate, Go
  <1>2. CASE RecvCancel(i)
    <2>1. StreamTypes'
      BY <1>2 DEF RecvCancel, Forget
    <2>2. TableInv(i)' /\ ChannelInv(i)' /\ ToldInv(i)'
      BY <1>2 DEF RecvCancel, Forget, TableInv, ChannelInv, ToldInv, At
    <2> QED BY <1>2, <2>1, <2>2, OneWatchStep DEF RecvCancel, Forget
  <1> QED BY <1>1, <1>2

\* The goroutine of a watch.
LEMMA ReaderSteps ==
    ASSUME StreamInv, NEW i \in Ids, ReaderStep(i)
    PROVE  StreamInv'
  <1> USE DEF StreamInv, StreamTypes, ReaderState
  <1>1. CASE SendCreated(i)
    <2>1. CASE /\ Tell(i, "created")
               /\ Go(i, "read")
               /\ source' = [source EXCEPT ![i].subOpen = TRUE, ![i].open = TRUE]
      <3>1. told' \in [Ids -> {"nothing", "created", "events", "canceled"}]
        BY <2>1 DEF Tell
      <3>2. /\ source' \in [Ids -> SourceState]
            /\ source'[i].subOpen /\ source'[i].open
        BY <2>1 DEF SourceState
      <3>3. /\ reader' \in [Ids -> ReaderState]
            /\ reader'[i].pc = "read" /\ reader'[i].last = reader[i].last
        BY <2>1 DEF Go
      <3>4. StreamTypes'
        BY <1>1, <3>1, <3>2, <3>3 DEF SendCreated
      <3>5. TableInv(i)' /\ ChannelInv(i)' /\ ToldInv(i)'
        BY <1>1, <3>2, <3>3 DEF SendCreated, TableInv, ChannelInv, ToldInv, At
      <3> QED BY <1>1, <2>1, <3>4, <3>5, OneWatchStep DEF SendCreated, Tell, Go, At
    <2>2. CASE /\ reader' = [reader EXCEPT ![i] = [pc |-> "forget", last |-> TRUE]]
               /\ UNCHANGED <<told, source>>
      <3>1. /\ reader' \in [Ids -> ReaderState]
            /\ reader'[i].pc = "forget" /\ reader'[i].last
        BY <2>2
      <3>2. StreamTypes'
        BY <1>1, <2>2, <3>1 DEF SendCreated
      <3>3. TableInv(i)' /\ ChannelInv(i)' /\ ToldInv(i)'
        BY <1>1, <2>2, <3>1 DEF SendCreated, TableInv, ChannelInv, ToldInv, At
      <3> QED BY <1>1, <2>2, <3>2, <3>3, OneWatchStep DEF SendCreated, At
    <2> QED BY <1>1, <2>1, <2>2 DEF SendCreated
  <1>2. CASE ReadBatch(i)
    <2>1. /\ source' \in [Ids -> SourceState]
          /\ source'[i].subOpen = source[i].subOpen /\ source'[i].open = source[i].open
      BY <1>2 DEF ReadBatch, SourceState
    <2>2. /\ reader' \in [Ids -> ReaderState]
          /\ reader'[i].pc \in {"read", "send"} /\ reader'[i].last = reader[i].last
      BY <1>2 DEF ReadBatch, Go, At
    <2>3. StreamTypes'
      BY <1>2, <2>1, <2>2 DEF ReadBatch
    <2>4. TableInv(i)' /\ ChannelInv(i)' /\ ToldInv(i)'
      BY <1>2, <2>1, <2>2 DEF ReadBatch, TableInv, ChannelInv, ToldInv, At
    <2> QED BY <1>2, <2>3, <2>4, OneWatchStep DEF ReadBatch, Go, At
  <1>3. CASE SendEvents(i)
    <2>1. StreamTypes'
      <3>1. told' \in [Ids -> {"nothing", "created", "events", "canceled"}]
        BY <1>3 DEF SendEvents, Tell
      <3>2. reader' \in [Ids -> ReaderState]
        BY <1>3 DEF SendEvents, Go
      <3> QED BY <1>3, <3>1, <3>2 DEF SendEvents
    <2>2. TableInv(i)' /\ ChannelInv(i)' /\ ToldInv(i)'
      BY <1>3 DEF SendEvents, Tell, Go, TableInv, ChannelInv, ToldInv, At
    <2> QED BY <1>3, <2>1, <2>2, OneWatchStep DEF SendEvents, Tell, Go, At
  <1>4. CASE EndOfChannel(i)
    <2>1. StreamTypes'
      BY <1>4 DEF EndOfChannel
    <2>2. TableInv(i)' /\ ChannelInv(i)' /\ ToldInv(i)'
      BY <1>4 DEF EndOfChannel, TableInv, ChannelInv, ToldInv, At
    <2> QED BY <1>4, <2>1, <2>2, OneWatchStep DEF EndOfChannel, At
  <1>5. CASE ForgetWatch(i)
    <2>1. StreamTypes'
      BY <1>5 DEF ForgetWatch, Forget, Go
    <2>2. TableInv(i)' /\ ChannelInv(i)' /\ ToldInv(i)'
      BY <1>5 DEF ForgetWatch, Forget, Go, TableInv, ChannelInv, ToldInv, At
    <2> QED BY <1>5, <2>1, <2>2, OneWatchStep DEF ForgetWatch, Forget, Go, At
  <1>6. CASE SendCanceled(i)
    <2>1. StreamTypes'
      BY <1>6 DEF SendCanceled, Tell, Go
    <2>2. TableInv(i)' /\ ChannelInv(i)' /\ ToldInv(i)'
      BY <1>6 DEF SendCanceled, Tell, Go, TableInv, ChannelInv, ToldInv, At
    <2> QED BY <1>6, <2>1, <2>2, OneWatchStep DEF SendCanceled, Tell, Go, At
  <1> QED BY <1>1, <1>2, <1>3, <1>4, <1>5, <1>6 DEF ReaderStep

LEMMA SourceUpdate ==
    ASSUME NEW s \in SourceState, NEW p \in Nat, NEW n \in Nat, NEW b \in BOOLEAN
    PROVE  [s EXCEPT !.published = p, !.sub = n, !.subOpen = b] \in SourceState
  BY Zenon DEF SourceState

\* LogStructured.Watch and the broadcaster.
LEMMA SourceSteps ==
    ASSUME StreamInv, NEW i \in Ids,
           Publish(i) \/ CloseSub(i) \/ Forward(i) \/ CloseResult(i)
    PROVE  StreamInv'
  <1> USE DEF StreamInv, StreamTypes, ReaderState
  <1> DEFINE s == source[i]
  <1>1. /\ s \in SourceState /\ (s.subOpen => s.open)
        /\ s.sub \in Nat /\ s.queued \in Nat /\ s.published \in Nat
        /\ s.subOpen \in BOOLEAN /\ s.open \in BOOLEAN
    BY DEF ChannelInv, SourceState
  <1>2. \E new \in SourceState : /\ source' = [source EXCEPT ![i] = new]
                                 /\ new.subOpen => s.subOpen
                                 /\ new.open => s.open
                                 /\ new.subOpen => new.open
    <2>1. CASE Publish(i)
      <3> DEFINE room == s.sub < SubCap
                 n == IF room THEN s.sub + 1 ELSE s.sub
                 new == [s EXCEPT !.published = @ + 1, !.sub = n, !.subOpen = room]
      <3>1. room \in BOOLEAN /\ n \in Nat
        BY <1>1
      <3>2. source' = [source EXCEPT ![i] = new]
        BY <2>1 DEF Publish
      <3> HIDE DEF room, n
      <3>3. new \in SourceState
        <4>1. s.published + 1 \in Nat
          BY <1>1
        <4> QED BY <1>1, <3>1, <4>1, SourceUpdate
      <3>4. s.subOpen /\ new.open = s.open
        BY <1>1, <2>1 DEF Publish, SourceState
      <3> QED BY <1>1, <3>2, <3>3, <3>4
    <2>2. CASE CloseSub(i)
      <3> DEFINE new == [s EXCEPT !.subOpen = FALSE]
      <3>1. new \in SourceState /\ ~new.subOpen /\ new.open = s.open
        BY <1>1 DEF SourceState
      <3>2. source' = [source EXCEPT ![i] = new]
        BY <2>2 DEF CloseSub
      <3> QED BY <3>1, <3>2
    <2>3. CASE Forward(i)
      <3> DEFINE new == [s EXCEPT !.sub = @ - 1, !.queued = @ + 1]
      <3>1. new \in SourceState /\ new.subOpen = s.subOpen /\ new.open = s.open
        BY <1>1, <2>3 DEF Forward, SourceState
      <3>2. source' = [source EXCEPT ![i] = new]
        BY <2>3 DEF Forward
      <3> QED BY <1>1, <3>1, <3>2
    <2>4. CASE CloseResult(i)
      <3> DEFINE new == [s EXCEPT !.open = FALSE]
      <3>1. new \in SourceState /\ ~new.open /\ new.subOpen = s.subOpen /\ ~s.subOpen
        BY <1>1, <2>4 DEF CloseResult, SourceState
      <3>2. source' = [source EXCEPT ![i] = new]
        BY <2>4 DEF CloseResult
      <3> QED BY <3>1, <3>2
    <2> QED BY <2>1, <2>2, <2>3, <2>4
  <1>3. /\ source' \in [Ids -> SourceState]
        /\ source'[i].subOpen => s.subOpen
        /\ source'[i].open => s.open
        /\ source'[i].subOpen => source'[i].open
        /\ \A j \in Ids \ {i} : source'[j] = source[j]
    BY <1>2
  <1>4. UNCHANGED <<loop, watches, ctxDone, reader, told, broken, cancels>>
    BY DEF Publish, CloseSub, Forward, CloseResult
  <1>5. TableInv(i)' /\ ChannelInv(i)' /\ ToldInv(i)'
    BY <1>3, <1>4 DEF TableInv, ChannelInv, ToldInv, At
  <1> QED BY <1>3, <1>4, <1>5, OneWatchStep DEF At

\* The invariant holds throughout the life of a stream.
THEOREM StreamInvariance == Spec => []StreamInv
  <1>1. StreamInv /\ Next => StreamInv'
    BY LoopSteps, RequestSteps, ReaderSteps, SourceSteps DEF Next
  <1>2. StreamInv /\ UNCHANGED vars => StreamInv'
    BY DEF vars, StreamInv, StreamTypes, TableInv, ChannelInv, ToldInv, At
  <1> QED BY <1>1, <1>2, StreamInit, PTL DEF Spec

\* The handler of a stream leaves no goroutine, subscription or channel behind.
THEOREM StreamLeavesNothing == Spec => []NothingOutlivesTheStream
  <1>1. StreamInv => NothingOutlivesTheStream
    BY DEF StreamInv, NothingOutlivesTheStream, ChannelInv, StreamTypes, At
  <1> QED BY <1>1, StreamInvariance, PTL

\* A watch that has ended is out of the table and its context is released,
\* whoever of the receive loop and its goroutine forgot it first.
THEOREM EndedForgotten == Spec => []EndedIsForgotten
  <1>1. StreamInv => EndedIsForgotten
    BY DEF StreamInv, EndedIsForgotten, TableInv, StreamTypes, At
  <1> QED BY <1>1, StreamInvariance, PTL

\* The last response about a watch that has ended says that it was cancelled.
THEOREM EndIsTold == Spec => []ClientHearsTheEnd
  <1>1. StreamInv => ClientHearsTheEnd
    BY DEF StreamInv, ClientHearsTheEnd, ToldInv
  <1> QED BY <1>1, StreamInvariance, PTL
=============================================================================
