---------------------------- MODULE WatchStream ----------------------------
(***************************************************************************)
(* One gRPC watch stream (pkg/kine/server/watch.go): the loop that         *)
(* receives the client's requests, a goroutine for each watch, the table   *)
(* of cancel functions they share, and the channel through which           *)
(* LogStructured.Watch feeds each of them.                                 *)
(*                                                                         *)
(* What the events are is KineWatch's matter; here they are counted.       *)
(***************************************************************************)
EXTENDS Naturals

CONSTANTS
    Ids,         \* the watch ids this stream gets from the global counter
    SubCap,      \* batches a subscription of the broadcaster buffers
    ResultCap,   \* batches the channel of LogStructured.Watch buffers
    MaxBatches,  \* bound on the batches published to one watch
    MaxCancels   \* bound on the client's cancel requests

ASSUME StreamAssumption ==
    /\ SubCap \in Nat \ {0} /\ ResultCap \in Nat \ {0}
    /\ MaxBatches \in Nat /\ MaxCancels \in Nat

VARIABLES
    loop,     \* the receive loop; id: the watch of a cancel request in hand
    watches,  \* the ids in the table of cancel functions
    ctxDone,  \* the watches whose context is done
    reader,   \* the goroutine of each watch; last: it returns after Cancel
    source,   \* subscription and channel behind each watch
    told,     \* the last response the client got about each watch
    broken,   \* the connection is lost: Send fails
    cancels   \* cancel requests so far

vars == <<loop, watches, ctxDone, reader, source, told, broken, cancels>>

NoSource == [subOpen |-> FALSE, sub |-> 0, open |-> FALSE, queued |-> 0, published |-> 0]

Init ==
    /\ loop = [pc |-> "receiving", id |-> {}]
    /\ watches = {}
    /\ ctxDone = {}
    /\ reader = [i \in Ids |-> [pc |-> "none", last |-> FALSE]]
    /\ source = [i \in Ids |-> NoSource]
    /\ told = [i \in Ids |-> "nothing"]
    /\ broken = FALSE
    /\ cancels = 0

At(i, pc) == reader[i].pc = pc

Go(i, pc) == reader' = [reader EXCEPT ![i].pc = pc]

\* Send returns without an error; on a lost connection the response is lost.
Tell(i, response) == told' = [told EXCEPT ![i] = IF broken THEN @ ELSE response]

-----------------------------------------------------------------------------
(* watcher.Cancel: first the table, under the lock, then the response *)

\* Mutant: stays in the table.
ForgetNot(i) ==
    /\ ctxDone' = IF i \in watches THEN ctxDone \cup {i} ELSE ctxDone
    /\ UNCHANGED watches

Forget(i) ==
    /\ ctxDone' = IF i \in watches THEN ctxDone \cup {i} ELSE ctxDone
    /\ watches' = watches \ {i}

-----------------------------------------------------------------------------
(* The receive loop *)

\* watcher.Start.  A request may be read from a lost connection.
RecvCreate(i) ==
    /\ loop.pc = "receiving" /\ At(i, "none")
    /\ watches' = watches \cup {i}
    /\ ctxDone' = IF broken THEN ctxDone \cup {i} ELSE ctxDone
    /\ Go(i, "create")
    /\ UNCHANGED <<loop, source, told, broken, cancels>>

\* A client cancels a watch it was told of, whether or not it has ended.
RecvCancel(i) ==
    /\ loop.pc = "receiving" /\ told[i] # "nothing"
    /\ cancels < MaxCancels
    /\ cancels' = cancels + 1
    /\ Forget(i)
    /\ loop' = [pc |-> "answering", id |-> {i}]
    /\ UNCHANGED <<reader, source, told, broken>>

\* The error of this Send is dropped.
Answer ==
    /\ loop.pc = "answering"
    /\ \E i \in loop.id : Tell(i, "canceled")
    /\ loop' = [pc |-> "receiving", id |-> {}]
    /\ UNCHANGED <<watches, ctxDone, reader, source, broken, cancels>>

\* Mutant: does not cancel the watches.
RecvFailsQuietly ==
    /\ loop.pc = "receiving"
    /\ loop' = [loop EXCEPT !.pc = "closing"]
    /\ UNCHANGED <<watches, ctxDone, reader, source, told, broken, cancels>>

\* The client is gone or has closed its half; Close calls every cancel function.
RecvFails ==
    /\ loop.pc = "receiving"
    /\ loop' = [loop EXCEPT !.pc = "closing"]
    /\ ctxDone' = ctxDone \cup watches
    /\ UNCHANGED <<watches, reader, source, told, broken, cancels>>

\* Mutant: Close does not wait.
ReturnAtOnce ==
    /\ loop.pc = "closing"
    /\ loop' = [loop EXCEPT !.pc = "returned"]
    /\ UNCHANGED <<watches, ctxDone, reader, source, told, broken, cancels>>

\* Close waits for the goroutines, then the handler returns.
Return ==
    /\ loop.pc = "closing"
    /\ \A i \in Ids : At(i, "none") \/ At(i, "ended")
    /\ loop' = [loop EXCEPT !.pc = "returned"]
    /\ UNCHANGED <<watches, ctxDone, reader, source, told, broken, cancels>>

\* The connection is lost; with it the context of the stream is done.
Break ==
    /\ ~broken /\ loop.pc # "returned"
    /\ broken' = TRUE
    /\ ctxDone' = ctxDone \cup {i \in Ids : ~At(i, "none")}
    /\ UNCHANGED <<loop, watches, reader, source, told, cancels>>

-----------------------------------------------------------------------------
(* The goroutine of a watch *)

\* The created response, and then backend.Watch.
SendCreated(i) ==
    /\ At(i, "create")
    /\ \/ /\ Tell(i, "created")
          /\ Go(i, "read")
          /\ source' = [source EXCEPT ![i].subOpen = TRUE, ![i].open = TRUE]
       \/ /\ broken
          /\ reader' = [reader EXCEPT ![i] = [pc |-> "forget", last |-> TRUE]]
          /\ UNCHANGED <<told, source>>
    /\ UNCHANGED <<loop, watches, ctxDone, broken, cancels>>

\* A batch without events of this watch's keys is not sent.
ReadBatch(i) ==
    /\ At(i, "read") /\ source[i].queued > 0
    /\ source' = [source EXCEPT ![i].queued = @ - 1]
    /\ \/ Go(i, "send")
       \/ UNCHANGED reader
    /\ UNCHANGED <<loop, watches, ctxDone, told, broken, cancels>>

\* Mutant: the goroutine gives up after a failed Send.
SendEventsOrReturn(i) ==
    /\ At(i, "send")
    /\ \/ Tell(i, "events") /\ Go(i, "read")
       \/ /\ reader' = [reader EXCEPT ![i] = [pc |-> "forget", last |-> TRUE]]
          /\ UNCHANGED told
    /\ UNCHANGED <<loop, watches, ctxDone, source, broken, cancels>>

\* Send may fail for one response (its size) or because the connection is lost.
\* Then the watch is cancelled, and its channel is read on to the end.
SendEvents(i) ==
    /\ At(i, "send")
    /\ \/ Tell(i, "events") /\ Go(i, "read")
       \/ Go(i, "forget") /\ UNCHANGED told
    /\ UNCHANGED <<loop, watches, ctxDone, source, broken, cancels>>

EndOfChannel(i) ==
    /\ At(i, "read") /\ ~source[i].open /\ source[i].queued = 0
    /\ reader' = [reader EXCEPT ![i] = [pc |-> "forget", last |-> TRUE]]
    /\ UNCHANGED <<loop, watches, ctxDone, source, told, broken, cancels>>

\* Mutant: no response when the watch was cancelled before.
ForgetWatchOnce(i) ==
    /\ At(i, "forget")
    /\ Forget(i)
    /\ Go(i, CASE i \in watches -> "tell"
              [] i \notin watches /\ reader[i].last -> "ended"
              [] OTHER -> "read")
    /\ UNCHANGED <<loop, source, told, broken, cancels>>

ForgetWatch(i) ==
    /\ At(i, "forget")
    /\ Forget(i)
    /\ Go(i, "tell")
    /\ UNCHANGED <<loop, source, told, broken, cancels>>

SendCanceled(i) ==
    /\ At(i, "tell")
    /\ Tell(i, "canceled")
    /\ Go(i, IF reader[i].last THEN "ended" ELSE "read")
    /\ UNCHANGED <<loop, watches, ctxDone, source, broken, cancels>>

-----------------------------------------------------------------------------
(* LogStructured.Watch and the broadcaster behind it *)

Publish(i) ==
    /\ source[i].subOpen /\ source[i].published < MaxBatches
    /\ source' = [source EXCEPT ![i].published = @ + 1,
                                ![i].sub = IF @ < SubCap THEN @ + 1 ELSE @,
                                ![i].subOpen = source[i].sub < SubCap]
    /\ UNCHANGED <<loop, watches, ctxDone, reader, told, broken, cancels>>

\* Unsubscribed because the context is done, or because the poll loop stops.
CloseSub(i) ==
    /\ source[i].subOpen
    /\ source' = [source EXCEPT ![i].subOpen = FALSE]
    /\ UNCHANGED <<loop, watches, ctxDone, reader, told, broken, cancels>>

Forward(i) ==
    /\ source[i].sub > 0 /\ source[i].queued < ResultCap
    /\ source' = [source EXCEPT ![i].sub = @ - 1, ![i].queued = @ + 1]
    /\ UNCHANGED <<loop, watches, ctxDone, reader, told, broken, cancels>>

CloseResult(i) ==
    /\ source[i].open /\ ~source[i].subOpen /\ source[i].sub = 0
    /\ source' = [source EXCEPT ![i].open = FALSE]
    /\ UNCHANGED <<loop, watches, ctxDone, reader, told, broken, cancels>>

-----------------------------------------------------------------------------

ReaderStep(i) ==
    \/ SendCreated(i) \/ ReadBatch(i) \/ SendEvents(i) \/ EndOfChannel(i)
    \/ ForgetWatch(i) \/ SendCanceled(i)

Next ==
    \/ Answer \/ RecvFails \/ Return \/ Break
    \/ \E i \in Ids :
          \/ RecvCreate(i) \/ RecvCancel(i)
          \/ ReaderStep(i)
          \/ Publish(i) \/ CloseSub(i) \/ Forward(i) \/ CloseResult(i)

Spec == Init /\ [][Next]_vars

\* Goroutines run, Send returns, the broadcaster notices a context that is done,
\* and Recv fails on a lost connection.
FairSpec ==
    /\ Spec
    /\ WF_vars(Answer) /\ WF_vars(broken /\ RecvFails) /\ WF_vars(Return)
    /\ \A i \in Ids :
          /\ WF_vars(ReaderStep(i))
          /\ WF_vars(i \in ctxDone /\ CloseSub(i))
          /\ WF_vars(Forward(i)) /\ WF_vars(CloseResult(i))

-----------------------------------------------------------------------------
(* Properties *)

\* When the handler has returned nothing of a watch is left: no goroutine that
\* would call Send on a finished stream, no subscription, and no goroutine of
\* LogStructured.Watch, for which the shutdown waits.
NothingOutlivesTheStream ==
    loop.pc = "returned" => \A i \in Ids :
        /\ At(i, "none") \/ At(i, "ended")
        /\ ~source[i].subOpen /\ ~source[i].open

\* A watch that has ended is in no table, and its context is released.
EndedIsForgotten ==
    \A i \in Ids : At(i, "ended") => i \notin watches /\ i \in ctxDone

\* Whatever order the client's cancel request, a failed Send and the end of the
\* channel come in, the last thing a connected client hears of a watch that has
\* ended is that it was cancelled.
ClientHearsTheEnd ==
    \A i \in Ids : At(i, "ended") /\ ~broken => told[i] = "canceled"

\* A watch whose context is done ends, and with it the goroutine that feeds it:
\* it is not left blocked on a channel that nobody reads.
CancelledWatchEnds ==
    \A i \in Ids : i \in ctxDone ~> (At(i, "ended") /\ ~source[i].open)

\* Once Recv has failed the handler returns.
StreamReturns == loop.pc = "closing" ~> loop.pc = "returned"
=============================================================================
