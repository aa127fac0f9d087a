------------------------------ MODULE LogWriter ------------------------------
(***************************************************************************)
(* lib/log_writer.cpp: the queue listener that turns queued traces into    *)
(* messages for the collector.  A trace's addresses are looked up one by   *)
(* one; a function or file the collector has not been told of is sent      *)
(* first, in a message of its own, and the sample refers to it by id.      *)
(* Every send waits by running the io_service, so the session can end      *)
(* inside it; the rest of the trace is then recorded without one.          *)
(***************************************************************************)
EXTENDS CircularQueue, SymbolTable

CONSTANT MaxLost  \* bound on the names whose send fails in a session

VARIABLES
    state_,     \* the controller's state, as far as pop and send look at it
    writer,     \* where the processor thread is in the record of an entry
    threadIdToInformation,  \* threads whose name has been looked up
    told,       \* what the collector knows: id -> the message it got
    lost        \* ids whose message was sent in this session and not delivered

writerVars == <<writer, threadIdToInformation>>
sessionVars == <<state_, told, lost>>

\* Not recording; the records below are the steps of recordStackTrace.
Loop == [at |-> "loop", polls |-> 0, read |-> FALSE, index |-> 0,
         entries |-> << >>, locations |-> << >>, messages |-> << >>]

WriterInit ==
    /\ writer = Loop
    /\ threadIdToInformation = {}
    /\ told = << >>
    /\ lost = {}

isConnected == state_ = "CONNECTED"

-----------------------------------------------------------------------------
(* sendWithSize as the writer sees it: nothing is sent without a session;  *)
(* a send is delivered or fails; in it, or because of its error, the       *)
(* session may end.  Only some errors end it.                              *)

\* The collector keeps what it was told for the session.
EndSession ==
    /\ state_' = "DISCONNECTED"
    /\ told' = << >>
    /\ lost' = {}

\* A message about an id: the collector knows it, or it is lost.
SendName(message, delivered) ==
    /\ UNCHANGED state_
    /\ IF delivered
         THEN told' = Known(told, message.id, message) /\ UNCHANGED lost
         ELSE lost' = lost \cup {message.id} /\ UNCHANGED told

-----------------------------------------------------------------------------
(* recordNotification *)

\* Sent in a session, stashed without one.
recordNotification == UNCHANGED sessionVars \/ (isConnected /\ EndSession)

(* recordStackTrace *)

\* threadName: a name is looked up once; an error is a notification.
threadName(t, failed) ==
    /\ threadIdToInformation' = threadIdToInformation \cup {t}
    /\ IF t \notin threadIdToInformation /\ failed
         THEN pushNotification ELSE UNCHANGED mainQueue

\* isError, and the number of frames there should be.
isError(s) == slots[s].num_frames < 0
numFrames(s) == IF isError(s) THEN -1 * slots[s].num_frames ELSE slots[s].num_frames

\* The record begins: the fields, the thread's name, the first frame.
BeginRecord ==
    /\ writer.at = "stack" /\ Ready
    /\ \E failed \in BOOLEAN : threadName(slots[output].threadId, failed)
    /\ writer' = [writer EXCEPT !.at = "frame", !.read = TRUE, !.entries = << >>,
                                !.index = NUMBER_OF_SIGNAL_HANDLER_FRAMES]
    /\ UNCHANGED <<handler, input, output, slots, frame_buffer_, captured,
                   symbolVars, sessionVars>>

\* The lookup of the next frame; its names are to be sent.
LookupFrame ==
    /\ writer.at = "frame"
    /\ writer.index < numFrames(output)
    /\ LET f == frame_buffer_[output][writer.index + 1]
           lookup == lookup_locations(Tables, f.frame, f.isForeign)
       IN  /\ Update(lookup)
           /\ writer' = [writer EXCEPT !.at = "names", !.messages = lookup.told,
                                       !.locations = lookup.locations]
    /\ UNCHANGED <<queueVars, threadIdToInformation, sessionVars>>

\* Mutant: one envelope for names and samples; a name clears the sample.
EntriesShared(entries) == << >>

\* The sample, in an envelope of its own, while a name is sent.
Entries(entries) == entries

\* onNewFile and onNewFunction: the next name is sent.
onNew ==
    /\ writer.at = "names"
    /\ writer.messages # << >>
    /\ \/ isConnected /\ SendName(Head(writer.messages), TRUE)
       \/ isConnected /\ Cardinality(lost) < MaxLost /\ SendName(Head(writer.messages), FALSE)
       \/ isConnected /\ EndSession
       \/ ~isConnected /\ UNCHANGED sessionVars
    /\ writer' = [writer EXCEPT !.messages = Tail(@), !.entries = Entries(@)]
    /\ UNCHANGED <<queueVars, symbolVars, threadIdToInformation>>

\* The ids of the frame's locations are added to the sample, unless it is
\* an error's.
addFrames ==
    /\ writer.at = "names"
    /\ writer.messages = << >>
    /\ writer' = [writer EXCEPT
            !.at = "frame", !.index = @ + 1, !.locations = << >>,
            !.entries = IF isError(output) THEN @
                        ELSE @ \o [k \in DOMAIN writer.locations |->
                                      writer.locations[k].methodId]]
    /\ UNCHANGED <<queueVars, symbolVars, threadIdToInformation, sessionVars>>

\* All frames are looked up: the sample is sent and pop finishes the slot.
SendSample ==
    /\ writer.at = "frame"
    /\ writer.index >= numFrames(output)
    /\ UNCHANGED sessionVars \/ (isConnected /\ EndSession)
    /\ FinishRead
    /\ writer' = [writer EXCEPT !.at = "popped", !.index = 0, !.entries = << >>]
    /\ UNCHANGED <<mainQueue, symbolVars, threadIdToInformation>>

recordStackTrace ==
    \/ BeginRecord
    \/ LookupFrame
    \/ onNew
    \/ addFrames
    \/ SendSample

\* onSocketConnected: the collector of a new session knows nothing.
onSocketConnected == clear_symbols

-----------------------------------------------------------------------------
(* Properties *)

\* The names of the functions at the frames looked up so far, as they are
\* found without a cache.
NamesOf(f) ==
    [k \in DOMAIN Pcinfo[f.frame] |->
        FunctionName(f.frame, handleSyminfo(f.frame, f.isForeign), Pcinfo[f.frame][k])]
NamesSoFar ==
    FlattenSeq([k \in 1 .. writer.index - NUMBER_OF_SIGNAL_HANDLER_FRAMES |->
                    NamesOf(captured[output][k + NUMBER_OF_SIGNAL_HANDLER_FRAMES])])

\* A sample that is being put together in a session can be read by the
\* collector: it has one id for each function on the walked stack, and each
\* id stands, in what this session has told the collector, for that
\* function.  The exception is a name whose send failed without ending the
\* session, which is not sent again.
SampleReadable ==
    (writer.at = "frame" /\ isConnected /\ ~isError(output)) =>
        /\ Len(writer.entries) = Len(NamesSoFar)
        /\ \A k \in DOMAIN writer.entries :
              LET id == writer.entries[k] IN
              IF id \in DOMAIN told THEN told[id].name = NamesSoFar[k] /\ told[id].kind = "method"
              ELSE id \in lost

\* A function the collector is told of in a session names a file it has
\* been told of before, or none.
ModulesTold ==
    isConnected =>
        \A id \in DOMAIN told :
            told[id].kind = "method" /\ told[id].moduleId # 0 =>
                told[id].moduleId \in DOMAIN told \cup lost

==============================================================================
