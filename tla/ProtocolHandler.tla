--------------------------- MODULE ProtocolHandler ---------------------------
(***************************************************************************)
(* lib/protocol_handler.cpp: the chain of asynchronous reads that parses   *)
(* the collector's messages and hands them to the controller.  There is    *)
(* one buffer, so there may be only one read at a time.                    *)
(***************************************************************************)
EXTENDS CollectorController

\* A read may be handled wherever the io_service runs.  On a closed socket
\* it has been aborted, or had completed before.
ReadReady(phase) == RunsHandlers /\ read = phase

\* attemptRead: ask for the next header, if there is a connection.
NextHeader == IF isConnected THEN "header" ELSE "none"

attemptRead ==
    /\ Running = "attemptRead"
    /\ read' = IF isConnected THEN "header" ELSE read
    /\ stack' = Return
    /\ UNCHANGED <<armed, fired, ec, sock, isConnected, isSending, controllerVars>>

\* Mutant: the header's handler asks for the body and for the next header.
HeaderReadsOn ==
    /\ ReadReady("header")
    /\ read' = IF isConnected THEN "body" ELSE "none"
    /\ stack' = Call(<<"attemptRead">>)
    /\ UNCHANGED <<armed, fired, ec, sock, isConnected, isSending, controllerVars>>

\* onReadHeader: an error ends the chain, a header asks for its body, and
\* one whose length cannot be parsed is skipped.
onReadHeader ==
    /\ ReadReady("header")
    /\ \/ read' = "none"
       \/ read' = IF isConnected THEN "body" ELSE "none"
       \/ read' = NextHeader
    /\ UNCHANGED <<stack, armed, fired, ec, sock, isConnected, isSending, controllerVars>>

\* onReadBody, on an error, an unknown message or one that does not parse.
SkipBody ==
    /\ ReadReady("body")
    /\ read' = NextHeader
    /\ UNCHANGED <<stack, armed, fired, ec, sock, isConnected, isSending, controllerVars>>

\* onReadBody: the message is handled, then the next header asked for.
onReadBody ==
    /\ ReadReady("body")
    /\ read' = "none"
    /\ \/ onTerminate(<<"attemptRead">>)
       \/ onHeartbeat(<<"attemptRead">>)
       \/ onSampleRate(<<"attemptRead">>)
       \/ SampleRateWaits(<<"attemptRead">>)
    /\ UNCHANGED <<fired, ec, sock, isConnected, isSending>>

==============================================================================
