------------------------------- MODULE Network -------------------------------
(***************************************************************************)
(* lib/network.cpp: the TLS socket to the collector and the io_service     *)
(* that runs every callback of the agent.                                  *)
(*                                                                         *)
(* One thread, the processor thread, runs all of this, but its calls nest: *)
(* a send or a connect waits by running the io_service, which runs timer   *)
(* and read handlers inside it, and close() drains the io_service, which   *)
(* does the same.  The thread is therefore a stack of frames, the running  *)
(* one first.  An action is the code between two calls; a call pushes      *)
(* frames, a return drops one.                                             *)
(*                                                                         *)
(* This module constrains the variables of the network only; the           *)
(* controller's variables are left to the modules that extend it.          *)
(***************************************************************************)
EXTENDS Integers, Sequences

CONSTANTS
    prometheusEnabled,  \* the agent exports to Prometheus and never connects
    ConnectRace         \* a connect may already have completed, unhandled,
                        \* when another handler closes the socket

ASSUME NetworkAssumption ==
    /\ prometheusEnabled \in BOOLEAN
    /\ ConnectRace \in BOOLEAN

VARIABLES
    stack,        \* the frames of the processor thread, running frame first
    armed,        \* the timers with a wait in progress
    fired,        \* the timers with an expired wait whose handler is queued
    ec,           \* the error_code local of the wait in progress
    sock,         \* sock_: "null", or is its lowest layer "open" or "closed"
    isConnected,  \* isConnected_
    isSending,    \* isSending_
    read          \* the outstanding async_read: "none", "header" or "body"

networkVars == <<stack, armed, fired, ec, sock, isConnected, isSending, read>>

\* The controller's timers, and the timeout of each kind of wait.
Timers == {"send", "receive", "statistics", "resolve", "connect", "write"}

\* A message on its way into sendWithSize.
Messages == {"hello", "heartbeat", "statistics", "item", "stashed"}

\* The waits of connect() and sendWithSize (awaitCompletionOrTimeout).
Waits == {"resolve", "connect", "write"}

Frames == Waits \cup Messages \cup
    {"loop", "drain", "sendEnd", "onSocketConnect", "onSentHello", "sendStashed", "scheduleAll",
     "scheduleSend", "scheduleReceive", "scheduleStatistics", "onDisconnect",
     "disable", "blocked", "attemptRead", "pop", "exit", "ended", "crashed"}

\* The frames at the bottom of the stack: they are never returned from.
Bases == {"loop", "exit", "ended", "crashed"}

WellFormed(s) ==
    /\ s \in Seq(Frames)
    /\ Len(s) > 0
    /\ s[Len(s)] \in Bases

NetworkType ==
    /\ WellFormed(stack)
    /\ armed \subseteq Timers
    /\ fired \subseteq Timers
    /\ ec \in {"none", "would_block", "ok", "reset", "other"}
    /\ sock \in {"null", "open", "closed"}
    /\ isConnected \in BOOLEAN
    /\ isSending \in BOOLEAN
    /\ read \in {"none", "header", "body"}

NetworkInit ==
    /\ stack = <<"loop">>
    /\ armed = {}
    /\ fired = {}
    /\ ec = "none"
    /\ sock = "null"
    /\ isConnected = FALSE
    /\ isSending = FALSE
    /\ read = "none"

Running == Head(stack)
InProgress(frame) == \E k \in DOMAIN stack : stack[k] = frame

\* Where the io_service runs handlers: network_.poll(), the drain, and a
\* wait until its operation has completed.
RunsHandlers ==
    \/ Running \in {"loop", "drain"}
    \/ Running \in Waits /\ ec = "would_block"

Call(frames) == frames \o stack           \* call, and come back here
Continue(frames) == frames \o Tail(stack) \* replace the running frame
Return == Tail(stack)

-----------------------------------------------------------------------------
(* closeSocket and close *)

closeSocket ==
    /\ sock' = IF sock = "null" THEN "null" ELSE "closed"
    /\ isConnected' = IF sock = "null" THEN isConnected ELSE FALSE

\* close(), then the frames that follow: an existing socket is closed and
\* the io_service drained before the socket is deleted.
close(then) ==
    /\ closeSocket
    /\ stack' = IF sock = "null" THEN then ELSE <<"drain">> \o then

\* Mutant: the socket is deleted without waiting for its handlers.
DeleteUndrained ==
    /\ Running = "drain"
    /\ sock' = "null"
    /\ stack' = Return
    /\ UNCHANGED <<armed, fired, ec, isConnected, isSending, read>>

\* The drain ends when no handler is ready: every operation of the closed
\* socket has been handled, and so has every expired timer.
DrainDone ==
    /\ Running = "drain"
    /\ fired = {}
    /\ read = "none"
    /\ ec # "would_block"
    /\ sock' = "null"
    /\ stack' = Return
    /\ UNCHANGED <<armed, fired, ec, isConnected, isSending, read>>

-----------------------------------------------------------------------------
(* Timers *)

\* A wait ends by itself.  The drain polls and does not wait, so time does
\* not pass in it.  Cancelling or restarting the timer later does not take
\* a queued handler back.
Expire(t) ==
    /\ t \in armed
    /\ t \notin fired
    /\ ~InProgress("drain")
    /\ armed' = armed \ {t}
    /\ fired' = fired \cup {t}
    /\ UNCHANGED <<stack, ec, sock, isConnected, isSending, read>>

\* onTimerRun.  setupTimeout binds a copy of the error_code, so the handler
\* ends a wait only by closing the socket, which the resolver's does not.
onTimerRun(t) ==
    /\ RunsHandlers
    /\ t \in fired
    /\ t \in Waits
    /\ fired' = fired \ {t}
    /\ IF t = "resolve" THEN UNCHANGED <<sock, isConnected>> ELSE closeSocket
    /\ UNCHANGED <<stack, armed, ec, isSending, read>>

-----------------------------------------------------------------------------
(* connect *)

\* connect() up to its first wait, the name resolution.
StartResolve ==
    /\ stack' = Call(<<"resolve">>)
    /\ ec' = "would_block"
    /\ armed' = armed \cup {"resolve"}
    /\ UNCHANGED <<fired, sock, isConnected, isSending, read>>

ResolveHandler ==
    /\ Running = "resolve"
    /\ ec = "would_block"
    /\ ec' \in {"ok", "other"}
    /\ UNCHANGED <<stack, armed, fired, sock, isConnected, isSending, read>>

\* Resolved: a new socket starts to connect.
StartConnect ==
    /\ Running = "resolve"
    /\ ec = "ok"
    /\ sock' = "open"
    /\ ec' = "would_block"
    /\ armed' = (armed \ {"resolve"}) \cup {"connect"}
    /\ stack' = Continue(<<"connect">>)
    /\ UNCHANGED <<fired, isConnected, isSending, read>>

\* Not resolved: connect() closes what there is and returns false.  (Its
\* run_one takes the handler of the cancelled timer, which does nothing.)
ResolveFailed ==
    /\ Running = "resolve"
    /\ ec = "other"
    /\ ec' = "none"
    /\ armed' = armed \ {"resolve"}
    /\ close(Return)
    /\ UNCHANGED <<fired, isSending, read>>

\* The completion of async_connect, in connect()'s own loop or in the drain
\* of a handler that closed the socket meanwhile.
ConnectHandler ==
    /\ ec = "would_block"
    /\ InProgress("connect")
    /\ \/ Running = "connect" /\ ec' \in {"ok", "other"}
       \/ Running = "drain" /\ ec' \in IF ConnectRace THEN {"ok", "other"} ELSE {"other"}
    /\ UNCHANGED <<stack, armed, fired, sock, isConnected, isSending, read>>

\* connect() goes on to the TLS handshake, which succeeds.
HandshakeOk ==
    /\ Running = "connect"
    /\ ec = "ok"
    /\ sock = "open"
    /\ ec' = "none"
    /\ armed' = armed \ {"connect"}
    /\ isConnected' = TRUE
    /\ stack' = Continue(<<"onSocketConnect">>)
    /\ UNCHANGED <<fired, sock, isSending, read>>

\* The connect failed or timed out, or the handshake failed: return false.
ConnectFailed ==
    /\ Running = "connect"
    /\ ec = "other" \/ (ec = "ok" /\ sock # "null")
    /\ ec' = "none"
    /\ armed' = armed \ {"connect"}
    /\ close(Return)
    /\ UNCHANGED <<fired, isSending, read>>

\* The connect succeeded but its socket has been deleted by a handler:
\* connect() goes on with a dangling reference and a null sock_.
DanglingConnect ==
    /\ Running = "connect"
    /\ ec = "ok"
    /\ sock = "null"
    /\ stack' = <<"crashed">>
    /\ UNCHANGED <<armed, fired, ec, sock, isConnected, isSending, read>>

-----------------------------------------------------------------------------
(* sendWithSize *)

\* Not connected: nothing is sent, and isSending_ is cleared all the same.
SendNotConnected ==
    /\ Running \in Messages
    /\ ~isConnected
    /\ isSending' = FALSE
    /\ stack' = Return
    /\ UNCHANGED <<armed, fired, ec, sock, isConnected, read>>

\* Mutant: the guard against nested sends is missing.
SendNotBlocked ==
    /\ Running \in Messages
    /\ isConnected
    /\ isSending
    /\ ec' = "would_block"
    /\ armed' = armed \cup {"write"}
    /\ stack' = Continue(<<"write">>)
    /\ UNCHANGED <<isSending, fired, sock, isConnected, read>>

\* A send is already in progress further down the stack: this one is dropped.
SendBlocked ==
    /\ Running \in Messages
    /\ isConnected
    /\ isSending
    /\ stack' = Return
    /\ UNCHANGED <<armed, fired, ec, sock, isConnected, isSending, read>>

SendStart ==
    /\ Running \in Messages
    /\ isConnected
    /\ ~isSending
    /\ isSending' = TRUE
    /\ ec' = "would_block"
    /\ armed' = armed \cup {"write"}
    /\ stack' = Continue(<<"write">>)
    /\ UNCHANGED <<fired, sock, isConnected, read>>

\* The completion of async_write.  A closed socket aborts it, unless it had
\* completed before.
WriteHandler ==
    /\ ec = "would_block"
    /\ InProgress("write")
    /\ Running \in {"write", "drain"}
    /\ ec' \in IF sock = "open" THEN {"ok", "reset", "other"} ELSE {"ok", "other"}
    /\ UNCHANGED <<stack, armed, fired, sock, isConnected, isSending, read>>

\* Mutant: isSending_ is cleared only by a successful send.
SendDoneKeepsFlag ==
    /\ Running = "write"
    /\ ec \in {"ok", "other"}
    /\ ec' = "none"
    /\ armed' = armed \ {"write"}
    /\ isSending' = (ec = "other")
    /\ stack' = Return
    /\ UNCHANGED <<fired, sock, isConnected, read>>

\* Written, or failed in a way that is not taken for a disconnect.
SendDone ==
    /\ Running = "write"
    /\ ec \in {"ok", "other"}
    /\ ec' = "none"
    /\ armed' = armed \ {"write"}
    /\ isSending' = FALSE
    /\ stack' = Return
    /\ UNCHANGED <<fired, sock, isConnected, read>>

\* The peer is gone: close, tell the controller, then end the send.
SendReset ==
    /\ Running = "write"
    /\ ec = "reset"
    /\ ec' = "none"
    /\ armed' = armed \ {"write"}
    /\ close(Continue(<<"onDisconnect", "sendEnd">>))
    /\ UNCHANGED <<fired, isSending, read>>

SendEnd ==
    /\ Running = "sendEnd"
    /\ isSending' = FALSE
    /\ stack' = Return
    /\ UNCHANGED <<armed, fired, ec, sock, isConnected, read>>

==============================================================================
