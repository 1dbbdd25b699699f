------------------------------ MODULE StatusSocket ------------------------------
(***************************************************************************)
(* handleWS (src/cmd/daemon/main.go): one websocket, to which the handler  *)
(* writes the status every second while a second goroutine writes pings.   *)
(* Both write through gorilla/websocket, which expects one writer at a     *)
(* time: its unsynchronised field isWriting detects a second one, which    *)
(* panics, and beginning a message closes the message that is open.        *)
(***************************************************************************)
EXTENDS Naturals

CONSTANT MaxFrames  \* a status may take several frames
ASSUME FrameAssumption == MaxFrames \in Nat \ {0}

VARIABLES
  client,    \* well: it reads; stalled: it does not; gone
  pc,        \* where the two goroutines are
  open,      \* the handler's message is open
  left,      \* its frames that are still to be written
  finishing, \* what ping writes is the end of the handler's message
  writing,   \* isWriting
  failed,    \* writeErr: a write has failed, and so will all later ones
  closed,    \* the handler has closed the connection
  crashed    \* the daemon is gone

conn == <<open, left, finishing, writing, failed>>
socketVars == <<client, pc, conn, closed, crashed>>

Go == {"handler", "ping"}

-----------------------------------------------------------------------------
\* The client's side. Nothing reads from the connection, so that whether a client answers
\* pings, and the read deadline, make no difference.
ClientTurns ==
  /\ ~closed /\ ~crashed
  /\ client' \in CASE client = "well"    -> {"stalled", "gone"}
                   [] client = "stalled" -> {"well", "gone"}
                   [] OTHER -> {}
  /\ UNCHANGED <<pc, conn, closed, crashed>>

SocketInit ==
  /\ client = "well"
  /\ pc = [handler |-> "status", ping |-> "tick"]
  /\ open = FALSE /\ left = 0 /\ finishing = FALSE /\ writing = FALSE /\ failed = FALSE
  /\ closed = FALSE /\ crashed = FALSE

-----------------------------------------------------------------------------
\* The handler returns, by breaking out of its loop or by a panic that the middleware
\* recovers from, and its deferred call closes the connection.
HandlerEndsOpen == pc' = [pc EXCEPT !.handler = "ended"] /\ UNCHANGED closed \* mutant
HandlerEnds == pc' = [pc EXCEPT !.handler = "ended"] /\ closed' = TRUE

\* Only the handler runs under the middleware that recovers.
Panics(g) ==
  IF g = "handler" THEN HandlerEnds /\ UNCHANGED crashed
  ELSE crashed' = TRUE /\ UNCHANGED <<pc, closed>>

\* WriteJSON begins a message.
Begin ==
  /\ pc.handler = "status" /\ ~crashed
  /\ IF failed
     THEN HandlerEnds /\ UNCHANGED <<open, left>>
     ELSE /\ open' = TRUE /\ left' \in 1 .. MaxFrames
          /\ pc' = [pc EXCEPT !.handler = "enter"]
          /\ UNCHANGED closed
  /\ UNCHANGED <<client, finishing, writing, failed, crashed>>

\* It fails if the message has been closed meanwhile.
Enter ==
  /\ pc.handler = "enter" /\ ~crashed
  /\ IF open THEN pc' = [pc EXCEPT !.handler = "check"] /\ UNCHANGED closed ELSE HandlerEnds
  /\ UNCHANGED <<client, conn, crashed>>

\* The ticker fires. WriteMessage closes an open message first.
PingTick ==
  /\ pc.ping = "tick" /\ ~crashed
  /\ finishing' = open
  /\ pc' = [pc EXCEPT !.ping = IF failed /\ ~open THEN "ended" ELSE "check"]
  /\ UNCHANGED <<client, open, left, writing, failed, closed, crashed>>

\* flushFrame looks at isWriting, ...
Check(g) ==
  /\ pc[g] = "check" /\ ~crashed
  /\ IF writing THEN Panics(g)
     ELSE pc' = [pc EXCEPT ![g] = "set"] /\ UNCHANGED <<closed, crashed>>
  /\ UNCHANGED <<client, conn>>

\* ... sets it, ...
Set(g) ==
  /\ pc[g] = "set" /\ ~crashed
  /\ writing' = TRUE /\ pc' = [pc EXCEPT ![g] = "write"]
  /\ UNCHANGED <<client, open, left, finishing, failed, closed, crashed>>

WrittenOK == client # "gone" /\ ~failed /\ ~closed

AfterStatus(ok) ==
  /\ open' = (open /\ ok /\ left > 1) /\ left' = left - 1
  /\ CASE ~ok            -> HandlerEnds
       [] ok /\ left > 1 -> pc' = [pc EXCEPT !.handler = "enter"] /\ UNCHANGED closed
       [] OTHER          -> pc' = [pc EXCEPT !.handler = "status"] /\ UNCHANGED closed
  /\ UNCHANGED finishing

AfterPing(ok) ==
  /\ open' = (open /\ ~finishing) /\ finishing' = FALSE
  /\ pc' = [pc EXCEPT !.ping =
       CASE ~ok -> "ended" [] ok /\ finishing -> "check" [] OTHER -> "tick"]
  /\ UNCHANGED <<left, closed>>

\* ... and clears it when the frame has been written or the write has failed; there is no
\* write deadline, so that this takes as long as the client does not read.
Written(g) ==
  /\ pc[g] = "write" /\ ~crashed /\ (client # "stalled" \/ closed)
  /\ IF ~writing
     THEN Panics(g) /\ UNCHANGED conn
     ELSE /\ writing' = FALSE /\ failed' = (failed \/ ~WrittenOK)
          /\ IF g = "handler" THEN AfterStatus(WrittenOK) ELSE AfterPing(WrittenOK)
          /\ UNCHANGED crashed
  /\ UNCHANGED <<client>>

Handler == Begin \/ Enter \/ Check("handler") \/ Set("handler") \/ Written("handler")
Ping == PingTick \/ Check("ping") \/ Set("ping") \/ Written("ping")

SocketNext == ClientTurns \/ Handler \/ Ping

SocketSpec ==
  /\ SocketInit /\ [][SocketNext]_socketVars
  /\ WF_socketVars(Handler) /\ WF_socketVars(Ping)

-----------------------------------------------------------------------------
(* Properties of the status socket.                                         *)

\* The types of the socket's state.
SocketTypeOK ==
  /\ client \in {"well", "stalled", "gone"}
  /\ pc \in [Go -> {"status", "tick", "enter", "check", "set", "write", "ended"}]
  /\ left \in 0 .. MaxFrames
  /\ {open, finishing, writing, failed, closed, crashed} \subseteq BOOLEAN

\* isWriting is never left set by a goroutine that has gone: every later write would panic.
WritingHasWriter == writing => \E g \in Go : pc[g] = "write"

\* The handler never returns without closing the connection, also when it panics, and
\* nobody closes it before: the close is what ends a ping that its client keeps waiting.
ClosedByHandler == closed <=> pc.handler = "ended"

\* What every step of the two goroutines keeps.
SocketInv == SocketTypeOK /\ WritingHasWriter /\ ClosedByHandler

\* Once the client has gone, or the handler has returned, both goroutines end:
\* neither is left behind, whatever the two do to each other's messages.
NothingLeft ==
  client = "gone" \/ pc.handler = "ended" ~> crashed \/ \A g \in Go : pc[g] = "ended"

\* CHANGELOG.md:43: "Fatal errors (panics) are now safely caught, preventing the daemon from
\* crashing".
NeverCrashes == ~crashed
=============================================================================
