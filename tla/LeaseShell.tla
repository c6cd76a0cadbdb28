------------------------------ MODULE LeaseShell ------------------------------
(***************************************************************************)
(* One shell session of a tenant: the websocket handler                    *)
(* (gateway/rest/router.go leaseShellHandler, router_shell.go) and the     *)
(* command it runs in a pod (cluster/kube/client_exec.go Exec).            *)
(*                                                                         *)
(* The handler runs the command and waits for it.  A reader goroutine      *)
(* takes the client's messages: input goes through a pipe without a        *)
(* buffer, terminal sizes through a channel that holds one.  Both are      *)
(* emptied by the stream to the pod, and are closed only when the reader   *)
(* and the ping goroutine have returned.                                   *)
(***************************************************************************)
EXTENDS Naturals, Sequences

CONSTANT
  MaxMessages   \* bound: messages of the client

VARIABLES
  options,    \* [tty, stdin]: what the request asks for
  client,     \* "there" | "gone"
  handler,    \* "begin" | "status" | "exec" | "result" | "wait" | "returned"
  websocket,  \* "none" | "open" | "closed" (by the handler)
  inbox,      \* messages of the client not read yet
  reader,     \* "off" | "reading" | "writing" (into the pipe) | "resizing" | "ended"
  sizes,      \* terminal sizes in the channel
  ping,       \* "off" | "running" | "ended"
  stream,     \* the stream to the pod: "off" | "running" | "closed"
  copier,     \* its goroutine that reads the pipe: "off" | "reading" | "ended"
  result,     \* what the client was told: "none" | "code" | "message" | "failure"
  sentMsgs

shVars == <<options, client, handler, websocket, inbox, reader, sizes, ping, stream, copier,
            result, sentMsgs>>

Messages == {"stdin", "resize", "unknown"}

Init ==
  /\ options \in [tty : BOOLEAN, stdin : BOOLEAN]
  /\ client = "there" /\ handler = "begin" /\ websocket = "none" /\ inbox = <<>>
  /\ reader = "off" /\ sizes = 0 /\ ping = "off" /\ stream = "off" /\ copier = "off"
  /\ result = "none" /\ sentMsgs = 0

----------------------------------------------------------------------------
(* The handler.                                                            *)

\* A parameter is missing or wrong, or the handshake fails.
refuse ==
  /\ handler = "begin"
  /\ handler' = "returned"
  /\ UNCHANGED <<options, client, websocket, inbox, reader, sizes, ping, stream, copier,
                 result, sentMsgs>>

Upgrade ==
  /\ handler = "begin"
  /\ handler' = "status" /\ websocket' = "open"
  /\ reader' = IF options.stdin THEN "reading" ELSE "off"
  /\ UNCHANGED <<options, client, inbox, sizes, ping, stream, copier, result, sentMsgs>>

\* The service's status: an error that may be told, one that may not, no
\* replica that is ready, or the command can run.
ServiceStatus ==
  /\ handler = "status"
  /\ \/ handler' = "result" /\ result' \in {"message", "failure"} /\ UNCHANGED ping
     \/ handler' = "exec" /\ ping' = "running" /\ UNCHANGED result
  /\ UNCHANGED <<options, client, websocket, inbox, reader, sizes, stream, copier, sentMsgs>>

\* No such service, no pod, an index out of range, a pod that is not ready, no
\* connection: Exec returns before anything is streamed; the ping goroutine's
\* context is cancelled.
execRefused ==
  /\ handler = "exec" /\ stream = "off"
  /\ handler' = "result" /\ result' \in {"message", "failure"}
  /\ UNCHANGED <<options, client, websocket, inbox, reader, sizes, ping, stream, copier,
                 sentMsgs>>

StreamWithContext ==
  /\ handler = "exec" /\ stream = "off"
  /\ stream' = "running"
  /\ copier' = IF options.stdin THEN "reading" ELSE "off"
  /\ UNCHANGED <<options, client, handler, websocket, inbox, reader, sizes, ping, result,
                 sentMsgs>>

\* The command ends or the connection to the pod breaks; output to a client
\* that is gone cannot be written, which ends the stream too.
execEnds ==
  /\ handler = "exec" /\ stream = "running"
  /\ stream' = "closed"
  /\ handler' = "result" /\ result' \in {"code", "message", "failure"}
  /\ UNCHANGED <<options, client, websocket, inbox, reader, sizes, ping, copier, sentMsgs>>

\* The result is written and the websocket closed.
writeResult ==
  /\ handler = "result"
  /\ handler' = "wait" /\ websocket' = "closed"
  /\ UNCHANGED <<options, client, inbox, reader, sizes, ping, stream, copier, result, sentMsgs>>

\* wg.Wait; then the pipe and the channel are closed.
return ==
  /\ handler = "wait" /\ reader \in {"off", "ended"} /\ ping \in {"off", "ended"}
  /\ handler' = "returned" /\ copier' = IF copier = "off" THEN "off" ELSE "ended"
  /\ UNCHANGED <<options, client, websocket, inbox, reader, sizes, ping, stream, result,
                 sentMsgs>>

----------------------------------------------------------------------------
(* Ping and reader.                                                        *)

\* The context ends with Exec, or a ping cannot be written.
leaseShellPingHandler ==
  /\ ping = "running"
  /\ handler \notin {"status", "exec"} \/ client = "gone"
  /\ ping' = "ended"
  /\ UNCHANGED <<options, client, handler, websocket, inbox, reader, sizes, stream, copier,
                 result, sentMsgs>>

\* ReadMessage, and what the message asks for.
readMessage ==
  /\ reader = "reading" /\ inbox # <<>> /\ websocket = "open"
  /\ inbox' = Tail(inbox)
  /\ reader' = CASE Head(inbox) = "stdin"  -> "writing"
                 [] Head(inbox) = "resize" -> IF options.tty THEN "resizing" ELSE "reading"
                 [] OTHER                  -> "ended"
  /\ UNCHANGED <<options, client, handler, websocket, sizes, ping, stream, copier, result,
                 sentMsgs>>

readFails ==
  /\ reader = "reading" /\ (websocket = "closed" \/ (client = "gone" /\ inbox = <<>>))
  /\ reader' = "ended"
  /\ UNCHANGED <<options, client, handler, websocket, inbox, sizes, ping, stream, copier,
                 result, sentMsgs>>

sendSize ==
  /\ reader = "resizing" /\ sizes = 0
  /\ sizes' = 1 /\ reader' = "reading"
  /\ UNCHANGED <<options, client, handler, websocket, inbox, ping, stream, copier, result,
                 sentMsgs>>

\* The stream's goroutine reads the pipe until it cannot write to the pod: with
\* the stream closed it takes one message more.
copyInput ==
  /\ reader = "writing" /\ copier = "reading"
  /\ reader' = "reading"
  /\ copier' = IF stream = "running" THEN "reading" ELSE "ended"
  /\ UNCHANGED <<options, client, handler, websocket, inbox, sizes, ping, stream, result,
                 sentMsgs>>

\* The stream's goroutine for sizes goes on until the channel is closed.
terminalSizeNext ==
  /\ options.tty /\ stream # "off" /\ handler # "returned" /\ sizes = 1
  /\ sizes' = 0
  /\ UNCHANGED <<options, client, handler, websocket, inbox, reader, ping, stream, copier,
                 result, sentMsgs>>

----------------------------------------------------------------------------
(* The client.                                                             *)

send(m) ==
  /\ client = "there" /\ websocket = "open" /\ sentMsgs < MaxMessages
  /\ inbox' = Append(inbox, m)
  /\ sentMsgs' = sentMsgs + 1
  /\ UNCHANGED <<options, client, handler, websocket, reader, sizes, ping, stream, copier, result>>

disconnect ==
  /\ client = "there" /\ websocket = "open"
  /\ client' = "gone"
  /\ UNCHANGED <<options, handler, websocket, inbox, reader, sizes, ping, stream, copier,
                 result, sentMsgs>>

Handler == refuse \/ Upgrade \/ ServiceStatus \/ execRefused \/ StreamWithContext \/ writeResult
           \/ return
Reader  == readMessage \/ readFails \/ sendSize

Next ==
  \/ Handler \/ execEnds \/ leaseShellPingHandler \/ Reader \/ copyInput \/ terminalSizeNext
  \/ \E m \in Messages : send(m)
  \/ disconnect

\* The goroutines go on; a command need not end and a client need do nothing.
Fairness ==
  /\ WF_shVars(Handler) /\ WF_shVars(leaseShellPingHandler) /\ WF_shVars(Reader)
  /\ WF_shVars(copyInput) /\ WF_shVars(terminalSizeNext)

Spec == Init /\ [][Next]_shVars /\ Fairness

----------------------------------------------------------------------------

TypeOK ==
  /\ handler \in {"begin", "status", "exec", "result", "wait", "returned"}
  /\ reader \in {"off", "reading", "writing", "resizing", "ended"}
  /\ ping \in {"off", "running", "ended"} /\ sizes \in 0..1 /\ sentMsgs \in 0..MaxMessages

\* Nobody is left to take what the reader has in its hands.
Stuck ==
  \/ reader = "writing" /\ copier # "reading"
  \/ reader = "resizing" /\ sizes = 1 /\ stream = "off"

\* A session whose command has ended, or was not run, is over: the handler
\* returns with its goroutines, unless the reader holds input that nothing will
\* take any more.
SessionReturns == []<>(handler \in {"result", "wait"} => Stuck)

\* The handler returns whatever the client has sent.
SessionAlwaysReturns == []<>(handler \notin {"result", "wait"})
=============================================================================
