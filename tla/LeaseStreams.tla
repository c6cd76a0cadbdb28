----------------------------- MODULE LeaseStreams -----------------------------
(***************************************************************************)
(* One websocket over which a tenant reads the logs or the events of a     *)
(* lease (gateway/rest/router.go: wsLogWriter, wsEventWriter and           *)
(* wsSetupPongHandler; cluster/kube/client.go: LeaseLogs, LeaseEvents and  *)
(* the event feeds).                                                       *)
(*                                                                         *)
(* A log request has a scanner goroutine per pod, which hands every line   *)
(* to the writer over an unbuffered channel and looks at no context while  *)
(* it waits; one that waits for the scanners; and, once the writer has     *)
(* left its loop, one that takes the lines nobody will send.  An event     *)
(* request has one feed goroutine.  Both have the reader that notices that *)
(* the client is gone and cancels the request's context.                   *)
(***************************************************************************)
EXTENDS Naturals, FiniteSets

CONSTANTS
  Pods,       \* pods with a log
  Feed,       \* the source of events
  MaxLines    \* bound: lines or events of a source

VARIABLES
  request,    \* [kind, follow]
  peer,       \* the client: "there" | "gone"
  writer,     \* "open" | "loop" | "ended"; it closes the websocket as it ends
  orderly,    \* the writer has left its loop because there is no more to send
  cctx,       \* the request's context is cancelled
  pong,       \* the goroutine that reads: "off" | "reading" | "ended"
  source,     \* source[s]: [left: lines to come, over: no more will come]
  scan,       \* scan[s]: "off" | "scanning" | "holding" | "ended"
  feedCtx,    \* the feed was shut down
  donech,     \* closed when every scanner has ended
  drain,      \* "off" | "running" | "ended"
  lines,      \* lines[s]: lines and events there have been
  sent        \* sent[s]: those written to the websocket

lsVars == <<request, peer, writer, orderly, cctx, pong, source, scan, feedCtx, donech,
            drain, lines, sent>>

All     == Pods \cup {Feed}
Sources == IF request.kind = "logs" THEN Pods ELSE {Feed}

Init ==
  /\ request \in [kind : {"logs", "events"}, follow : BOOLEAN]
  /\ peer = "there" /\ writer = "open" /\ orderly = FALSE /\ cctx = FALSE /\ pong = "off"
  /\ source = [s \in All |-> [left |-> 0, over |-> FALSE]]
  /\ scan = [s \in All |-> "off"]
  /\ feedCtx = FALSE /\ donech = FALSE /\ drain = "off"
  /\ lines = [s \in All |-> 0] /\ sent = [s \in All |-> 0]

----------------------------------------------------------------------------
(* Opening.                                                                *)

\* The lease is not known, a pod's log cannot be had, there are no pods: a close
\* message and the end.
openFails ==
  /\ writer = "open"
  /\ writer' = "ended" /\ cctx' = TRUE
  /\ UNCHANGED <<request, peer, orderly, pong, source, scan, feedCtx, donech, drain, lines, sent>>

\* What a request without follow reads is there when it is opened.
opened(k) ==
  [s \in All |-> IF request.follow \/ s \notin Sources THEN [left |-> 0, over |-> FALSE]
                 ELSE [left |-> k[s], over |-> TRUE]]

begin ==
  /\ \E k \in [All -> 0..MaxLines] :
       /\ source' = opened(k)
       /\ lines' = [s \in All |-> source'[s].left]
  /\ scan' = [s \in All |-> IF s \in Sources THEN "scanning" ELSE "off"]
  /\ writer' = "loop" /\ pong' = "reading"
  /\ UNCHANGED <<request, peer, orderly, cctx, feedCtx, donech, drain, sent>>

LeaseLogs   == writer = "open" /\ request.kind = "logs" /\ begin
LeaseEvents == writer = "open" /\ request.kind = "events" /\ begin

----------------------------------------------------------------------------
(* The sources.                                                            *)

\* A followed pod writes, or an event happens.
produce(s) ==
  /\ s \in Sources /\ scan[s] # "off" /\ ~source[s].over /\ lines[s] < MaxLines
  /\ source' = [source EXCEPT ![s].left = @ + 1]
  /\ lines' = [lines EXCEPT ![s] = @ + 1]
  /\ UNCHANGED <<request, peer, writer, orderly, cctx, pong, scan, feedCtx, donech, drain, sent>>

\* The container is gone, or the API server ends the watch.
sourceEnds(s) ==
  /\ s \in Sources /\ scan[s] # "off" /\ ~source[s].over
  /\ source' = [source EXCEPT ![s].over = TRUE]
  /\ UNCHANGED <<request, peer, writer, orderly, cctx, pong, scan, feedCtx, donech, drain,
                 lines, sent>>

\* The feed's context is the request's or its own.
FeedDone == feedCtx \/ cctx

nextLine(s) ==
  /\ scan[s] = "scanning" /\ source[s].left > 0
  /\ source' = [source EXCEPT ![s].left = @ - 1]
  /\ scan' = [scan EXCEPT ![s] = "holding"]
  /\ UNCHANGED <<request, peer, writer, orderly, cctx, pong, feedCtx, donech, drain, lines, sent>>

\* A log stream ends with its context or is closed by the writer.
scanEnds(s) ==
  /\ s \in Pods /\ scan[s] = "scanning"
  /\ cctx \/ (source[s].over /\ source[s].left = 0)
  /\ scan' = [scan EXCEPT ![s] = "ended"]
  /\ UNCHANGED <<request, peer, writer, orderly, cctx, pong, source, feedCtx, donech, drain,
                 lines, sent>>

\* The feed ends when there is no more or when it is shut down, also while it
\* holds an event; it shuts itself down.
feedEnds ==
  /\ \/ scan[Feed] = "scanning" /\ (FeedDone \/ (source[Feed].over /\ source[Feed].left = 0))
     \/ scan[Feed] = "holding" /\ FeedDone
  /\ scan' = [scan EXCEPT ![Feed] = "ended"]
  /\ feedCtx' = TRUE
  /\ UNCHANGED <<request, peer, writer, orderly, cctx, pong, source, donech, drain, lines, sent>>

\* Mutant: the first scanner that ends is enough.
anyScannerDone ==
  /\ request.kind = "logs" /\ ~donech /\ \E s \in Pods : scan[s] = "ended"
  /\ donech' = TRUE
  /\ UNCHANGED <<request, peer, writer, orderly, cctx, pong, source, scan, feedCtx, drain,
                 lines, sent>>

scannersWait ==
  /\ request.kind = "logs" /\ ~donech /\ \A s \in Pods : scan[s] = "ended"
  /\ donech' = TRUE
  /\ UNCHANGED <<request, peer, writer, orderly, cctx, pong, source, scan, feedCtx, drain,
                 lines, sent>>

----------------------------------------------------------------------------
(* The writer.                                                             *)

\* Mutant: nothing is drained.
leaveAtOnce ==
  /\ writer' = "ended" /\ cctx' = TRUE
  /\ feedCtx' = (feedCtx \/ request.kind = "events")
  /\ UNCHANGED drain

\* Leaving the loop: cancel, close the streams, drain; the deferred calls close
\* the websocket and shut the feed down.
leave ==
  /\ writer' = "ended" /\ cctx' = TRUE
  /\ feedCtx' = (feedCtx \/ request.kind = "events")
  /\ drain' = IF request.kind = "logs" THEN "running" ELSE drain

\* A line or an event is taken over and written; to a client that is gone the
\* write may still succeed.
takeLine(s) ==
  /\ writer = "loop" /\ scan[s] = "holding"
  /\ scan' = [scan EXCEPT ![s] = "scanning"]
  /\ sent' = [sent EXCEPT ![s] = @ + 1]
  /\ UNCHANGED <<request, peer, writer, orderly, cctx, pong, source, feedCtx, donech, drain, lines>>

writeFails(s) ==
  /\ writer = "loop" /\ scan[s] = "holding" /\ peer = "gone"
  /\ scan' = [scan EXCEPT ![s] = "scanning"]
  /\ leave
  /\ UNCHANGED <<request, peer, orderly, pong, source, donech, lines, sent>>

pingFails ==
  /\ writer = "loop" /\ peer = "gone"
  /\ leave
  /\ UNCHANGED <<request, peer, orderly, pong, source, scan, donech, lines, sent>>

\* donech, or the feed's Done.
takeDone ==
  /\ writer = "loop"
  /\ IF request.kind = "logs" THEN donech ELSE FeedDone
  /\ leave
  /\ orderly' = ~cctx
  /\ UNCHANGED <<request, peer, pong, source, scan, donech, lines, sent>>

drainLine(s) ==
  /\ drain = "running" /\ scan[s] = "holding"
  /\ scan' = [scan EXCEPT ![s] = "scanning"]
  /\ UNCHANGED <<request, peer, writer, orderly, cctx, pong, source, feedCtx, donech, drain,
                 lines, sent>>

drainEnds ==
  /\ drain = "running" /\ donech
  /\ drain' = "ended"
  /\ UNCHANGED <<request, peer, writer, orderly, cctx, pong, source, scan, feedCtx, donech,
                 lines, sent>>

\* ReadMessage fails: the client is gone, has not answered the pings in time, or
\* the writer has closed the websocket.
wsSetupPongHandler ==
  /\ pong = "reading" /\ (peer = "gone" \/ writer = "ended")
  /\ pong' = "ended" /\ cctx' = TRUE
  /\ UNCHANGED <<request, peer, writer, orderly, source, scan, feedCtx, donech, drain, lines, sent>>

clientLeaves ==
  /\ peer = "there"
  /\ peer' = "gone"
  /\ UNCHANGED <<request, writer, orderly, cctx, pong, source, scan, feedCtx, donech, drain,
                 lines, sent>>

Opening    == openFails \/ LeaseLogs \/ LeaseEvents
Scanner(s) == nextLine(s) \/ scanEnds(s)

Next ==
  \/ Opening
  \/ \E s \in All : produce(s) \/ sourceEnds(s) \/ Scanner(s) \/ takeLine(s) \/ writeFails(s)
                    \/ drainLine(s)
  \/ feedEnds \/ scannersWait \/ pingFails \/ takeDone \/ drainEnds \/ wsSetupPongHandler
  \/ clientLeaves

\* Every goroutine goes on; a select takes a case that stays ready.
Fairness ==
  /\ WF_lsVars(Opening)
  /\ \A s \in All : /\ WF_lsVars(Scanner(s))
                    /\ WF_lsVars(takeLine(s) \/ writeFails(s))
                    /\ WF_lsVars(drainLine(s))
  /\ WF_lsVars(feedEnds) /\ WF_lsVars(scannersWait) /\ WF_lsVars(takeDone)
  /\ WF_lsVars(pingFails) /\ WF_lsVars(drainEnds) /\ WF_lsVars(wsSetupPongHandler)

Spec == Init /\ [][Next]_lsVars /\ Fairness

----------------------------------------------------------------------------

TypeOK ==
  /\ writer \in {"open", "loop", "ended"} /\ pong \in {"off", "reading", "ended"}
  /\ scan \in [All -> {"off", "scanning", "holding", "ended"}]
  /\ \A s \in All : sent[s] \in 0..lines[s] /\ lines[s] \in 0..MaxLines

AllEnded ==
  /\ writer = "ended" /\ pong # "reading" /\ drain # "running"
  /\ \A s \in All : scan[s] \in {"off", "ended"}

\* Nothing of a request stays behind: once the client is gone, or every source
\* has come to its end, the writer returns and every goroutine it started ends,
\* a scanner that waits to hand over a line included.
StreamsEnd ==
  []<>(peer = "gone" \/ (writer # "open" /\ \A s \in Sources : source[s].over) => AllEnded)

\* A stream that ends because there is no more to send has sent all there was.
OrderlyIsComplete ==
  orderly /\ peer = "there" => \A s \in Sources : sent[s] = lines[s]
=============================================================================
