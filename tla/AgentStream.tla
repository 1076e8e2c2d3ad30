----------------------------- MODULE AgentStream -----------------------------
(***************************************************************************)
(* POST /api/agent/stream: handleAgentStream, Client.Stream, drainStream   *)
(* and the SSE drainer under it.                                           *)
(*                                                                         *)
(* The engine's body arrives in chunks cut anywhere.  The drainer collects *)
(* them, splits off every frame that a blank line ends, and hands the      *)
(* token of each data line to the client at once.  The client may leave at *)
(* any moment; a second goroutine turns that into the cancellation of the  *)
(* request to the engine.                                                  *)
(*                                                                         *)
(* A body is a sequence of cells: a data line is the prefix and one cell   *)
(* for its payload, so that a chunk may end inside the line.  The routing  *)
(* decision that precedes the request is BackendRouter's.                  *)
(***************************************************************************)
EXTENDS Naturals, Sequences

CONSTANTS
  Token,   \* the payloads with a delta, told apart by their content
  Other,   \* any other payload or line: role, usage and error frames, comments
  Bodies,  \* the bodies the engine may send
  Faults   \* "refused": no connection; "cut": the connection breaks in the body

\* The newline, the data prefix, the [DONE] payload, and the text of notResponding.
NL            == "nl"
Data          == "data:"
Done          == "[DONE]"
NotResponding == "not responding"

Cell == Token \union {Other, NL, Data, Done}

ASSUME CellAssumption   == {Other, NL, Data, Done, NotResponding} \intersect Token = {}
ASSUME BodiesAssumption == Bodies \subseteq Seq(Cell)
ASSUME FaultsAssumption == Faults \subseteq {"refused", "cut"}

VARIABLES
  body,     \* what the engine sends, all in all
  pos,      \* how much of it has been read
  pc,       \* where the handler's goroutine is
  buf,      \* sseDrainer.buf
  done,     \* sseDrainer.done
  out,      \* the deltas written to the client
  gone,     \* the client has left: r.Context().Done() is closed
  ctx,      \* Stream's own context is cancelled
  watcher,  \* the goroutine that waits for either
  broke     \* observer: Do or Read returned an error

vars == <<body, pos, pc, buf, done, out, gone, ctx, watcher, broke>>

PC == {"connect", "read", "drain", "flush", "finish", "returned"}
------------------------------------------------------------------------------
LineStart(t, i) == i = 1 \/ t[i - 1] = NL
LineEnd(t, i)   == i = Len(t) \/ t[i + 1] = NL

\* The cell at i is the whole payload of a data line.
IsPayload(t, i) == /\ i > 1
                   /\ t[i - 1] = Data
                   /\ LineStart(t, i - 1)
                   /\ LineEnd(t, i)

\* The cell at i is a delta: the payload of a data line, and one with a token.
IsDelta(t, i) == t[i] \in Token /\ IsPayload(t, i)

\* processFrame: the deltas of the frame's data lines, and whether one of them is [DONE].
Deltas(t) ==
  LET upTo[i \in 0..Len(t)] == IF i = 0 THEN <<>>
                               ELSE IF IsDelta(t, i) THEN Append(upTo[i - 1], t[i])
                               ELSE upTo[i - 1]
  IN  upTo[Len(t)]

HasDone(t) == \E i \in 1..Len(t) : t[i] = Done /\ IsPayload(t, i)

\* Where the blank lines of a text end.
Blanks(t) == {i \in 2..Len(t) : t[i] = NL /\ t[i - 1] = NL}

FirstBlank(t) == CHOOSE i \in Blanks(t) : \A j \in Blanks(t) : i <= j

Init == /\ body \in Bodies
        /\ pos  = 0
        /\ pc   = "connect"
        /\ buf  = <<>>
        /\ done = FALSE
        /\ out  = <<>>
        /\ gone = FALSE
        /\ ctx  = FALSE
        /\ watcher = "waiting"
        /\ broke = FALSE

Disconnect == /\ ~gone
              /\ gone' = TRUE
              /\ UNCHANGED <<body, pos, pc, buf, done, out, ctx, watcher, broke>>

\* Mutant: the watcher ends without cancelling anything.
WatcherDrops == /\ watcher = "waiting"
                /\ gone
                /\ watcher' = "ended"
                /\ UNCHANGED <<body, pos, pc, buf, done, out, gone, ctx, broke>>

\* case <-cancel: cancelFn()
WatcherCancels == /\ watcher = "waiting"
                  /\ gone
                  /\ watcher' = "ended"
                  /\ ctx' = TRUE
                  /\ UNCHANGED <<body, pos, pc, buf, done, out, gone, broke>>

\* Mutant: the watcher waits for the client only.
WatcherStays == FALSE /\ UNCHANGED vars

\* case <-ctx.Done()
WatcherEnds == /\ watcher = "waiting"
               /\ ctx
               /\ watcher' = "ended"
               /\ UNCHANGED <<body, pos, pc, buf, done, out, gone, ctx, broke>>

\* Do returns a response, whatever its status.
Connect == /\ pc = "connect"
           /\ pc' = "read"
           /\ UNCHANGED <<body, pos, buf, done, out, gone, ctx, watcher, broke>>

\* Do fails.  A client that has left is not told; cancelFn is deferred.
ConnectFails == /\ pc = "connect"
                /\ ctx \/ "refused" \in Faults
                /\ out' = IF gone THEN out ELSE Append(out, NotResponding)
                /\ pc'  = "finish"
                /\ ctx' = TRUE
                /\ broke' = TRUE
                /\ UNCHANGED <<body, pos, buf, done, gone, watcher>>

\* Mutant: the rest of the last chunk is overwritten.
ReadOver == /\ pc = "read"
            /\ \E n \in (pos + 1)..Len(body) :
                 /\ buf' = SubSeq(body, pos + 1, n)
                 /\ pos' = n
            /\ pc' = "drain"
            /\ UNCHANGED <<body, done, out, gone, ctx, watcher, broke>>

\* Read: any number of cells, also after the cancellation, if they are there already.
Read == /\ pc = "read"
        /\ \E n \in (pos + 1)..Len(body) :
             /\ buf' = buf \o SubSeq(body, pos + 1, n)
             /\ pos' = n
        /\ pc' = "drain"
        /\ UNCHANGED <<body, done, out, gone, ctx, watcher, broke>>

\* Read: io.EOF.
ReadEOF == /\ pc = "read"
           /\ pos = Len(body)
           /\ pc' = "flush"
           /\ UNCHANGED <<body, pos, buf, done, out, gone, ctx, watcher, broke>>

\* Read: a broken connection, or the cancellation.
ReadBreaks == /\ pc = "read"
              /\ ctx \/ "cut" \in Faults
              /\ pc' = "flush"
              /\ broke' = TRUE
              /\ UNCHANGED <<body, pos, buf, done, out, gone, ctx, watcher>>

\* feed: one complete frame.
DrainFrame == /\ pc = "drain"
              /\ Blanks(buf) # {}
              /\ LET frame == SubSeq(buf, 1, FirstBlank(buf) - 2)
                 IN  /\ out'  = out \o Deltas(frame)
                     /\ done' = (done \/ HasDone(frame))
              /\ buf' = SubSeq(buf, FirstBlank(buf) + 1, Len(buf))
              /\ UNCHANGED <<body, pos, pc, gone, ctx, watcher, broke>>

\* Mutant: feed takes one frame of a chunk.
DrainOnce == /\ pc = "drain"
             /\ pc' = IF done THEN "flush" ELSE "read"
             /\ UNCHANGED <<body, pos, buf, done, out, gone, ctx, watcher, broke>>

\* Mutant: the loop reads on until the connection ends.
DrainToEOF == /\ pc = "drain"
              /\ Blanks(buf) = {}
              /\ pc' = "read"
              /\ UNCHANGED <<body, pos, buf, done, out, gone, ctx, watcher, broke>>

\* ... until none is left; then [DONE] ends the loop of drainStream.
Drained == /\ pc = "drain"
           /\ Blanks(buf) = {}
           /\ pc' = IF done THEN "flush" ELSE "read"
           /\ UNCHANGED <<body, pos, buf, done, out, gone, ctx, watcher, broke>>

\* flush: a last frame without a blank line, or what was cut off.  Stream returns.
Flush == /\ pc = "flush"
         /\ out'  = out \o Deltas(buf)
         /\ done' = (done \/ HasDone(buf))
         /\ buf'  = <<>>
         /\ pc'   = "finish"
         /\ ctx'  = TRUE
         /\ UNCHANGED <<body, pos, gone, watcher, broke>>

\* handleAgentStream: [DONE] to the client, however the stream has ended.
Finish == /\ pc = "finish"
          /\ out' = Append(out, Done)
          /\ pc'  = "returned"
          /\ UNCHANGED <<body, pos, buf, done, gone, ctx, watcher, broke>>

\* What the goroutine does without waiting for the engine.
Work == DrainFrame \/ Drained \/ Flush \/ Finish

\* Do and Read return once their context is cancelled.
Cancelled == ctx /\ (ConnectFails \/ ReadBreaks)

Next == \/ Disconnect
        \/ WatcherCancels
        \/ WatcherEnds
        \/ Connect
        \/ ConnectFails
        \/ Read
        \/ ReadEOF
        \/ ReadBreaks
        \/ Work

Spec == Init /\ [][Next]_vars

\* Nothing makes the engine connect, send or end.
Fairness == /\ WF_vars(Work)
            /\ WF_vars(Cancelled)
            /\ WF_vars(WatcherCancels)
            /\ WF_vars(WatcherEnds)

FairSpec == Spec /\ Fairness
------------------------------------------------------------------------------
TypeOK == /\ body \in Bodies
          /\ pos \in 0..Len(body)
          /\ pc \in PC
          /\ buf \in Seq(Cell)
          /\ done \in BOOLEAN
          /\ out \in Seq(Token \union {NotResponding, Done})
          /\ gone \in BOOLEAN
          /\ ctx \in BOOLEAN
          /\ watcher \in {"waiting", "ended"}
          /\ broke \in BOOLEAN

Received == SubSeq(body, 1, pos)

\* The part of a text that ends with its last blank line.
Complete(t) == IF Blanks(t) = {} THEN <<>>
               ELSE SubSeq(t, 1, CHOOSE i \in Blanks(t) : \A j \in Blanks(t) : j <= i)

(* However the body is cut into chunks, and wherever it breaks off, the       *)
(* client gets exactly the deltas of the lines that were read, in their       *)
(* order: none lost or doubled at a chunk's end, and none made up from half a *)
(* line.  A last frame without its blank line is delivered too.               *)
ChunkingIsInvisible ==
  pc = "returned" /\ pos > 0 => out = Deltas(Received) \o <<Done>>

(* Nothing that could be shown waits for more input: whenever the goroutine   *)
(* goes back to the connection, the client has the deltas of every frame a    *)
(* blank line has ended, and none of them was [DONE].                         *)
DeliveredAtOnce ==
  pc = "read" => out = Deltas(Complete(Received)) /\ ~HasDone(Complete(Received))

(* A client that leaves ends the stream, even if the engine never sends       *)
(* another byte: the cancellation reaches the connection.                     *)
LeavingEndsStream == gone ~> pc = "returned"

(* "[DONE] ends the stream" (stream_sse.go): the handler does not wait for    *)
(* the engine to close the connection.                                        *)
DoneEndsStream == HasDone(Complete(Received)) ~> pc = "returned"

(* The goroutine that watches for the client ends with the stream: no request *)
(* leaves one behind.                                                         *)
WatcherIsGone == pc = "returned" ~> watcher = "ended"
=============================================================================
