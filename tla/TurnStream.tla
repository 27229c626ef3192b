----------------------------- MODULE TurnStream -----------------------------
(***************************************************************************)
(* One streaming turn: the event route that writes the frames of a turn    *)
(* into the response, a connection that hands them on in chunks cut        *)
(* anywhere, the parser that puts the frames together again, and the       *)
(* client that makes a transcript of them (app/src/routes/api/events.ts,   *)
(* lib/sse-client.ts and lib/turn-stream.ts).  The text of a frame is a    *)
(* sequence of pieces: a newline, a comment, an event header, and the two  *)
(* ends of its data, which are only worth something together.              *)
(***************************************************************************)
EXTENDS Naturals, Sequences, SequencesExt

CONSTANTS
  MaxEvents,   (* bound: harness events of the turn                             *)
  MaxBeats     (* bound: heartbeats of the connection                           *)

ASSUME StreamAssumption == MaxEvents \in Nat /\ MaxBeats \in Nat

VARIABLES
  route,       (* the server side: where the turn is, and whether it was saved  *)
  sent,        (* the events it has put on the stream, in order                 *)
  wire,        (* the pieces on their way                                       *)
  closed,      (* the route has closed the stream                               *)
  cut,         (* the connection was lost                                       *)
  beats,
  partial,     (* what the parser holds back: the start of a frame              *)
  client       (* the turn as the client sees it                                *)

streamVars == <<route, sent, wire, closed, cut, beats, partial, client>>
routeVars == <<route, sent, closed, beats>>

(* An event: a harness event, ordinary or an error, has no header on the     *)
(* wire; the others are named.  status says what a result reports; silent is *)
(* one that is done and has no response.                                     *)
Unnamed == {"event", "trouble"}
Statuses == {"done", "silent", "error", "paused"}
NoEvent == [name |-> "none", n |-> 0, status |-> "none"]
Event(name, n) == [NoEvent EXCEPT !.name = name, !.n = n]
Result(status) == [NoEvent EXCEPT !.name = "done", !.status = status]

Piece(kind, event) == [kind |-> kind, event |-> event]
NewLine == Piece("newline", NoEvent)
KeepAlive == <<Piece("comment", NoEvent), NewLine, NewLine>>
Frame(event) ==
  (IF event.name \in Unnamed THEN <<>> ELSE <<Piece("header", event), NewLine>>)
  \o <<Piece("data", event), Piece("dataEnd", event), NewLine, NewLine>>

-----------------------------------------------------------------------------
StreamInit ==
  /\ route = [step |-> "running", saved |-> FALSE, warned |-> FALSE] /\ sent = <<>>
  /\ wire = <<>> /\ closed = FALSE /\ cut = FALSE /\ beats = 0 /\ partial = <<>>
  /\ client = [status |-> "streaming", seen |-> <<>>, warming |-> FALSE, started |-> 0,
               final |-> NoEvent, bubbles |-> <<>>, finished |-> 0]

(* send: nothing goes into a closed stream.  A reader that has left is not   *)
(* noticed, the frames go nowhere.                                           *)
SendFrame(event) ==
  IF closed THEN UNCHANGED <<sent, wire>>
  ELSE sent' = Append(sent, event) /\ wire' = (IF cut THEN <<>> ELSE wire \o Frame(event))

Stays == UNCHANGED <<cut, partial, client>>

(* onEvent: the harness commits an event, or emits it live.                  *)
Emit(name) ==
  /\ route.step = "running" /\ Len(sent) < MaxEvents
  /\ SendFrame(Event(name, Len(sent) + 1)) /\ UNCHANGED <<route, closed, beats>> /\ Stays

(* onWarming, at most once in a turn.                                        *)
Warn ==
  /\ route.step = "running" /\ ~route.warned
  /\ route' = [route EXCEPT !.warned = TRUE]
  /\ SendFrame(Event("warming", 0)) /\ UNCHANGED <<closed, beats>> /\ Stays

(* The keep-alive timer, which is cleared when the turn is over.             *)
Beat ==
  /\ route.step \in {"running", "answered"} /\ ~closed /\ beats < MaxBeats
  /\ beats' = beats + 1 /\ wire' = (IF cut THEN <<>> ELSE wire \o KeepAlive)
  /\ UNCHANGED <<route, sent, closed>> /\ Stays

(* runAndSave saves the row before the result is announced.                  *)
Report(status) ==
  /\ route.step = "running"
  /\ SendFrame(Result(status)) /\ route' = [route EXCEPT !.step = "answered", !.saved = TRUE]
  /\ UNCHANGED <<closed, beats>> /\ Stays

(* The run, or its save, throws: the error goes out and the stream closes.   *)
ThrowError ==
  /\ route.step = "running" /\ SendFrame(Event("error", 0))
  /\ closed' = TRUE /\ route' = [route EXCEPT !.step = "over"] /\ UNCHANGED beats /\ Stays

(* The title, if it comes while the turn waits for it; later it is dropped,  *)
(* as is whatever the summarization after the close would send.              *)
SendTitle ==
  /\ route.step \in {"answered", "settled"} /\ sent # <<>> /\ Last(sent).name # "title_updated"
  /\ SendFrame(Event("title_updated", 0)) /\ UNCHANGED <<route, closed, beats>> /\ Stays

(* onSettled: title or time limit, the stream closes.                        *)
CloseStream ==
  /\ route.step = "answered"
  /\ closed' = TRUE /\ route' = [route EXCEPT !.step = "settled"] /\ UNCHANGED <<sent, wire, beats>> /\ Stays

-----------------------------------------------------------------------------
(* parseFrame and JSON.parse: no data and half the data both give no event.  *)
IsEvent(frame) == {"data", "dataEnd"} \subseteq {frame[i].kind : i \in DOMAIN frame}
Parsed(frame) ==
  LET data == CHOOSE i \in DOMAIN frame : frame[i].kind = "data"
  IN  [header |-> IF \E i \in DOMAIN frame : frame[i].kind = "header"
                  THEN frame[data].event.name ELSE "message",
       event  |-> frame[data].event]

(* The two exits of runTurn retract the notice and finish the progress.      *)
Exit(c, status) == [c EXCEPT !.status = status, !.warming = FALSE, !.finished = @ + 1]
Failed(c) == [Exit(c, "error") EXCEPT !.bubbles = Append(@, "failure")]

(* One event: it says that the row is there, clears the notice unless it is  *)
(* one, and is dispatched.                                                   *)
Handle(c, parsed) ==
  LET event == parsed.event
      heard == [c EXCEPT !.started = 1, !.seen = Append(@, event), !.warming = (parsed.header = "warming")]
  IN  IF c.status # "streaming" THEN c
      ELSE CASE parsed.header = "error"     -> Failed(heard)
             [] parsed.header = "done"      -> [heard EXCEPT !.final = event]
             [] parsed.header = "message" /\ event.name = "trouble"
                                            -> [heard EXCEPT !.bubbles = Append(@, "trouble")]
             [] OTHER                       -> heard

HandleFrame(c, frame) == IF IsEvent(frame) THEN Handle(c, Parsed(frame)) ELSE c

(* buffer.split('\n\n'): a blank line ends a frame, which is handled; what   *)
(* stands behind the last one is held back.                                  *)
TakePiece(p, piece) ==
  IF piece = NewLine /\ p.rest # <<>> /\ Last(p.rest) = NewLine
  THEN [rest |-> <<>>, client |-> HandleFrame(p.client, Front(p.rest))]
  ELSE [p EXCEPT !.rest = Append(@, piece)]
TakeAll(p, pieces) ==
  LET after[i \in 0..Len(pieces)] == IF i = 0 THEN p ELSE TakePiece(after[i - 1], pieces[i])
  IN  after[Len(pieces)]

(* One read of the parser, of a chunk that ends anywhere.  Mutant: the start *)
(* of a frame is forgotten.                                                  *)
Taken(p, n) ==
  /\ client.status = "streaming" /\ n \in 1..Len(wire)
  /\ LET q == TakeAll(p, SubSeq(wire, 1, n)) IN client' = q.client /\ partial' = q.rest
  /\ wire' = SubSeq(wire, n + 1, Len(wire)) /\ UNCHANGED <<routeVars, cut>>
ReadForgets(n) == Taken([rest |-> <<>>, client |-> client], n)
Read(n)        == Taken([rest |-> partial, client |-> client], n)

(* The end of runTurn: a response is shown unless the result is an error.    *)
Concluded(c) ==
  LET shown == c.final.status \in {"done", "paused"}
      end   == CASE c.final.status = "error"  -> "error"
                 [] c.final.status = "paused" -> "awaiting-approval"
                 [] OTHER                     -> "done"
  IN  [Exit(c, end) EXCEPT !.bubbles = IF shown THEN Append(@, "answer") ELSE @]

(* The stream ends: what the buffer holds is tried as a last frame.          *)
ReadEnd ==
  /\ client.status = "streaming" /\ wire = <<>> /\ closed /\ ~cut
  /\ LET last == HandleFrame(client, partial)
     IN  client' = (IF last.status = "streaming" THEN Concluded(last) ELSE last)
  /\ partial' = <<>> /\ UNCHANGED <<routeVars, wire, cut>>

(* A request that is refused, a connection that is lost: the read rejects.   *)
LoseConnection ==
  /\ client.status = "streaming" /\ ~cut
  /\ cut' = TRUE /\ wire' = <<>> /\ UNCHANGED <<routeVars, partial, client>>
ReadRejects ==
  /\ client.status = "streaming" /\ cut
  /\ client' = Failed(client) /\ UNCHANGED <<routeVars, wire, cut, partial>>

(* Stop, or the page going away, aborts the request.                         *)
Abort ==
  /\ client.status = "streaming"
  /\ client' = Exit(client, "stopped") /\ cut' = TRUE /\ wire' = <<>>
  /\ UNCHANGED <<routeVars, partial>>

StreamNext ==
  \/ \E name \in Unnamed : Emit(name)
  \/ \E status \in Statuses : Report(status)
  \/ Warn \/ Beat \/ ThrowError \/ SendTitle \/ CloseStream
  \/ \E n \in 1..Len(wire) : Read(n)
  \/ ReadEnd \/ LoseConnection \/ ReadRejects \/ Abort

StreamSpec == StreamInit /\ [][StreamNext]_streamVars

-----------------------------------------------------------------------------
Streaming == client.status = "streaming"
Shown(bubble) == \E i \in DOMAIN client.bubbles : client.bubbles[i] = bubble

(* However the bytes are cut into chunks, the client hears the events of the *)
(* turn in order, none twice, and all of them if it ends undisturbed.        *)
HeardInOrder ==
  /\ IsPrefix(client.seen, sent)
  /\ Streaming /\ wire = <<>> /\ ~cut => client.seen = sent
  /\ client.status \in {"done", "awaiting-approval"} => client.seen = sent

(* The waiting notice stands only while the turn streams and the last thing  *)
(* it heard is that notice; the progress bar ends once.                      *)
NoticeRetracted ==
  /\ client.warming => Streaming /\ Last(client.seen).name = "warming"
  /\ client.finished = IF Streaming THEN 0 ELSE 1

(* What the user is shown of the end is so: an answer is saved on the server,*)
(* it does not stand beside a failure, an undisturbed failure is the run's   *)
(* own, and a turn that is done without an answer has reported none.         *)
EndIsSo ==
  /\ Shown("answer") => route.saved /\ ~Shown("failure")
  /\ client.status = "error" /\ ~cut =>
       client.final.status = "error" \/ (client.seen # <<>> /\ Last(client.seen).name = "error" /\ ~route.saved)
  /\ client.status = "done" => Shown("answer") \/ client.final.status = "silent"

(* What the client makes of a stream is what the turn said, whatever the     *)
(* chunks, the heartbeats between them and the way it ends.                  *)
TranscriptFaithful == HeardInOrder /\ NoticeRetracted /\ EndIsSo

(* Not so: an answer that has arrived is shown.  It is kept back for the     *)
(* title, and a connection lost in that time makes it a failure.             *)
AnswerShown == ~Streaming /\ client.final.status \in {"done", "paused"} => Shown("answer")
==============================================================================
