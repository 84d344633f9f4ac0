------------------------------ MODULE SshForward ------------------------------
(***************************************************************************)
(* One SSH connection of a client, forwarded to its target, and the audit  *)
(* rows of its sessions.                                                   *)
(*                                                                         *)
(*   - handleConn, one goroutine                          (Conn actions)   *)
(*   - forwardChannel, one goroutine per channel          (Chan actions)   *)
(*   - its two request goroutines and two copy goroutines                  *)
(*   - the client and the target, which may do anything the SSH protocol   *)
(*     allows, or nothing                                                  *)
(* "in" is the direction from the client to the target, "out" the other.   *)
(***************************************************************************)
EXTENDS Integers, FiniteSets

CONSTANTS
    Channels,    \* channels the client opens
    MaxIn,       \* bound on the chunks the client sends on a channel
    MaxOut,      \* bound on the chunks the target sends on a channel
    MaxDetail,   \* auditMaxDetailBytes, in chunks
    MaxFaults    \* bound on database errors, lost targets and crashes

ASSUME ForwardAssumption ==
    /\ MaxIn \in Nat /\ MaxOut \in Nat
    /\ MaxDetail \in Nat \ {0} /\ MaxFaults \in Nat

VARIABLES
    conn,      \* handleConn
    entry,     \* the entry of this connection in Proxy.connections
    chan,      \* per channel: forwardChannel and its goroutines
    down,      \* per channel: the client's side, as the proxy sees it
    up,        \* per channel: the target's side
    row,       \* per channel: its row in audit_logs
    faults     \* faults so far

vars == <<conn, entry, chan, down, up, row, faults>>

-----------------------------------------------------------------------------
\* What the proxy holds of one side of a channel.
Side ==
    [data : Nat,           \* chunks received and not yet read
     eof : BOOLEAN,        \* end of file received
     closed : BOOLEAN,     \* close received, or the transport lost
     sent : BOOLEAN,       \* close sent
     request : {"none", "queued", "noted"},
                           \* the next request of the client; the target's exit-status
     stderr : BOOLEAN,     \* extended data is waiting; nothing reads it
     total : Nat]          \* history: chunks ever received

\* What the client may ask for on a session; pty-req, env, signal and window-change are
\* "other". The event is the empty string ("none") until one of the first three.
Requests == {"exec", "shell", "subsystem", "other"}
Events == {"none", "exec", "shell", "subsystem"}

ChanState ==
    [pc : {"none", "offered", "opened", "forwarding", "closing", "ended", "lost"},
     kind : {"session", "tunnel"},   \* ChannelType: a session, or any other type
     inCopy : BOOLEAN,     \* the goroutine is running
     outCopy : BOOLEAN,
     inRequests : BOOLEAN,
     outRequests : BOOLEAN,
     event : Events,       \* audit.eventType
     exit : BOOLEAN,       \* audit.exitStatus is set
     output : Nat,         \* audit.output, in chunks
     outputTr : BOOLEAN,
     detail : Nat,         \* audit.detail: the input, in chunks
     detailTr : BOOLEAN,
     started : BOOLEAN,    \* the target has been given the command
     exited : BOOLEAN,     \* the client has been given the exit status
     written : Nat,        \* chunks written to the client
     other : BOOLEAN,      \* history: output came while the event was not "exec"
     dbError : BOOLEAN]    \* history: an audit statement failed

Row ==
    [status : {"none", "running", "completed"}, exit : BOOLEAN,
     output : Nat, detail : Nat, truncated : BOOLEAN]

\* Every variable has the shape its part of the code gives it.
TypeOK ==
    /\ conn \in {"new", "open", "draining", "closed"}
    /\ entry \in [listed : BOOLEAN, sessions : Int]
    /\ chan \in [Channels -> ChanState]
    /\ down \in [Channels -> Side]
    /\ up \in [Channels -> Side]
    /\ row \in [Channels -> Row]
    /\ faults \in 0..MaxFaults

NoChannel ==
    [pc |-> "none", kind |-> "tunnel", inCopy |-> FALSE, outCopy |-> FALSE,
     inRequests |-> FALSE, outRequests |-> FALSE, event |-> "none", exit |-> FALSE,
     output |-> 0, outputTr |-> FALSE, detail |-> 0, detailTr |-> FALSE,
     started |-> FALSE, exited |-> FALSE, written |-> 0, other |-> FALSE,
     dbError |-> FALSE]
NoRow == [status |-> "none", exit |-> FALSE, output |-> 0, detail |-> 0, truncated |-> FALSE]
Quiet ==
    [data |-> 0, eof |-> FALSE, closed |-> FALSE, sent |-> FALSE, request |-> "none",
     stderr |-> FALSE, total |-> 0]

Init ==
    /\ conn = "new"
    /\ entry = [listed |-> FALSE, sessions |-> 0]
    /\ chan = [c \in Channels |-> NoChannel]
    /\ down = [c \in Channels |-> Quiet]
    /\ up = [c \in Channels |-> Quiet]
    /\ row = [c \in Channels |-> NoRow]
    /\ faults = 0

\* The goroutines of the channel have been started and it has not ended.
Live(c) == chan[c].pc \in {"forwarding", "closing"}

\* The channel is of type "session": it has an auditSession.
Session(c) == chan[c].kind = "session"

\* Mutant of Sessions: counts every channel.
SessionsOfAnyType(c, delta) ==
    IF entry.listed
    THEN [entry EXCEPT !.sessions = entry.sessions + delta] ELSE entry

\* changeActiveSessions, for a channel of type "session". It does nothing once the
\* entry has been removed.
Sessions(c, delta) ==
    IF Session(c) /\ entry.listed
    THEN [entry EXCEPT !.sessions = entry.sessions + delta] ELSE entry

\* A chunk is taken from a side; a request of a side is at stage r.
Taken(side) == [side EXCEPT !.data = side.data - 1]
At(side, r) == [side EXCEPT !.request = r]

-----------------------------------------------------------------------------
(* handleConn *)

\* The client is authenticated, the route resolved and the target dialled.
Dial ==
    /\ conn = "new"
    /\ conn' = "open"
    /\ entry' = [entry EXCEPT !.listed = TRUE]
    /\ UNCHANGED <<chan, down, up, row, faults>>

\* An unknown type of credential, a key that cannot be read, another host key than the
\* one on record, or no connection: the client is dropped before it is listed.
DialFails ==
    /\ conn = "new"
    /\ conn' = "closed"
    /\ UNCHANGED <<entry, chan, down, up, row, faults>>

\* The transport of the client is gone: no more channels, every channel is closed.
ClientLost ==
    /\ conn = "open"
    /\ conn' = "draining"
    /\ down' = [c \in Channels |-> [down[c] EXCEPT !.closed = TRUE]]
    /\ UNCHANGED <<entry, chan, up, row, faults>>

\* wg.Wait, then the deferred functions: the entry is removed, the target closed.
ConnEnds ==
    /\ conn = "draining"
    /\ \A c \in Channels : chan[c].pc \in {"none", "ended"}
    /\ conn' = "closed"
    /\ entry' = [entry EXCEPT !.listed = FALSE]
    /\ UNCHANGED <<chan, down, up, row, faults>>

TargetLost ==
    /\ conn \in {"open", "draining"}
    /\ faults < MaxFaults
    /\ faults' = faults + 1
    /\ up' = [c \in Channels |-> [up[c] EXCEPT !.closed = TRUE]]
    /\ UNCHANGED <<conn, entry, chan, down, row>>

\* The proxy process ends: nothing is left but the rows.
Crash ==
    /\ conn \in {"open", "draining"}
    /\ faults < MaxFaults
    /\ faults' = faults + 1
    /\ conn' = "closed"
    /\ entry' = [listed |-> FALSE, sessions |-> 0]
    /\ chan' = [c \in Channels |->
                    IF chan[c].pc \in {"none", "ended"} THEN chan[c]
                    ELSE [chan[c] EXCEPT !.pc = "lost"]]
    /\ down' = [c \in Channels |-> [down[c] EXCEPT !.closed = TRUE]]
    /\ up' = [c \in Channels |-> [up[c] EXCEPT !.closed = TRUE]]
    /\ UNCHANGED row

-----------------------------------------------------------------------------
(* forwardChannel *)

\* The channel is opened at the target first; a refusal is passed on.
OpenUpstream(c) ==
    /\ chan[c].pc = "offered"
    /\ \/ ~up[c].closed /\ chan' = [chan EXCEPT ![c] = [@ EXCEPT !.pc = "opened"]]
       \/ chan' = [chan EXCEPT ![c] = [@ EXCEPT !.pc = "ended"]]
    /\ UNCHANGED <<conn, entry, down, up, row, faults>>

\* Then it is accepted, and the four goroutines start.
AcceptChannel(c) ==
    /\ chan[c].pc = "opened"
    /\ ~down[c].closed
    /\ chan' = [chan EXCEPT ![c] = [@ EXCEPT !.pc = "forwarding", !.inCopy = TRUE,
                                            !.outCopy = TRUE, !.inRequests = TRUE,
                                            !.outRequests = TRUE]]
    /\ entry' = Sessions(c, 1)
    /\ UNCHANGED <<conn, down, up, row, faults>>

AcceptFails(c) ==
    /\ chan[c].pc = "opened"
    /\ down[c].closed
    /\ chan' = [chan EXCEPT ![c] = [@ EXCEPT !.pc = "ended"]]
    /\ up' = [up EXCEPT ![c] = [@ EXCEPT !.sent = TRUE]]
    /\ UNCHANGED <<conn, entry, down, row, faults>>

\* Mutant of CloseBoth: returns from wg.Wait without closing the channels.
CloseNone(c) ==
    /\ chan[c].pc = "forwarding"
    /\ ~chan[c].inCopy /\ ~chan[c].outCopy
    /\ chan' = [chan EXCEPT ![c] = [@ EXCEPT !.pc = "closing"]]
    /\ UNCHANGED <<conn, entry, down, up, row, faults>>

\* wg.Wait: both copies have ended. Both channels are closed, which ends the two
\* request goroutines.
CloseBoth(c) ==
    /\ chan[c].pc = "forwarding"
    /\ ~chan[c].inCopy /\ ~chan[c].outCopy
    /\ chan' = [chan EXCEPT ![c] = [@ EXCEPT !.pc = "closing"]]
    /\ down' = [down EXCEPT ![c] = [@ EXCEPT !.sent = TRUE]]
    /\ up' = [up EXCEPT ![c] = [@ EXCEPT !.sent = TRUE]]
    /\ UNCHANGED <<conn, entry, row, faults>>

\* CompleteAuditLog, of a row that was inserted; it may fail.
CompleteRow(c) ==
    \/ row[c].status = "none" /\ UNCHANGED <<row, faults>>
    \/ /\ row[c].status # "none"
       /\ row' = [row EXCEPT ![c] =
                    [status |-> "completed", exit |-> chan[c].exit, output |-> chan[c].output,
                     detail |-> chan[c].detail,
                     truncated |-> chan[c].detailTr \/ chan[c].outputTr]]
       /\ UNCHANGED faults
    \/ /\ row[c].status # "none" /\ faults < MaxFaults
       /\ faults' = faults + 1
       /\ UNCHANGED row

\* Mutant of Finish: does not wait for the request goroutines.
FinishEarly(c) ==
    /\ chan[c].pc = "closing"
    /\ CompleteRow(c)
    /\ chan' = [chan EXCEPT ![c] = [@ EXCEPT !.pc = "ended"]]
    /\ entry' = Sessions(c, -1)
    /\ UNCHANGED <<conn, down, up>>

\* requestWG.Wait and the deferred functions.
Finish(c) ==
    /\ chan[c].pc = "closing"
    /\ ~chan[c].inRequests /\ ~chan[c].outRequests
    /\ CompleteRow(c)
    /\ chan' = [chan EXCEPT ![c] = [@ EXCEPT !.pc = "ended",
                                            !.dbError = chan[c].dbError \/ faults' # faults]]
    /\ entry' = Sessions(c, -1)
    /\ UNCHANGED <<conn, down, up>>

-----------------------------------------------------------------------------
(* forwardRequests, with noteRequest *)

\* eventType after a request of the client: a shell does not replace what is there.
EventAfter(c, request) ==
    IF request = "other" \/ (request = "shell" /\ chan[c].event # "none")
    THEN chan[c].event ELSE request

\* noteRequest inserts the row once there is an event, unless it exists. It is called for
\* every request of a session, so a row that could not be inserted is tried again by the
\* next one.
InsertRow(c, event) ==
    \/ /\ row[c].status # "none" \/ event = "none"
       /\ UNCHANGED <<row, faults>>
    \/ /\ row[c].status = "none" /\ event # "none"
       /\ row' = [row EXCEPT ![c] = [NoRow EXCEPT !.status = "running"]]
       /\ UNCHANGED faults
    \/ /\ row[c].status = "none" /\ event # "none"
       /\ faults < MaxFaults
       /\ faults' = faults + 1
       /\ UNCHANGED row

\* Mutant of NoteRequest: the row is not written before the command is passed on.
NoteRequestLater(c, request) ==
    /\ Live(c) /\ chan[c].inRequests
    /\ down[c].request = "queued"
    /\ down' = [down EXCEPT ![c] = At(down[c], "noted")]
    /\ chan' = [chan EXCEPT ![c] = [@ EXCEPT !.event = EventAfter(c, request)]]
    /\ UNCHANGED <<conn, entry, up, row, faults>>

\* A request of the client is noted: the first that starts something, and any later one,
\* which may change the event of the channel without a new row ...
NoteRequest(c, request) ==
    /\ Live(c) /\ chan[c].inRequests
    /\ down[c].request = "queued"
    /\ InsertRow(c, EventAfter(c, request))
    /\ down' = [down EXCEPT ![c] = At(down[c], "noted")]
    /\ chan' = [chan EXCEPT ![c] =
                    [@ EXCEPT !.event = EventAfter(c, request),
                              !.dbError = chan[c].dbError \/ faults' # faults]]
    /\ UNCHANGED <<conn, entry, up>>

\* ... and then passed on.
PassRequest(c) ==
    /\ Live(c) /\ chan[c].inRequests
    /\ down[c].request = "noted"
    /\ down' = [down EXCEPT ![c] = At(down[c], "none")]
    /\ chan' = [chan EXCEPT ![c] =
                    [@ EXCEPT !.started =
                         chan[c].started \/ (chan[c].event # "none"
                                             /\ ~up[c].closed /\ ~up[c].sent)]]
    /\ UNCHANGED <<conn, entry, up, row, faults>>

\* The target's exit-status.
NoteExit(c) ==
    /\ Live(c) /\ chan[c].outRequests
    /\ up[c].request = "queued"
    /\ InsertRow(c, chan[c].event)
    /\ up' = [up EXCEPT ![c] = At(up[c], "noted")]
    /\ chan' = [chan EXCEPT ![c] = [@ EXCEPT !.exit = TRUE,
                                            !.dbError = chan[c].dbError \/ faults' # faults]]
    /\ UNCHANGED <<conn, entry, down>>

PassExit(c) ==
    /\ Live(c) /\ chan[c].outRequests
    /\ up[c].request = "noted"
    /\ up' = [up EXCEPT ![c] = At(up[c], "none")]
    /\ chan' = [chan EXCEPT ![c] = [@ EXCEPT !.exited = ~(down[c].closed \/ down[c].sent)]]
    /\ UNCHANGED <<conn, entry, down, row, faults>>

\* A request goroutine ends when its channel is closed and nothing is left in it.
InRequestsEnd(c) ==
    /\ Live(c) /\ chan[c].inRequests
    /\ down[c].closed /\ down[c].request = "none"
    /\ chan' = [chan EXCEPT ![c] = [@ EXCEPT !.inRequests = FALSE]]
    /\ UNCHANGED <<conn, entry, down, up, row, faults>>

OutRequestsEnd(c) ==
    /\ Live(c) /\ chan[c].outRequests
    /\ up[c].closed /\ up[c].request = "none"
    /\ chan' = [chan EXCEPT ![c] = [@ EXCEPT !.outRequests = FALSE]]
    /\ UNCHANGED <<conn, entry, down, up, row, faults>>

-----------------------------------------------------------------------------
(* io.Copy. A copy ends at the end of its source, or when a write fails.     *)

\* auditSession.Write: the input of any session is captured, up to the limit.
Capture(c) ==
    IF ~Session(c) \/ chan[c].detailTr THEN chan[c]
    ELSE IF chan[c].detail = MaxDetail THEN [chan[c] EXCEPT !.detailTr = TRUE]
    ELSE [chan[c] EXCEPT !.detail = chan[c].detail + 1]

CopyIn(c) ==
    /\ Live(c) /\ chan[c].inCopy
    /\ down[c].data > 0
    /\ down' = [down EXCEPT ![c] = Taken(down[c])]
    /\ chan' = [chan EXCEPT ![c] = [Capture(c) EXCEPT !.inCopy = ~up[c].closed]]
    /\ UNCHANGED <<conn, entry, up, row, faults>>

CopyInEnds(c) ==
    /\ Live(c) /\ chan[c].inCopy
    /\ down[c].data = 0
    /\ down[c].eof \/ down[c].closed
    /\ chan' = [chan EXCEPT ![c] = [@ EXCEPT !.inCopy = FALSE]]
    /\ UNCHANGED <<conn, entry, down, up, row, faults>>

\* outputWriter.Write: only the output of an exec is recorded, up to the limit.
Record(c) ==
    IF chan[c].event # "exec" THEN [chan[c] EXCEPT !.other = TRUE]
    ELSE IF chan[c].outputTr THEN chan[c]
    ELSE IF chan[c].output = MaxDetail THEN [chan[c] EXCEPT !.outputTr = TRUE]
    ELSE [chan[c] EXCEPT !.output = chan[c].output + 1]

\* A chunk is recorded and then written to the client, or lost if it has gone.
Delivered(c) ==
    IF down[c].closed THEN [Record(c) EXCEPT !.outCopy = FALSE]
    ELSE [Record(c) EXCEPT !.written = chan[c].written + 1]

\* The client may stop reading: this step waits for it.
CopyOut(c) ==
    /\ Live(c) /\ chan[c].outCopy
    /\ up[c].data > 0
    /\ up' = [up EXCEPT ![c] = Taken(up[c])]
    /\ chan' = [chan EXCEPT ![c] = Delivered(c)]
    /\ UNCHANGED <<conn, entry, down, row, faults>>

\* Mutant of CopyOutEnds: ends at the target's close, with data left.
CopyOutAborts(c) ==
    /\ Live(c) /\ chan[c].outCopy
    /\ up[c].eof \/ up[c].closed
    /\ chan' = [chan EXCEPT ![c] = [@ EXCEPT !.outCopy = FALSE]]
    /\ UNCHANGED <<conn, entry, down, up, row, faults>>

CopyOutEnds(c) ==
    /\ Live(c) /\ chan[c].outCopy
    /\ up[c].data = 0
    /\ up[c].eof \/ up[c].closed
    /\ chan' = [chan EXCEPT ![c] = [@ EXCEPT !.outCopy = FALSE]]
    /\ UNCHANGED <<conn, entry, down, up, row, faults>>

-----------------------------------------------------------------------------
(* The client and the target. An SSH implementation answers a close with a   *)
(* close of its own; nothing else is expected of either.                     *)

Offer(c, kind) ==
    /\ conn = "open"
    /\ chan[c].pc = "none"
    /\ chan' = [chan EXCEPT ![c] = [@ EXCEPT !.pc = "offered", !.kind = kind]]
    /\ UNCHANGED <<conn, entry, down, up, row, faults>>

\* A side after one more chunk of data, an end of file or a close.
Chunk(side) == [side EXCEPT !.data = side.data + 1, !.total = side.total + 1]
Ends(side) == {[side EXCEPT !.eof = TRUE], [side EXCEPT !.closed = TRUE]}

ClientSends(c) ==
    /\ Live(c) /\ ~down[c].closed
    /\ \/ /\ ~down[c].eof /\ down[c].total < MaxIn
          /\ down' = [down EXCEPT ![c] = Chunk(down[c])]
       \/ \E side \in Ends(down[c]) : down' = [down EXCEPT ![c] = side]
    /\ UNCHANGED <<conn, entry, chan, up, row, faults>>

ClientRequests(c) ==
    /\ Live(c) /\ ~down[c].closed
    /\ Session(c)
    /\ down[c].request = "none"
    /\ down' = [down EXCEPT ![c] = At(down[c], "queued")]
    /\ UNCHANGED <<conn, entry, chan, up, row, faults>>

\* A command has output once it has been started.
TargetSends(c) ==
    /\ Live(c) /\ ~up[c].closed
    /\ \/ /\ ~up[c].eof /\ up[c].total < MaxOut
          /\ Session(c) => chan[c].started
          /\ up' = [up EXCEPT ![c] = Chunk(up[c])]
       \/ \E side \in Ends(up[c]) : up' = [up EXCEPT ![c] = side]
    /\ UNCHANGED <<conn, entry, chan, down, row, faults>>

\* stderr of the command: extended data, which no goroutine reads.
TargetFails(c) ==
    /\ Live(c) /\ ~up[c].closed /\ ~up[c].eof
    /\ chan[c].started
    /\ up' = [up EXCEPT ![c] = [@ EXCEPT !.stderr = TRUE]]
    /\ UNCHANGED <<conn, entry, chan, down, row, faults>>

TargetExits(c) ==
    /\ Live(c) /\ ~up[c].closed
    /\ chan[c].started /\ ~chan[c].exit
    /\ up[c].request = "none"
    /\ up' = [up EXCEPT ![c] = At(up[c], "queued")]
    /\ UNCHANGED <<conn, entry, chan, down, row, faults>>

ClientAnswersClose(c) ==
    /\ down[c].sent /\ ~down[c].closed
    /\ down' = [down EXCEPT ![c] = [@ EXCEPT !.closed = TRUE]]
    /\ UNCHANGED <<conn, entry, chan, up, row, faults>>

TargetAnswersClose(c) ==
    /\ up[c].sent /\ ~up[c].closed
    /\ up' = [up EXCEPT ![c] = [@ EXCEPT !.closed = TRUE]]
    /\ UNCHANGED <<conn, entry, chan, down, row, faults>>

-----------------------------------------------------------------------------
ChanStep(c) ==
    \/ OpenUpstream(c) \/ AcceptChannel(c) \/ AcceptFails(c) \/ CloseBoth(c) \/ Finish(c)

\* SendRequest may wait for an answer, and a write for the peer to read, as long as the
\* peer has not gone: those steps are the peer's.
RequestsIn(c) ==
    \/ \E request \in Requests : NoteRequest(c, request)
    \/ PassRequest(c) /\ up[c].closed
    \/ InRequestsEnd(c)
RequestsOut(c) == NoteExit(c) \/ (PassExit(c) /\ down[c].closed) \/ OutRequestsEnd(c)
CopiesOut(c) == (CopyOut(c) /\ down[c].closed) \/ CopyOutEnds(c)
CopiesIn(c) == (CopyIn(c) /\ up[c].closed) \/ CopyInEnds(c)

AnswersClose(c) == ClientAnswersClose(c) \/ TargetAnswersClose(c)

Peers(c) ==
    \/ \E kind \in {"session", "tunnel"} : Offer(c, kind)
    \/ ClientSends(c) \/ ClientRequests(c)
    \/ TargetSends(c) \/ TargetFails(c) \/ TargetExits(c)
    \/ (CopyOut(c) /\ ~down[c].closed) \/ (CopyIn(c) /\ ~up[c].closed)
    \/ (PassExit(c) /\ ~down[c].closed) \/ (PassRequest(c) /\ ~up[c].closed)

Next ==
    \/ Dial \/ DialFails \/ ClientLost \/ ConnEnds \/ TargetLost \/ Crash
    \/ \E c \in Channels :
        \/ ChanStep(c) \/ RequestsIn(c) \/ RequestsOut(c) \/ CopiesIn(c) \/ CopiesOut(c)
        \/ AnswersClose(c) \/ Peers(c)

Spec == Init /\ [][Next]_vars

\* Every goroutine of the proxy runs while it can; an SSH peer answers a close. Nothing
\* else is assumed of the client and the target, not even that they read.
Fairness ==
    /\ WF_vars(ConnEnds)
    /\ \A c \in Channels :
        /\ WF_vars(ChanStep(c))
        /\ WF_vars(RequestsIn(c)) /\ WF_vars(RequestsOut(c))
        /\ WF_vars(CopiesIn(c)) /\ WF_vars(CopiesOut(c))
        /\ WF_vars(ClientAnswersClose(c)) /\ WF_vars(TargetAnswersClose(c))

FairSpec == Spec /\ Fairness

-----------------------------------------------------------------------------
(* Safety *)

\* A command that reached the target is on record, even if the proxy crashes at once:
\* the row is written before the command is passed on, and it stays "running" unless
\* forwardChannel has finished.
OnRecord ==
    \A c \in Channels :
        chan[c].started /\ ~chan[c].dbError
            => row[c].status = IF chan[c].pc = "ended" THEN "completed" ELSE "running"

\* The completed row of a session has what the channel saw: the exit status that the
\* client was given, although the goroutine that notes it is not the one that completes
\* the row; all the input; and all the output, if it came while the event was "exec". A
\* row that lacks some of them says so, and it says so only if one direction was over
\* the limit.
SeenOnRecord ==
    \A c \in Channels :
        Session(c) /\ chan[c].pc = "ended" /\ chan[c].event # "none" /\ ~chan[c].dbError
            => /\ row[c].status = "completed"
               /\ chan[c].exited => row[c].exit
               /\ row[c].output <= MaxDetail /\ row[c].detail <= MaxDetail
               /\ IF row[c].truncated
                  THEN up[c].total > MaxDetail \/ down[c].total > MaxDetail
                  ELSE /\ row[c].detail = down[c].total - down[c].data
                       /\ chan[c].other \/ row[c].output >= chan[c].written

\* When the channels are closed after both copies, a client that still listens has been
\* given all the standard output that was received.
OutputDelivered ==
    \A c \in Channels :
        chan[c].pc = "closing" /\ ~down[c].closed => chan[c].written = up[c].total

\* The session counter of the connection is the number of sessions that are running,
\* and the connection is listed as long as there is one.
SessionsCounted ==
    LET running == {c \in Channels : Session(c) /\ Live(c)} IN
    /\ entry.sessions = Cardinality(running)
    /\ running # {} => entry.listed

\* The output of a command is its stdout and its stderr: when the channels are closed
\* after both copies, none of either is left behind for a client that still listens.
StderrDelivered ==
    \A c \in Channels :
        chan[c].pc = "closing" /\ ~down[c].closed => up[c].data = 0 /\ ~up[c].stderr

-----------------------------------------------------------------------------
(* Liveness *)

\* Both directions have ended, and a chunk that is left has nobody to go to.
Over(c) ==
    /\ down[c].eof \/ down[c].closed
    /\ up[c].eof \/ up[c].closed
    /\ down[c].data = 0 \/ up[c].closed
    /\ up[c].data = 0 \/ down[c].closed

\* Once both directions have ended forwardChannel returns, even if neither peer closes
\* first: nobody waits for a request, a copy or a close that will not come.
EndsWithBoth ==
    \A c \in Channels : Over(c) /\ Live(c) ~> ~Live(c)
=============================================================================
