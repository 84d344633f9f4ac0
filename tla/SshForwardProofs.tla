--------------------------- MODULE SshForwardProofs ---------------------------
(***************************************************************************)
(* Proofs about SshForward, for any number of channels, chunks and faults  *)
(* and any limit.                                                          *)
(***************************************************************************)
EXTENDS SshForward, FiniteSetTheorems, TLAPS

-----------------------------------------------------------------------------
(* The connection *)

\* The entry is listed from the dial to the end of handleConn, and handleConn outlives the
\* channels.
ConnInv ==
    /\ entry.listed <=> conn \in {"open", "draining"}
    /\ \A c \in Channels :
        chan[c].pc \in {"offered", "opened", "forwarding", "closing"} => entry.listed

Running == {c \in Channels : Session(c) /\ Live(c)}

\* At any moment finitely many sessions run: they start one at a time.
CountInv ==
    /\ IsFiniteSet(Running)
    /\ entry.sessions = Cardinality(Running)

-----------------------------------------------------------------------------
(* One channel *)

\* Nothing has happened on a channel whose goroutines were not started.
Untouched(c) ==
    chan[c].pc \in {"none", "offered", "opened"} =>
        /\ chan[c].event = "none"
        /\ ~chan[c].exit /\ ~chan[c].started /\ ~chan[c].exited /\ ~chan[c].dbError
        /\ chan[c].output = 0 /\ ~chan[c].outputTr /\ chan[c].written = 0
        /\ chan[c].detail = 0 /\ ~chan[c].detailTr
        /\ row[c].status = "none"
        /\ down[c].data = 0 /\ down[c].total = 0 /\ down[c].request = "none"
        /\ up[c].data = 0 /\ up[c].total = 0 /\ up[c].request = "none"

\* A command is passed on after it was noted, and what was noted is in the database until
\* forwardChannel is over.
Noted(c) ==
    /\ chan[c].started => chan[c].event # "none"
    /\ chan[c].event # "none" /\ ~chan[c].dbError =>
        row[c].status = IF chan[c].pc = "ended" THEN "completed" ELSE "running"
    /\ Live(c) => row[c].status # "completed"

\* The exit status is noted before the client gets it.
ExitNoted(c) == chan[c].exited \/ up[c].request = "noted" => chan[c].exit

\* Chunks from the target: received, then recorded, then written. The command of a session has
\* no output before it was started. The copy ends with nothing left, or without a client.
Copied(c) ==
    /\ chan[c].written + up[c].data <= up[c].total
    /\ Session(c) /\ up[c].total > 0 => chan[c].started
    /\ Live(c) /\ ~down[c].closed =>
        /\ chan[c].written + up[c].data = up[c].total
        /\ ~chan[c].outCopy => up[c].data = 0 /\ (up[c].eof \/ up[c].closed)
    /\ chan[c].pc = "closing" => ~chan[c].outCopy

\* While the event is "exec" every chunk is recorded before it is written, until the limit is
\* reached.
Recorded(c) ==
    /\ chan[c].output <= MaxDetail
    /\ chan[c].output + up[c].data <= up[c].total
    /\ ~chan[c].outputTr /\ ~chan[c].other => chan[c].written <= chan[c].output
    /\ chan[c].outputTr => MaxDetail + up[c].data < up[c].total

\* The input of a session is captured as it is read, until the limit is reached.
Captured(c) ==
    Session(c) =>
        /\ chan[c].detail <= MaxDetail
        /\ IF chan[c].detailTr THEN MaxDetail + down[c].data < down[c].total
           ELSE chan[c].detail + down[c].data = down[c].total

\* The row was completed with what the channel had.
Completed(c) ==
    chan[c].pc = "ended" /\ chan[c].event # "none" /\ ~chan[c].dbError =>
        /\ row[c].exit = chan[c].exit
        /\ row[c].output = chan[c].output /\ row[c].detail = chan[c].detail
        /\ row[c].truncated = (chan[c].detailTr \/ chan[c].outputTr)

ChannelInv(c) ==
    /\ Untouched(c) /\ Noted(c) /\ ExitNoted(c)
    /\ Copied(c) /\ Recorded(c) /\ Captured(c) /\ Completed(c)

ChannelsInv == \A c \in Channels : ChannelInv(c)
ForwardInv == TypeOK /\ ConnInv /\ CountInv /\ ChannelsInv

-----------------------------------------------------------------------------
(* Frames *)

Same(d) == chan'[d] = chan[d] /\ down'[d] = down[d] /\ up'[d] = up[d] /\ row'[d] = row[d]

\* At most channel c is touched.
Only(c) == \A d \in Channels \ {c} : Same(d)

\* The channel starts, ends or keeps running its goroutines.
SamePlace(c) ==
    /\ chan'[c].kind = chan[c].kind
    /\ \/ chan'[c].pc = chan[c].pc
       \/ chan[c].pc = "forwarding" /\ chan'[c].pc = "closing"

LEMMA Typed ==
    ASSUME TypeOK, NEW c \in Channels
    PROVE  chan[c] \in ChanState /\ down[c] \in Side /\ up[c] \in Side /\ row[c] \in Row
BY DEF TypeOK

LEMMA InsertTyped ==
    ASSUME TypeOK, NEW c \in Channels, NEW event, InsertRow(c, event)
    PROVE  row' \in [Channels -> Row] /\ faults' \in 0..MaxFaults
<1>1. row \in [Channels -> Row] /\ faults \in 0..MaxFaults /\ MaxFaults \in Nat
    BY ForwardAssumption DEF TypeOK
<1>2. [NoRow EXCEPT !.status = "running"] \in Row
    BY DEF NoRow, Row
<1>3. row' \in [Channels -> Row]
    BY <1>1, <1>2 DEF InsertRow
<1>4. faults' \in 0..MaxFaults
    BY <1>1 DEF InsertRow
<1> QED BY <1>3, <1>4

LEMMA CompleteTyped ==
    ASSUME TypeOK, NEW c \in Channels, CompleteRow(c)
    PROVE  row' \in [Channels -> Row] /\ faults' \in 0..MaxFaults
<1>1. row \in [Channels -> Row] /\ faults \in 0..MaxFaults /\ MaxFaults \in Nat
    BY ForwardAssumption DEF TypeOK
<1>2. [status |-> "completed", exit |-> chan[c].exit,
        output |-> chan[c].output, detail |-> chan[c].detail,
        truncated |-> chan[c].detailTr \/ chan[c].outputTr] \in Row
    BY DEF TypeOK, ChanState, Row
<1>3. row' \in [Channels -> Row]
    BY <1>1, <1>2 DEF CompleteRow
<1>4. faults' \in 0..MaxFaults
    BY <1>1 DEF CompleteRow
<1> QED BY <1>3, <1>4

LEMMA EventsOf ==
    ASSUME TypeOK, NEW c \in Channels, NEW request \in Requests
    PROVE  /\ EventAfter(c, request) \in Events
           /\ chan[c].event # "none" => EventAfter(c, request) # "none"
BY DEF TypeOK, ChanState, EventAfter, Requests, Events

LEMMA SameInv == ASSUME NEW d \in Channels, ChannelInv(d), Same(d) PROVE ChannelInv(d)'
BY DEF ChannelInv, Same, Untouched, Noted, ExitNoted, Copied, Recorded, Captured, Completed,
        Live, Session

\* The invariant of the channels need only be shown of the one that moved.
LEMMA OnlyOne ==
    ASSUME ChannelsInv, NEW c \in Channels, Only(c), ChannelInv(c)' PROVE ChannelsInv'
<1> SUFFICES ASSUME NEW d \in Channels PROVE ChannelInv(d)'
    BY DEF ChannelsInv
<1>1. CASE d = c BY <1>1
<1>2. CASE d # c
    <2>1. Same(d) /\ ChannelInv(d)
        BY <1>2 DEF Only, ChannelsInv
    <2> QED BY <2>1, SameInv
<1> QED BY <1>1, <1>2

\* A step that moves no channel between running and not leaves the count alone.
LEMMA CountFrame ==
    ASSUME CountInv, NEW c \in Channels, Only(c), SamePlace(c), entry' = entry
    PROVE  CountInv'
<1>1. Running' = Running
    BY DEF Running, Only, Same, SamePlace, Session, Live
<1> QED BY <1>1 DEF CountInv

LEMMA ConnFrame ==
    ASSUME ConnInv, NEW c \in Channels, Only(c), SamePlace(c), entry' = entry, conn' = conn
    PROVE  ConnInv'
BY DEF ConnInv, Only, Same, SamePlace

\* What is left to show of a step that moves no channel between running and not.
LEMMA StepKeeps ==
    ASSUME ForwardInv, NEW c \in Channels, Only(c), SamePlace(c), entry' = entry, conn' = conn,
           TypeOK', ChannelInv(c)'
    PROVE  ForwardInv'
<1>1. TypeOK /\ ConnInv /\ CountInv /\ ChannelsInv
    BY DEF ForwardInv
<1>2. ConnInv' BY <1>1, ConnFrame
<1>3. CountInv' BY <1>1, CountFrame
<1>4. ChannelsInv' BY <1>1, OnlyOne
<1> QED BY <1>2, <1>3, <1>4 DEF ForwardInv

-----------------------------------------------------------------------------
(* Initial states *)

LEMMA InitInv == Init => ForwardInv
<1> SUFFICES ASSUME Init PROVE ForwardInv
    OBVIOUS
<1>1. TypeOK
    BY ForwardAssumption DEF Init, TypeOK, ChanState, Events, Side, Row, NoChannel,
        NoRow, Quiet
<1>2. ConnInv
    BY DEF Init, ConnInv, NoChannel
<1>3. Running = {}
    BY DEF Init, Running, Live, NoChannel
<1>4. CountInv
    BY <1>3, FS_EmptySet DEF Init, CountInv
<1>5. ChannelsInv
    BY ForwardAssumption DEF Init, ChannelsInv, ChannelInv, Untouched, Noted, ExitNoted,
        Copied, Recorded, Captured, Completed, Live, Session, NoChannel, NoRow, Quiet
<1> QED BY <1>1, <1>2, <1>4, <1>5 DEF ForwardInv

-----------------------------------------------------------------------------
(* The four goroutines and the peers: steps of a channel that runs *)

LEMMA CloseBothKeeps == ASSUME ForwardInv, NEW c \in Channels, CloseBoth(c) PROVE ForwardInv'
<1>1. TypeOK /\ ChannelInv(c)
    BY DEF ForwardInv, ChannelsInv
<1>2. chan[c] \in ChanState /\ down[c] \in Side /\ up[c] \in Side /\ row[c] \in Row
    BY <1>1, Typed
<1>3. Only(c) /\ SamePlace(c)
    BY <1>1, <1>2 DEF TypeOK, CloseBoth, Only, Same, SamePlace, ChanState
<1>4. TypeOK'
    <2>1. chan' \in [Channels -> ChanState]
        BY <1>1, <1>2, ForwardAssumption DEF TypeOK, CloseBoth, ChanState
    <2>2. down' \in [Channels -> Side]
        BY <1>1, <1>2, ForwardAssumption DEF TypeOK, CloseBoth, Side
    <2>3. up' \in [Channels -> Side]
        BY <1>1, <1>2, ForwardAssumption DEF TypeOK, CloseBoth, Side
    <2> QED BY <1>1, <2>1, <2>2, <2>3 DEF TypeOK, CloseBoth
<1>5. ChannelInv(c)'
    BY <1>1, <1>2, ForwardAssumption DEF TypeOK, CloseBoth, ChanState, Side, Row, NoRow,
        ChannelInv, Untouched, Noted, ExitNoted, Copied, Recorded, Captured, Completed,
        Live, Session
<1> QED BY <1>3, <1>4, <1>5, StepKeeps DEF CloseBoth

LEMMA NoteRequestKeeps ==
    ASSUME ForwardInv, NEW c \in Channels, NEW request \in Requests, NoteRequest(c, request)
    PROVE  ForwardInv'
<1>1. TypeOK /\ ChannelInv(c)
    BY DEF ForwardInv, ChannelsInv
<1>2. chan[c] \in ChanState /\ down[c] \in Side /\ up[c] \in Side /\ row[c] \in Row
    BY <1>1, Typed
<1>. PICK event \in Events :
        event = EventAfter(c, request) /\ (chan[c].event # "none" => event # "none")
    BY <1>1, EventsOf
<1>3. Only(c) /\ SamePlace(c)
    BY <1>1, <1>2 DEF TypeOK, NoteRequest, InsertRow, At, Only, Same, SamePlace, ChanState
<1>4. TypeOK'
    <2>1. chan' \in [Channels -> ChanState]
        BY <1>1, <1>2, ForwardAssumption DEF TypeOK, NoteRequest, InsertRow, At, ChanState
    <2>2. down' \in [Channels -> Side]
        BY <1>1, <1>2, ForwardAssumption DEF TypeOK, NoteRequest, InsertRow, At, Side
    <2>3. row' \in [Channels -> Row] /\ faults' \in 0..MaxFaults
        BY <1>1, InsertTyped DEF NoteRequest
    <2> QED BY <1>1, <2>1, <2>2, <2>3 DEF TypeOK, NoteRequest
<1>5. ChannelInv(c)'
    BY <1>1, <1>2, ForwardAssumption DEF TypeOK, NoteRequest, InsertRow, At, ChanState, Side, Row,
        NoRow, ChannelInv, Untouched, Noted, ExitNoted, Copied, Recorded, Captured, Completed, Live,
        Session
<1> QED BY <1>3, <1>4, <1>5, StepKeeps DEF NoteRequest

LEMMA PassRequestKeeps == ASSUME ForwardInv, NEW c \in Channels, PassRequest(c) PROVE ForwardInv'
<1>1. TypeOK /\ ChannelInv(c)
    BY DEF ForwardInv, ChannelsInv
<1>2. chan[c] \in ChanState /\ down[c] \in Side /\ up[c] \in Side /\ row[c] \in Row
    BY <1>1, Typed
<1>3. Only(c) /\ SamePlace(c)
    BY <1>1, <1>2 DEF TypeOK, PassRequest, At, Only, Same, SamePlace, ChanState
<1>4. TypeOK'
    <2>1. chan' \in [Channels -> ChanState]
        BY <1>1, <1>2, ForwardAssumption DEF TypeOK, PassRequest, At, ChanState
    <2>2. down' \in [Channels -> Side]
        BY <1>1, <1>2, ForwardAssumption DEF TypeOK, PassRequest, At, Side
    <2> QED BY <1>1, <2>1, <2>2 DEF TypeOK, PassRequest
<1>5. ChannelInv(c)'
    BY <1>1, <1>2, ForwardAssumption DEF TypeOK, PassRequest, At, ChanState, Side, Row, NoRow,
        ChannelInv, Untouched, Noted, ExitNoted, Copied, Recorded, Captured, Completed,
        Live, Session
<1> QED BY <1>3, <1>4, <1>5, StepKeeps DEF PassRequest

LEMMA NoteExitKeeps == ASSUME ForwardInv, NEW c \in Channels, NoteExit(c) PROVE ForwardInv'
<1>1. TypeOK /\ ChannelInv(c)
    BY DEF ForwardInv, ChannelsInv
<1>2. chan[c] \in ChanState /\ down[c] \in Side /\ up[c] \in Side /\ row[c] \in Row
    BY <1>1, Typed
<1>3. Only(c) /\ SamePlace(c)
    BY <1>1, <1>2 DEF TypeOK, NoteExit, InsertRow, At, Only, Same, SamePlace, ChanState
<1>4. TypeOK'
    <2>1. chan' \in [Channels -> ChanState]
        BY <1>1, <1>2, ForwardAssumption DEF TypeOK, NoteExit, InsertRow, At, ChanState
    <2>2. up' \in [Channels -> Side]
        BY <1>1, <1>2, ForwardAssumption DEF TypeOK, NoteExit, InsertRow, At, Side
    <2>3. row' \in [Channels -> Row] /\ faults' \in 0..MaxFaults
        BY <1>1, InsertTyped DEF NoteExit
    <2> QED BY <1>1, <2>1, <2>2, <2>3 DEF TypeOK, NoteExit
<1>5. ChannelInv(c)'
    <2>1. Untouched(c)'
        BY <1>1, <1>2 DEF TypeOK, NoteExit, InsertRow, At, ChanState, Side, Row, NoRow,
            ChannelInv, Untouched, Noted, ExitNoted, Copied, Recorded, Captured, Completed,
        Live, Session
    <2>2. Noted(c)'
        BY <1>1, <1>2 DEF TypeOK, NoteExit, InsertRow, At, ChanState, Side, Row, NoRow,
            ChannelInv, Untouched, Noted, ExitNoted, Copied, Recorded, Captured, Completed,
        Live, Session
    <2>3. ExitNoted(c)'
        BY <1>1, <1>2 DEF TypeOK, NoteExit, InsertRow, At, ChanState, Side, Row, NoRow,
            ChannelInv, Untouched, Noted, ExitNoted, Copied, Recorded, Captured, Completed,
        Live, Session
    <2>4. Copied(c)'
        BY <1>1, <1>2 DEF TypeOK, NoteExit, InsertRow, At, ChanState, Side, Row, NoRow,
            ChannelInv, Untouched, Noted, ExitNoted, Copied, Recorded, Captured, Completed,
        Live, Session
    <2>5. Recorded(c)'
        BY <1>1, <1>2 DEF TypeOK, NoteExit, InsertRow, At, ChanState, Side, Row, NoRow,
            ChannelInv, Untouched, Noted, ExitNoted, Copied, Recorded, Captured, Completed,
        Live, Session
    <2>6. Completed(c)'
        BY <1>1, <1>2 DEF TypeOK, NoteExit, InsertRow, At, ChanState, Side, Row, NoRow,
            ChannelInv, Untouched, Noted, ExitNoted, Copied, Recorded, Captured, Completed,
        Live, Session
    <2>7. Captured(c)'
        BY <1>1, <1>2 DEF TypeOK, NoteExit, InsertRow, At, ChanState, Side, Captured, ChannelInv, Session
    <2> QED BY <2>1, <2>2, <2>3, <2>4, <2>5, <2>6, <2>7 DEF ChannelInv
<1> QED BY <1>3, <1>4, <1>5, StepKeeps DEF NoteExit

LEMMA PassExitKeeps == ASSUME ForwardInv, NEW c \in Channels, PassExit(c) PROVE ForwardInv'
<1>1. TypeOK /\ ChannelInv(c)
    BY DEF ForwardInv, ChannelsInv
<1>2. chan[c] \in ChanState /\ down[c] \in Side /\ up[c] \in Side /\ row[c] \in Row
    BY <1>1, Typed
<1>3. Only(c) /\ SamePlace(c)
    BY <1>1, <1>2 DEF TypeOK, PassExit, At, Only, Same, SamePlace, ChanState
<1>4. TypeOK'
    <2>1. chan' \in [Channels -> ChanState]
        BY <1>1, <1>2, ForwardAssumption DEF TypeOK, PassExit, At, ChanState
    <2>2. up' \in [Channels -> Side]
        BY <1>1, <1>2, ForwardAssumption DEF TypeOK, PassExit, At, Side
    <2> QED BY <1>1, <2>1, <2>2 DEF TypeOK, PassExit
<1>5. ChannelInv(c)'
    BY <1>1, <1>2, ForwardAssumption DEF TypeOK, PassExit, At, ChanState, Side, Row, NoRow,
        ChannelInv, Untouched, Noted, ExitNoted, Copied, Recorded, Captured, Completed,
        Live, Session
<1> QED BY <1>3, <1>4, <1>5, StepKeeps DEF PassExit

LEMMA InRequestsEndKeeps ==
    ASSUME ForwardInv, NEW c \in Channels, InRequestsEnd(c) PROVE ForwardInv'
<1>1. TypeOK /\ ChannelInv(c)
    BY DEF ForwardInv, ChannelsInv
<1>2. chan[c] \in ChanState /\ down[c] \in Side /\ up[c] \in Side /\ row[c] \in Row
    BY <1>1, Typed
<1>3. Only(c) /\ SamePlace(c)
    BY <1>1, <1>2 DEF TypeOK, InRequestsEnd, Only, Same, SamePlace, ChanState
<1>4. TypeOK'
    <2>1. chan' \in [Channels -> ChanState]
        BY <1>1, <1>2, ForwardAssumption DEF TypeOK, InRequestsEnd, ChanState
    <2> QED BY <1>1, <2>1 DEF TypeOK, InRequestsEnd
<1>5. ChannelInv(c)'
    BY <1>1, <1>2, ForwardAssumption DEF TypeOK, InRequestsEnd, ChanState, Side, Row, NoRow,
        ChannelInv, Untouched, Noted, ExitNoted, Copied, Recorded, Captured, Completed,
        Live, Session
<1> QED BY <1>3, <1>4, <1>5, StepKeeps DEF InRequestsEnd

LEMMA OutRequestsEndKeeps ==
    ASSUME ForwardInv, NEW c \in Channels, OutRequestsEnd(c) PROVE ForwardInv'
<1>1. TypeOK /\ ChannelInv(c)
    BY DEF ForwardInv, ChannelsInv
<1>2. chan[c] \in ChanState /\ down[c] \in Side /\ up[c] \in Side /\ row[c] \in Row
    BY <1>1, Typed
<1>3. Only(c) /\ SamePlace(c)
    BY <1>1, <1>2 DEF TypeOK, OutRequestsEnd, Only, Same, SamePlace, ChanState
<1>4. TypeOK'
    <2>1. chan' \in [Channels -> ChanState]
        BY <1>1, <1>2, ForwardAssumption DEF TypeOK, OutRequestsEnd, ChanState
    <2> QED BY <1>1, <2>1 DEF TypeOK, OutRequestsEnd
<1>5. ChannelInv(c)'
    BY <1>1, <1>2, ForwardAssumption DEF TypeOK, OutRequestsEnd, ChanState, Side, Row, NoRow,
        ChannelInv, Untouched, Noted, ExitNoted, Copied, Recorded, Captured, Completed,
        Live, Session
<1> QED BY <1>3, <1>4, <1>5, StepKeeps DEF OutRequestsEnd

LEMMA CopyInKeeps == ASSUME ForwardInv, NEW c \in Channels, CopyIn(c) PROVE ForwardInv'
<1>1. TypeOK /\ ChannelInv(c)
    BY DEF ForwardInv, ChannelsInv
<1>2. chan[c] \in ChanState /\ down[c] \in Side /\ up[c] \in Side /\ row[c] \in Row
    BY <1>1, Typed
<1>3. PICK detail \in Nat, cut \in BOOLEAN, copies \in BOOLEAN :
        /\ chan'[c] = [chan[c] EXCEPT !.detail = detail, !.detailTr = cut, !.inCopy = copies]
        /\ IF ~Session(c) \/ chan[c].detailTr
           THEN detail = chan[c].detail /\ cut = chan[c].detailTr
           ELSE IF chan[c].detail = MaxDetail THEN detail = chan[c].detail /\ cut
           ELSE detail = chan[c].detail + 1 /\ ~cut
    <2>1. chan[c].detail \in Nat /\ chan[c].detail + 1 \in Nat /\ chan[c].detailTr \in BOOLEAN
        BY <1>2 DEF ChanState
    <2>2. chan'[c] = [Capture(c) EXCEPT !.inCopy = ~up[c].closed] /\ (~up[c].closed) \in BOOLEAN
        BY <1>1 DEF TypeOK, CopyIn
    <2>3. CASE ~Session(c) \/ chan[c].detailTr
        <3>1. chan'[c] = [chan[c] EXCEPT !.detail = chan[c].detail,
                                        !.detailTr = chan[c].detailTr, !.inCopy = ~up[c].closed]
            BY <1>2, <2>2, <2>3 DEF Capture, ChanState
        <3> QED BY <2>1, <2>2, <2>3, <3>1
    <2>4. CASE Session(c) /\ ~chan[c].detailTr /\ chan[c].detail = MaxDetail
        <3>1. chan'[c] = [chan[c] EXCEPT !.detail = chan[c].detail, !.detailTr = TRUE,
                                        !.inCopy = ~up[c].closed]
            BY <1>2, <2>2, <2>4 DEF Capture, ChanState
        <3> QED BY <2>1, <2>2, <2>4, <3>1
    <2>5. CASE Session(c) /\ ~chan[c].detailTr /\ chan[c].detail # MaxDetail
        <3>1. chan'[c] = [chan[c] EXCEPT !.detail = chan[c].detail + 1, !.detailTr = FALSE,
                                        !.inCopy = ~up[c].closed]
            BY <1>2, <2>2, <2>5 DEF Capture, ChanState
        <3> QED BY <2>1, <2>2, <2>5, <3>1
    <2> QED BY <2>3, <2>4, <2>5
<1>4. /\ Live(c) /\ down[c].data > 0 /\ row' = row /\ up' = up /\ down'[c] = Taken(down[c])
      /\ UNCHANGED <<conn, entry, faults>>
    BY <1>1 DEF TypeOK, CopyIn
<1>5. Only(c) /\ SamePlace(c)
    <2>1. \A d \in Channels \ {c} : chan'[d] = chan[d] /\ down'[d] = down[d]
        BY <1>1 DEF TypeOK, CopyIn
    <2> QED BY <1>2, <1>3, <1>4, <2>1 DEF Only, Same, SamePlace, ChanState
<1>6. TypeOK'
    <2>1. chan' \in [Channels -> ChanState]
        <3>1. chan'[c] \in ChanState
            BY <1>2, <1>3 DEF ChanState
        <3>2. chan' = [chan EXCEPT ![c] = chan'[c]]
            BY <1>1 DEF TypeOK, CopyIn
        <3> QED BY <1>1, <3>1, <3>2 DEF TypeOK
    <2>2. down' \in [Channels -> Side]
        BY <1>1, <1>2, ForwardAssumption DEF TypeOK, CopyIn, Taken, Side
    <2> QED BY <1>1, <1>4, <2>1, <2>2 DEF TypeOK
<1>7. /\ down'[c].data = down[c].data - 1 /\ down'[c].total = down[c].total
      /\ down'[c].closed = down[c].closed /\ down'[c].request = down[c].request
    BY <1>2, <1>4 DEF Taken, Side
<1>8. ChannelInv(c)'
    <2>1. Captured(c)'
        <3>1. /\ chan[c].detail \in Nat /\ down[c].data \in Nat /\ down[c].total \in Nat
              /\ chan'[c].detail = detail /\ chan'[c].detailTr = cut
              /\ chan'[c].kind = chan[c].kind
            BY <1>2, <1>3 DEF ChanState, Side
        <3> QED BY <1>1, <1>3, <1>4, <1>7, <3>1, ForwardAssumption DEF ChannelInv, Captured, Session
    <2>2. Untouched(c)' /\ Noted(c)' /\ ExitNoted(c)' /\ Copied(c)' /\ Recorded(c)' /\ Completed(c)'
        <3>1. /\ chan'[c].pc = chan[c].pc /\ chan'[c].event = chan[c].event
              /\ chan'[c].started = chan[c].started /\ chan'[c].exit = chan[c].exit
              /\ chan'[c].exited = chan[c].exited /\ chan'[c].kind = chan[c].kind
              /\ chan'[c].written = chan[c].written /\ chan'[c].output = chan[c].output
              /\ chan'[c].outputTr = chan[c].outputTr /\ chan'[c].other = chan[c].other
              /\ chan'[c].outCopy = chan[c].outCopy /\ chan'[c].dbError = chan[c].dbError
            BY <1>2, <1>3 DEF ChanState
        <3> QED BY <1>1, <1>4, <1>7, <3>1 DEF ChannelInv, Untouched, Noted, ExitNoted, Copied,
                Recorded, Completed, Live, Session
    <2> QED BY <2>1, <2>2 DEF ChannelInv
<1> QED BY <1>4, <1>5, <1>6, <1>8, StepKeeps

LEMMA CopyInEndsKeeps == ASSUME ForwardInv, NEW c \in Channels, CopyInEnds(c) PROVE ForwardInv'
<1>1. TypeOK /\ ChannelInv(c)
    BY DEF ForwardInv, ChannelsInv
<1>2. chan[c] \in ChanState /\ down[c] \in Side /\ up[c] \in Side /\ row[c] \in Row
    BY <1>1, Typed
<1>3. Only(c) /\ SamePlace(c)
    BY <1>1, <1>2 DEF TypeOK, CopyInEnds, Only, Same, SamePlace, ChanState
<1>4. TypeOK'
    <2>1. chan' \in [Channels -> ChanState]
        BY <1>1, <1>2, ForwardAssumption DEF TypeOK, CopyInEnds, ChanState
    <2> QED BY <1>1, <2>1 DEF TypeOK, CopyInEnds
<1>5. ChannelInv(c)'
    BY <1>1, <1>2, ForwardAssumption DEF TypeOK, CopyInEnds, ChanState, Side, Row, NoRow,
        ChannelInv, Untouched, Noted, ExitNoted, Copied, Recorded, Captured, Completed,
        Live, Session
<1> QED BY <1>3, <1>4, <1>5, StepKeeps DEF CopyInEnds

LEMMA CopyOutKeeps == ASSUME ForwardInv, NEW c \in Channels, CopyOut(c) PROVE ForwardInv'
<1>1. TypeOK /\ ChannelInv(c)
    BY DEF ForwardInv, ChannelsInv
<1>2. chan[c] \in ChanState /\ down[c] \in Side /\ up[c] \in Side /\ row[c] \in Row
    BY <1>1, Typed
<1>3. Only(c) /\ SamePlace(c)
    BY <1>1, <1>2 DEF TypeOK, CopyOut, Taken, Delivered, Record, Only, Same, SamePlace, ChanState
<1>4. TypeOK'
    <2>1. chan' \in [Channels -> ChanState]
        <3>1. Record(c) \in ChanState
            <4>1. /\ [chan[c] EXCEPT !.outputTr = TRUE] \in ChanState
                  /\ [chan[c] EXCEPT !.other = TRUE] \in ChanState
                BY <1>2 DEF ChanState
            <4>2. chan[c].output + 1 \in Nat
                BY <1>2 DEF ChanState
            <4>3. [chan[c] EXCEPT !.output = chan[c].output + 1] \in ChanState
                BY <1>2, <4>2 DEF ChanState
            <4> QED BY <1>2, <4>1, <4>3 DEF Record
        <3>2. Delivered(c) \in ChanState
            <4>1. [Record(c) EXCEPT !.outCopy = FALSE] \in ChanState
                BY <3>1 DEF ChanState
            <4>2. chan[c].written + 1 \in Nat
                BY <1>2 DEF ChanState
            <4>3. [Record(c) EXCEPT !.written = chan[c].written + 1] \in ChanState
                BY <3>1, <4>2 DEF ChanState
            <4> QED BY <4>1, <4>3 DEF Delivered
        <3> QED BY <1>1, <3>2 DEF TypeOK, CopyOut
    <2>2. up' \in [Channels -> Side]
        <3>1. up[c].data - 1 \in Nat
            BY <1>2 DEF CopyOut, Side
        <3>2. Taken(up[c]) \in Side
            BY <1>2, <3>1 DEF Taken, Side
        <3> QED BY <1>1, <3>2 DEF TypeOK, CopyOut
    <2> QED BY <1>1, <2>1, <2>2 DEF TypeOK, CopyOut
<1>5. ChannelInv(c)'
    <2>1. Untouched(c)'
        BY <1>1, <1>2, ForwardAssumption DEF TypeOK, CopyOut, Taken, Delivered, Record,
            ChanState, Side, ChannelInv, Untouched, Noted, ExitNoted, Copied, Recorded, Captured,
            Completed, Live, Session
    <2>2. Noted(c)'
        BY <1>1, <1>2, ForwardAssumption DEF TypeOK, CopyOut, Taken, Delivered, Record,
            ChanState, Side, ChannelInv, Untouched, Noted, ExitNoted, Copied, Recorded, Captured,
            Completed, Live, Session
    <2>3. ExitNoted(c)'
        BY <1>1, <1>2, ForwardAssumption DEF TypeOK, CopyOut, Taken, Delivered, Record,
            ChanState, Side, ChannelInv, Untouched, Noted, ExitNoted, Copied, Recorded, Captured,
            Completed, Live, Session
    <2>4. Copied(c)'
        BY <1>1, <1>2, ForwardAssumption DEF TypeOK, CopyOut, Taken, Delivered, Record,
            ChanState, Side, ChannelInv, Untouched, Noted, ExitNoted, Copied, Recorded, Captured,
            Completed, Live, Session
    <2>5. Recorded(c)'
        <3>1. chan[c].output \in Nat /\ chan[c].written \in Nat
              /\ up[c].data \in Nat /\ up[c].total \in Nat
            BY <1>2 DEF ChanState, Side
        <3>2. up[c].data > 0 /\ chan[c].written + up[c].data <= up[c].total /\ Recorded(c)
            BY <1>1, <3>1 DEF CopyOut, ChannelInv, Copied
        <3>3. up'[c].data = up[c].data - 1 /\ up'[c].total = up[c].total
            BY <1>1, <1>2 DEF TypeOK, CopyOut, Taken, Side
        <3>4. chan'[c] = Delivered(c)
            BY <1>1 DEF TypeOK, CopyOut
        <3>5. /\ chan'[c].output = Record(c).output /\ chan'[c].outputTr = Record(c).outputTr
              /\ chan'[c].other = Record(c).other
              /\ chan'[c].written <= chan[c].written + 1
            BY <1>2, <3>1, <3>4 DEF Delivered, Record, ChanState
        <3>6. chan'[c].written \in Nat
            BY <1>2, <3>1, <3>4 DEF Delivered, Record, ChanState
        <3>7. CASE chan[c].event # "exec"
            <4>1. /\ Record(c).output = chan[c].output /\ Record(c).outputTr = chan[c].outputTr
                  /\ Record(c).other
                BY <1>2, <3>7 DEF Record, ChanState
            <4> QED BY <3>1, <3>2, <3>3, <3>5, <3>6, <4>1, ForwardAssumption DEF Recorded
        <3>8. CASE chan[c].event = "exec" /\ chan[c].outputTr
            <4>1. Record(c).output = chan[c].output /\ Record(c).outputTr
                BY <1>2, <3>8 DEF Record, ChanState
            <4> QED BY <3>1, <3>2, <3>3, <3>5, <3>6, <3>8, <4>1, ForwardAssumption DEF Recorded
        <3>9. CASE chan[c].event = "exec" /\ ~chan[c].outputTr /\ chan[c].output = MaxDetail
            <4>1. Record(c).output = chan[c].output /\ Record(c).outputTr
                BY <1>2, <3>9 DEF Record, ChanState
            <4> QED BY <3>1, <3>2, <3>3, <3>5, <3>6, <3>9, <4>1, ForwardAssumption DEF Recorded
        <3>10. CASE chan[c].event = "exec" /\ ~chan[c].outputTr /\ chan[c].output # MaxDetail
            <4>1. /\ Record(c).output = chan[c].output + 1 /\ ~Record(c).outputTr
                  /\ Record(c).other = chan[c].other
                BY <1>2, <3>10 DEF Record, ChanState
            <4> QED BY <3>1, <3>2, <3>3, <3>5, <3>6, <3>10, <4>1, ForwardAssumption DEF Recorded
        <3> QED BY <3>7, <3>8, <3>9, <3>10
    <2>6. Completed(c)'
        BY <1>1, <1>2, ForwardAssumption DEF TypeOK, CopyOut, Taken, Delivered, Record,
            ChanState, Side, ChannelInv, Untouched, Noted, ExitNoted, Copied, Recorded, Captured,
            Completed, Live, Session
    <2>7. Captured(c)'
        BY <1>1, <1>2 DEF TypeOK, CopyOut, Taken, Delivered, Record, ChanState, Side, Captured,
            ChannelInv, Session
    <2> QED BY <2>1, <2>2, <2>3, <2>4, <2>5, <2>6, <2>7 DEF ChannelInv
<1> QED BY <1>3, <1>4, <1>5, StepKeeps DEF CopyOut

LEMMA CopyOutEndsKeeps == ASSUME ForwardInv, NEW c \in Channels, CopyOutEnds(c) PROVE ForwardInv'
<1>1. TypeOK /\ ChannelInv(c)
    BY DEF ForwardInv, ChannelsInv
<1>2. chan[c] \in ChanState /\ down[c] \in Side /\ up[c] \in Side /\ row[c] \in Row
    BY <1>1, Typed
<1>3. Only(c) /\ SamePlace(c)
    BY <1>1, <1>2 DEF TypeOK, CopyOutEnds, Only, Same, SamePlace, ChanState
<1>4. TypeOK'
    <2>1. chan' \in [Channels -> ChanState]
        BY <1>1, <1>2, ForwardAssumption DEF TypeOK, CopyOutEnds, ChanState
    <2> QED BY <1>1, <2>1 DEF TypeOK, CopyOutEnds
<1>5. ChannelInv(c)'
    BY <1>1, <1>2, ForwardAssumption DEF TypeOK, CopyOutEnds, ChanState, Side, Row, NoRow,
        ChannelInv, Untouched, Noted, ExitNoted, Copied, Recorded, Captured, Completed,
        Live, Session
<1> QED BY <1>3, <1>4, <1>5, StepKeeps DEF CopyOutEnds

LEMMA ClientSendsKeeps == ASSUME ForwardInv, NEW c \in Channels, ClientSends(c) PROVE ForwardInv'
<1>1. TypeOK /\ ChannelInv(c)
    BY DEF ForwardInv, ChannelsInv
<1>2. chan[c] \in ChanState /\ down[c] \in Side /\ up[c] \in Side /\ row[c] \in Row
    BY <1>1, Typed
<1>3. Only(c) /\ SamePlace(c)
    <2>1. PICK side : down' = [down EXCEPT ![c] = side]
        BY DEF ClientSends
    <2> QED BY <1>1, <2>1 DEF TypeOK, ClientSends, Only, Same, SamePlace
<1>4. TypeOK'
    <2>1. Chunk(down[c]) \in Side /\ Ends(down[c]) \subseteq Side
        <3>1. down[c].data + 1 \in Nat /\ down[c].total + 1 \in Nat
            BY <1>2 DEF Side
        <3>2. Chunk(down[c]) \in Side
            BY <1>2, <3>1 DEF Chunk, Side
        <3>3. Ends(down[c]) \subseteq Side
            BY <1>2 DEF Ends, Side
        <3> QED BY <3>2, <3>3
    <2>2. PICK side \in Side : down' = [down EXCEPT ![c] = side]
        BY <2>1 DEF ClientSends
    <2>3. down' \in [Channels -> Side]
        BY <1>1, <2>2 DEF TypeOK
    <2> QED BY <1>1, <2>3 DEF TypeOK, ClientSends
<1>5. ChannelInv(c)'
    <2>1. CASE down' = [down EXCEPT ![c] = Chunk(down[c])] /\ ~down[c].eof
        <3>1. /\ chan'[c] = chan[c] /\ up'[c] = up[c] /\ row'[c] = row[c]
              /\ down'[c] = Chunk(down[c]) /\ ~down[c].closed /\ Live(c)
            BY <1>1, <2>1 DEF TypeOK, ClientSends
        <3>2. /\ down'[c].data = down[c].data + 1 /\ down'[c].total = down[c].total + 1
              /\ down'[c].request = down[c].request /\ down'[c].closed = down[c].closed
              /\ down[c].data \in Nat /\ down[c].total \in Nat /\ chan[c].detail \in Nat
            BY <1>2, <3>1 DEF Chunk, Side, ChanState
        <3>3. Captured(c)'
            BY <1>1, <3>1, <3>2, ForwardAssumption DEF ChannelInv, Captured, Session
        <3>4. /\ Untouched(c)' /\ Noted(c)' /\ ExitNoted(c)' /\ Copied(c)' /\ Recorded(c)'
              /\ Completed(c)'
            BY <1>1, <3>1, <3>2 DEF ChannelInv, Untouched, Noted, ExitNoted, Copied, Recorded,
                Completed, Live, Session
        <3> QED BY <3>3, <3>4 DEF ChannelInv
    <2>2. CASE down' = [down EXCEPT ![c] = [down[c] EXCEPT !.eof = TRUE]]
        BY <1>1, <1>2, <2>2 DEF TypeOK, ClientSends, ChanState, Side,
            ChannelInv, Untouched, Noted, ExitNoted, Copied, Recorded, Captured, Completed,
        Live, Session
    <2>3. CASE down' = [down EXCEPT ![c] = [down[c] EXCEPT !.closed = TRUE]]
        BY <1>1, <1>2, <2>3 DEF TypeOK, ClientSends, ChanState, Side,
            ChannelInv, Untouched, Noted, ExitNoted, Copied, Recorded, Captured, Completed,
        Live, Session
    <2> QED BY <2>1, <2>2, <2>3 DEF ClientSends, Ends
<1> QED BY <1>3, <1>4, <1>5, StepKeeps DEF ClientSends

LEMMA ClientRequestsKeeps ==
    ASSUME ForwardInv, NEW c \in Channels, ClientRequests(c) PROVE ForwardInv'
<1>1. TypeOK /\ ChannelInv(c)
    BY DEF ForwardInv, ChannelsInv
<1>2. chan[c] \in ChanState /\ down[c] \in Side /\ up[c] \in Side /\ row[c] \in Row
    BY <1>1, Typed
<1>3. Only(c) /\ SamePlace(c)
    BY <1>1, <1>2 DEF TypeOK, ClientRequests, At, Only, Same, SamePlace, ChanState
<1>4. TypeOK'
    <2>1. down' \in [Channels -> Side]
        BY <1>1, <1>2, ForwardAssumption DEF TypeOK, ClientRequests, At, Side
    <2> QED BY <1>1, <2>1 DEF TypeOK, ClientRequests
<1>5. ChannelInv(c)'
    BY <1>1, <1>2, ForwardAssumption DEF TypeOK, ClientRequests, At, ChanState, Side, Row, NoRow,
        ChannelInv, Untouched, Noted, ExitNoted, Copied, Recorded, Captured, Completed,
        Live, Session
<1> QED BY <1>3, <1>4, <1>5, StepKeeps DEF ClientRequests

LEMMA TargetSendsKeeps == ASSUME ForwardInv, NEW c \in Channels, TargetSends(c) PROVE ForwardInv'
<1>1. TypeOK /\ ChannelInv(c)
    BY DEF ForwardInv, ChannelsInv
<1>2. chan[c] \in ChanState /\ down[c] \in Side /\ up[c] \in Side /\ row[c] \in Row
    BY <1>1, Typed
<1>3. Only(c) /\ SamePlace(c)
    <2>1. PICK side : up' = [up EXCEPT ![c] = side]
        BY DEF TargetSends
    <2> QED BY <1>1, <2>1 DEF TypeOK, TargetSends, Only, Same, SamePlace
<1>4. TypeOK'
    <2>1. Chunk(up[c]) \in Side /\ Ends(up[c]) \subseteq Side
        <3>1. up[c].data + 1 \in Nat /\ up[c].total + 1 \in Nat
            BY <1>2 DEF Side
        <3>2. Chunk(up[c]) \in Side
            BY <1>2, <3>1 DEF Chunk, Side
        <3>3. Ends(up[c]) \subseteq Side
            BY <1>2 DEF Ends, Side
        <3> QED BY <3>2, <3>3
    <2>2. PICK side \in Side : up' = [up EXCEPT ![c] = side]
        BY <2>1 DEF TargetSends
    <2>3. up' \in [Channels -> Side]
        BY <1>1, <2>2 DEF TypeOK
    <2> QED BY <1>1, <2>3 DEF TypeOK, TargetSends
<1>5. ChannelInv(c)'
    <2>1. CASE /\ up' = [up EXCEPT ![c] = Chunk(up[c])] /\ ~up[c].eof
               /\ Session(c) => chan[c].started
        <3>1. /\ chan'[c] = chan[c] /\ down'[c] = down[c] /\ row'[c] = row[c]
              /\ up'[c] = Chunk(up[c]) /\ ~up[c].closed /\ Live(c)
            BY <1>1, <2>1 DEF TypeOK, TargetSends
        <3>2. /\ up'[c].data = up[c].data + 1 /\ up'[c].total = up[c].total + 1
              /\ up'[c].request = up[c].request /\ up'[c].eof = up[c].eof
              /\ up'[c].closed = up[c].closed
            BY <1>2, <3>1 DEF Chunk, Side
        <3>3. chan[c].output \in Nat /\ chan[c].written \in Nat
              /\ up[c].data \in Nat /\ up[c].total \in Nat
            BY <1>2 DEF ChanState, Side
        <3>4. Untouched(c)' /\ Noted(c)' /\ ExitNoted(c)' /\ Completed(c)'
            BY <1>1, <3>1, <3>2 DEF ChannelInv, Untouched, Noted, ExitNoted, Completed, Live
        <3>5. Copied(c)'
            BY <1>1, <2>1, <3>1, <3>2, <3>3 DEF ChannelInv, Copied, Live, Session
        <3>6. Recorded(c)'
            BY <1>1, <3>1, <3>2, <3>3, ForwardAssumption DEF ChannelInv, Recorded
        <3>7. Captured(c)'
            BY <1>1, <3>1 DEF ChannelInv, Captured, Session
        <3> QED BY <3>4, <3>5, <3>6, <3>7 DEF ChannelInv
    <2>2. CASE up' = [up EXCEPT ![c] = [up[c] EXCEPT !.eof = TRUE]]
        BY <1>1, <1>2, <2>2 DEF TypeOK, TargetSends, ChanState, Side,
            ChannelInv, Untouched, Noted, ExitNoted, Copied, Recorded, Captured, Completed,
        Live, Session
    <2>3. CASE up' = [up EXCEPT ![c] = [up[c] EXCEPT !.closed = TRUE]]
        BY <1>1, <1>2, <2>3 DEF TypeOK, TargetSends, ChanState, Side,
            ChannelInv, Untouched, Noted, ExitNoted, Copied, Recorded, Captured, Completed,
        Live, Session
    <2> QED BY <2>1, <2>2, <2>3 DEF TargetSends, Ends
<1> QED BY <1>3, <1>4, <1>5, StepKeeps DEF TargetSends

LEMMA TargetFailsKeeps == ASSUME ForwardInv, NEW c \in Channels, TargetFails(c) PROVE ForwardInv'
<1>1. TypeOK /\ ChannelInv(c)
    BY DEF ForwardInv, ChannelsInv
<1>2. chan[c] \in ChanState /\ down[c] \in Side /\ up[c] \in Side /\ row[c] \in Row
    BY <1>1, Typed
<1>3. Only(c) /\ SamePlace(c)
    BY <1>1, <1>2 DEF TypeOK, TargetFails, Only, Same, SamePlace, ChanState
<1>4. TypeOK'
    <2>1. up' \in [Channels -> Side]
        BY <1>1, <1>2, ForwardAssumption DEF TypeOK, TargetFails, Side
    <2> QED BY <1>1, <2>1 DEF TypeOK, TargetFails
<1>5. ChannelInv(c)'
    BY <1>1, <1>2, ForwardAssumption DEF TypeOK, TargetFails, ChanState, Side, Row, NoRow,
        ChannelInv, Untouched, Noted, ExitNoted, Copied, Recorded, Captured, Completed,
        Live, Session
<1> QED BY <1>3, <1>4, <1>5, StepKeeps DEF TargetFails

LEMMA TargetExitsKeeps == ASSUME ForwardInv, NEW c \in Channels, TargetExits(c) PROVE ForwardInv'
<1>1. TypeOK /\ ChannelInv(c)
    BY DEF ForwardInv, ChannelsInv
<1>2. chan[c] \in ChanState /\ down[c] \in Side /\ up[c] \in Side /\ row[c] \in Row
    BY <1>1, Typed
<1>3. Only(c) /\ SamePlace(c)
    BY <1>1, <1>2 DEF TypeOK, TargetExits, At, Only, Same, SamePlace, ChanState
<1>4. TypeOK'
    <2>1. up' \in [Channels -> Side]
        BY <1>1, <1>2, ForwardAssumption DEF TypeOK, TargetExits, At, Side
    <2> QED BY <1>1, <2>1 DEF TypeOK, TargetExits
<1>5. ChannelInv(c)'
    BY <1>1, <1>2, ForwardAssumption DEF TypeOK, TargetExits, At, ChanState, Side, Row, NoRow,
        ChannelInv, Untouched, Noted, ExitNoted, Copied, Recorded, Captured, Completed,
        Live, Session
<1> QED BY <1>3, <1>4, <1>5, StepKeeps DEF TargetExits

LEMMA ClientAnswersCloseKeeps ==
    ASSUME ForwardInv, NEW c \in Channels, ClientAnswersClose(c) PROVE ForwardInv'
<1>1. TypeOK /\ ChannelInv(c)
    BY DEF ForwardInv, ChannelsInv
<1>2. chan[c] \in ChanState /\ down[c] \in Side /\ up[c] \in Side /\ row[c] \in Row
    BY <1>1, Typed
<1>3. Only(c) /\ SamePlace(c)
    BY <1>1, <1>2 DEF TypeOK, ClientAnswersClose, Only, Same, SamePlace, ChanState
<1>4. TypeOK'
    <2>1. down' \in [Channels -> Side]
        BY <1>1, <1>2, ForwardAssumption DEF TypeOK, ClientAnswersClose, Side
    <2> QED BY <1>1, <2>1 DEF TypeOK, ClientAnswersClose
<1>5. ChannelInv(c)'
    BY <1>1, <1>2, ForwardAssumption DEF TypeOK, ClientAnswersClose, ChanState, Side, Row, NoRow,
        ChannelInv, Untouched, Noted, ExitNoted, Copied, Recorded, Captured, Completed,
        Live, Session
<1> QED BY <1>3, <1>4, <1>5, StepKeeps DEF ClientAnswersClose

LEMMA TargetAnswersCloseKeeps ==
    ASSUME ForwardInv, NEW c \in Channels, TargetAnswersClose(c) PROVE ForwardInv'
<1>1. TypeOK /\ ChannelInv(c)
    BY DEF ForwardInv, ChannelsInv
<1>2. chan[c] \in ChanState /\ down[c] \in Side /\ up[c] \in Side /\ row[c] \in Row
    BY <1>1, Typed
<1>3. Only(c) /\ SamePlace(c)
    BY <1>1, <1>2 DEF TypeOK, TargetAnswersClose, Only, Same, SamePlace, ChanState
<1>4. TypeOK'
    <2>1. up' \in [Channels -> Side]
        BY <1>1, <1>2, ForwardAssumption DEF TypeOK, TargetAnswersClose, Side
    <2> QED BY <1>1, <2>1 DEF TypeOK, TargetAnswersClose
<1>5. ChannelInv(c)'
    BY <1>1, <1>2, ForwardAssumption DEF TypeOK, TargetAnswersClose, ChanState, Side, Row, NoRow,
        ChannelInv, Untouched, Noted, ExitNoted, Copied, Recorded, Captured, Completed,
        Live, Session
<1> QED BY <1>3, <1>4, <1>5, StepKeeps DEF TargetAnswersClose

-----------------------------------------------------------------------------
(* forwardChannel: steps that start or end the goroutines *)

LEMMA SameRunning ==
    ASSUME CountInv, Running' = Running, entry'.sessions = entry.sessions PROVE CountInv'
BY DEF CountInv

\* A connection that is listed stays so.
LEMMA ListedStays ==
    ASSUME ConnInv, conn' = conn, entry'.listed = entry.listed, NEW c \in Channels, Only(c),
           chan'[c].pc \in {"offered", "opened", "forwarding", "closing"} => entry.listed
    PROVE  ConnInv'
<1>1. ASSUME NEW d \in Channels, d # c PROVE chan'[d] = chan[d]
    BY <1>1 DEF Only, Same
<1> QED BY <1>1 DEF ConnInv

LEMMA OthersRun ==
    ASSUME NEW c \in Channels, Only(c)
    PROVE  Running' \ {c} = Running \ {c}
BY DEF Only, Same, Running, Session, Live

LEMMA OfferKeeps ==
    ASSUME ForwardInv, NEW c \in Channels, NEW kind \in {"session", "tunnel"},
           Offer(c, kind)
    PROVE  ForwardInv'
<1>1. TypeOK /\ ConnInv /\ CountInv /\ ChannelsInv /\ ChannelInv(c)
    BY DEF ForwardInv, ChannelsInv
<1>2. chan[c] \in ChanState
    BY <1>1, Typed
<1>3. /\ chan'[c] = [chan[c] EXCEPT !.pc = "offered", !.kind = kind]
      /\ chan'[c] \in ChanState
    BY <1>1, <1>2 DEF TypeOK, Offer, ChanState
<1>4. Only(c)
    BY <1>1 DEF TypeOK, Offer, Only, Same
<1>5. TypeOK'
    BY <1>1, <1>3 DEF TypeOK, Offer
<1>6. ConnInv'
    BY <1>1, <1>4, ListedStays DEF Offer, ConnInv
<1>7. Running' = Running
    BY <1>2, <1>3, <1>4 DEF Offer, Running, Session, Live, Only, Same, ChanState
<1>8. ChannelInv(c)'
    BY <1>1, <1>2, <1>3, ForwardAssumption DEF TypeOK, Offer, ChanState, Side, ChannelInv,
        Untouched, Noted, ExitNoted, Copied, Recorded, Captured, Completed,
        Live, Session
<1> QED BY <1>1, <1>4, <1>5, <1>6, <1>7, <1>8, OnlyOne, SameRunning DEF ForwardInv, Offer

LEMMA OpenUpstreamKeeps ==
    ASSUME ForwardInv, NEW c \in Channels, OpenUpstream(c) PROVE ForwardInv'
<1>1. TypeOK /\ ConnInv /\ CountInv /\ ChannelsInv /\ ChannelInv(c)
    BY DEF ForwardInv, ChannelsInv
<1>2. chan[c] \in ChanState
    BY <1>1, Typed
<1>3. PICK p \in {"opened", "ended"} : chan' = [chan EXCEPT ![c] = [@ EXCEPT !.pc = p]]
    BY DEF OpenUpstream
<1>4. chan'[c] = [chan[c] EXCEPT !.pc = p] /\ chan'[c] \in ChanState
    BY <1>1, <1>2, <1>3 DEF TypeOK, ChanState
<1>5. Only(c)
    BY <1>1, <1>3 DEF TypeOK, OpenUpstream, Only, Same
<1>6. TypeOK'
    BY <1>1, <1>3, <1>4 DEF TypeOK, OpenUpstream
<1>7. ConnInv'
    BY <1>1, <1>5, ListedStays DEF OpenUpstream, ConnInv
<1>8. Running' = Running
    BY <1>2, <1>4, <1>5 DEF OpenUpstream, Running, Session, Live, Only, Same, ChanState
<1>9. ChannelInv(c)'
    BY <1>1, <1>2, <1>4 DEF TypeOK, OpenUpstream, ChanState, ChannelInv, Untouched,
        Noted, ExitNoted, Copied, Recorded, Captured, Completed,
        Live, Session
<1> QED BY <1>1, <1>5, <1>6, <1>7, <1>8, <1>9, OnlyOne, SameRunning DEF ForwardInv, OpenUpstream

LEMMA AcceptFailsKeeps ==
    ASSUME ForwardInv, NEW c \in Channels, AcceptFails(c) PROVE ForwardInv'
<1>1. TypeOK /\ ConnInv /\ CountInv /\ ChannelsInv /\ ChannelInv(c)
    BY DEF ForwardInv, ChannelsInv
<1>2. chan[c] \in ChanState /\ up[c] \in Side
    BY <1>1, Typed
<1>3. /\ chan'[c] = [chan[c] EXCEPT !.pc = "ended"] /\ chan'[c] \in ChanState
      /\ up'[c] = [up[c] EXCEPT !.sent = TRUE] /\ up'[c] \in Side
    BY <1>1, <1>2 DEF TypeOK, AcceptFails, ChanState, Side
<1>4. Only(c)
    BY <1>1 DEF TypeOK, AcceptFails, Only, Same
<1>5. TypeOK'
    BY <1>1, <1>3 DEF TypeOK, AcceptFails
<1>6. ConnInv'
    BY <1>1, <1>4, ListedStays DEF AcceptFails, ConnInv
<1>7. Running' = Running
    BY <1>2, <1>3, <1>4 DEF AcceptFails, Running, Session, Live, Only, Same, ChanState
<1>8. ChannelInv(c)'
    BY <1>1, <1>2, <1>3 DEF TypeOK, AcceptFails, ChanState, Side, ChannelInv, Untouched,
        Noted, ExitNoted, Copied, Recorded, Captured, Completed,
        Live, Session
<1> QED BY <1>1, <1>4, <1>5, <1>6, <1>7, <1>8, OnlyOne, SameRunning DEF ForwardInv, AcceptFails

LEMMA AcceptChannelKeeps ==
    ASSUME ForwardInv, NEW c \in Channels, AcceptChannel(c) PROVE ForwardInv'
<1>1. TypeOK /\ ConnInv /\ CountInv /\ ChannelsInv /\ ChannelInv(c)
    BY DEF ForwardInv, ChannelsInv
<1>2. chan[c] \in ChanState /\ entry \in [listed : BOOLEAN, sessions : Int]
    BY <1>1, Typed DEF TypeOK
<1>3. /\ chan'[c] = [chan[c] EXCEPT !.pc = "forwarding", !.inCopy = TRUE, !.outCopy = TRUE,
                                   !.inRequests = TRUE, !.outRequests = TRUE]
      /\ chan'[c] \in ChanState
    BY <1>1, <1>2 DEF TypeOK, AcceptChannel, ChanState
<1>4. Only(c)
    BY <1>1 DEF TypeOK, AcceptChannel, Only, Same
<1>5. entry.listed
    BY <1>1 DEF ConnInv, AcceptChannel
<1>6. /\ entry' \in [listed : BOOLEAN, sessions : Int] /\ entry'.listed
      /\ entry'.sessions = IF Session(c) THEN entry.sessions + 1 ELSE entry.sessions
    BY <1>2, <1>5 DEF AcceptChannel, Sessions
<1>7. TypeOK'
    BY <1>1, <1>3, <1>6 DEF TypeOK, AcceptChannel
<1>8. ConnInv'
    BY <1>1, <1>4, <1>5, <1>6, ListedStays DEF AcceptChannel
<1>9. c \notin Running
    BY DEF AcceptChannel, Running, Live
<1>10. Running' = IF Session(c) THEN Running \cup {c} ELSE Running
    <2>1. chan'[c].kind = chan[c].kind /\ chan'[c].pc = "forwarding"
        BY <1>2, <1>3 DEF ChanState
    <2>2. c \in Running' <=> Session(c)
        BY <2>1 DEF Running, Session, Live
    <2>3. Running' \ {c} = Running \ {c}
        BY <1>4, OthersRun
    <2> QED BY <1>9, <2>2, <2>3
<1>11. CountInv'
    <2>1. CASE Session(c)
        <3>1. IsFiniteSet(Running \cup {c})
              /\ Cardinality(Running \cup {c}) = Cardinality(Running) + 1
            BY <1>1, <1>9, FS_AddElement DEF CountInv
        <3> QED BY <1>1, <1>6, <1>10, <2>1, <3>1 DEF CountInv
    <2>2. CASE ~Session(c)
        BY <1>1, <1>6, <1>10, <2>2 DEF CountInv
    <2> QED BY <2>1, <2>2
<1>12. ChannelInv(c)'
    BY <1>1, <1>2, <1>3 DEF TypeOK, AcceptChannel, ChanState, ChannelInv, Untouched,
        Noted, ExitNoted, Copied, Recorded, Captured, Completed,
        Live, Session
<1> QED BY <1>1, <1>4, <1>7, <1>8, <1>11, <1>12, OnlyOne DEF ForwardInv

LEMMA FinishKeeps ==
    ASSUME ForwardInv, NEW c \in Channels, Finish(c) PROVE ForwardInv'
<1>1. TypeOK /\ ConnInv /\ CountInv /\ ChannelsInv /\ ChannelInv(c)
    BY DEF ForwardInv, ChannelsInv
<1>2. /\ chan[c] \in ChanState /\ row[c] \in Row /\ down[c] \in Side /\ up[c] \in Side
      /\ entry \in [listed : BOOLEAN, sessions : Int]
    BY <1>1, Typed DEF TypeOK
<1>3. /\ chan'[c] = [chan[c] EXCEPT !.pc = "ended",
                                   !.dbError = chan[c].dbError \/ faults' # faults]
      /\ chan'[c] \in ChanState
    BY <1>1, <1>2 DEF TypeOK, Finish, ChanState
<1>4. Only(c)
    BY <1>1 DEF TypeOK, Finish, CompleteRow, Only, Same
<1>5. entry.listed
    BY <1>1 DEF ConnInv, Finish
<1>6. /\ entry' \in [listed : BOOLEAN, sessions : Int] /\ entry'.listed
      /\ entry'.sessions = IF Session(c) THEN entry.sessions - 1 ELSE entry.sessions
    BY <1>2, <1>5 DEF Finish, Sessions
<1>7. TypeOK'
    <2>1. row' \in [Channels -> Row] /\ faults' \in 0..MaxFaults
        BY <1>1, CompleteTyped DEF Finish
    <2> QED BY <1>1, <1>3, <1>6, <2>1 DEF TypeOK, Finish
<1>8. ConnInv'
    BY <1>1, <1>4, <1>5, <1>6, ListedStays DEF Finish
<1>9. Running' = Running \ {c} /\ (c \in Running <=> Session(c))
    <2>1. chan'[c].kind = chan[c].kind /\ chan'[c].pc = "ended"
        BY <1>2, <1>3 DEF ChanState
    <2>2. c \notin Running' /\ (c \in Running <=> Session(c))
        BY <2>1 DEF Finish, Running, Session, Live
    <2>3. Running' \ {c} = Running \ {c}
        BY <1>4, OthersRun
    <2> QED BY <2>2, <2>3
<1>10. CountInv'
    <2>1. CASE Session(c)
        <3>1. IsFiniteSet(Running \ {c})
              /\ Cardinality(Running \ {c}) = Cardinality(Running) - 1
            BY <1>1, <1>9, <2>1, FS_RemoveElement DEF CountInv
        <3> QED BY <1>1, <1>6, <1>9, <2>1, <3>1 DEF CountInv
    <2>2. CASE ~Session(c)
        <3>1. Running' = Running
            BY <1>9, <2>2
        <3> QED BY <1>1, <1>6, <2>2, <3>1, SameRunning
    <2> QED BY <2>1, <2>2
<1>11. ChannelInv(c)'
    <2>1. /\ chan'[c].pc = "ended" /\ chan'[c].event = chan[c].event
          /\ chan'[c].started = chan[c].started /\ chan'[c].exit = chan[c].exit
          /\ chan'[c].exited = chan[c].exited /\ chan'[c].kind = chan[c].kind
          /\ chan'[c].written = chan[c].written /\ chan'[c].other = chan[c].other
          /\ chan'[c].output = chan[c].output /\ chan'[c].outputTr = chan[c].outputTr
          /\ chan'[c].detail = chan[c].detail /\ chan'[c].detailTr = chan[c].detailTr
          /\ ~chan'[c].dbError => ~chan[c].dbError /\ faults' = faults
          /\ down'[c] = down[c] /\ up'[c] = up[c] /\ Live(c)
        <3>1. chan'[c] = [chan[c] EXCEPT !.pc = "ended",
                                         !.dbError = chan[c].dbError \/ faults' # faults]
            BY <1>1 DEF Finish, TypeOK
        <3>2. chan'[c].dbError = (chan[c].dbError \/ faults' # faults)
            BY <1>2, <3>1 DEF ChanState
        <3>3. down' = down /\ up' = up /\ Live(c)
            BY DEF Finish, Live
        <3>4. /\ chan'[c].pc = "ended" /\ chan'[c].event = chan[c].event
              /\ chan'[c].started = chan[c].started /\ chan'[c].exit = chan[c].exit
              /\ chan'[c].exited = chan[c].exited /\ chan'[c].kind = chan[c].kind
            BY <1>2, <3>1 DEF ChanState
        <3>5. /\ chan'[c].written = chan[c].written /\ chan'[c].other = chan[c].other
              /\ chan'[c].output = chan[c].output /\ chan'[c].outputTr = chan[c].outputTr
              /\ chan'[c].detail = chan[c].detail /\ chan'[c].detailTr = chan[c].detailTr
            BY <1>2, <3>1 DEF ChanState
        <3> QED BY <3>2, <3>3, <3>4, <3>5
    <2>2. Untouched(c)' /\ ExitNoted(c)' /\ Copied(c)' /\ Recorded(c)' /\ Captured(c)'
        BY <1>1, <2>1 DEF ChannelInv, Untouched, ExitNoted, Copied, Recorded, Captured, Live,
            Session
    <2>3. ~chan'[c].dbError /\ chan[c].event # "none" =>
            row'[c] = [status |-> "completed", exit |-> chan[c].exit, output |-> chan[c].output,
                       detail |-> chan[c].detail,
                       truncated |-> chan[c].detailTr \/ chan[c].outputTr]
        <3> SUFFICES ASSUME ~chan'[c].dbError, chan[c].event # "none"
                     PROVE  row'[c] = [status |-> "completed", exit |-> chan[c].exit,
                                       output |-> chan[c].output, detail |-> chan[c].detail,
                                       truncated |-> chan[c].detailTr \/ chan[c].outputTr]
            OBVIOUS
        <3>1. row[c].status = "running" /\ faults' = faults
            BY <1>1, <2>1 DEF ChannelInv, Noted, Live
        <3>2. faults \in Nat
            BY <1>1, ForwardAssumption DEF TypeOK
        <3> QED BY <1>1, <3>1, <3>2 DEF Finish, CompleteRow, TypeOK
    <2>4. Noted(c)' /\ Completed(c)'
        BY <1>1, <2>1, <2>3 DEF ChannelInv, Noted, Completed, Live
    <2> QED BY <2>2, <2>4 DEF ChannelInv
<1> QED BY <1>1, <1>4, <1>7, <1>8, <1>10, <1>11, OnlyOne DEF ForwardInv

-----------------------------------------------------------------------------
(* handleConn, the transports and a crash of the proxy *)

LEMMA DialKeeps == ASSUME ForwardInv, Dial \/ DialFails PROVE ForwardInv'
<1>1. TypeOK /\ ConnInv /\ CountInv /\ ChannelsInv
    BY DEF ForwardInv
<1>2. entry \in [listed : BOOLEAN, sessions : Int]
    BY <1>1 DEF TypeOK
<1>3. TypeOK'
    BY <1>1, <1>2 DEF TypeOK, Dial, DialFails
<1>4. ConnInv'
    BY <1>1, <1>2 DEF ConnInv, Dial, DialFails
<1>5. Running' = Running
    BY DEF Dial, DialFails, Running, Session, Live
<1>6. entry'.sessions = entry.sessions
    BY <1>2 DEF Dial, DialFails
<1>7. ChannelsInv'
    BY <1>1, SameInv DEF ChannelsInv, Dial, DialFails, Same
<1> QED BY <1>1, <1>3, <1>4, <1>5, <1>6, <1>7, SameRunning DEF ForwardInv

LEMMA ConnEndsKeeps == ASSUME ForwardInv, ConnEnds PROVE ForwardInv'
<1>1. TypeOK /\ ConnInv /\ CountInv /\ ChannelsInv
    BY DEF ForwardInv
<1>2. entry \in [listed : BOOLEAN, sessions : Int]
    BY <1>1 DEF TypeOK
<1>3. TypeOK'
    BY <1>1, <1>2 DEF TypeOK, ConnEnds
<1>4. ConnInv'
    BY <1>1, <1>2 DEF ConnInv, ConnEnds
<1>5. Running' = Running
    BY DEF ConnEnds, Running, Session, Live
<1>6. entry'.sessions = entry.sessions
    BY <1>2 DEF ConnEnds
<1>7. ChannelsInv'
    BY <1>1, SameInv DEF ChannelsInv, ConnEnds, Same
<1> QED BY <1>1, <1>3, <1>4, <1>5, <1>6, <1>7, SameRunning DEF ForwardInv

LEMMA ClientLostKeeps == ASSUME ForwardInv, ClientLost PROVE ForwardInv'
<1>1. TypeOK /\ ConnInv /\ CountInv /\ ChannelsInv
    BY DEF ForwardInv
<1>2. ASSUME NEW c \in Channels
      PROVE  /\ down[c] \in Side /\ down'[c] = [down[c] EXCEPT !.closed = TRUE]
             /\ down'[c] \in Side
    BY <1>1 DEF TypeOK, ClientLost, Side
<1>3. TypeOK'
    BY <1>1, <1>2 DEF TypeOK, ClientLost
<1>4. ConnInv'
    BY <1>1 DEF ConnInv, ClientLost
<1>5. Running' = Running
    BY DEF ClientLost, Running, Session, Live
<1>6. ASSUME NEW c \in Channels PROVE ChannelInv(c)'
    <2>1. ChannelInv(c)
        BY <1>1 DEF ChannelsInv
    <2> QED BY <1>2, <2>1 DEF ClientLost, Side, ChannelInv, Untouched, Noted, ExitNoted, Copied,
            Recorded, Captured, Completed,
        Live, Session
<1> QED BY <1>1, <1>3, <1>4, <1>5, <1>6, SameRunning DEF ForwardInv, ChannelsInv, ClientLost

LEMMA TargetLostKeeps == ASSUME ForwardInv, TargetLost PROVE ForwardInv'
<1>1. TypeOK /\ ConnInv /\ CountInv /\ ChannelsInv
    BY DEF ForwardInv
<1>2. ASSUME NEW c \in Channels
      PROVE  /\ up[c] \in Side /\ up'[c] = [up[c] EXCEPT !.closed = TRUE] /\ up'[c] \in Side
    BY <1>1 DEF TypeOK, TargetLost, Side
<1>3. TypeOK'
    <2>1. faults' \in 0..MaxFaults
        BY <1>1, ForwardAssumption DEF TypeOK, TargetLost
    <2> QED BY <1>1, <1>2, <2>1 DEF TypeOK, TargetLost
<1>4. ConnInv'
    BY <1>1 DEF ConnInv, TargetLost
<1>5. Running' = Running
    BY DEF TargetLost, Running, Session, Live
<1>6. ASSUME NEW c \in Channels PROVE ChannelInv(c)'
    <2>1. ChannelInv(c)
        BY <1>1 DEF ChannelsInv
    <2> QED BY <1>2, <2>1 DEF TargetLost, Side, ChannelInv, Untouched, Noted, ExitNoted, Copied,
            Recorded, Captured, Completed,
        Live, Session
<1> QED BY <1>1, <1>3, <1>4, <1>5, <1>6, SameRunning DEF ForwardInv, ChannelsInv, TargetLost

LEMMA CrashKeeps == ASSUME ForwardInv, Crash PROVE ForwardInv'
<1>1. TypeOK /\ ConnInv /\ CountInv /\ ChannelsInv
    BY DEF ForwardInv
<1>2. ASSUME NEW c \in Channels
      PROVE  /\ chan[c] \in ChanState /\ down[c] \in Side /\ up[c] \in Side
             /\ chan'[c] = IF chan[c].pc \in {"none", "ended"} THEN chan[c]
                           ELSE [chan[c] EXCEPT !.pc = "lost"]
             /\ down'[c] = [down[c] EXCEPT !.closed = TRUE]
             /\ up'[c] = [up[c] EXCEPT !.closed = TRUE]
             /\ chan'[c] \in ChanState /\ down'[c] \in Side /\ up'[c] \in Side
    <2>1. chan[c] \in ChanState /\ down[c] \in Side /\ up[c] \in Side
        BY <1>1 DEF TypeOK
    <2>2. [chan[c] EXCEPT !.pc = "lost"] \in ChanState
        BY <2>1 DEF ChanState
    <2>3. [down[c] EXCEPT !.closed = TRUE] \in Side /\ [up[c] EXCEPT !.closed = TRUE] \in Side
        BY <2>1 DEF Side
    <2>4. /\ chan'[c] = IF chan[c].pc \in {"none", "ended"} THEN chan[c]
                       ELSE [chan[c] EXCEPT !.pc = "lost"]
          /\ down'[c] = [down[c] EXCEPT !.closed = TRUE]
          /\ up'[c] = [up[c] EXCEPT !.closed = TRUE]
        BY DEF Crash
    <2> QED BY <2>1, <2>2, <2>3, <2>4
<1>3. TypeOK'
    <2>1. faults' \in 0..MaxFaults
        BY <1>1, ForwardAssumption DEF TypeOK, Crash
    <2>2. chan' \in [Channels -> ChanState]
        <3>1. chan' = [c \in Channels |-> chan'[c]]
            BY DEF Crash
        <3> QED BY <1>2, <3>1
    <2>3. down' \in [Channels -> Side] /\ up' \in [Channels -> Side]
        <3>1. down' = [c \in Channels |-> down'[c]] /\ up' = [c \in Channels |-> up'[c]]
            BY DEF Crash
        <3> QED BY <1>2, <3>1
    <2> QED BY <1>1, <2>1, <2>2, <2>3 DEF TypeOK, Crash
<1>4. ASSUME NEW c \in Channels PROVE chan'[c].pc \in {"none", "ended", "lost"}
    BY <1>2 DEF ChanState
<1>5. ConnInv'
    BY <1>4 DEF ConnInv, Crash
<1>6. Running' = {}
    BY <1>4 DEF Running, Live
<1>7. CountInv'
    BY <1>6, FS_EmptySet DEF CountInv, Crash
<1>8. ASSUME NEW c \in Channels PROVE ChannelInv(c)'
    <2>1. ChannelInv(c)
        BY <1>1 DEF ChannelsInv
    <2>2. row' = row /\ down'[c].closed
        BY <1>2 DEF Crash, Side
    <2>3. /\ down'[c].request = down[c].request
          /\ down'[c].data = down[c].data /\ down'[c].total = down[c].total
          /\ up'[c].data = up[c].data /\ up'[c].total = up[c].total
          /\ up'[c].request = up[c].request
        <3>1. /\ down[c] \in Side /\ down'[c] = [down[c] EXCEPT !.closed = TRUE]
              /\ up[c] \in Side /\ up'[c] = [up[c] EXCEPT !.closed = TRUE]
            BY <1>2
        <3> QED BY <3>1 DEF Side
    <2>4. CASE chan[c].pc \in {"none", "ended"}
        <3>1. chan'[c] = chan[c]
            BY <1>2, <2>4
        <3> QED BY <2>1, <2>2, <2>3, <2>4, <3>1 DEF ChannelInv, Untouched, Noted, ExitNoted,
                Copied, Recorded, Captured, Completed,
        Live, Session
    <2>5. CASE chan[c].pc \notin {"none", "ended"}
        <3>1. chan'[c] = [chan[c] EXCEPT !.pc = "lost"] /\ chan[c] \in ChanState
            BY <1>2, <2>5
        <3> QED BY <2>1, <2>2, <2>3, <2>5, <3>1 DEF ChanState, ChannelInv, Untouched,
                Noted, ExitNoted, Copied, Recorded, Captured, Completed,
        Live, Session
    <2> QED BY <2>4, <2>5
<1> QED BY <1>3, <1>5, <1>7, <1>8 DEF ForwardInv, ChannelsInv

-----------------------------------------------------------------------------
(* The invariant *)

LEMMA NextKeeps == ASSUME ForwardInv, [Next]_vars PROVE ForwardInv'
<1>1. CASE Dial \/ DialFails \/ ClientLost \/ ConnEnds \/ TargetLost \/ Crash
    BY <1>1, DialKeeps, ConnEndsKeeps, ClientLostKeeps, TargetLostKeeps, CrashKeeps
<1>2. ASSUME NEW c \in Channels,
             ChanStep(c) \/ RequestsIn(c) \/ RequestsOut(c) \/ CopiesIn(c) \/ CopiesOut(c)
      PROVE  ForwardInv'
    BY <1>2, OpenUpstreamKeeps, AcceptChannelKeeps, AcceptFailsKeeps, CloseBothKeeps,
        FinishKeeps, NoteRequestKeeps, PassRequestKeeps, InRequestsEndKeeps, NoteExitKeeps,
        PassExitKeeps, OutRequestsEndKeeps, CopyInKeeps, CopyInEndsKeeps, CopyOutKeeps,
        CopyOutEndsKeeps
    DEF ChanStep, RequestsIn, RequestsOut, CopiesIn, CopiesOut
<1>3. ASSUME NEW c \in Channels, AnswersClose(c) \/ Peers(c)
      PROVE  ForwardInv'
    BY <1>3, ClientAnswersCloseKeeps, TargetAnswersCloseKeeps, OfferKeeps, ClientSendsKeeps,
        ClientRequestsKeeps, TargetSendsKeeps, TargetFailsKeeps, TargetExitsKeeps,
        CopyOutKeeps, CopyInKeeps, PassExitKeeps, PassRequestKeeps
    DEF AnswersClose, Peers
<1>4. CASE UNCHANGED vars
    BY <1>4 DEF vars, ForwardInv, TypeOK, ConnInv, CountInv, Running, ChannelsInv, ChannelInv,
        Untouched, Noted, ExitNoted, Copied, Recorded, Captured, Completed,
        Live, Session
<1> QED BY <1>1, <1>2, <1>3, <1>4 DEF Next

LEMMA Invariance == Spec => []ForwardInv
BY InitInv, NextKeeps, PTL DEF Spec

-----------------------------------------------------------------------------
(* The properties *)

\* Every variable of the connection keeps its shape, in any number of channels.
THEOREM TypeCorrect == Spec => []TypeOK
<1>1. ForwardInv => TypeOK
    BY DEF ForwardInv
<1> QED BY <1>1, Invariance, PTL

\* forwardRequests notes a request before it passes it on: whatever crashes or fails, a
\* command that reached the target has a row, running until forwardChannel completes it.
THEOREM CommandsOnRecord == Spec => []OnRecord
<1>1. ForwardInv => OnRecord
    BY DEF ForwardInv, ChannelsInv, ChannelInv, Noted, OnRecord
<1> QED BY <1>1, Invariance, PTL

\* requestWG.Wait precedes CompleteAuditLog, and both writers of auditSession record before
\* io.Copy passes on: the completed row has the exit status, the input and the output that were
\* seen, and is marked as truncated when, and only when, a direction was over the limit.
THEOREM SeenIsRecorded == Spec => []SeenOnRecord
<1>1. ASSUME ForwardInv PROVE SeenOnRecord
    <2> SUFFICES ASSUME NEW c \in Channels, Session(c), chan[c].pc = "ended",
                        chan[c].event # "none", ~chan[c].dbError
                 PROVE  /\ row[c].status = "completed"
                        /\ chan[c].exited => row[c].exit
                        /\ row[c].output <= MaxDetail /\ row[c].detail <= MaxDetail
                        /\ IF row[c].truncated
                           THEN up[c].total > MaxDetail \/ down[c].total > MaxDetail
                           ELSE /\ row[c].detail = down[c].total - down[c].data
                                /\ chan[c].other \/ row[c].output >= chan[c].written
        BY DEF SeenOnRecord
    <2>1. /\ ChannelInv(c) /\ chan[c] \in ChanState /\ up[c] \in Side /\ down[c] \in Side
          /\ row[c] \in Row
        BY <1>1, Typed DEF ForwardInv, ChannelsInv
    <2> QED BY <2>1, ForwardAssumption DEF ChanState, Side, Row, ChannelInv, Noted, ExitNoted,
            Recorded, Captured, Completed
<1> QED BY <1>1, Invariance, PTL

\* wg.Wait before the channels are closed: a client that still listens has been given every
\* chunk of standard output that the target sent.
THEOREM OutputReachesClient == Spec => []OutputDelivered
<1>1. ASSUME ForwardInv PROVE OutputDelivered
    <2> SUFFICES ASSUME NEW c \in Channels, chan[c].pc = "closing", ~down[c].closed
                 PROVE  chan[c].written = up[c].total
        BY DEF OutputDelivered
    <2>1. Copied(c) /\ chan[c] \in ChanState /\ up[c] \in Side
        BY <1>1, Typed DEF ForwardInv, ChannelsInv, ChannelInv
    <2> QED BY <2>1 DEF ChanState, Side, Copied, Live
<1> QED BY <1>1, Invariance, PTL

\* changeActiveSessions: the number shown for a connection is that of its running sessions,
\* for any number of channels, and the entry outlives them.
THEOREM SessionsAreCounted == Spec => []SessionsCounted
<1>1. ASSUME ForwardInv PROVE SessionsCounted
    <2>1. entry.sessions = Cardinality(Running) /\ ConnInv
        BY <1>1 DEF ForwardInv, CountInv
    <2> QED BY <2>1 DEF Running, SessionsCounted, ConnInv, Live
<1> QED BY <1>1, Invariance, PTL
=============================================================================
