-------------------------------- MODULE Tail --------------------------------
(***************************************************************************)
(* The live tail: Query.tail polls the events table with a cursor,         *)
(* HttpRouter.tail_loop writes what it gets as server-sent events, and the *)
(* async iterator of the TypeScript client (sdk-ts/src/query.ts) reads the *)
(* byte stream back into events.                                           *)
(*                                                                         *)
(* A row is known by its place in the order of arrival and has the         *)
(* timestamp its SDK gave it, at the resolution the table keeps.  A frame  *)
(* of the stream is cut in two pieces, so that a read of the client may    *)
(* end inside a frame.  Sleeps take no time; a write blocks while the      *)
(* connection's buffer is full.                                            *)
(***************************************************************************)
EXTENDS Naturals, Sequences, SequencesExt, FiniteSets

CONSTANTS Limit,     \* rows of a page: params[:limit], clamped
          Since,     \* the cursor the client starts with; 0 is none
          MaxRows,   \* bound: rows that arrive
          MaxTime,   \* bound: timestamps
          MaxWire    \* pieces the connection's buffer holds

ASSUME TailAssumption ==
    /\ Limit \in Nat \ {0}
    /\ Since \in Nat
    /\ MaxRows \in Nat
    /\ MaxTime \in Nat
    /\ MaxWire \in Nat /\ MaxWire >= 2 * Limit

Rows      == 1..MaxRows
ErrorBody == 0             \* the JSON object of the error frame
KeepAlive == MaxRows + 1   \* a comment frame: no data line
Items     == Rows \cup {ErrorBody}

VARIABLES
    time,      \* the timestamp of each row in the table; 0: not there yet
    server,    \* the tail_loop process
    cursor,    \* tail_loop's `since`
    wire,      \* pieces of frames on the connection
    eof,       \* how the response ended
    closed,    \* the client has closed the connection
    client,    \* the iterator's connection
    leftover,  \* the iterator's `leftover`
    buffered,  \* the iterator's `buffered`
    done,      \* the iterator's `done`
    call,      \* the consumer's call of next()
    aborted,   \* the consumer's AbortSignal
    early,     \* history: the last return() came before the response
    sent,      \* history: items written to the connection
    yielded    \* history: items next() has returned

serverVars == <<server, cursor, eof, sent>>
clientVars == <<client, leftover, buffered, done, call, aborted, early, yielded>>
vars == <<time, serverVars, wire, closed, clientVars>>

Init ==
    /\ time = [e \in Rows |-> 0]
    /\ server = "none"
    /\ cursor = Since
    /\ wire = <<>>
    /\ eof = "no"
    /\ closed = FALSE
    /\ client = "new"
    /\ leftover = <<>>
    /\ buffered = <<>>
    /\ done = FALSE
    /\ call = "idle"
    /\ aborted = FALSE
    /\ early = FALSE
    /\ sent = <<>>
    /\ yielded = <<>>

-----------------------------------------------------------------------------
(* The table: rows arrive as the collector inserts them. *)
Arrive(t) ==
    /\ \E e \in Rows :
          /\ time[e] = 0
          /\ \A d \in 1..(e - 1) : time[d] # 0
          /\ time' = [time EXCEPT ![e] = t]
    /\ UNCHANGED <<serverVars, wire, closed, clientVars>>

-----------------------------------------------------------------------------
(* The server. *)

(* The request is granted: headers, and the loop.  The client may have     *)
(* gone by then.                                                           *)
Serve ==
    /\ client # "new" /\ server = "none"
    /\ server' = "poll"
    /\ UNCHANGED <<time, cursor, eof, sent, wire, closed, clientVars>>

(* Mutant: the cursor's own timestamp is included. *)
FreshInclusive(c) == {e \in Rows : time[e] # 0 /\ time[e] >= c}

(* The rows the WHERE clause selects: `timestamp > since`. *)
Fresh(c) == {e \in Rows : time[e] # 0 /\ time[e] > c}

(* ORDER BY timestamp ASC LIMIT: ties come in any order. *)
Pages(S) ==
    LET n == IF Cardinality(S) < Limit THEN Cardinality(S) ELSE Limit
    IN  {p \in [1..n -> S] :
            /\ \A i, j \in 1..n : i < j => p[i] # p[j] /\ time[p[i]] <= time[p[j]]
            /\ \A e \in S : (\A i \in 1..n : p[i] # e) => time[e] >= time[p[n]]}

(* Mutant: the cursor moves to the newest row, whatever the page holds. *)
NextCursorNewest(p) ==
    CHOOSE t \in {time[e] : e \in Rows} : \A e \in Rows : time[e] <= t

(* The timestamp of the last row of the page. *)
NextCursor(p) == time[Last(p)]

(* The frames of s, each in two pieces. *)
Frames(s) ==
    [i \in 1..(2 * Len(s)) |-> [item |-> s[(i + 1) \div 2], last |-> i % 2 = 0]]

(* chunk(conn, ...): blocks while the buffer is full. *)
CanWrite == server = "poll" /\ (closed \/ Len(wire) + 2 * Limit <= MaxWire)

(* A page with rows: they are written, and the cursor moves.  The write    *)
(* fails when the client has gone.                                         *)
PollRows ==
    /\ CanWrite
    /\ \E p \in Pages(Fresh(cursor)) :
          /\ p # <<>>
          /\ IF closed
             THEN server' = "ended" /\ UNCHANGED <<wire, cursor, sent>>
             ELSE /\ wire' = wire \o Frames(p)
                  /\ sent' = sent \o p
                  /\ cursor' = NextCursor(p)
                  /\ UNCHANGED server
    /\ UNCHANGED <<time, eof, closed, clientVars>>

(* Mutant: nothing is written when there is nothing to send. *)
PollEmptySilent ==
    /\ CanWrite
    /\ Fresh(cursor) = {}
    /\ UNCHANGED vars

(* An empty page: sleep, and write a comment to see if anybody is there.   *)
PollEmpty ==
    /\ CanWrite
    /\ Fresh(cursor) = {}
    /\ IF closed
       THEN server' = "ended" /\ UNCHANGED wire
       ELSE wire' = wire \o Frames(<<KeepAlive>>) /\ UNCHANGED server
    /\ UNCHANGED <<time, cursor, eof, sent, closed, clientVars>>

(* The query fails: the reason is written, if it can be, and that is all.  *)
PollFails ==
    /\ CanWrite
    /\ IF closed
       THEN UNCHANGED <<wire, sent, eof>>
       ELSE /\ wire' = wire \o Frames(<<ErrorBody>>)
            /\ sent' = Append(sent, ErrorBody)
            /\ eof' = "clean"
    /\ server' = "ended"
    /\ UNCHANGED <<time, cursor, closed, clientVars>>

(* The handler exits (the pool it was given is gone), or the node does.    *)
PollCrashes ==
    /\ server = "poll"
    /\ server' = "ended"
    /\ eof' = "broken"
    /\ UNCHANGED <<time, cursor, sent, wire, closed, clientVars>>

-----------------------------------------------------------------------------
(* The iterator. *)

(* The first next(): fetch is called. *)
Open ==
    /\ client = "new"
    /\ call = "idle"
    /\ client' = "opening"
    /\ call' = "waiting"
    /\ UNCHANGED <<time, serverVars, wire, closed, leftover, buffered, done, aborted, early, yielded>>

(* The response's headers arrive; the loop may have gone on meanwhile.     *)
OpenOk ==
    /\ client = "opening" /\ server # "none"
    /\ client' = "open"
    /\ UNCHANGED <<time, serverVars, wire, closed, leftover, buffered,
                   done, call, aborted, early, yielded>>

(* initPromise rejects, for good, and the connection is gone. *)
ClientFails ==
    /\ client' = "failed" /\ call' = "idle"
    /\ closed' = TRUE /\ wire' = <<>>

(* The request is refused or the collector is unreachable, so that there   *)
(* is no loop; or the connection fails, whatever the server made of it.    *)
OpenFails ==
    /\ client = "opening"
    /\ ClientFails
    /\ \/ server = "none" /\ server' = "ended"
       \/ UNCHANGED server
    /\ UNCHANGED <<time, cursor, eof, sent, leftover, buffered, done, aborted, early, yielded>>

(* next(), once the response is there. *)
Next_ ==
    /\ client = "open"
    /\ call = "idle"
    /\ call' = "waiting"
    /\ UNCHANGED <<time, serverVars, wire, closed, client, leftover, buffered,
                   done, aborted, early, yielded>>

(* next() has nothing to return yet. *)
Reading == client = "open" /\ call = "waiting" /\ buffered = <<>> /\ ~done

(* The data of the complete frames of s: a piece alone does not parse and  *)
(* is ignored, a comment has no data.  And the pieces after the last one.  *)
Whole(s, i) == ~s[i - 1].last /\ s[i].last /\ s[i].item # KeepAlive
Ends(s) == {i \in 2..Len(s) : Whole(s, i)}
Data(s) ==
    LET n   == Cardinality(Ends(s))
        end == CHOOSE f \in [1..n -> Ends(s)] : \A j, k \in 1..n : j < k => f[j] < f[k]
    IN  [k \in 1..n |-> s[end[k]].item]
Rest(s) == IF s = <<>> \/ Last(s).last THEN <<>> ELSE <<Last(s)>>

(* Mutant: what follows the last complete frame is thrown away. *)
ReadDropsPartial(n) ==
    /\ Reading
    /\ LET s == leftover \o SubSeq(wire, 1, n)
       IN  buffered' = Data(s) /\ leftover' = <<>>
    /\ wire' = SubSeq(wire, n + 1, Len(wire))
    /\ UNCHANGED <<time, serverVars, closed, client, done, call, aborted, early, yielded>>

(* readChunk: n pieces arrive in one read. *)
Read(n) ==
    /\ Reading
    /\ LET s == leftover \o SubSeq(wire, 1, n)
       IN  buffered' = Data(s) /\ leftover' = Rest(s)
    /\ wire' = SubSeq(wire, n + 1, Len(wire))
    /\ UNCHANGED <<time, serverVars, closed, client, done, call, aborted, early, yielded>>

(* The reader is finished: the response ended, or the reader is cancelled. *)
ReadFinished ==
    /\ Reading
    /\ (wire = <<>> /\ eof = "clean") \/ (closed /\ ~aborted)
    /\ done' = TRUE
    /\ UNCHANGED <<time, serverVars, wire, closed, client, leftover, buffered,
                   call, aborted, early, yielded>>

(* The read rejects because of the signal: the iteration is over. *)
ReadAborted ==
    /\ Reading
    /\ aborted
    /\ done' = TRUE
    /\ call' = "idle"
    /\ UNCHANGED <<time, serverVars, wire, closed, client, leftover, buffered,
                   aborted, early, yielded>>

(* The read rejects for another reason: so does next(). *)
ReadBroken ==
    /\ Reading
    /\ eof = "broken"
    /\ wire' = <<>>
    /\ call' = "idle"
    /\ UNCHANGED <<time, serverVars, closed, client, leftover, buffered, done,
                   aborted, early, yielded>>

(* next() returns the oldest buffered item. *)
Yield ==
    /\ client = "open"
    /\ call = "waiting"
    /\ buffered # <<>>
    /\ yielded' = Append(yielded, Head(buffered))
    /\ buffered' = Tail(buffered)
    /\ call' = "idle"
    /\ UNCHANGED <<time, serverVars, wire, closed, client, leftover, done, aborted, early>>

(* next() returns {done: true}. *)
Finish ==
    /\ client = "open"
    /\ call = "waiting"
    /\ buffered = <<>>
    /\ done
    /\ call' = "idle"
    /\ UNCHANGED <<time, serverVars, wire, closed, client, leftover, buffered,
                   done, aborted, early, yielded>>

(* Mutant: return() forgets the reader. *)
ReturnForgets ==
    /\ done' = TRUE
    /\ early' = (client \in {"new", "opening"})
    /\ UNCHANGED <<time, serverVars, wire, closed, client, leftover, buffered, call,
                   aborted, yielded>>

(* return(): the reader, if there is one by now, is cancelled. *)
Return ==
    /\ done' = TRUE
    /\ early' = (client \in {"new", "opening"})
    /\ closed' = (closed \/ client = "open")
    /\ wire' = IF client = "open" THEN <<>> ELSE wire
    /\ UNCHANGED <<time, serverVars, client, leftover, buffered, call, aborted, yielded>>

(* params.signal fires. *)
Abort ==
    /\ client \in {"opening", "open"}
    /\ ~aborted
    /\ aborted' = TRUE
    /\ IF client = "opening"
       THEN ClientFails
       ELSE closed' = TRUE /\ wire' = <<>> /\ UNCHANGED <<client, call>>
    /\ UNCHANGED <<time, serverVars, leftover, buffered, done, early, yielded>>

-----------------------------------------------------------------------------
Server == PollRows \/ PollEmpty
Opening == OpenOk \/ OpenFails
Client ==
    \/ \E n \in 1..Len(wire) : Read(n)
    \/ ReadFinished \/ ReadAborted \/ ReadBroken \/ Yield \/ Finish

Next ==
    \/ \E t \in 1..MaxTime : Arrive(t)
    \/ Serve \/ Server \/ PollFails \/ PollCrashes
    \/ Open \/ Opening \/ Next_ \/ Client
    \/ Return \/ Abort

Spec == Init /\ [][Next]_vars

(* The tail_loop process is scheduled, what is awaited completes, and the  *)
(* consumer is a `for await` loop: it calls next() again.                  *)
FairSpec ==
    Spec /\ WF_vars(Server) /\ WF_vars(Opening) /\ WF_vars(Next_) /\ WF_vars(Client)

-----------------------------------------------------------------------------
(* Properties. *)

(* Between tail_loop and the consumer nothing is lost, repeated, reordered *)
(* or torn, wherever the reads cut the stream: what was written is what    *)
(* next() returned, then what the iterator and the connection still hold.  *)
StreamLedger ==
    LET held == yielded \o buffered \o Data(leftover \o wire)
    IN  IF closed \/ eof = "broken" THEN IsPrefix(held, sent) ELSE held = sent

(* No row is sent twice, although the cursor is a timestamp and rows may   *)
(* share one, and they are sent by increasing timestamp.                   *)
NoRepeat ==
    \A i, j \in DOMAIN sent :
        i < j /\ sent[j] # ErrorBody =>
            sent[i] # sent[j] /\ time[sent[i]] <= time[sent[j]]

(* A row the cursor has passed has been sent. *)
NothingMissed ==
    server # "none" =>
        \A e \in Rows :
            Since < time[e] /\ time[e] <= cursor => e \in ToSet(sent)

(* So far timestamps have increased in the order of arrival. *)
InOrder ==
    \A d, e \in Rows : d < e /\ time[e] # 0 => time[d] < time[e]

(* The cursor, the page limit and the strict comparison together skip no   *)
(* row, if timestamps increase in the order of arrival.                    *)
Complete == InOrder => NothingMissed

Over == closed \/ eof # "no" \/ client = "failed" \/ done

(* A row that arrives during a tail reaches the consumer, unless the tail  *)
(* ends first or timestamps have gone back.                                *)
TailDelivers ==
    \A e \in Rows :
        time[e] > Since /\ client = "open"
            ~> e \in ToSet(yielded) \/ Over \/ ~InOrder

(* When the client has gone, maybe before the loop began, the server stops *)
(* polling the table.                                                      *)
TailEnds == closed /\ server = "poll" ~> server = "ended"

(* However the iteration ends, the server stops polling the table, unless  *)
(* return() was called before the response came: then nobody closes it.    *)
IteratorReleases == done ~> server # "poll" \/ early

(* query.ex:8-9: the caller "passes a `since` cursor and gets back new     *)
(* events + an updated cursor", whatever the timestamps.                   *)
CursorPromise == NothingMissed
=============================================================================
