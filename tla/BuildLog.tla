------------------------------ MODULE BuildLog ------------------------------
(***************************************************************************)
(* One build's log: the event file a child writes, the supervisor that     *)
(* drains it in bounded slices (EventStream.fs, Worker.fs), the fenced     *)
(* batch append (Store.AppendLogBatchFenced), the diagnostics the Store    *)
(* itself appends, and a client that follows the feedback cursor.          *)
(*                                                                         *)
(* Attempts are numbered in the order of their retries.  A byte is NewLine *)
(* or part of the content of the frame it is in.  Appends to a build are   *)
(* serialised by the lock on its builds row, so a transaction is a step.   *)
(***************************************************************************)
EXTENDS Naturals, Sequences, FiniteSets, FiniteSetsExt, SequencesExt

CONSTANTS
    MaxAttempts,
    Byte,
    Outputs,        \* what a child may write in all: sequences of bytes
    NewLine,
    MaxFrameBytes,  \* maxEventFrameEncodedBytes
    ByteBudget,     \* eventDrainByteBudget
    FrameBudget,    \* eventDrainFrameBudget
    PageLimit,      \* MaxLogChunks
    Oversized,      \* the frame of a body that is too long
    Diagnostic      \* the chunk of a reconciliation

ASSUME StreamAssumption == Outputs \subseteq Seq(Byte)
ASSUME DiagnosticAssumption == Diagnostic \notin Seq(Byte) \cup {Oversized}
ASSUME LogBounds ==
    {MaxAttempts, MaxFrameBytes, ByteBudget, FrameBudget, PageLimit} \subseteq Nat \ {0}

Attempts == 1..MaxAttempts

VARIABLES
    attempts,   \* state of every attempt's row
    leased,     \* is its lease of this fence still running?
    child,      \* process and event file of every attempt
    drain,      \* supervisor of every attempt
    log,        \* log_chunks
    next_log_sequence,
    client

logVars == <<attempts, leased, child, drain, log, next_log_sequence, client>>
table == <<log, next_log_sequence>>
-----------------------------------------------------------------------------
NoChild == [at |-> "none", out |-> <<>>, written |-> 0]
EmptyDrain == [offset |-> 0, tail |-> <<>>, discarding |-> FALSE]
NoDrain == [at |-> "none", state |-> EmptyDrain, sequence |-> 0, boundary |-> 0]

Init ==
    /\ attempts = [a \in Attempts |-> IF a = 1 THEN "queued" ELSE "absent"]
    /\ leased = [a \in Attempts |-> FALSE]
    /\ child = [a \in Attempts |-> NoChild]
    /\ drain = [a \in Attempts |-> NoDrain]
    /\ log = {}
    /\ next_log_sequence = 0
    /\ client \in [at : {"watching", "awaiting", "polling"}, cursor : {0}, got : {<<>>}, settled : {{}}]
-----------------------------------------------------------------------------
\* Store.

\* LockLogLineage's and the statement's test of fence, owner, lease and state.
Authorized(a) == attempts[a] = "running" /\ leased[a]

NextLogSequence(a) == Cardinality({c \in log : c.attempt = a})

\* First number of a range allocated from the build.
BuildStart(start) == IF next_log_sequence > start THEN next_log_sequence ELSE start

Overlaps(a, start, frames) ==
    \E c \in log : c.attempt = a /\ c.sequence \in start..(start + Len(frames) - 1)

\* The transaction of AppendLogBatchFenced that inserts.
Insert(a, start, frames) ==
    /\ log' = log \cup
          {[attempt |-> a, sequence |-> start + i - 1,
            number |-> BuildStart(start) + i - 1, frame |-> frames[i]] :
              i \in DOMAIN frames}
    /\ next_log_sequence' = BuildStart(start) + Len(frames)

\* A reconciliation and its diagnostic, in one transaction.
RecordUncertain(a) ==
    /\ attempts' = [attempts EXCEPT ![a] = "reconciliation_required"]
    /\ log' = log \cup {[attempt |-> a, sequence |-> NextLogSequence(a),
                         number |-> next_log_sequence, frame |-> Diagnostic]}
    /\ next_log_sequence' = next_log_sequence + 1

\* The clock, or a claim, takes the lease away.
LoseLease(a) ==
    /\ leased[a]
    /\ leased' = [leased EXCEPT ![a] = FALSE]
    /\ UNCHANGED <<attempts, child, drain, table, client>>

\* RequeueExpiredLocalAttempts, of a started attempt.
ReconcileExpired(a) ==
    /\ attempts[a] = "running" /\ ~leased[a]
    /\ RecordUncertain(a)
    /\ UNCHANGED <<leased, child, drain, client>>

\* DecideRetry: a settled attempt gets a child, and the build is open again.
Retry(a) ==
    /\ attempts[a] = "terminal" /\ a + 1 \in Attempts
    /\ attempts[a + 1] = "absent"
    /\ attempts' = [attempts EXCEPT ![a + 1] = "queued"]
    /\ UNCHANGED <<leased, child, drain, table, client>>
-----------------------------------------------------------------------------
\* The child and whoever it leaves behind.

Launch(a) ==
    /\ attempts[a] = "queued"
    /\ attempts' = [attempts EXCEPT ![a] = "running"]
    /\ leased' = [leased EXCEPT ![a] = TRUE]
    /\ \E out \in Outputs :
          child' = [child EXCEPT ![a] = [at |-> "running", out |-> out, written |-> 0]]
    /\ drain' = [drain EXCEPT ![a] = [NoDrain EXCEPT
                    !.at = "active", !.sequence = NextLogSequence(a)]]
    /\ UNCHANGED <<table, client>>

\* A process outside the outer group may write after the child has exited.
Write(a) ==
    /\ child[a].at # "none" /\ child[a].written < Len(child[a].out)
    /\ child' = [child EXCEPT ![a].written = @ + 1]
    /\ UNCHANGED <<attempts, leased, drain, table, client>>

\* Anywhere, also within a frame.
Exit(a) ==
    /\ child[a].at = "running"
    /\ child' = [child EXCEPT ![a].at = "exited"]
    /\ UNCHANGED <<attempts, leased, drain, table, client>>
-----------------------------------------------------------------------------
\* drainBatch.

Bytes(a) == SubSeq(child[a].out, 1, child[a].written)
NewLines(bytes) == {i \in DOMAIN bytes : bytes[i] = NewLine}

\* The bytes of one slice: no more than either budget allows.
SliceOf(bytes) ==
    LET Fits(n) == /\ n <= ByteBudget
                   /\ \/ n = 0
                      \/ Cardinality(NewLines(SubSeq(bytes, 1, n - 1))) < FrameBudget
    IN  SubSeq(bytes, 1, Max({n \in 0..Len(bytes) : Fits(n)}))

\* One byte; frames are those completed in the slice.
Inspect(batch, byte) ==
    LET state == batch.state
        Moved(tail, discarding) == [offset |-> state.offset + 1, tail |-> tail,
                                    discarding |-> discarding]
    IN  IF byte = NewLine
        THEN [state |-> Moved(<<>>, FALSE),
              frames |-> Append(batch.frames,
                            IF state.discarding THEN Oversized ELSE state.tail)]
        ELSE [batch EXCEPT !.state =
                 IF state.discarding \/ Len(state.tail) >= MaxFrameBytes
                 THEN Moved(<<>>, TRUE)
                 ELSE Moved(Append(state.tail, byte), FALSE)]

\* A slice, byte by byte.
Drained(state, slice) ==
    LET run[n \in 0..Len(slice)] ==
            IF n = 0 THEN [state |-> state, frames |-> <<>>]
            ELSE Inspect(run[n - 1], slice[n])
    IN  run[Len(slice)]

\* Mutant: what is left of the slice is dropped instead of kept for the next.
Batch_DropsTail(state, bytes) ==
    Drained([state EXCEPT !.tail = <<>>],
            SliceOf(SubSeq(bytes, state.offset + 1, Len(bytes))))

Batch(state, bytes) ==
    Drained(state, SliceOf(SubSeq(bytes, state.offset + 1, Len(bytes))))

\* drainCommittedBatch: the staged cursor counts when the append committed.  A
\* connection that fails leaves it open whether it did, and the exception ends
\* the supervision.
Slice(a) ==
    LET batch == Batch(drain[a].state, Bytes(a))
        frames == batch.frames
        start == drain[a].sequence
        Go(at) == drain' = [drain EXCEPT ![a].at = at]
        Commit == drain' = [drain EXCEPT ![a].state = batch.state,
                                         ![a].sequence = start + Len(frames)]
        Appendable == Authorized(a) /\ ~Overlaps(a, start, frames)
    IN
    /\ batch.state.offset > drain[a].state.offset
    /\ \/ frames = <<>> /\ Commit /\ UNCHANGED table
       \/ frames # <<>> /\ Appendable /\ Insert(a, start, frames) /\ Commit
       \/ frames # <<>> /\ Appendable /\ Insert(a, start, frames) /\ Go("reconcile")
       \/ frames # <<>> /\ Go("reconcile") /\ UNCHANGED table
    /\ UNCHANGED <<attempts, leased, child, client>>
-----------------------------------------------------------------------------
\* The supervisor.

Goes(a, at) ==
    /\ drain' = [drain EXCEPT ![a].at = at]
    /\ UNCHANGED <<attempts, leased, child, table, client>>

ActiveSlice(a) == drain[a].at = "active" /\ Slice(a)

\* Cancellation, shutdown or a renewal that was refused.
Forced(a) == drain[a].at \in {"active", "final"} /\ Goes(a, "reconcile")

\* The child has exited by itself and its group is extinct; what the file holds
\* now is drained to the end.
Exited(a) ==
    /\ drain[a].at = "active" /\ child[a].at = "exited"
    /\ drain' = [drain EXCEPT ![a].at = "final", ![a].boundary = child[a].written]
    /\ UNCHANGED <<attempts, leased, child, table, client>>

FinalSlice(a) ==
    /\ drain[a].at = "final" /\ child[a].written = drain[a].boundary
    /\ Slice(a)

\* Mutant: the boundary is reached, whatever is left in the tail.
EndOfStream_AnyTail(a) == drain[a].state.offset = drain[a].boundary

EndOfStream(a) ==
    /\ drain[a].state.offset = drain[a].boundary
    /\ drain[a].state.tail = <<>> /\ ~drain[a].state.discarding

\* StreamChangedAfterExtinction, EndOfStream, or IncompleteFrameAtEndOfStream.
Stop(a) ==
    /\ drain[a].at = "final"
    /\ \/ child[a].written # drain[a].boundary
       \/ drain[a].state.offset = drain[a].boundary
    /\ Goes(a, IF child[a].written = drain[a].boundary /\ EndOfStream(a)
               THEN "drained" ELSE "reconcile")

\* refreshControl true, then PublishTerminal; or, with the lease still held, the
\* controller is told to stop, the journal has no verdict, or the artifacts or an
\* effect fail.
PublishTerminal(a) ==
    /\ drain[a].at = "drained"
    /\ \/ /\ Authorized(a)
          /\ attempts' = [attempts EXCEPT ![a] = "terminal"]
          /\ leased' = [leased EXCEPT ![a] = FALSE]
          /\ drain' = [drain EXCEPT ![a].at = "done"]
          /\ UNCHANGED <<child, table, client>>
       \/ Goes(a, "reconcile")

RequireReconciliation(a) ==
    /\ drain[a].at = "reconcile"
    /\ IF Authorized(a)
       THEN /\ RecordUncertain(a)
            /\ leased' = [leased EXCEPT ![a] = FALSE]
       ELSE UNCHANGED <<attempts, leased, table>>
    /\ drain' = [drain EXCEPT ![a].at = "done"]
    /\ UNCHANGED <<child, client>>

\* The controller dies.
Crash(a) == drain[a].at \notin {"none", "done"} /\ Goes(a, "done")
-----------------------------------------------------------------------------
\* Clients: one snapshot of status, page and has_more per request.  One follows
\* the build from the beginning (fogell watch), one pages through the log once
\* it has seen the build terminal (scripts/prove-native.py), one asks for the
\* whole log until it comes in one page (scripts/benchmark-native.py).

Status == LET a == CHOOSE a \in Attempts :
                      /\ attempts[a] # "absent"
                      /\ \A x \in Attempts : attempts[x] # "absent" => x <= a
          IN  attempts[a]

InOrder(chunks) ==
    [i \in 1..Cardinality(chunks) |->
        CHOOSE c \in chunks :
            Cardinality({d \in chunks : d.number < c.number}) = i - 1]

\* Mutant: the cursor passes every row that was read, also those of no page.
NextSequence_OfRows(from, rows, page) ==
    IF rows = <<>> THEN from ELSE Last(rows).number + 1

\* FeedbackResponse.NextSequence.
NextSequence(from, rows, page) ==
    IF page = <<>> THEN from ELSE Last(page).number + 1

\* settled: history, the attempts a client knows to be terminal.
Settled == {a \in Attempts : attempts[a] = "terminal"}

\* A page from a number on, cut by the number of chunks or, sooner, by their
\* bytes.
ReadFeedback(from, limit) ==
    LET rows == InOrder({c \in log : c.number >= from})
        more == Len(rows) > limit
        page == IF more THEN SubSeq(rows, 1, limit) ELSE rows
    IN  [more |-> more, page |-> page, next |-> NextSequence(from, rows, page)]

Receives(next) ==
    client' = next /\ UNCHANGED <<attempts, leased, child, drain, table>>

Onwards(at, answer) ==
    [client EXCEPT !.at = at, !.got = @ \o answer.page, !.cursor = answer.next]

Watch ==
    /\ client.at = "watching"
    /\ \E limit \in 1..PageLimit :
          LET answer == ReadFeedback(client.cursor, limit) IN
          Receives(Onwards(CASE Status = "reconciliation_required" -> "uncertain"
                             [] Status = "terminal" /\ ~answer.more -> "finished"
                             [] OTHER -> "watching", answer))

AwaitTerminal ==
    /\ client.at = "awaiting" /\ Status = "terminal"
    /\ Receives([client EXCEPT !.at = "paging", !.settled = Settled])

ReadPage ==
    /\ client.at = "paging"
    /\ \E limit \in 1..PageLimit :
          LET answer == ReadFeedback(client.cursor, limit) IN
          Receives(Onwards(IF ~answer.more THEN "read"
                           ELSE IF answer.next > client.cursor THEN "paging"
                           ELSE "stuck", answer))

\* Every request is from the beginning; only the last page counts.
Poll ==
    /\ client.at = "polling" /\ Status = "terminal"
    /\ \E limit \in 1..PageLimit :
          LET answer == ReadFeedback(0, limit) IN
          /\ ~answer.more
          /\ Receives([at |-> "read", cursor |-> answer.next, got |-> answer.page,
                       settled |-> Settled])

Next ==
    \/ \E a \in Attempts :
          \/ LoseLease(a) \/ ReconcileExpired(a) \/ Retry(a)
          \/ Launch(a) \/ Write(a) \/ Exit(a)
          \/ ActiveSlice(a) \/ Forced(a) \/ Exited(a) \/ FinalSlice(a) \/ Stop(a)
          \/ PublishTerminal(a) \/ RequireReconciliation(a) \/ Crash(a)
    \/ Watch \/ AwaitTerminal \/ ReadPage \/ Poll

Spec == Init /\ [][Next]_logVars
-----------------------------------------------------------------------------
\* Reference: the frames of a stream lie between its newlines, of which the k-th
\* is at End(bytes, k).
End(bytes, k) ==
    IF k = 0 THEN 0
    ELSE CHOOSE i \in NewLines(bytes) :
            Cardinality({j \in NewLines(bytes) : j <= i}) = k

Frame(bytes, k) ==
    LET body == SubSeq(bytes, End(bytes, k - 1) + 1, End(bytes, k) - 1)
    IN  IF Len(body) > MaxFrameBytes THEN Oversized ELSE body

FramesOf(bytes) == [k \in 1..Cardinality(NewLines(bytes)) |-> Frame(bytes, k)]

Published(a) == {c \in log : c.attempt = a /\ c.frame # Diagnostic}

\* Slices that end anywhere, lost connections and lost leases neither drop, cut,
\* repeat nor reorder a frame: an attempt's chunks are the first frames of its
\* stream, numbered from zero.
LogFollowsStream ==
    \A a \in Attempts :
        LET frames == FramesOf(Bytes(a))
            n == Cardinality(Published(a))
        IN  /\ n <= Len(frames)
            /\ \A k \in 1..n : \E c \in Published(a) :
                  c.sequence = k - 1 /\ c.frame = frames[k]

\* A terminal attempt's stream was published to its end: every byte of it is in
\* a whole frame, and every frame is in the log.
TerminalHasWholeLog ==
    \A a \in Attempts : attempts[a] = "terminal" =>
        LET stream == SubSeq(child[a].out, 1, drain[a].boundary) IN
        /\ stream = <<>> \/ Last(stream) = NewLine
        /\ Cardinality(Published(a)) = Len(FramesOf(stream))

\* A client has seen every chunk below its cursor, once and in order, although
\* the Store and the supervisors of several attempts add to the build; the
\* cursor of one that pages always advances, and when it stops it has the whole
\* log of every attempt it knew to be terminal, a retry notwithstanding.
CursorMissesNothing ==
    /\ client.got = InOrder({c \in log : c.number < client.cursor})
    /\ client.at # "stuck"
    /\ client.at = "read" => \A a \in client.settled :
          Published(a) \subseteq Range(client.got)
=============================================================================
