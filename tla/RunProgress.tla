----------------------------- MODULE RunProgress -----------------------------
(***************************************************************************)
(* The command line's observer of a run: event appends to a queue and      *)
(* leaves a token in a channel of capacity one; a single writer takes the  *)
(* whole queue, writes it to the event file, and passes each event on to a *)
(* renderer that may fall behind; close asks for a last pass and waits for *)
(* both.                                                                   *)
(*                                                                         *)
(* The summary is kept as the events it was built from; which of them the  *)
(* renderer shows on the way is not tracked.                               *)
(***************************************************************************)
EXTENDS Naturals, Sequences

CONSTANTS
    Outlets,       \* the outlets a command may be started with
    MaxBacklog     \* how many events the writer may be behind

ASSUME ProgressAssumption ==
    /\ MaxBacklog \in Nat
    /\ Outlets \subseteq (SUBSET {"file", "display"}) \ {{}}

VARIABLES
    recording,   \* an event file was asked for
    rendering,   \* progress.mode is not none
    queue,       \* progress.queue
    closing,     \* progress.closing
    wake,        \* a token is in progress.wake
    writer,      \* where the writer goroutine is
    last,        \* the closing flag it read with the queue it took
    file,        \* what the event file holds
    eventErr,    \* progress.eventErr is set
    summary,     \* the events the writer's model observed
    renderer,    \* "rendering" or "done"
    printed,     \* the events the printed summary was built from
    closer       \* where progress.close is: "open", "closing", "waiting", "closed"

outlets == <<recording, rendering>>
writerVars == <<writer, last, file, eventErr, summary>>
renderVars == <<renderer, printed>>
progressVars == <<outlets, queue, closing, wake, writerVars, renderVars, closer>>

\* newRunProgress; with neither outlet no observer is installed.
ProgressInit ==
    /\ \E chosen \in Outlets :
        /\ recording = ("file" \in chosen)
        /\ rendering = ("display" \in chosen)
    /\ queue = <<>>
    /\ closing = FALSE
    /\ wake = FALSE
    /\ writer = "waiting"
    /\ last = FALSE
    /\ file = <<>>
    /\ eventErr = FALSE
    /\ summary = <<>>
    /\ renderer = IF rendering THEN "rendering" ELSE "done"
    /\ printed = <<>>
    /\ closer = "open"

WakeUnbuffered == writer = "waiting"

\* The select with a default: the channel of capacity one holds a token afterwards.
Wake == TRUE

\* progress.event, for the events of one critical section of runEvents. The append and
\* the token are one step: the writer may run between them, which is the same as its
\* having taken the previous token before the append. The queue has no bound in the
\* code; here the run waits while it holds more than MaxBacklog events.
Enqueue(events) ==
    /\ Len(queue) <= MaxBacklog
    /\ queue' = queue \o events
    /\ wake' = (IF events = <<>> THEN wake ELSE Wake)
    /\ UNCHANGED <<outlets, closing, writerVars, renderVars, closer>>

-----------------------------------------------------------------------------
\* progress.write

WriterWakes ==
    /\ writer = "waiting"
    /\ wake
    /\ wake' = FALSE
    /\ writer' = "woken"
    /\ UNCHANGED <<outlets, queue, closing, last, file, eventErr, summary, renderVars, closer>>

\* The queue and the closing flag are read under one lock, and the batch is written: no
\* one else touches what the writing changes. Once writing has failed nothing more is
\* written; a failing batch leaves a part of itself behind. Sending to the renderer never
\* waits: what finds its channel full is dropped, but the summary has seen it.
WriterTakes ==
    /\ writer = "woken"
    /\ queue' = <<>>
    /\ last' = closing
    /\ \/ /\ recording /\ ~eventErr
          /\ file' = file \o queue
          /\ UNCHANGED eventErr
       \/ /\ recording /\ ~eventErr
          /\ \E n \in 0..Len(queue) : file' = file \o SubSeq(queue, 1, n)
          /\ eventErr' = TRUE
       \/ /\ ~recording \/ eventErr
          /\ UNCHANGED <<file, eventErr>>
    /\ summary' = IF rendering THEN summary \o queue ELSE summary
    /\ writer' = "written"
    /\ UNCHANGED <<outlets, closing, wake, renderVars, closer>>

LastPassNow == closing

LastPass == last

WriterLoops ==
    /\ writer = "written"
    /\ writer' = IF LastPass THEN "ending" ELSE "waiting"
    /\ UNCHANGED <<outlets, queue, closing, wake, last, file, eventErr, summary, renderVars, closer>>

\* The file is closed, the summary handed over in a channel of capacity one, and the
\* renderer's channel closed.
WriterEnds ==
    /\ writer = "ending"
    /\ eventErr' \in (IF recording THEN {eventErr, TRUE} ELSE {eventErr})
    /\ writer' = "done"
    /\ UNCHANGED <<outlets, queue, closing, wake, last, file, summary, renderVars, closer>>

\* progress.render: an event or the ticker redraws the display; the summary is printed
\* once the channel is closed and drained.
Redraw ==
    /\ renderer = "rendering"
    /\ UNCHANGED progressVars

RenderSummary ==
    /\ renderer = "rendering"
    /\ writer = "done"
    /\ printed' = IF summary # <<>> /\ summary[Len(summary)].type = "run.finished" THEN summary ELSE <<>>
    /\ renderer' = "done"
    /\ UNCHANGED <<outlets, queue, closing, wake, writerVars, closer>>

-----------------------------------------------------------------------------
\* progress.close

CloseAsks ==
    /\ closer = "closing"
    /\ closing' = TRUE
    /\ wake' = Wake
    /\ closer' = "waiting"
    /\ UNCHANGED <<outlets, queue, writerVars, renderVars>>

CloseReturns ==
    /\ closer = "waiting"
    /\ writer = "done"
    /\ renderer = "done"
    /\ closer' = "closed"
    /\ UNCHANGED <<outlets, queue, closing, wake, writerVars, renderVars>>

Writing == WriterWakes \/ WriterTakes \/ WriterLoops \/ WriterEnds
Closing == CloseAsks \/ CloseReturns
==============================================================================
