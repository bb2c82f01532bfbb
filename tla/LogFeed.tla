------------------------------- MODULE LogFeed --------------------------------
(***************************************************************************)
(* From a log call to the viewers of the log.  A call hands its event to   *)
(* the unbuffered channel logCh and then prints it.  Observable.process    *)
(* takes one event at a time and, with the observable's mutex held, puts   *)
(* it into the buffer of every subscriber, waiting for room.  getLogs      *)
(* subscribes; a goroutine of its own moves the events of the buffer to a  *)
(* list, and on every tick the handler sends the list to its viewer and    *)
(* starts a new one, with a mutex held that the goroutine needs, too.      *)
(***************************************************************************)
EXTENDS Naturals, Sequences

CONSTANTS
    Loggers,    \* goroutines that log
    Viewers,    \* handlers of getLogs
    BufferCap,  \* Subscriber.buffer, 200, and the event its reader holds
    MaxEvents   \* bound: log calls

ASSUME FeedAssumption == BufferCap \in Nat \ {0} /\ MaxEvents \in Nat

VARIABLES
    logger,    \* logger -> "idle", "sending" or "printing"
    emitting,  \* the event process() holds, 0 for none: it has o.mux then
    emitTo,    \* the subscribers that it still has to be put to
    listeners, \* observable.listener
    buffer,    \* viewer -> what is in its channel
    bufOpen,   \* viewer -> the channel is not closed
    view,      \* viewer -> "none", "ticking", "writing", "leaving" or "done"
    mover,     \* viewer -> "none", "ranging" or "done", its goroutine
    logs,      \* viewer -> the list
    out,       \* viewer -> the list that is being written
    logged,    \* history: the events process() took
    subAt,     \* history: viewer -> how many before it subscribed
    shown      \* history: viewer -> what was written to it

feedVars == <<logger, emitting, emitTo, listeners, buffer, bufOpen, view,
              mover, logs, out, logged, subAt, shown>>

FeedInit ==
    /\ logger = [l \in Loggers |-> "idle"]
    /\ emitting = 0 /\ emitTo = {} /\ listeners = {}
    /\ buffer = [v \in Viewers |-> <<>>]
    /\ bufOpen = [v \in Viewers |-> TRUE]
    /\ view = [v \in Viewers |-> "none"]
    /\ mover = [v \in Viewers |-> "none"]
    /\ logs = [v \in Viewers |-> <<>>]
    /\ out = [v \in Viewers |-> <<>>]
    /\ logged = <<>>
    /\ subAt = [v \in Viewers |-> 0]
    /\ shown = [v \in Viewers |-> <<>>]

-------------------------------------------------------------------------------
(* Infoln, Warnln, Errorln and Debugln: logCh <- event, print(event).      *)
Log(l) ==
    /\ logger[l] = "idle" /\ Len(logged) < MaxEvents
    /\ logger' = [logger EXCEPT ![l] = "sending"]
    /\ UNCHANGED <<emitting, emitTo, listeners, buffer, bufOpen, view, mover,
                   logs, out, logged, subAt, shown>>

PrintEvent(l) ==
    /\ logger[l] = "printing"
    /\ logger' = [logger EXCEPT ![l] = "idle"]
    /\ UNCHANGED <<emitting, emitTo, listeners, buffer, bufOpen, view, mover,
                   logs, out, logged, subAt, shown>>

-------------------------------------------------------------------------------
(* Observable.process.                                                     *)

\* It takes an event and then the mutex, which Subscribe and UnSubscribe
\* hold only for a moment: both together are a step of process.
Take(l) ==
    /\ logger[l] = "sending" /\ emitting = 0
    /\ logger' = [logger EXCEPT ![l] = "printing"]
    /\ emitting' = Len(logged) + 1
    /\ emitTo' = listeners
    /\ logged' = Append(logged, Len(logged) + 1)
    /\ UNCHANGED <<listeners, buffer, bufOpen, view, mover, logs, out, subAt,
                   shown>>

(* Mutant: an event that does not fit is left out.                         *)
EmitOrDrop(v) ==
    /\ v \in emitTo
    /\ buffer' = [buffer EXCEPT ![v] = IF Len(@) < BufferCap
                                       THEN Append(@, emitting) ELSE @]
    /\ emitTo' = emitTo \ {v}
    /\ UNCHANGED <<logger, emitting, listeners, bufOpen, view, mover, logs,
                   out, logged, subAt, shown>>

\* Subscriber.Emit waits for room in the buffer.
Emit(v) ==
    /\ v \in emitTo /\ Len(buffer[v]) < BufferCap
    /\ buffer' = [buffer EXCEPT ![v] = Append(@, emitting)]
    /\ emitTo' = emitTo \ {v}
    /\ UNCHANGED <<logger, emitting, listeners, bufOpen, view, mover, logs,
                   out, logged, subAt, shown>>

EmitDone ==
    /\ emitting # 0 /\ emitTo = {}
    /\ emitting' = 0
    /\ UNCHANGED <<logger, emitTo, listeners, buffer, bufOpen, view, mover,
                   logs, out, logged, subAt, shown>>

-------------------------------------------------------------------------------
(* getLogs and its goroutine.  What ReadFile put into the list is left out *)
(* of it here.                                                             *)
Subscribe(v) ==
    /\ view[v] = "none" /\ emitting = 0
    /\ listeners' = listeners \cup {v}
    /\ view' = [view EXCEPT ![v] = "ticking"]
    /\ mover' = [mover EXCEPT ![v] = "ranging"]
    /\ subAt' = [subAt EXCEPT ![v] = Len(logged)]
    /\ UNCHANGED <<logger, emitting, emitTo, buffer, bufOpen, logs, out,
                   logged, shown>>

(* Mutant: the goroutine ends with the handler.                            *)
MoveWhileViewed(v) ==
    /\ mover[v] = "ranging" /\ buffer[v] # <<>> /\ view[v] = "ticking"
    /\ logs' = [logs EXCEPT ![v] = Append(@, Head(buffer[v]))]
    /\ buffer' = [buffer EXCEPT ![v] = Tail(@)]
    /\ UNCHANGED <<logger, emitting, emitTo, listeners, bufOpen, view, mover,
                   out, logged, subAt, shown>>

\* The goroutine takes an event and then needs the list's mutex, which the
\* handler holds while it writes.
Move(v) ==
    /\ mover[v] = "ranging" /\ buffer[v] # <<>> /\ view[v] # "writing"
    /\ logs' = [logs EXCEPT ![v] = Append(@, Head(buffer[v]))]
    /\ buffer' = [buffer EXCEPT ![v] = Tail(@)]
    /\ UNCHANGED <<logger, emitting, emitTo, listeners, bufOpen, view, mover,
                   out, logged, subAt, shown>>

MoverEnds(v) ==
    /\ mover[v] = "ranging" /\ buffer[v] = <<>> /\ ~bufOpen[v]
    /\ mover' = [mover EXCEPT ![v] = "done"]
    /\ UNCHANGED <<logger, emitting, emitTo, listeners, buffer, bufOpen, view,
                   logs, out, logged, subAt, shown>>

\* sendLogs encodes the list, starts a new one and writes.
Tick(v) ==
    /\ view[v] = "ticking"
    /\ view' = [view EXCEPT ![v] = "writing"]
    /\ out' = [out EXCEPT ![v] = logs[v]]
    /\ logs' = [logs EXCEPT ![v] = <<>>]
    /\ UNCHANGED <<logger, emitting, emitTo, listeners, buffer, bufOpen,
                   mover, logged, subAt, shown>>

Written(v) ==
    /\ view[v] = "writing"
    /\ view' = [view EXCEPT ![v] = "ticking"]
    /\ shown' = [shown EXCEPT ![v] = @ \o out[v]]
    /\ out' = [out EXCEPT ![v] = <<>>]
    /\ UNCHANGED <<logger, emitting, emitTo, listeners, buffer, bufOpen,
                   mover, logs, logged, subAt>>

\* The write fails, or the query asks for an interval that is no number: the
\* handler returns and its deferred UnSubscribe runs.
ViewFails(v) ==
    /\ view[v] \in {"writing", "ticking"}
    /\ view' = [view EXCEPT ![v] = "leaving"]
    /\ UNCHANGED <<logger, emitting, emitTo, listeners, buffer, bufOpen,
                   mover, logs, out, logged, subAt, shown>>

UnSubscribe(v) ==
    /\ view[v] = "leaving" /\ emitting = 0
    /\ view' = [view EXCEPT ![v] = "done"]
    /\ listeners' = listeners \ {v}
    /\ bufOpen' = [bufOpen EXCEPT ![v] = FALSE]
    /\ UNCHANGED <<logger, emitting, emitTo, buffer, mover, logs, out, logged,
                   subAt, shown>>

-------------------------------------------------------------------------------
LoggerStep(l) == Take(l) \/ PrintEvent(l)
ViewerStep(v) == Emit(v) \/ MoverEnds(v)

FeedNext ==
    \/ \E l \in Loggers : Log(l) \/ LoggerStep(l)
    \/ EmitDone
    \/ \E v \in Viewers :
         \/ Subscribe(v) \/ Tick(v) \/ Written(v) \/ ViewFails(v)
         \/ Move(v) \/ UnSubscribe(v) \/ ViewerStep(v)

\* Go serves goroutines that wait for a channel or a mutex in turn, hence
\* strong fairness for those that others can keep away.  A write to a viewer
\* has no deadline: nothing is assumed of its end.
FeedFairness ==
    /\ \A l \in Loggers : SF_feedVars(LoggerStep(l))
    /\ WF_feedVars(EmitDone)
    /\ \A v \in Viewers : /\ WF_feedVars(ViewerStep(v))
                          /\ SF_feedVars(UnSubscribe(v))
                          /\ SF_feedVars(Move(v))

FeedSpec == FeedInit /\ [][FeedNext]_feedVars /\ FeedFairness

-------------------------------------------------------------------------------
\* A viewer is shown the events logged since it subscribed, each once and in
\* order: those written, those being written, listed and buffered, with the
\* one process() still holds for it, are a run of the events, and while the
\* viewer is subscribed the run ends with the last of them.
ViewersMissNothing ==
    \A v \in Viewers :
        LET got == shown[v] \o out[v] \o logs[v] \o buffer[v]
                   \o (IF v \in emitTo THEN <<emitting>> ELSE <<>>)
        IN  /\ Len(got) <= Len(logged) - subAt[v]
            /\ got = SubSeq(logged, subAt[v] + 1, subAt[v] + Len(got))
            /\ v \in listeners => Len(got) = Len(logged) - subAt[v]

\* A log call returns, whatever viewers come and go, as long as each of their
\* writes ends: a viewer that leaves while process() waits for room in its
\* buffer does not stop the feed, because its goroutine empties the buffer
\* until UnSubscribe closes it.  The premise is needed, since the handler
\* writes with the list's mutex held and without a deadline: behind a viewer
\* that does not read, the buffer fills and every log call waits.
LogCallsReturn ==
    (\A v \in Viewers : []<>(view[v] # "writing")) =>
        \A l \in Loggers : logger[l] = "sending" ~> logger[l] = "idle"
===============================================================================
