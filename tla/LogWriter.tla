------------------------------ MODULE LogWriter -------------------------------
(***************************************************************************)
(* internal/pkg/features/logging: loggers post into the channel of the     *)
(* current writer, whose goroutine (listen) collects the logs and stores   *)
(* them in batches.  Start and Stop replace the writer while loggers and   *)
(* listen use it without a lock.                                           *)
(*                                                                         *)
(* A log is a number, the next one of its writer; NilLog is what a closed  *)
(* channel yields.                                                         *)
(***************************************************************************)
EXTENDS Naturals, Sequences

CONSTANTS
    Loggers,        \* goroutines that log
    MaxCount,       \* Writer.maxCount
    BufferSize,     \* Writer.bufferSize
    MaxLogs,        \* bound: logs posted to one writer
    MaxStarts, StoreErrors              \* bounds

(* init() makes them positive.                                              *)
ASSUME LogWriterAssumption ==
    /\ MaxCount \in Nat \ {0}
    /\ BufferSize \in Nat \ {0}
    /\ MaxStarts \in Nat

NilLog == 0
Writers == 1 .. MaxStarts

VARIABLES
    current,    \* the variable writer, 0 for nil
    started,    \* how many writers were made
    admin,      \* Start or Stop in progress, with writeMu held: where release is
    wr,          \* the fields of each writer, and its goroutine listen
    logger,     \* the calls of post in progress
    posted,     \* history: the logs sent to each writer, in order
    handed,     \* history: the logs handed to the store by each writer, in order
    storeErrors,
    crashed     \* history: who panicked

logVars == <<current, started, admin, wr, logger, posted, handed, storeErrors, crashed>>

NoWriter == [ch |-> <<>>, closed |-> FALSE, chNil |-> FALSE, timer |-> "armed", timerNil |-> FALSE,
             cancel |-> FALSE, done |-> FALSE, buffered |-> <<>>, listen |-> "none", open |-> FALSE]

LogInit ==
    /\ current = 0 /\ started = 0
    /\ admin = [at |-> "idle", next |-> "none"]
    /\ wr = [g \in Writers |-> NoWriter]
    /\ logger = [l \in Loggers |-> [at |-> "idle", g |-> 0]]
    /\ posted = [g \in Writers |-> <<>>]
    /\ handed = [g \in Writers |-> <<>>]
    /\ storeErrors = 0
    /\ crashed = {}

-----------------------------------------------------------------------------
(* Start and Stop.                                                          *)

(* The new writer, once the old one is released.                            *)
NewWriter ==
    /\ started < MaxStarts
    /\ started' = started + 1
    /\ current' = started'
    /\ wr' = [wr EXCEPT ![started'].listen = "begin"]

StartOrStop ==
    /\ admin.at = "idle"
    /\ \E next \in {"start", "stop"} :
       /\ next = "start" => started < MaxStarts
       /\ IF current # 0 THEN /\ admin' = [at |-> "close", next |-> next]
                              /\ UNCHANGED <<current, started, wr>>
          ELSE /\ next = "start"
               /\ NewWriter
               /\ UNCHANGED admin
    /\ UNCHANGED <<logger, posted, handed, storeErrors, crashed>>

(* release, step by step.  cancel is nil until listen has set it.           *)
release ==
    /\ LET g == current
           step(at) == admin' = [admin EXCEPT !.at = at]
       IN  \/ /\ admin.at = "close" /\ step("cancel")
              /\ wr' = [wr EXCEPT ![g].closed = TRUE,
                                ![g].timer = IF @ = "armed" THEN "stopped" ELSE @]
              /\ UNCHANGED crashed
           \/ /\ admin.at = "cancel"
              /\ IF wr[g].cancel
                 THEN step("nil") /\ wr' = [wr EXCEPT ![g].done = TRUE] /\ UNCHANGED crashed
                 ELSE step("panic") /\ crashed' = crashed \cup {"admin"} /\ UNCHANGED wr
           \/ /\ admin.at = "nil" /\ step("released")
              /\ wr' = [wr EXCEPT ![g].timerNil = TRUE, ![g].chNil = TRUE]
              /\ UNCHANGED crashed
    /\ UNCHANGED <<current, started, logger, posted, handed, storeErrors>>

Released ==
    /\ admin.at = "released"
    /\ admin' = [at |-> "idle", next |-> "none"]
    /\ IF admin.next = "start" THEN NewWriter ELSE current' = 0 /\ UNCHANGED <<started, wr>>
    /\ UNCHANGED <<logger, posted, handed, storeErrors, crashed>>

-----------------------------------------------------------------------------
(* post: the writer and its channel are read, then the log is sent.         *)
LoadChannel(l) ==
    /\ logger[l].at = "idle"
    /\ \/ /\ current = 0
          /\ crashed' = crashed \cup {l}
          /\ logger' = [logger EXCEPT ![l].at = "panic"]
       \/ /\ current # 0
          /\ Len(posted[current]) < MaxLogs
          /\ logger' = [logger EXCEPT ![l] =
                [at |-> IF wr[current].chNil THEN "blocked" ELSE "send", g |-> current]]
          /\ UNCHANGED crashed
    /\ UNCHANGED <<current, started, admin, wr, posted, handed, storeErrors>>

Post(l) ==
    /\ logger[l].at = "send"
    /\ LET g == logger[l].g
           log == Len(posted[g]) + 1
       IN  \/ /\ wr[g].closed
              /\ logger' = [logger EXCEPT ![l].at = "panic"]
              /\ crashed' = crashed \cup {l}
              /\ UNCHANGED <<wr, posted>>
           \/ /\ ~wr[g].closed
              /\ Len(wr[g].ch) < BufferSize
              /\ wr' = [wr EXCEPT ![g].ch = Append(@, log)]
              /\ posted' = [posted EXCEPT ![g] = Append(@, log)]
              /\ logger' = [logger EXCEPT ![l].at = "idle"]
              /\ UNCHANGED crashed
    /\ UNCHANGED <<current, started, admin, handed, storeErrors>>

-----------------------------------------------------------------------------
(* listen.                                                                  *)
Panics(g, r) == wr' = [wr EXCEPT ![g] = [r EXCEPT !.listen = "panic"]] /\ crashed' = crashed \cup {"listen"}

(* Mutant: a batch that could not be stored stays in the buffer.            *)
flushKeeps(g, r) ==
    /\ handed' = [handed EXCEPT ![g] = @ \o r.buffered]
    /\ \E ok \in BOOLEAN :
       /\ storeErrors' = IF ok THEN storeErrors ELSE storeErrors + 1
       /\ storeErrors' <= StoreErrors
       /\ wr' = [wr EXCEPT ![g] = [r EXCEPT !.buffered = IF ok THEN <<>> ELSE @]]
    /\ UNCHANGED crashed

(* The batch is handed to the store and forgotten, stored or not; a nil log *)
(* in it is a panic.                                                        *)
flush(g, r) ==
    IF \E k \in DOMAIN r.buffered : r.buffered[k] = NilLog
    THEN Panics(g, r) /\ UNCHANGED <<handed, storeErrors>>
    ELSE /\ handed' = [handed EXCEPT ![g] = @ \o r.buffered]
         /\ \E ok \in BOOLEAN :
            /\ storeErrors' = IF ok \/ r.buffered = <<>> THEN storeErrors ELSE storeErrors + 1
            /\ storeErrors' <= StoreErrors
         /\ wr' = [wr EXCEPT ![g] = [r EXCEPT !.buffered = <<>>]]
         /\ UNCHANGED crashed

idleRest == <<current, started, admin, logger, posted>>

listenBegins(g) ==
    /\ wr[g].listen = "begin"
    /\ wr' = [wr EXCEPT ![g].listen = "loop", ![g].cancel = TRUE]
    /\ UNCHANGED <<idleRest, handed, storeErrors, crashed>>

(* The operands of the select are read: the timer of a released writer is   *)
(* nil, and so is its channel.                                              *)
EnterSelect(g) ==
    /\ wr[g].listen = "loop"
    /\ IF wr[g].timerNil THEN Panics(g, wr[g])
       ELSE /\ wr' = [wr EXCEPT ![g].listen = "select", ![g].open = ~wr[g].chNil]
            /\ UNCHANGED crashed
    /\ UNCHANGED <<idleRest, handed, storeErrors>>

SelectDone(g) ==
    /\ wr[g].listen = "select" /\ wr[g].done
    /\ wr' = [wr EXCEPT ![g].listen = "ended"]
    /\ UNCHANGED <<idleRest, handed, storeErrors, crashed>>

(* External: the context that Start was given ends.                         *)
ContextEnds(g) ==
    /\ wr[g].listen # "none" /\ ~wr[g].done
    /\ wr' = [wr EXCEPT ![g].done = TRUE]
    /\ UNCHANGED <<idleRest, handed, storeErrors, crashed>>

SelectLog(g) ==
    /\ wr[g].listen = "select" /\ wr[g].open
    /\ wr[g].ch # <<>> \/ wr[g].closed
    /\ LET log == IF wr[g].ch = <<>> THEN NilLog ELSE Head(wr[g].ch)
           r == [wr[g] EXCEPT !.ch = IF @ = <<>> THEN @ ELSE Tail(@), !.listen = "loop",
                             !.buffered = Append(@, log)]
       IN  IF Len(r.buffered) >= MaxCount THEN flush(g, r)
           ELSE /\ wr' = [wr EXCEPT ![g] = r]
                /\ UNCHANGED <<handed, storeErrors, crashed>>
    /\ UNCHANGED idleRest

(* The timer, which is armed once and never again.                          *)
SelectTimer(g) ==
    /\ wr[g].listen = "select" /\ wr[g].timer = "fired"
    /\ flush(g, [wr[g] EXCEPT !.timer = "stopped", !.listen = "loop"])
    /\ UNCHANGED idleRest

(* External: the interval is over.                                          *)
TimerFires(g) ==
    /\ wr[g].timer = "armed" /\ wr[g].listen # "none"
    /\ wr' = [wr EXCEPT ![g].timer = "fired"]
    /\ UNCHANGED <<idleRest, handed, storeErrors, crashed>>

(* A panic in any goroutine ends the process.                               *)
LogNext ==
    /\ crashed = {}
    /\ \/ StartOrStop \/ release \/ Released
       \/ \E l \in Loggers : LoadChannel(l) \/ Post(l)
       \/ \E g \in Writers :
             \/ listenBegins(g) \/ EnterSelect(g) \/ SelectDone(g) \/ SelectLog(g)
             \/ SelectTimer(g) \/ TimerFires(g) \/ ContextEnds(g)

-----------------------------------------------------------------------------
(* No log is lost, doubled or reordered on its way: what was posted to a    *)
(* writer was handed to the store once (also when the store then failed),   *)
(* is in the buffer, which is short of a batch, or waits in the channel;    *)
(* the rest of the buffer is what the closed channel yields.                *)
LogsKept ==
    \A g \in Writers :
        /\ \E n \in 0 .. Len(wr[g].buffered) :
              /\ posted[g] = handed[g] \o SubSeq(wr[g].buffered, 1, n) \o wr[g].ch
              /\ \A k \in n + 1 .. Len(wr[g].buffered) : wr[g].buffered[k] = NilLog
        /\ crashed = {} => Len(wr[g].buffered) < MaxCount

=============================================================================
