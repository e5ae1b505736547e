------------------------------ MODULE LineWriter ------------------------------
(***************************************************************************)
(* The line buffer in front of a log sink (LineWriter of cd/log.go): a     *)
(* goroutine writes chunks of bytes, the sink is to get one whole line per *)
(* call.  A byte is a letter or NL.  The type takes a mutex and so allows  *)
(* several writers; in the CD program each of the engine's two streams has *)
(* a LineWriter of its own, with one writer.                               *)
(***************************************************************************)
EXTENDS Integers, Sequences, SequencesExt

CONSTANTS
  Writers,   \* the goroutines
  Chunks,    \* the byte sequences one call of Write gets
  MaxWrites, \* bound: how many calls are made
  NL,        \* the newline
  Nobody     \* the lock is free

Bytes == UNION {Range(p) : p \in Chunks}

ASSUME LineWriterAssumption ==
  Nobody \notin Writers /\ MaxWrites \in Nat /\ Chunks \subseteq Seq(Bytes)

VARIABLES
  lock,    \* who holds the mutex
  buf,     \* the partial line
  lines,   \* what the holder has still to append, a line at a time
  sink,    \* the strings the sink was given
  taken,   \* the chunks in the order their writers took the lock
  failed   \* whether a call to the sink has failed
lwvars == <<lock, buf, lines, sink, taken, failed>>

LineInit ==
  /\ lock = Nobody /\ buf = <<>> /\ lines = <<>>
  /\ sink = <<>> /\ taken = <<>> /\ failed = FALSE

\* bytes.SplitAfter(p, "\n"): the lines of p, the last without its newline.  A byte
\* joins the last line, and a newline opens the next.
SplitAfter(p) ==
  LET split[n \in 0 .. Len(p)] ==
        IF n = 0 THEN << <<>> >>
        ELSE LET longer == Append(Front(split[n - 1]), Append(Last(split[n - 1]), p[n]))
             IN IF p[n] = NL THEN Append(longer, <<>>) ELSE longer
  IN split[Len(p)]

\* A writer takes the lock and joins its first line to the partial one.
BeginWrite(w) ==
  /\ lock = Nobody /\ Len(taken) < MaxWrites
  /\ \E p \in Chunks :
       /\ buf' = buf \o SplitAfter(p)[1]
       /\ lines' = Tail(SplitAfter(p))
       /\ taken' = Append(taken, p)
  /\ lock' = w
  /\ UNCHANGED <<sink, failed>>

\* Mutant: the buffer is not emptied after its line was emitted.
EmitLineKeeps(w) ==
  /\ lock = w /\ lines # <<>>
  /\ sink' = Append(sink, buf)
  /\ buf' = buf \o Head(lines)
  /\ lines' = Tail(lines)
  /\ UNCHANGED <<lock, taken, failed>>

\* The buffer is a whole line once another follows.
EmitLine(w) ==
  /\ lock = w /\ lines # <<>>
  /\ sink' = Append(sink, buf)
  /\ buf' = Head(lines)
  /\ lines' = Tail(lines)
  /\ UNCHANGED <<lock, taken, failed>>

\* The sink refuses a line: the call returns with the line still in the buffer
\* and forgets the rest of the chunk.
SinkFails(w) ==
  /\ lock = w /\ lines # <<>>
  /\ failed' = TRUE
  /\ lines' = <<>> /\ lock' = Nobody
  /\ UNCHANGED <<buf, sink, taken>>

EndWrite(w) ==
  /\ lock = w /\ lines = <<>>
  /\ lock' = Nobody
  /\ UNCHANGED <<buf, lines, sink, taken, failed>>

LineNext == \E w \in Writers : BeginWrite(w) \/ EmitLine(w) \/ SinkFails(w) \/ EndWrite(w)

\* Flush: the partial line goes out, before the process exits, or is lost with the
\* sink's error.
Flush ==
  /\ lock = Nobody
  /\ \/ /\ sink' = IF buf = <<>> THEN sink ELSE Append(sink, buf)
        /\ UNCHANGED failed
     \/ buf # <<>> /\ failed' = TRUE /\ UNCHANGED sink
  /\ buf' = <<>>
  /\ UNCHANGED <<lock, lines, taken>>

==============================================================================
