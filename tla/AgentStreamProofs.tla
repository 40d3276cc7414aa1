-------------------------- MODULE AgentStreamProofs -------------------------
(***************************************************************************)
(* Proofs about AgentStream, for any calls, limits and past: streams are   *)
(* never mixed, a silence ends finished replies only, a context that is    *)
(* too long is sent at most twice, earlier turns stay until then, and what *)
(* is sent never shows half a round.                                       *)
(*                                                                         *)
(* The first invariant, IInv, needs no history: it relates the buffers and *)
(* the counters of the turn to the place of its goroutine.  The second,    *)
(* HistInv, is about the history alone; what cuts it (the undoing, the     *)
(* stripping, the compression) is an increasing selection of its messages, *)
(* so that one lemma, Embedded, serves them all.                           *)
(***************************************************************************)
EXTENDS AgentStream, FiniteSetTheorems, SequenceTheorems, WellFoundedInduction, TLAPS

\* The fields of the turn, the buffers and the ghosts, and the types of those the
\* invariant computes with.
Shapes ==
  /\ turn = [start |-> turn.start, mode |-> turn.mode, round |-> turn.round,
             attempt |-> turn.attempt, recovering |-> turn.recovering,
             silent |-> turn.silent, auto |-> turn.auto, reasoned |-> turn.reasoned,
             hadTools |-> turn.hadTools, overflowTried |-> turn.overflowTried]
  /\ turn.round \in Nat /\ turn.recovering \in Nat /\ turn.overflowTried \in BOOLEAN
  /\ buf = [text |-> buf.text, batch |-> buf.batch, seen |-> buf.seen, loop |-> buf.loop,
            struck |-> buf.struck, term |-> buf.term, mixed |-> buf.mixed]
  /\ buf.term \in BOOLEAN /\ buf.mixed \in BOOLEAN
  /\ ghost = [streamed |-> ghost.streamed, executed |-> ghost.executed,
              overflows |-> ghost.overflows, source |-> ghost.source]
  /\ ghost.overflows \in Nat

\* Rounds that are not recovery rounds know it, wherever the goroutine is.
Modes ==
  /\ turn.mode = "round" => turn.recovering = 0
  /\ pc = "round" => turn.mode = "round"
  /\ pc = "recovery" => turn.recovering > 0

\* Outside recovery a stream opens on empty buffers.
Fresh ==
  /\ turn.recovering = 0 => ~buf.mixed
  /\ pc = "round" /\ turn.round = 0 => buf.text = "none" /\ buf.batch = <<>>
  /\ pc = "backoff" => buf = EmptyBuf
  /\ ghost.source.mixed => turn.recovering > 0

\* The stream may show the mark of an earlier one.
StaleMark == (turn.mode = "round" /\ turn.round = 0) \/ turn.recovering > 0

\* Otherwise the mark of a finished round is the stream's own, and ends it.
Marked ==
  /\ pc = "streaming" /\ ~StaleMark => ~buf.term
  /\ ghost.source.how = "stall" =>
       pc = "idle" /\ (StaleMark \/ (OmitsTerminator /\ ghost.source.text = "whole"))

\* The first overflow is remembered, the second ends the turn.
Counted ==
  ghost.overflows <= (IF turn.overflowTried THEN 1 ELSE 0) + (IF pc = "idle" THEN 1 ELSE 0)

IInv == Shapes /\ Modes /\ Fresh /\ Marked /\ Counted

-----------------------------------------------------------------------------

\* Everything a failure does but to the history.
LEMMA Failing ==
  ASSUME Shapes, NEW why, NEW said, Fail(why, said)
  PROVE  /\ Shapes'
         /\ buf' = EmptyBuf /\ pc' \in {"backoff", "idle"}
         /\ turn'.recovering = turn.recovering /\ turn'.round = turn.round
         /\ turn'.mode \in {turn.mode, "retry"}
         /\ ghost'.source = ghost.source
         /\ ghost'.overflows = ghost.overflows + (IF why = "overflow" THEN 1 ELSE 0)
         /\ turn'.overflowTried = (turn.overflowTried \/ (why = "overflow" /\ pc' = "backoff"))
         /\ why = "overflow" /\ pc' = "backoff" => ~turn.overflowTried
<1>1. /\ buf' = EmptyBuf /\ pc' \in {"backoff", "idle"}
      /\ ghost' = [ghost EXCEPT !.overflows = @ + (IF why = "overflow" THEN 1 ELSE 0)]
  BY DEF Fail, ResetBuf, Overflows, Return
<1>2. \/ /\ turn' = [turn EXCEPT !.mode = "retry", !.attempt = 0,
                                 !.overflowTried = @ \/ why = "overflow"]
         /\ pc' = "backoff" /\ (why = "transient" \/ (why = "overflow" /\ ~turn.overflowTried))
      \/ turn' = [turn EXCEPT !.attempt = @ + 1] /\ why = "transient"
      \/ turn' = turn /\ pc' = "idle"
  BY DEF Fail, Retryable, NextAttempt, Return
<1>3. /\ turn'.recovering = turn.recovering /\ turn'.round = turn.round
      /\ turn'.mode \in {turn.mode, "retry"}
      /\ turn'.overflowTried = (turn.overflowTried \/ (why = "overflow" /\ pc' = "backoff"))
      /\ why = "overflow" /\ pc' = "backoff" => ~turn.overflowTried
  BY <1>2 DEF Shapes
<1>4. turn' = [start |-> turn'.start, mode |-> turn'.mode, round |-> turn'.round,
               attempt |-> turn'.attempt, recovering |-> turn'.recovering,
               silent |-> turn'.silent, auto |-> turn'.auto, reasoned |-> turn'.reasoned,
               hadTools |-> turn'.hadTools, overflowTried |-> turn'.overflowTried]
  BY <1>2 DEF Shapes
<1>5. Shapes'
  BY <1>1, <1>3, <1>4 DEF Shapes, EmptyBuf
<1> QED BY <1>1, <1>3, <1>5 DEF Shapes

\* A failure keeps the invariant from any place but idle.
LEMMA FailKeeps ==
  ASSUME IInv, NEW why, NEW said, Fail(why, said), pc # "idle"
  PROVE  IInv'
<1>1. Shapes' /\ Modes'
  BY Failing DEF IInv, Modes
<1>2. Fresh'
  BY Failing DEF IInv, Fresh, EmptyBuf
<1>3. Marked'
  BY Failing DEF IInv, Marked, EmptyBuf
<1>4. Counted'
  BY Failing DEF IInv, Counted, Shapes
<1> QED BY <1>1, <1>2, <1>3, <1>4 DEF IInv

-----------------------------------------------------------------------------

\* Steps between streams.

LEMMA SubmitKeeps == ASSUME IInv, Submit PROVE IInv'
<1>1. /\ pc' = "round" /\ turn' = NewTurn(Len(history'))
      /\ buf' = [EmptyBuf EXCEPT !.term = buf.term]
      /\ ghost' = [ghost EXCEPT !.overflows = 0, !.source = NoSource]
  BY DEF Submit
<1>2. Shapes'
  BY <1>1 DEF IInv, Shapes, NewTurn, EmptyBuf
<1>3. Modes' /\ Fresh' /\ Marked' /\ Counted'
  BY <1>1 DEF IInv, Shapes, Modes, Fresh, Marked, Counted, StaleMark, NewTurn, EmptyBuf, NoSource
<1> QED BY <1>2, <1>3 DEF IInv

LEMMA RoundKeeps == ASSUME IInv, Round PROVE IInv'
<1>1. CASE cancelled /\ Return(history) /\ UNCHANGED <<turn, buf, ghost>>
  <2>1. pc' = "idle"
    BY <1>1 DEF Return
  <2> QED BY <1>1, <2>1 DEF Round, IInv, Shapes, Modes, Fresh, Marked, Counted, StaleMark
<1>2. CASE Recover /\ turn' = [turn EXCEPT !.mode = "recovery", !.recovering = 1]
           /\ UNCHANGED <<buf, ghost>>
  <2>1. pc = "round" /\ pc' = "recovery"
    BY <1>2 DEF Round, Recover
  <2>2. Shapes' /\ turn'.recovering = 1 /\ turn'.mode = "recovery"
        /\ turn'.overflowTried = turn.overflowTried
    BY <1>2 DEF IInv, Shapes
  <2> QED BY <1>2, <2>1, <2>2 DEF IInv, Shapes, Modes, Fresh, Marked, Counted, StaleMark
<1>3. CASE Opens(IF turn.round > 0 THEN ResetBuf ELSE buf) /\ UNCHANGED <<turn, ghost>>
  <2>1. pc = "round" /\ pc' = "streaming"
    BY <1>3 DEF Round, Opens
  <2>2. Shapes' /\ buf'.mixed = FALSE /\ (turn.round > 0 => ~buf'.term)
    <3> DEFINE b == IF turn.round > 0 THEN ResetBuf ELSE buf
    <3>1. b = EmptyBuf \/ (b = buf /\ ~(turn.round > 0))
      BY DEF ResetBuf
    <3>2. turn.round > 0 => ~b.term
      BY DEF ResetBuf, EmptyBuf
    <3> HIDE DEF b
    <3>3. turn.round = 0 => ~buf.mixed /\ buf.text = "none" /\ buf.batch = <<>>
      BY <2>1 DEF IInv, Modes, Fresh
    <3>4. b.text = "none" /\ b.batch = <<>> /\ b.mixed = FALSE /\ b.term \in BOOLEAN
      <4>1. CASE b = EmptyBuf
        BY <4>1 DEF EmptyBuf
      <4>2. CASE b = buf /\ ~(turn.round > 0)
        <5>1. turn.round = 0
          BY <4>2 DEF IInv, Shapes
        <5> QED BY <3>3, <4>2, <5>1 DEF IInv, Shapes
      <4> QED BY <3>1, <4>1, <4>2
    <3>5. buf' = [b EXCEPT !.seen = FALSE, !.mixed = FALSE]
      BY <1>3, <3>4 DEF Opens, b
    <3>6. b = [text |-> b.text, batch |-> b.batch, seen |-> b.seen, loop |-> b.loop,
               struck |-> b.struck, term |-> b.term, mixed |-> b.mixed]
      BY <3>1 DEF EmptyBuf, IInv, Shapes
    <3>7. buf' = [text |-> buf'.text, batch |-> buf'.batch, seen |-> buf'.seen,
                  loop |-> buf'.loop, struck |-> buf'.struck, term |-> buf'.term,
                  mixed |-> buf'.mixed]
          /\ buf'.mixed = FALSE /\ buf'.term = b.term
      BY <3>5, <3>6
    <3> QED BY <1>3, <3>4, <3>7, <3>2 DEF IInv, Shapes
  <2> QED BY <1>3, <2>1, <2>2 DEF IInv, Shapes, Modes, Fresh, Marked, Counted, StaleMark
<1>4. CASE \E why \in Failures : Fail(why, history)
  BY <1>4, FailKeeps DEF Round
<1> QED BY <1>1, <1>2, <1>3, <1>4 DEF Round

LEMMA RecoveryRoundKeeps == ASSUME IInv, RecoveryRound PROVE IInv'
<1>1. pc = "recovery" /\ turn' = turn /\ turn.recovering > 0
  BY DEF RecoveryRound, IInv, Modes
<1>2. CASE Opens(buf) /\ UNCHANGED ghost
  <2>1. Shapes' /\ pc' = "streaming"
    BY <1>1, <1>2 DEF Opens, IInv, Shapes
  <2> QED BY <1>1, <1>2, <2>1 DEF IInv, Shapes, Modes, Fresh, Marked, Counted, StaleMark
<1>3. CASE Return(history) /\ (\E n \in {0, 1} : Overflows(n)) /\ UNCHANGED buf
  <2>1. pc' = "idle" /\ ghost'.source = ghost.source /\ Shapes'
        /\ ghost'.overflows \in {ghost.overflows, ghost.overflows + 1}
    BY <1>1, <1>3 DEF Return, Overflows, IInv, Shapes
  <2> QED BY <1>1, <1>3, <2>1 DEF IInv, Shapes, Modes, Fresh, Marked, Counted, StaleMark
<1> QED BY <1>2, <1>3 DEF RecoveryRound

LEMMA RetryAttemptKeeps == ASSUME IInv, RetryAttempt PROVE IInv'
<1>1. pc = "backoff" /\ buf = EmptyBuf
  BY DEF RetryAttempt, IInv, Fresh
<1>2. CASE Opens(buf) /\ UNCHANGED <<turn, ghost>>
  <2>1. Shapes' /\ pc' = "streaming" /\ buf' = EmptyBuf
    BY <1>1, <1>2 DEF Opens, IInv, Shapes, EmptyBuf
  <2> QED BY <1>1, <1>2, <2>1 DEF IInv, Shapes, Modes, Fresh, Marked, Counted, StaleMark, EmptyBuf
<1>3. CASE turn' = NextAttempt /\ UNCHANGED <<pc, history, buf, ghost>>
  <2>1. Shapes' /\ turn'.mode = turn.mode /\ turn'.round = turn.round
        /\ turn'.recovering = turn.recovering /\ turn'.overflowTried = turn.overflowTried
    BY <1>3 DEF NextAttempt, IInv, Shapes
  <2> QED BY <1>1, <1>3, <2>1 DEF IInv, Modes, Fresh, Marked, Counted, StaleMark
<1>4. CASE Return(history) /\ (\E n \in {0, 1} : Overflows(n)) /\ UNCHANGED <<turn, buf>>
  <2>1. pc' = "idle" /\ ghost'.source = ghost.source /\ Shapes'
        /\ ghost'.overflows \in {ghost.overflows, ghost.overflows + 1}
    BY <1>1, <1>4 DEF Return, Overflows, IInv, Shapes
  <2> QED BY <1>1, <1>4, <2>1 DEF IInv, Shapes, Modes, Fresh, Marked, Counted, StaleMark
<1> QED BY <1>2, <1>3, <1>4 DEF RetryAttempt

-----------------------------------------------------------------------------

\* Steps of a stream.

LEMMA EventKeeps ==
  ASSUME IInv, Text \/ Thinking \/ \E c \in Calls : Call(c)
  PROVE  IInv'
<1>1. /\ pc = "streaming" /\ pc' = pc
      /\ turn' = turn \/ turn' = [turn EXCEPT !.reasoned = TRUE]
      /\ ghost' = ghost \/ \E c \in Calls : ghost' = [ghost EXCEPT !.streamed = @ \cup {c}]
  BY DEF Text, Thinking, Call
<1>2. \/ \E text : buf' = [buf EXCEPT !.text = text, !.seen = TRUE]
      \/ buf' = [buf EXCEPT !.text = "open", !.loop = TRUE, !.seen = TRUE]
      \/ \E c \in Calls : buf' = [buf EXCEPT !.batch = Append(@, c), !.seen = TRUE]
  BY DEF Text, Thinking, Call
<1>3. /\ turn'.mode = turn.mode /\ turn'.round = turn.round
      /\ turn'.recovering = turn.recovering /\ turn'.overflowTried = turn.overflowTried
      /\ turn' = [start |-> turn'.start, mode |-> turn'.mode, round |-> turn'.round,
                  attempt |-> turn'.attempt, recovering |-> turn'.recovering,
                  silent |-> turn'.silent, auto |-> turn'.auto, reasoned |-> turn'.reasoned,
                  hadTools |-> turn'.hadTools, overflowTried |-> turn'.overflowTried]
  BY <1>1 DEF IInv, Shapes
<1>4. /\ buf'.mixed = buf.mixed /\ buf'.term = buf.term
      /\ buf' = [text |-> buf'.text, batch |-> buf'.batch, seen |-> buf'.seen, loop |-> buf'.loop,
                 struck |-> buf'.struck, term |-> buf'.term, mixed |-> buf'.mixed]
  BY <1>2 DEF IInv, Shapes
<1>5. /\ ghost'.overflows = ghost.overflows /\ ghost'.source = ghost.source
      /\ ghost' = [streamed |-> ghost'.streamed, executed |-> ghost'.executed,
                   overflows |-> ghost'.overflows, source |-> ghost'.source]
  BY <1>1 DEF IInv, Shapes
<1>6. Shapes'
  BY <1>3, <1>4, <1>5 DEF IInv, Shapes
<1> QED BY <1>1, <1>3, <1>4, <1>5, <1>6 DEF IInv, Modes, Fresh, Marked, Counted, StaleMark

\* A stream that ends with a reply: only a silence needs the mark of the end.
LEMMA CompleteKeeps ==
  ASSUME IInv, pc = "streaming", NEW how, Complete(how),
         buf' = buf \/ buf' = [buf EXCEPT !.term = TRUE],
         how = "stall" => Delivered
  PROVE  IInv'
<1>1. /\ buf'.mixed = buf.mixed /\ buf'.term \in BOOLEAN
      /\ buf' = [text |-> buf'.text, batch |-> buf'.batch, seen |-> buf'.seen, loop |-> buf'.loop,
                 struck |-> buf'.struck, term |-> buf'.term, mixed |-> buf'.mixed]
  BY DEF IInv, Shapes
<1>2. CASE buf.batch # <<>> /\ RunCalls(history, how) /\ UNCHANGED turn
  <2>1. how # "stall"
    BY <1>2 DEF Delivered
  <2>2. /\ pc' = "tools" /\ ghost'.overflows = ghost.overflows /\ ghost'.source = Source(how)
        /\ ghost' = [streamed |-> ghost'.streamed, executed |-> ghost'.executed,
                     overflows |-> ghost'.overflows, source |-> ghost'.source]
    BY <1>2 DEF RunCalls, IInv, Shapes
  <2>3. Shapes'
    BY <1>1, <1>2, <2>2 DEF IInv, Shapes
  <2>4. ghost'.source.how = how /\ ghost'.source.mixed = buf.mixed
    BY <2>2 DEF Source
  <2>5. Modes' /\ Counted'
    BY <1>1, <1>2, <2>2 DEF IInv, Modes, Counted, Shapes
  <2>6. Fresh'
    BY <1>1, <1>2, <2>2, <2>4 DEF IInv, Fresh, Shapes
  <2>7. Marked'
    BY <2>1, <2>2, <2>4 DEF Marked
  <2> QED BY <2>3, <2>5, <2>6, <2>7 DEF IInv
<1>3. CASE turn' = [turn EXCEPT !.auto = @ + 1] /\ pc' = "more" /\ UNCHANGED ghost
  <2>1. Shapes' /\ turn'.mode = turn.mode /\ turn'.round = turn.round
        /\ turn'.recovering = turn.recovering /\ turn'.overflowTried = turn.overflowTried
    BY <1>1, <1>3 DEF IInv, Shapes
  <2> QED BY <1>1, <1>3, <2>1 DEF IInv, Modes, Fresh, Marked, Counted, StaleMark
<1>4. CASE Finalize(how) /\ buf.batch = <<>>
  <2>1. /\ pc' = "idle" /\ turn' = turn
        /\ ghost'.overflows = ghost.overflows /\ ghost'.source = Source(how)
        /\ ghost' = [streamed |-> ghost'.streamed, executed |-> ghost'.executed,
                     overflows |-> ghost'.overflows, source |-> ghost'.source]
    BY <1>4 DEF Finalize, Return, IInv, Shapes
  <2>2. Shapes'
    BY <1>1, <2>1 DEF IInv, Shapes
  <2>3. how = "stall" => StaleMark \/ (OmitsTerminator /\ buf.text = "whole")
    BY DEF Delivered, IInv, Marked
  <2>4. ghost'.source.how = how /\ ghost'.source.mixed = buf.mixed
        /\ ghost'.source.text = buf.text
    BY <2>1 DEF Source
  <2>5. Modes' /\ Counted'
    BY <1>1, <2>1 DEF IInv, Modes, Counted, Shapes
  <2>6. Fresh'
    BY <1>1, <2>1, <2>4 DEF IInv, Fresh, Shapes
  <2>7. Marked'
    BY <2>1, <2>3, <2>4 DEF Marked, StaleMark
  <2> QED BY <2>2, <2>5, <2>6, <2>7 DEF IInv
<1> QED BY <1>2, <1>3, <1>4 DEF Complete

LEMMA EndKeeps == ASSUME IInv, StreamEnds PROVE IInv'
<1>1. pc = "streaming"
  BY DEF StreamEnds, Done, Eof, Stall, StreamFails, Strike
<1>2. ASSUME NEW how, Ended(how), how = "stall" => Delivered PROVE IInv'
  BY <1>1, <1>2, FailKeeps, CompleteKeeps DEF Ended
<1>3. CASE Done
  BY <1>1, <1>3, CompleteKeeps DEF Done
<1>4. CASE Eof
  BY <1>2, <1>4 DEF Eof
<1>5. CASE Stall
  BY <1>1, <1>2, <1>5, FailKeeps DEF Stall
<1>6. CASE StreamFails
  BY <1>1, <1>6, FailKeeps DEF StreamFails
<1>7. CASE Strike
  <2>1. CASE Fail("fatal", history)
    BY <1>1, <2>1, FailKeeps
  <2>2. CASE /\ buf' = [buf EXCEPT !.loop = FALSE, !.struck = TRUE] /\ turn' = turn
             /\ \/ \E h : RunCalls(h, "strike")
                \/ pc' = "more" /\ ghost' = ghost
    <3>1. /\ pc' \in {"tools", "more"} /\ ghost'.overflows = ghost.overflows
          /\ ghost'.source \in {ghost.source, Source("strike")}
          /\ ghost' = [streamed |-> ghost'.streamed, executed |-> ghost'.executed,
                       overflows |-> ghost'.overflows, source |-> ghost'.source]
      BY <2>2 DEF RunCalls, IInv, Shapes
    <3>2. /\ buf'.mixed = buf.mixed /\ buf'.term = buf.term
          /\ buf' = [text |-> buf'.text, batch |-> buf'.batch, seen |-> buf'.seen,
                     loop |-> buf'.loop, struck |-> buf'.struck, term |-> buf'.term,
                     mixed |-> buf'.mixed]
      BY <2>2 DEF IInv, Shapes
    <3>3. Shapes'
      BY <2>2, <3>1, <3>2 DEF IInv, Shapes
    <3>4. Source("strike").how = "strike" /\ Source("strike").mixed = buf.mixed
      BY DEF Source
    <3>5. Modes' /\ Counted'
      BY <1>1, <2>2, <3>1 DEF IInv, Modes, Counted, Shapes
    <3>6. Fresh'
      BY <1>1, <2>2, <3>1, <3>2, <3>4 DEF IInv, Fresh, Shapes
    <3>7. Marked'
      BY <1>1, <3>1, <3>4 DEF IInv, Marked
    <3> QED BY <3>3, <3>5, <3>6, <3>7 DEF IInv
  <2> QED BY <1>7, <2>1, <2>2 DEF Strike
<1> QED BY <1>3, <1>4, <1>5, <1>6, <1>7 DEF StreamEnds

-----------------------------------------------------------------------------

\* Steps after a stream, and from outside.

LEMMA ResultKeeps == ASSUME IInv, AppendResult PROVE IInv'
<1>1. /\ pc = "tools" /\ pc' \in {"tools", "more"}
      /\ \/ pc' = pc /\ UNCHANGED <<turn, ghost>>
         \/ ghost' = [ghost EXCEPT !.source = NoSource]
      /\ turn' = turn \/ \E b : turn' = [turn EXCEPT !.hadTools = b]
      /\ \/ \E s : buf' = [buf EXCEPT !.batch = s]
         \/ buf' = [buf EXCEPT !.batch = <<>>, !.text = "none"]
  BY DEF AppendResult
<1>2. /\ turn'.mode = turn.mode /\ turn'.round = turn.round
      /\ turn'.recovering = turn.recovering /\ turn'.overflowTried = turn.overflowTried
      /\ turn' = [start |-> turn'.start, mode |-> turn'.mode, round |-> turn'.round,
                  attempt |-> turn'.attempt, recovering |-> turn'.recovering,
                  silent |-> turn'.silent, auto |-> turn'.auto, reasoned |-> turn'.reasoned,
                  hadTools |-> turn'.hadTools, overflowTried |-> turn'.overflowTried]
  BY <1>1 DEF IInv, Shapes
<1>3. /\ buf'.mixed = buf.mixed /\ buf'.term = buf.term
      /\ buf' = [text |-> buf'.text, batch |-> buf'.batch, seen |-> buf'.seen, loop |-> buf'.loop,
                 struck |-> buf'.struck, term |-> buf'.term, mixed |-> buf'.mixed]
  BY <1>1 DEF IInv, Shapes
<1>4. /\ ghost'.overflows = ghost.overflows
      /\ ghost'.source \in {ghost.source, NoSource}
      /\ ghost' = [streamed |-> ghost'.streamed, executed |-> ghost'.executed,
                   overflows |-> ghost'.overflows, source |-> ghost'.source]
  BY <1>1 DEF IInv, Shapes
<1>5. Shapes'
  BY <1>2, <1>3, <1>4 DEF IInv, Shapes
<1> QED BY <1>1, <1>2, <1>3, <1>4, <1>5 DEF IInv, Modes, Fresh, Marked, Counted, StaleMark, NoSource

LEMMA MoreKeeps ==
  ASSUME IInv, MoreAfterRound \/ MoreAfterRetry \/ MoreAfterRecovery
  PROVE  IInv'
<1>1. pc = "more" /\ UNCHANGED <<buf, ghost>>
  BY DEF MoreAfterRound, MoreAfterRetry, MoreAfterRecovery
<1>2. \/ pc' = "idle" /\ turn' = turn
      \/ /\ pc' = "recovery" /\ turn.mode = "round"
         /\ turn' = [turn EXCEPT !.mode = "recovery", !.recovering = 1, !.silent = SilentRounds]
      \/ /\ pc' = "round" /\ turn.mode = "round"
         /\ turn' = [turn EXCEPT !.silent = SilentRounds, !.round = Rounds]
      \/ /\ pc' = "round" /\ ~(turn.recovering > 0)
         /\ turn' = [turn EXCEPT !.mode = "round", !.attempt = 0, !.round = Rounds]
      \/ /\ pc' = "recovery" /\ turn.mode = "recovery"
         /\ turn' = [turn EXCEPT !.recovering = @ + 1]
  BY DEF MoreAfterRound, MoreAfterRetry, MoreAfterRecovery, Return, Recover, NextRound
<1>3. Rounds \in Nat /\ Rounds > 0
  BY DEF Rounds, IInv, Shapes
<1>4. /\ turn' = [start |-> turn'.start, mode |-> turn'.mode, round |-> turn'.round,
                  attempt |-> turn'.attempt, recovering |-> turn'.recovering,
                  silent |-> turn'.silent, auto |-> turn'.auto, reasoned |-> turn'.reasoned,
                  hadTools |-> turn'.hadTools, overflowTried |-> turn'.overflowTried]
      /\ turn'.overflowTried = turn.overflowTried
      /\ turn'.recovering \in Nat /\ turn'.recovering >= turn.recovering
      /\ turn'.round \in Nat /\ (pc' = "round" => turn'.round > 0)
      /\ pc' = "round" => turn'.mode = "round"
      /\ pc' = "recovery" => turn'.recovering > 0 /\ turn'.mode = "recovery"
      /\ pc' = "idle" => turn' = turn
      /\ turn'.mode = "round" => turn'.recovering = 0
  <2>1. CASE pc' = "idle" /\ turn' = turn
    BY <2>1 DEF IInv, Shapes, Modes
  <2>2. CASE /\ pc' = "recovery" /\ turn.mode = "round"
             /\ turn' = [turn EXCEPT !.mode = "recovery", !.recovering = 1, !.silent = SilentRounds]
    <3>1. turn' = [start |-> turn'.start, mode |-> turn'.mode, round |-> turn'.round,
                   attempt |-> turn'.attempt, recovering |-> turn'.recovering,
                   silent |-> turn'.silent, auto |-> turn'.auto, reasoned |-> turn'.reasoned,
                   hadTools |-> turn'.hadTools, overflowTried |-> turn'.overflowTried]
      BY <2>2 DEF IInv, Shapes
    <3>2. /\ turn'.mode = "recovery" /\ turn'.recovering = 1
          /\ turn'.round = turn.round /\ turn'.overflowTried = turn.overflowTried
      BY <2>2 DEF IInv, Shapes
    <3>3. turn.recovering = 0
      BY <2>2 DEF IInv, Shapes, Modes
    <3> QED BY <1>3, <2>2, <3>1, <3>2, <3>3 DEF IInv, Shapes
  <2>3. CASE /\ pc' = "round" /\ turn.mode = "round"
             /\ turn' = [turn EXCEPT !.silent = SilentRounds, !.round = Rounds]
    <3>1. turn' = [start |-> turn'.start, mode |-> turn'.mode, round |-> turn'.round,
                   attempt |-> turn'.attempt, recovering |-> turn'.recovering,
                   silent |-> turn'.silent, auto |-> turn'.auto, reasoned |-> turn'.reasoned,
                   hadTools |-> turn'.hadTools, overflowTried |-> turn'.overflowTried]
      BY <2>3 DEF IInv, Shapes
    <3>2. /\ turn'.mode = turn.mode /\ turn'.recovering = turn.recovering
          /\ turn'.round = Rounds /\ turn'.overflowTried = turn.overflowTried
      BY <2>3 DEF IInv, Shapes
    <3>3. turn.recovering = 0
      BY <2>3 DEF IInv, Shapes, Modes
    <3> QED BY <1>3, <2>3, <3>1, <3>2, <3>3 DEF IInv, Shapes
  <2>4. CASE /\ pc' = "round" /\ ~(turn.recovering > 0)
             /\ turn' = [turn EXCEPT !.mode = "round", !.attempt = 0, !.round = Rounds]
    <3>1. turn' = [start |-> turn'.start, mode |-> turn'.mode, round |-> turn'.round,
                   attempt |-> turn'.attempt, recovering |-> turn'.recovering,
                   silent |-> turn'.silent, auto |-> turn'.auto, reasoned |-> turn'.reasoned,
                   hadTools |-> turn'.hadTools, overflowTried |-> turn'.overflowTried]
      BY <2>4 DEF IInv, Shapes
    <3>2. /\ turn'.mode = "round" /\ turn'.recovering = turn.recovering
          /\ turn'.round = Rounds /\ turn'.overflowTried = turn.overflowTried
      BY <2>4 DEF IInv, Shapes
    <3>3. turn.recovering = 0
      BY <2>4 DEF IInv, Shapes, Modes
    <3> QED BY <1>3, <2>4, <3>1, <3>2, <3>3 DEF IInv, Shapes
  <2>5. CASE /\ pc' = "recovery" /\ turn.mode = "recovery"
             /\ turn' = [turn EXCEPT !.recovering = @ + 1]
    BY <2>5 DEF IInv, Shapes, Modes
  <2> QED BY <1>2, <2>1, <2>2, <2>3, <2>4, <2>5
<1>5. Shapes' /\ Modes'
  BY <1>1, <1>4 DEF IInv, Shapes, Modes
<1>6. Fresh' /\ Counted'
  BY <1>1, <1>2, <1>4 DEF IInv, Shapes, Fresh, Counted
<1>7. Marked'
  BY <1>1, <1>2 DEF IInv, Marked
<1> QED BY <1>5, <1>6, <1>7 DEF IInv

LEMMA OutsideKeeps == ASSUME IInv, UNCHANGED <<pc, turn, buf, ghost>> PROVE IInv'
BY DEF IInv, Shapes, Modes, Fresh, Marked, Counted, StaleMark

LEMMA Initially == Init => IInv
<1> SUFFICES ASSUME Init PROVE IInv
  OBVIOUS
<1>1. PICK term \in BOOLEAN : buf = [EmptyBuf EXCEPT !.term = term]
  BY DEF Init
<1>2. Shapes
  BY <1>1 DEF Init, Shapes, NewTurn, EmptyBuf, NoSource
<1>3. Modes /\ Fresh /\ Marked /\ Counted
  BY <1>1 DEF Init, Modes, Fresh, Marked, Counted, NewTurn, EmptyBuf, NoSource
<1> QED BY <1>2, <1>3 DEF IInv

LEMMA Inductive == IInv /\ [Next]_vars => IInv'
<1> SUFFICES ASSUME IInv, [Next]_vars PROVE IInv'
  OBVIOUS
<1>1. CASE Submit
  BY <1>1, SubmitKeeps
<1>2. CASE Goes
  BY <1>2, RoundKeeps, RecoveryRoundKeeps, RetryAttemptKeeps, ResultKeeps, MoreKeeps DEF Goes
<1>3. CASE StreamEnds
  BY <1>3, EndKeeps
<1>4. CASE Text \/ Thinking \/ \E c \in Calls : Call(c)
  BY <1>4, EventKeeps
<1>5. CASE Cancel \/ Notice \/ UNCHANGED vars
  BY <1>5, OutsideKeeps DEF Cancel, Notice, vars
<1> QED BY <1>1, <1>2, <1>3, <1>4, <1>5 DEF Next

\* The inductive invariant holds in every reachable state (the whole turn:
\* rounds, retries and recovery).
THEOREM InvHolds == Spec => []IInv
BY Initially, Inductive, PTL DEF Spec

\* Text and calls of two streams meet in recovery rounds only, for any calls and
\* limits (resetStreamRoundState at every other opening).
THEOREM NothingLeaksHolds == Spec => []NothingLeaks
<1>1. IInv => NothingLeaks
  BY DEF IInv, Fresh, NothingLeaks
<1> QED BY <1>1, InvHolds, PTL

\* What the watchdog takes for a finished reply was finished, outside the streams
\* that may show a stale mark (onStreamStall).
THEOREM SilenceHolds == Spec => []SilenceEndsWholeAnswers
<1>1. IInv => SilenceEndsWholeAnswers
  BY DEF IInv, Marked, StaleMark, SilenceEndsWholeAnswers
<1> QED BY <1>1, InvHolds, PTL

\* A turn sends a context that is too long at most twice, for any limits
\* (overflowRecoveryAttempted).
THEOREM OverflowEndsHolds == Spec => []OverflowEnds
<1>1. IInv => OverflowEnds
  BY DEF IInv, Shapes, Counted, OverflowEnds
<1> QED BY <1>1, InvHolds, PTL

-----------------------------------------------------------------------------
(* The history *)

\* No message of a history tells the result of a call in S.
Untold(h, S) == \A j \in 1 .. Len(h) : h[j].kind = "result" => h[j].call \notin S

\* The first messages are no notes.
Lasting(h, n) == \A i \in 1 .. n : h[i].kind # "note"

\* The calls that have no result yet: those to come and those of the batch.
Untried == (Calls \ ghost.streamed) \cup Range(buf.batch)

\* The batch holds calls of the streams so far, each once.
Batched ==
  /\ buf.batch \in Seq(Calls) /\ Range(buf.batch) \subseteq ghost.streamed
  /\ \A a, b \in 1 .. Len(buf.batch) : buf.batch[a] = buf.batch[b] => a = b
  /\ pc = "tools" => buf.batch # <<>>

\* Between turns there are no notes; a turn begins behind what was there, until a
\* context is too long.
Started ==
  /\ turn.start \in Nat
  /\ pc = "idle" => Lasting(history, Len(history))
  /\ pc # "idle" /\ ghost.overflows = 0 =>
       turn.start <= Len(history) /\ Lasting(history, turn.start)

\* The second invariant: calls are answered but for those being recorded, and no
\* call is answered before it is recorded.
HistInv ==
  /\ Formed(history) /\ Paired(history, IF pc = "tools" THEN Range(buf.batch) ELSE {})
  /\ Untold(history, Untried) /\ Batched /\ Started

-----------------------------------------------------------------------------
(* Numbers, and the selection of messages *)

\* Sets of numbers have a least member: the well-foundedness of < serves where
\* the induction theorems would need an operator for a parameter.
LEMMA Least == ASSUME NEW S \in SUBSET Nat, S # {} PROVE \E n \in S : \A m \in S : n <= m
<1> DEFINE R == OpToRel(<, Nat)
<1>1. IsWellFoundedOn(R, Nat)
  BY NatLessThanWellFounded
<1>2. \A n, m \in Nat : n < m => <<n, m>> \in R
  BY DEF OpToRel
<1> HIDE DEF R
<1>3. PICK x \in S : \A y \in S : ~ (<<y, x>> \in R)
  BY <1>1, WFMin
<1>4. ASSUME NEW y \in S PROVE x <= y
  <2>1. ~(y < x)
    BY <1>2, <1>3
  <2> QED BY <2>1
<1> QED BY <1>4

\* What Min and Max of the community modules choose.
LEMMA MinIs ==
  ASSUME NEW S \in SUBSET Nat, S # {}
  PROVE  Min(S) \in S /\ \A m \in S : Min(S) <= m
BY Least DEF Min

LEMMA MaxIs ==
  ASSUME NEW n \in Nat, NEW S \in SUBSET (1 .. n), S # {}
  PROVE  Max(S) \in S /\ \A m \in S : Max(S) >= m
<1> DEFINE D == {n - m : m \in S}
<1>1. D \in SUBSET Nat /\ D # {}
  <2>1. \A m \in S : n - m \in Nat
    OBVIOUS
  <2>2. PICK m \in S : TRUE
    OBVIOUS
  <2>3. n - m \in D
    OBVIOUS
  <2> QED BY <2>1, <2>3
<1>2. PICK d \in D : \A e \in D : d <= e
  BY <1>1, Least
<1>3. PICK x \in S : d = n - x
  OBVIOUS
<1>4. \A y \in S : n - y \in D
  OBVIOUS
<1>5. ASSUME NEW y \in S PROVE x >= y
  <2>1. n - y \in D
    BY <1>4
  <2>2. d <= n - y
    BY <1>2, <2>1
  <2> HIDE DEF D
  <2> QED BY <1>3, <2>2
<1> QED BY <1>3, <1>5 DEF Max

\* The recursion of Those.
Solves(u, h, P, m) ==
  u = [n \in 0 .. m |-> IF n = 0 THEN <<>>
         ELSE IF n \in P THEN Append(u[n - 1], h[n]) ELSE u[n - 1]]

\* It has a solution.
LEMMA UpToExists ==
  ASSUME NEW h, NEW P, NEW N \in Nat
  PROVE  \E f : Solves(f, h, P, N)
<1> DEFINE Bad == {m \in Nat : ~ \E f : Solves(f, h, P, m)}
<1> SUFFICES ASSUME Bad # {} PROVE FALSE
  OBVIOUS
<1>1. PICK m \in Bad : \A k \in Bad : m <= k
  BY Least
<1>2. m # 0
  <2>1. Solves([n \in 0 .. 0 |-> <<>>], h, P, 0)
    BY DEF Solves
  <2> QED BY <2>1
<1>3. m - 1 \in Nat /\ m - 1 \notin Bad
  <2>1. m \in Nat
    OBVIOUS
  <2> HIDE DEF Bad
  <2> QED BY <1>1, <1>2, <2>1
<1>4. PICK f : Solves(f, h, P, m - 1)
  BY <1>3
<1> DEFINE g == [n \in 0 .. m |->
                   IF n = m THEN IF m \in P THEN Append(f[m - 1], h[m]) ELSE f[m - 1]
                   ELSE f[n]]
<1>5. \A n \in 0 .. m - 1 : g[n] = f[n]
  BY <1>3
<1>6. ASSUME NEW n \in 0 .. m
      PROVE  g[n] = IF n = 0 THEN <<>>
                    ELSE IF n \in P THEN Append(g[n - 1], h[n]) ELSE g[n - 1]
  <2>1. CASE n = m
    <3>1. g[m] = IF m \in P THEN Append(f[m - 1], h[m]) ELSE f[m - 1]
      BY <1>1
    <3>2. g[m - 1] = f[m - 1]
      BY <1>3, <1>5
    <3> HIDE DEF g
    <3> QED BY <1>2, <2>1, <3>1, <3>2
  <2>2. CASE n # m
    <3>1. n \in 0 .. m - 1
      BY <1>3, <2>2
    <3>2. f[n] = IF n = 0 THEN <<>>
                 ELSE IF n \in P THEN Append(f[n - 1], h[n]) ELSE f[n - 1]
      BY <1>4, <3>1 DEF Solves
    <3>3. n # 0 => n - 1 \in 0 .. m - 1
      BY <1>3, <3>1
    <3>4. g[n] = f[n] /\ (n # 0 => g[n - 1] = f[n - 1])
      BY <1>5, <3>1, <3>3
    <3> HIDE DEF g
    <3> QED BY <3>2, <3>4
  <2> QED BY <2>1, <2>2
<1>7. Solves(g, h, P, m)
  <2>1. g = [n \in 0 .. m |-> g[n]]
    OBVIOUS
  <2> HIDE DEF g
  <2> QED BY <1>6, <2>1 DEF Solves
<1> QED BY <1>1, <1>7

\* Those messages are an increasing selection of the history's.
LEMMA Selected ==
  ASSUME NEW h, h \in Seq(Range(h)), NEW P \in SUBSET (1 .. Len(h))
  PROVE  /\ Those(h, P) \in Seq(Range(h))
         /\ \E f \in [1 .. Len(Those(h, P)) -> P] :
              /\ \A a, b \in 1 .. Len(Those(h, P)) : a < b => f[a] < f[b]
              /\ \A i \in P : \E a \in 1 .. Len(Those(h, P)) : f[a] = i
              /\ \A a \in 1 .. Len(Those(h, P)) : Those(h, P)[a] = h[f[a]]
<1> DEFINE N == Len(h)
           upTo == CHOOSE u : Solves(u, h, P, N)
           Selects(s, n) ==
             /\ s \in Seq(Range(h))
             /\ \E f \in [1 .. Len(s) -> P \cap (1 .. n)] :
                  /\ \A a, b \in 1 .. Len(s) : a < b => f[a] < f[b]
                  /\ \A i \in P \cap (1 .. n) : \E a \in 1 .. Len(s) : f[a] = i
                  /\ \A a \in 1 .. Len(s) : s[a] = h[f[a]]
           Bad == {n \in 0 .. N : ~Selects(upTo[n], n)}
<1>1. N \in Nat
  OBVIOUS
<1>2. Solves(upTo, h, P, N)
  BY <1>1, UpToExists
<1>3. Those(h, P) = upTo[N]
  BY DEF Those, Solves
<1> HIDE DEF upTo
<1>4. /\ upTo[0] = <<>>
      /\ \A n \in 1 .. N :
           upTo[n] = IF n \in P THEN Append(upTo[n - 1], h[n]) ELSE upTo[n - 1]
  <2>1. 0 \in 0 .. N /\ \A n \in 1 .. N : n \in 0 .. N /\ n # 0
    BY <1>1
  <2>2. \A n \in 0 .. N : upTo[n] = IF n = 0 THEN <<>>
         ELSE IF n \in P THEN Append(upTo[n - 1], h[n]) ELSE upTo[n - 1]
    BY <1>2 DEF Solves
  <2> HIDE DEF N
  <2> QED BY <2>1, <2>2
<1>5. Selects(<<>>, 0)
  <2>1. Len(<<>>) = 0 /\ 1 .. 0 = {} /\ <<>> \in Seq(Range(h))
    OBVIOUS
  <2>2. [a \in 1 .. Len(<<>>) |-> 1] \in [1 .. Len(<<>>) -> P \cap (1 .. 0)]
    BY <2>1
  <2> QED BY <2>1, <2>2
<1>6. ASSUME NEW n \in 1 .. N, NEW s, Selects(s, n - 1), n \notin P
      PROVE  Selects(s, n)
  <2>1. P \cap (1 .. n) = P \cap (1 .. n - 1)
    BY <1>1, <1>6
  <2> QED BY <1>6, <2>1
<1>7. ASSUME NEW n \in 1 .. N, NEW s, Selects(s, n - 1), n \in P
      PROVE  Selects(Append(s, h[n]), n)
  <2>1. PICK f \in [1 .. Len(s) -> P \cap (1 .. n - 1)] :
           /\ \A a, b \in 1 .. Len(s) : a < b => f[a] < f[b]
           /\ \A i \in P \cap (1 .. n - 1) : \E a \in 1 .. Len(s) : f[a] = i
           /\ \A a \in 1 .. Len(s) : s[a] = h[f[a]]
    BY <1>7
  <2> DEFINE t == Append(s, h[n])
             g == [a \in 1 .. Len(s) + 1 |-> IF a = Len(s) + 1 THEN n ELSE f[a]]
  <2>2. s \in Seq(Range(h)) /\ h[n] \in Range(h) /\ Len(s) \in Nat
    BY <1>1, <1>7 DEF Range
  <2>3. /\ t \in Seq(Range(h)) /\ Len(t) = Len(s) + 1 /\ t[Len(s) + 1] = h[n]
        /\ \A a \in 1 .. Len(s) : t[a] = s[a]
    BY <2>2
  <2>4. /\ g[Len(s) + 1] = n
        /\ \A a \in 1 .. Len(s) : g[a] = f[a] /\ f[a] \in P /\ f[a] \in 1 .. n - 1
    BY <2>1, <2>2
  <2>5. g \in [1 .. Len(t) -> P \cap (1 .. n)]
    <3>1. ASSUME NEW a \in 1 .. Len(s) + 1 PROVE g[a] \in P \cap (1 .. n)
      <4>1. CASE a = Len(s) + 1
        BY <1>7, <2>4, <4>1
      <4>2. CASE a # Len(s) + 1
        <5>1. a \in 1 .. Len(s)
          BY <2>2, <4>2
        <5> HIDE DEF g
        <5> QED BY <1>1, <2>4, <5>1
      <4> QED BY <4>1, <4>2
    <3>2. g = [a \in 1 .. Len(t) |-> g[a]]
      BY <2>3
    <3> HIDE DEF g, t
    <3> QED BY <2>3, <3>1, <3>2
  <2> HIDE DEF g, t
  <2>6. ASSUME NEW a \in 1 .. Len(t), NEW b \in 1 .. Len(t), a < b PROVE g[a] < g[b]
    <3>1. a \in 1 .. Len(s) /\ (b \in 1 .. Len(s) \/ b = Len(s) + 1)
      BY <2>2, <2>3, <2>6
    <3> QED BY <1>1, <2>1, <2>4, <2>6, <3>1
  <2>7. ASSUME NEW i \in P \cap (1 .. n) PROVE \E a \in 1 .. Len(t) : g[a] = i
    <3>1. CASE i = n
      BY <2>2, <2>3, <2>4, <3>1
    <3>2. CASE i # n
      <4>1. i \in P \cap (1 .. n - 1)
        BY <1>1, <3>2
      <4>2. PICK a \in 1 .. Len(s) : f[a] = i
        BY <2>1, <4>1
      <4>3. a \in 1 .. Len(t) /\ g[a] = i
        BY <2>2, <2>3, <2>4, <4>2
      <4> QED BY <4>3
    <3> QED BY <3>1, <3>2
  <2>8. ASSUME NEW a \in 1 .. Len(t) PROVE t[a] = h[g[a]]
    <3>1. a \in 1 .. Len(s) \/ a = Len(s) + 1
      BY <2>2, <2>3
    <3> QED BY <2>1, <2>3, <2>4, <3>1
  <2> QED BY <2>3, <2>5, <2>6, <2>7, <2>8 DEF t
<1> HIDE DEF Selects
<1>8. Bad = {}
  <2> SUFFICES ASSUME Bad # {} PROVE FALSE
    OBVIOUS
  <2>1. Bad \in SUBSET Nat
    BY <1>1
  <2>2. PICK n \in Bad : \A k \in Bad : n <= k
    BY <2>1, Least
  <2>3. n \in 1 .. N
    BY <1>1, <1>4, <1>5, <2>1
  <2>4. n - 1 \in 0 .. N /\ n - 1 \notin Bad
    BY <1>1, <2>2, <2>3
  <2>5. Selects(upTo[n - 1], n - 1)
    BY <2>4
  <2>6. Selects(upTo[n], n)
    BY <1>4, <1>6, <1>7, <2>3, <2>5
  <2> QED BY <2>6
<1>9. Selects(upTo[N], N)
  BY <1>1, <1>8
<1>10. P \cap (1 .. N) = P
  OBVIOUS
<1> QED BY <1>3, <1>9, <1>10 DEF Selects

-----------------------------------------------------------------------------
(* Histories *)

\* A sequence is one of its own messages.
LEMMA OwnRange == ASSUME NEW S, NEW s \in Seq(S) PROVE s \in Seq(Range(s))
BY DEF Range

\* A history, made longer by messages that are no calls and no results.
LEMMA Extended ==
  ASSUME NEW h, Formed(h), NEW p, Paired(h, p),
         NEW g, g \in Seq(Range(g)), Len(h) <= Len(g),
         \A i \in 1 .. Len(h) : g[i] = h[i],
         \A i \in Len(h) + 1 .. Len(g) :
            g[i].kind \notin {"calls", "result"} /\ (p = {} \/ g[i].kind = "notice")
  PROVE  /\ Formed(g) /\ Paired(g, p)
         /\ \A S : Untold(h, S) => Untold(g, S)
<1>1. Len(h) \in Nat /\ Len(g) \in Nat
  BY DEF Formed
<1>2. \A i \in 1 .. Len(g) : i \in 1 .. Len(h) \/ i \in Len(h) + 1 .. Len(g)
  BY <1>1
<1>3. \A i \in 1 .. Len(g) : g[i].kind \in {"calls", "result"} => i \in 1 .. Len(h) /\ g[i] = h[i]
  BY <1>2
<1>4. Formed(g)
  BY <1>3 DEF Formed
<1>5. \A S : Untold(h, S) => Untold(g, S)
  BY <1>3 DEF Untold
<1>6. Paired(g, p)
  <2> SUFFICES ASSUME NEW i \in 1 .. Len(g), g[i].kind = "calls", NEW c \in Range(g[i].calls)
               PROVE  \/ AnsweredAt(g, i, c)
                      \/ c \in p /\ \A k \in i + 1 .. Len(g) : g[k].kind \in {"result", "notice"}
    BY DEF Paired
  <2>1. i \in 1 .. Len(h) /\ g[i] = h[i]
    BY <1>3
  <2>2. CASE AnsweredAt(h, i, c)
    <3>1. PICK j \in i + 1 .. Len(h) :
             /\ h[j].kind = "result" /\ h[j].call = c
             /\ \A k \in i + 1 .. j - 1 : h[k].kind \in {"result", "notice"}
      BY <2>2 DEF AnsweredAt
    <3>2. j \in i + 1 .. Len(g) /\ j \in 1 .. Len(h) /\ \A k \in i + 1 .. j - 1 : k \in 1 .. Len(h)
      BY <1>1, <2>1
    <3>3. g[j] = h[j] /\ \A k \in i + 1 .. j - 1 : g[k] = h[k]
      BY <3>2
    <3> QED BY <3>1, <3>2, <3>3 DEF AnsweredAt
  <2>3. CASE c \in p /\ \A k \in i + 1 .. Len(h) : h[k].kind \in {"result", "notice"}
    <3>1. ASSUME NEW k \in i + 1 .. Len(g) PROVE g[k].kind \in {"result", "notice"}
      <4>1. k \in 1 .. Len(g) /\ (k \in 1 .. Len(h) => k \in i + 1 .. Len(h))
        BY <1>1, <2>1
      <4> QED BY <1>2, <2>3, <4>1
    <3> QED BY <2>3, <3>1
  <2> QED BY <2>1, <2>2, <2>3 DEF Paired
<1> QED BY <1>4, <1>5, <1>6

\* One more message.
LEMMA Appended ==
  ASSUME NEW h, h \in Seq(Range(h)), NEW m
  PROVE  /\ Append(h, m) \in Seq(Range(Append(h, m)))
         /\ Len(h) \in Nat /\ Len(Append(h, m)) = Len(h) + 1 /\ Append(h, m)[Len(h) + 1] = m
         /\ \A i \in 1 .. Len(h) : Append(h, m)[i] = h[i]
<1> DEFINE S == Range(h) \cup {m}
<1>1. h \in Seq(S) /\ m \in S
  OBVIOUS
<1> HIDE DEF S
<1>2. /\ Append(h, m) \in Seq(S)
      /\ Len(h) \in Nat /\ Len(Append(h, m)) = Len(h) + 1 /\ Append(h, m)[Len(h) + 1] = m
      /\ \A i \in 1 .. Len(h) : Append(h, m)[i] = h[i]
  BY <1>1
<1>3. Append(h, m) \in Seq(Range(Append(h, m)))
  BY <1>2, OwnRange
<1> QED BY <1>2, <1>3

\* A text, an answer, a note, or a notice.
LEMMA Said ==
  ASSUME NEW h, Formed(h), NEW p, Paired(h, p), NEW kind, kind \notin {"calls", "result"},
         p = {} \/ kind = "notice"
  PROVE  LET g == Append(h, Message(kind))
         IN  /\ Formed(g) /\ Paired(g, p)
             /\ \A S : Untold(h, S) => Untold(g, S)
<1> DEFINE g == Append(h, Message(kind))
<1>1. /\ g \in Seq(Range(g)) /\ Len(h) \in Nat /\ Len(g) = Len(h) + 1
      /\ g[Len(h) + 1] = Message(kind) /\ \A i \in 1 .. Len(h) : g[i] = h[i]
  BY Appended DEF Formed
<1> HIDE DEF g
<1>2. \A i \in Len(h) + 1 .. Len(g) : i = Len(h) + 1
  BY <1>1
<1>3. \A i \in Len(h) + 1 .. Len(g) : g[i].kind = kind
  BY <1>1, <1>2 DEF Message
<1>4. Len(h) <= Len(g)
  BY <1>1
<1>5. Formed(g) /\ Paired(g, p) /\ \A S : Untold(h, S) => Untold(g, S)
  BY <1>1, <1>3, <1>4, Extended
<1> QED BY <1>5 DEF g

\* The calls of a batch.
LEMMA Asked ==
  ASSUME NEW h, Formed(h), Paired(h, {}), NEW b
  PROVE  LET g == Append(h, Batch(b))
         IN  /\ Formed(g) /\ Paired(g, Range(b))
             /\ \A S : Untold(h, S) => Untold(g, S)
<1> DEFINE g == Append(h, Batch(b))
<1>1. /\ g \in Seq(Range(g)) /\ Len(h) \in Nat /\ Len(g) = Len(h) + 1
      /\ g[Len(h) + 1] = Batch(b) /\ \A i \in 1 .. Len(h) : g[i] = h[i]
  BY Appended DEF Formed
<1>2. Batch(b).kind = "calls" /\ Batch(b).calls = b
  BY DEF Batch
<1> HIDE DEF g
<1>3. \A i \in 1 .. Len(g) : i \in 1 .. Len(h) \/ i = Len(h) + 1
  BY <1>1
<1>4. \A i \in 1 .. Len(g) : g[i].kind = "result" => i \in 1 .. Len(h) /\ g[i] = h[i]
  BY <1>1, <1>2, <1>3
<1>5. Formed(g)
  BY <1>1, <1>2, <1>3, <1>4 DEF Formed
<1>6. \A S : Untold(h, S) => Untold(g, S)
  BY <1>4 DEF Untold
<1>7. Paired(g, Range(b))
  <2> SUFFICES ASSUME NEW i \in 1 .. Len(g), g[i].kind = "calls", NEW c \in Range(g[i].calls)
               PROVE  \/ AnsweredAt(g, i, c)
                      \/ /\ c \in Range(b)
                         /\ \A k \in i + 1 .. Len(g) : g[k].kind \in {"result", "notice"}
    BY DEF Paired
  <2>1. CASE i \in 1 .. Len(h)
    <3>1. h[i].kind = "calls" /\ c \in Range(h[i].calls)
      BY <1>1, <2>1
    <3>2. AnsweredAt(h, i, c)
      BY <2>1, <3>1 DEF Paired
    <3>3. PICK j \in i + 1 .. Len(h) :
             /\ h[j].kind = "result" /\ h[j].call = c
             /\ \A k \in i + 1 .. j - 1 : h[k].kind \in {"result", "notice"}
      BY <3>2 DEF AnsweredAt
    <3>4. j \in i + 1 .. Len(g) /\ j \in 1 .. Len(h) /\ \A k \in i + 1 .. j - 1 : k \in 1 .. Len(h)
      BY <1>1, <2>1
    <3>5. g[j] = h[j] /\ \A k \in i + 1 .. j - 1 : g[k] = h[k]
      BY <1>1, <3>4
    <3> QED BY <3>3, <3>4, <3>5 DEF AnsweredAt
  <2>2. CASE i = Len(h) + 1
    <3>1. c \in Range(b) /\ i + 1 .. Len(g) = {}
      BY <1>1, <1>2, <2>2
    <3> QED BY <3>1
  <2> QED BY <1>3, <2>1, <2>2
<1>8. Formed(g) /\ Paired(g, Range(b)) /\ \A S : Untold(h, S) => Untold(g, S)
  BY <1>5, <1>6, <1>7
<1> QED BY <1>8 DEF g

\* The result of a call that had none.
LEMMA Told ==
  ASSUME NEW h, Formed(h), NEW p, Paired(h, p), NEW c \in p, Untold(h, {c})
  PROVE  LET g == Append(h, Result(c))
         IN  /\ Formed(g) /\ Paired(g, p \ {c})
             /\ \A S : Untold(h, S) /\ c \notin S => Untold(g, S)
<1> DEFINE g == Append(h, Result(c))
<1>1. /\ g \in Seq(Range(g)) /\ Len(h) \in Nat /\ Len(g) = Len(h) + 1
      /\ g[Len(h) + 1] = Result(c) /\ \A i \in 1 .. Len(h) : g[i] = h[i]
  BY Appended DEF Formed
<1>2. Result(c).kind = "result" /\ Result(c).call = c
  BY DEF Result
<1> HIDE DEF g
<1>3. \A i \in 1 .. Len(g) : i \in 1 .. Len(h) \/ i = Len(h) + 1
  BY <1>1
<1>4. \A i \in 1 .. Len(g) : g[i].kind = "calls" => i \in 1 .. Len(h) /\ g[i] = h[i]
  BY <1>1, <1>2, <1>3
<1>5. Formed(g)
  <2>1. \A i \in 1 .. Len(h) : g[i].kind = "result" => g[i].call # c
    BY <1>1 DEF Untold
  <2>2. \A i, j \in 1 .. Len(g) :
           g[i].kind = "result" /\ g[j].kind = "result" /\ g[i].call = g[j].call => i = j
    BY <1>1, <1>2, <1>3, <2>1 DEF Formed
  <2> QED BY <1>1, <1>4, <2>2 DEF Formed
<1>6. \A S : Untold(h, S) /\ c \notin S => Untold(g, S)
  BY <1>1, <1>2, <1>3 DEF Untold
<1>7. Paired(g, p \ {c})
  <2> SUFFICES ASSUME NEW i \in 1 .. Len(g), g[i].kind = "calls", NEW d \in Range(g[i].calls)
               PROVE  \/ AnsweredAt(g, i, d)
                      \/ /\ d \in p \ {c}
                         /\ \A k \in i + 1 .. Len(g) : g[k].kind \in {"result", "notice"}
    BY DEF Paired
  <2>1. i \in 1 .. Len(h) /\ h[i] = g[i]
    BY <1>4
  <2>2. CASE AnsweredAt(h, i, d)
    <3>1. PICK j \in i + 1 .. Len(h) :
             /\ h[j].kind = "result" /\ h[j].call = d
             /\ \A k \in i + 1 .. j - 1 : h[k].kind \in {"result", "notice"}
      BY <2>2 DEF AnsweredAt
    <3>2. j \in i + 1 .. Len(g) /\ j \in 1 .. Len(h) /\ \A k \in i + 1 .. j - 1 : k \in 1 .. Len(h)
      BY <1>1, <2>1
    <3>3. g[j] = h[j] /\ \A k \in i + 1 .. j - 1 : g[k] = h[k]
      BY <1>1, <3>2
    <3> QED BY <3>1, <3>2, <3>3 DEF AnsweredAt
  <2>3. CASE d \in p /\ \A k \in i + 1 .. Len(h) : h[k].kind \in {"result", "notice"}
    <3>1. ASSUME NEW k \in i + 1 .. Len(g), k # Len(g) PROVE g[k].kind \in {"result", "notice"}
      <4>1. k \in 1 .. Len(h) /\ k \in i + 1 .. Len(h)
        BY <1>1, <2>1, <3>1
      <4> QED BY <1>1, <2>3, <4>1
    <3>2. CASE d = c
      <4>1. Len(g) \in i + 1 .. Len(g) /\ g[Len(g)].kind = "result" /\ g[Len(g)].call = d
        BY <1>1, <1>2, <2>1, <3>2
      <4>2. \A k \in i + 1 .. Len(g) - 1 : k \in i + 1 .. Len(g) /\ k # Len(g)
        BY <1>1, <2>1
      <4> QED BY <3>1, <4>1, <4>2 DEF AnsweredAt
    <3>3. CASE d # c
      <4>1. g[Len(g)].kind = "result"
        BY <1>1, <1>2
      <4> QED BY <2>3, <3>1, <3>3, <4>1
    <3> QED BY <3>2, <3>3
  <2> QED BY <2>1, <2>2, <2>3 DEF Paired
<1>8. Formed(g) /\ Paired(g, p \ {c}) /\ \A S : Untold(h, S) /\ c \notin S => Untold(g, S)
  BY <1>5, <1>6, <1>7
<1> QED BY <1>8 DEF g

\* The messages of g are those of h at the places f, in their order, and the results
\* of the calls there are there too.
PartOf(g, h, f) ==
  /\ g \in Seq(Range(g)) /\ f \in [1 .. Len(g) -> 1 .. Len(h)]
  /\ \A a, b \in 1 .. Len(g) : a < b => f[a] < f[b]
  /\ \A a \in 1 .. Len(g) : g[a] = h[f[a]]
  /\ \A a \in 1 .. Len(g) : g[a].kind = "calls" =>
        \A j \in f[a] + 1 .. Len(h) :
           /\ h[j].kind = "result" /\ h[j].call \in Range(g[a].calls)
           /\ \A k \in f[a] + 1 .. j - 1 : h[k].kind \in {"result", "notice"}
           => \E b \in 1 .. Len(g) : f[b] = j

\* Such a part of a sound history is sound.
LEMMA Embedded ==
  ASSUME NEW h, Formed(h), Paired(h, {}), NEW g, NEW f, PartOf(g, h, f)
  PROVE  /\ Formed(g) /\ Paired(g, {})
         /\ \A S : Untold(h, S) => Untold(g, S)
<1>1. Len(h) \in Nat /\ Len(g) \in Nat /\ g \in Seq(Range(g))
  BY DEF Formed, PartOf
<1>2. /\ \A a \in 1 .. Len(g) : f[a] \in 1 .. Len(h) /\ g[a] = h[f[a]]
      /\ \A a, b \in 1 .. Len(g) : a < b => f[a] < f[b]
  BY DEF PartOf
<1>3. \A a \in 1 .. Len(g) : g[a].kind = "calls" =>
         \A j \in f[a] + 1 .. Len(h) :
            /\ h[j].kind = "result" /\ h[j].call \in Range(g[a].calls)
            /\ \A k \in f[a] + 1 .. j - 1 : h[k].kind \in {"result", "notice"}
            => \E b \in 1 .. Len(g) : f[b] = j
  BY DEF PartOf
<1>4. \A a, b \in 1 .. Len(g) : f[a] = f[b] => a = b
  <2> SUFFICES ASSUME NEW a \in 1 .. Len(g), NEW b \in 1 .. Len(g), f[a] = f[b], a # b
               PROVE  FALSE
    OBVIOUS
  <2>1. a < b \/ b < a
    BY <1>1
  <2>2. f[a] \in Nat /\ f[b] \in Nat
    BY <1>1, <1>2
  <2> QED BY <1>2, <2>1, <2>2
<1>5. Formed(g)
  <2>1. \A i \in 1 .. Len(g) : g[i].kind = "calls" => g[i] = Batch(g[i].calls)
    BY <1>2 DEF Formed
  <2>2. \A i, j \in 1 .. Len(h) :
           h[i].kind = "result" /\ h[j].kind = "result" /\ h[i].call = h[j].call => i = j
    BY DEF Formed
  <2>3. \A i, j \in 1 .. Len(g) :
           g[i].kind = "result" /\ g[j].kind = "result" /\ g[i].call = g[j].call => f[i] = f[j]
    <3> SUFFICES ASSUME NEW i \in 1 .. Len(g), NEW j \in 1 .. Len(g),
                        g[i].kind = "result", g[j].kind = "result", g[i].call = g[j].call
                 PROVE  f[i] = f[j]
      OBVIOUS
    <3>1. f[i] \in 1 .. Len(h) /\ f[j] \in 1 .. Len(h) /\ g[i] = h[f[i]] /\ g[j] = h[f[j]]
      BY <1>2
    <3> QED BY <2>2, <3>1
  <2> QED BY <1>1, <1>4, <2>1, <2>3 DEF Formed
<1>6. \A S : Untold(h, S) => Untold(g, S)
  BY <1>2 DEF Untold
<1>7. Paired(g, {})
  <2> SUFFICES ASSUME NEW a \in 1 .. Len(g), g[a].kind = "calls", NEW c \in Range(g[a].calls)
               PROVE  AnsweredAt(g, a, c)
    BY DEF Paired
  <2>1. PICK j \in f[a] + 1 .. Len(h) :
           /\ h[j].kind = "result" /\ h[j].call = c
           /\ \A k \in f[a] + 1 .. j - 1 : h[k].kind \in {"result", "notice"}
    <3>1. f[a] \in 1 .. Len(h) /\ h[f[a]].kind = "calls" /\ c \in Range(h[f[a]].calls)
      BY <1>2
    <3>2. AnsweredAt(h, f[a], c)
      BY <3>1 DEF Paired
    <3> QED BY <3>2 DEF AnsweredAt
  <2>2. PICK b \in 1 .. Len(g) : f[b] = j
    BY <1>3, <2>1
  <2>3. f[a] \in Nat /\ f[b] \in Nat /\ f[a] < f[b]
    <3>1. f[a] \in Nat
      BY <1>1, <1>2
    <3> QED BY <1>1, <2>2, <3>1
  <2>4. b \in a + 1 .. Len(g)
    <3>1. ~(b < a) /\ b # a
      BY <1>2, <2>3
    <3> QED BY <1>1, <3>1
  <2>5. ASSUME NEW k \in a + 1 .. b - 1 PROVE g[k].kind \in {"result", "notice"}
    <3>1. k \in 1 .. Len(g) /\ a < k /\ k < b
      BY <1>1
    <3>2. f[a] < f[k] /\ f[k] < f[b] /\ f[k] \in 1 .. Len(h)
      BY <1>2, <3>1
    <3>3. f[k] \in f[a] + 1 .. j - 1
      BY <1>1, <2>2, <2>3, <3>2
    <3>4. g[k] = h[f[k]]
      BY <1>2, <3>1
    <3> QED BY <2>1, <3>3, <3>4
  <2>6. g[b] = h[j]
    BY <1>2, <2>2
  <2> QED BY <2>1, <2>4, <2>5, <2>6 DEF AnsweredAt
<1> QED BY <1>5, <1>6, <1>7

-----------------------------------------------------------------------------
(* What cuts a history *)

\* An interval of a history.
LEMMA Slice ==
  ASSUME NEW h, h \in Seq(Range(h)), NEW m \in 1 .. Len(h) + 1, NEW n \in Nat,
         m - 1 <= n, n <= Len(h)
  PROVE  LET g == SubSeq(h, m, n)
         IN  /\ g \in Seq(Range(g)) /\ Len(g) = n - m + 1
             /\ \A a \in 1 .. Len(g) : a + m - 1 \in m .. n /\ g[a] = h[a + m - 1]
<1> DEFINE g == SubSeq(h, m, n)
<1>1. Len(h) \in Nat /\ m \in Nat /\ m \in Int /\ n \in Int
  OBVIOUS
<1>2. \A i \in m .. n : h[i] \in Range(h)
  BY <1>1 DEF Range
<1>3. /\ g \in Seq(Range(h)) /\ Len(g) = IF m <= n THEN n - m + 1 ELSE 0
      /\ \A a \in 1 .. n - m + 1 : g[a] = h[m + a - 1]
  BY <1>1, <1>2, SubSeqProperties
<1> HIDE DEF g
<1>4. Len(g) = n - m + 1
  BY <1>1, <1>3
<1>5. ASSUME NEW a \in 1 .. Len(g) PROVE a + m - 1 \in m .. n /\ g[a] = h[a + m - 1]
  <2>1. a + m - 1 \in m .. n /\ a + m - 1 = m + a - 1 /\ a \in 1 .. n - m + 1
    BY <1>1, <1>4
  <2> QED BY <1>3, <2>1
<1>6. g \in Seq(Range(g))
  BY <1>3, OwnRange
<1> QED BY <1>4, <1>5, <1>6 DEF g

\* What comes before a message of the model: the results of the calls there are
\* there too.
LEMMA Before ==
  ASSUME NEW h, Formed(h), Paired(h, {}), NEW x \in 1 .. Len(h), h[x].kind \in Assistant
  PROVE  LET g == SubSeq(h, 1, x - 1)
         IN  /\ Formed(g) /\ Paired(g, {})
             /\ \A S : Untold(h, S) => Untold(g, S)
             /\ Len(g) = x - 1 /\ \A i \in 1 .. x - 1 : g[i] = h[i]
<1> DEFINE g == SubSeq(h, 1, x - 1)
           f == [a \in 1 .. Len(g) |-> a]
<1>1. Len(h) \in Nat /\ h \in Seq(Range(h)) /\ x - 1 \in Nat /\ 1 \in 1 .. Len(h) + 1
  BY DEF Formed
<1>2. /\ g \in Seq(Range(g)) /\ Len(g) = x - 1 - 1 + 1
      /\ \A a \in 1 .. Len(g) : a + 1 - 1 \in 1 .. x - 1 /\ g[a] = h[a + 1 - 1]
  BY <1>1, Slice
<1> HIDE DEF g
<1>3. Len(g) = x - 1 /\ \A a \in 1 .. x - 1 : a \in 1 .. Len(h) /\ g[a] = h[a]
  <2>1. Len(g) = x - 1
    BY <1>1, <1>2
  <2>2. \A a \in 1 .. x - 1 : a + 1 - 1 = a /\ a \in 1 .. Len(h)
    BY <1>1
  <2> QED BY <1>2, <2>1, <2>2
<1>4. f \in [1 .. Len(g) -> 1 .. Len(h)]
  BY <1>3
<1>5. ASSUME NEW a \in 1 .. Len(g), NEW j \in f[a] + 1 .. Len(h),
             h[j].kind = "result",
             \A k \in f[a] + 1 .. j - 1 : h[k].kind \in {"result", "notice"}
      PROVE  \E b \in 1 .. Len(g) : f[b] = j
  <2>1. ~(x \in f[a] + 1 .. j - 1) /\ j # x
    BY <1>5 DEF Assistant
  <2>2. j \in 1 .. Len(g)
    BY <1>1, <1>3, <2>1
  <2> QED BY <2>2
<1>6. /\ \A a, b \in 1 .. Len(g) : a < b => f[a] < f[b]
      /\ \A a \in 1 .. Len(g) : g[a] = h[f[a]]
  BY <1>3
<1> HIDE DEF f
<1>7. Formed(g) /\ Paired(g, {}) /\ \A S : Untold(h, S) => Untold(g, S)
  <2>1. PartOf(g, h, f)
    BY <1>2, <1>4, <1>5, <1>6 DEF PartOf
  <2> QED BY <2>1, Embedded
<1> QED BY <1>3, <1>7 DEF g

\* undoLastAssistantMessage.
LEMMA Undone ==
  ASSUME NEW h, Formed(h), Paired(h, {}), turn.start \in Nat
  PROVE  /\ Formed(Undo(h)) /\ Paired(Undo(h), {})
         /\ \A S : Untold(h, S) => Untold(Undo(h), S)
         /\ Len(Undo(h)) \in Nat /\ (turn.start <= Len(h) => turn.start <= Len(Undo(h)))
         /\ Len(Undo(h)) <= Len(h) /\ \A i \in 1 .. Len(Undo(h)) : Undo(h)[i] = h[i]
<1> DEFINE said == {i \in turn.start + 1 .. Len(h) : h[i].kind \in Assistant}
<1>1. Len(h) \in Nat
  BY DEF Formed
<1>2. CASE said = {}
  BY <1>1, <1>2 DEF Undo
<1>3. CASE said # {}
  <2>1. said \in SUBSET (1 .. Len(h))
    BY <1>1
  <2>2. Max(said) \in said
    BY <1>1, <1>3, <2>1, MaxIs
  <2> DEFINE x == Max(said)
  <2>3. x \in 1 .. Len(h) /\ h[x].kind \in Assistant /\ turn.start + 1 <= x
    <3>1. \A i \in said : i \in 1 .. Len(h) /\ h[i].kind \in Assistant /\ turn.start + 1 <= i
      BY <2>1
    <3> HIDE DEF said
    <3> QED BY <2>2, <3>1
  <2>4. Undo(h) = SubSeq(h, 1, x - 1)
    BY <1>3, <2>3 DEF Undo
  <2> HIDE DEF said, x
  <2>5. /\ Formed(Undo(h)) /\ Paired(Undo(h), {})
        /\ \A S : Untold(h, S) => Untold(Undo(h), S)
        /\ Len(Undo(h)) = x - 1 /\ \A i \in 1 .. x - 1 : Undo(h)[i] = h[i]
    BY <2>3, <2>4, Before
  <2> QED BY <1>1, <2>3, <2>5
<1> QED BY <1>2, <1>3

\* stripEphemeralSystemMessages.
LEMMA Stripped ==
  ASSUME NEW h, Formed(h), Paired(h, {})
  PROVE  /\ Formed(Strip(h)) /\ Paired(Strip(h), {})
         /\ \A S : Untold(h, S) => Untold(Strip(h), S)
         /\ Lasting(Strip(h), Len(Strip(h)))
         /\ \A n \in 0 .. Len(h) : Lasting(h, n) =>
              n <= Len(Strip(h)) /\ \A i \in 1 .. n : Strip(h)[i] = h[i]
<1> DEFINE P == {i \in 1 .. Len(h) : h[i].kind # "note"}
           g == Strip(h)
<1>1. h \in Seq(Range(h)) /\ Len(h) \in Nat /\ P \in SUBSET (1 .. Len(h)) /\ g = Those(h, P)
  BY DEF Formed, Strip
<1>2. /\ \A i \in 1 .. Len(h) : h[i].kind # "note" => i \in P
      /\ \A i \in P : h[i].kind # "note"
  OBVIOUS
<1> HIDE DEF g, P
<1>3. g \in Seq(Range(h))
  BY <1>1, Selected
<1>4. PICK f \in [1 .. Len(g) -> P] :
         /\ \A a, b \in 1 .. Len(g) : a < b => f[a] < f[b]
         /\ \A i \in P : \E a \in 1 .. Len(g) : f[a] = i
         /\ \A a \in 1 .. Len(g) : g[a] = h[f[a]]
  BY <1>1, Selected
<1>5. Len(g) \in Nat /\ g \in Seq(Range(g))
  BY <1>3, OwnRange
<1>6. f \in [1 .. Len(g) -> 1 .. Len(h)]
  BY <1>1
<1>7. Lasting(g, Len(g))
  BY <1>4, <1>2 DEF Lasting
<1>8. ASSUME NEW a \in 1 .. Len(g), NEW j \in f[a] + 1 .. Len(h), h[j].kind = "result"
      PROVE  \E b \in 1 .. Len(g) : f[b] = j
  <2>1. j \in 1 .. Len(h)
    BY <1>1, <1>6
  <2>2. j \in P
    BY <1>2, <1>8, <2>1
  <2> QED BY <1>4, <2>2
<1>9. Formed(g) /\ Paired(g, {}) /\ \A S : Untold(h, S) => Untold(g, S)
  <2>1. PartOf(g, h, f)
    BY <1>4, <1>5, <1>6, <1>8 DEF PartOf
  <2> QED BY <2>1, Embedded
<1>10. ASSUME NEW n \in 0 .. Len(h), Lasting(h, n)
       PROVE  n <= Len(g) /\ \A i \in 1 .. n : g[i] = h[i]
  <2> DEFINE Bad == {i \in 1 .. n : ~(i <= Len(g) /\ f[i] = i)}
  <2>1. \A i \in 1 .. n : i \in 1 .. Len(h) /\ i \in P
    BY <1>1, <1>2, <1>10 DEF Lasting
  <2>2. Bad = {}
    <3> SUFFICES ASSUME Bad # {} PROVE FALSE
      OBVIOUS
    <3>1. Bad \in SUBSET Nat
      BY <1>1
    <3>2. PICK i \in Bad : \A k \in Bad : i <= k
      BY <3>1, Least
    <3>3. i \in 1 .. n /\ ~(i <= Len(g) /\ f[i] = i)
      OBVIOUS
    <3>4. \A k \in 1 .. n : k < i => k <= Len(g) /\ f[k] = k
      BY <3>1, <3>2
    <3> HIDE DEF Bad
    <3>5. PICK a \in 1 .. Len(g) : f[a] = i
      BY <1>4, <2>1, <3>3
    <3>6. ~(a < i)
      BY <1>1, <1>5, <3>3, <3>4, <3>5
    <3>7. i \in 1 .. Len(g) /\ i < a
      BY <1>1, <1>5, <3>3, <3>5, <3>6
    <3>8. f[i] < i /\ f[i] \in 1 .. Len(h)
      BY <1>4, <1>6, <3>5, <3>7
    <3>9. f[i] \in 1 .. n /\ f[i] \in 1 .. Len(g)
      BY <1>1, <1>5, <3>3, <3>7, <3>8
    <3>10. f[f[i]] = f[i] /\ f[f[i]] < f[i]
      BY <1>4, <3>4, <3>7, <3>8, <3>9
    <3> QED BY <1>1, <3>8, <3>10
  <2>3. \A i \in 1 .. n : i <= Len(g) /\ f[i] = i
    BY <2>2
  <2>4. n <= Len(g)
    <3>1. n = 0 \/ n \in 1 .. n
      BY <1>1
    <3> QED BY <1>5, <2>3, <3>1
  <2>5. \A i \in 1 .. n : i \in 1 .. Len(g)
    BY <1>1, <1>5, <2>4
  <2> QED BY <1>4, <2>3, <2>4, <2>5
<1> QED BY <1>7, <1>9, <1>10 DEF g

\* elideToolMessages: some calls become remarks.
LEMMA ElidedIs ==
  ASSUME NEW h, Formed(h), Paired(h, {})
  PROVE  /\ Formed(Elided(h)) /\ Paired(Elided(h), {})
         /\ \A S : Untold(h, S) => Untold(Elided(h), S)
<1> DEFINE g == Elided(h)
<1>1. Len(h) \in Nat /\ h \in Seq(Range(h))
  BY DEF Formed
<1>2. g = [i \in 1 .. Len(h) |-> g[i]]
  BY DEF Elided
<1>3. ASSUME NEW i \in 1 .. Len(h)
      PROVE  g[i] = h[i] \/ (h[i].kind = "calls" /\ g[i].kind = "elided")
  <2>1. g[i] = IF i <= ElisionBoundary(Len(h)) /\ h[i].kind = "calls"
                 THEN [h[i] EXCEPT !.kind = "elided"] ELSE h[i]
    BY DEF Elided
  <2>2. h[i].kind = "calls" => [h[i] EXCEPT !.kind = "elided"].kind = "elided"
    BY DEF Formed, Batch
  <2> QED BY <2>1, <2>2
<1> HIDE DEF g
<1>4. Len(g) = Len(h) /\ g \in Seq(Range(g))
  BY <1>1, <1>2 DEF Range
<1>5. \A i \in 1 .. Len(h) :
         /\ g[i].kind = "calls" => g[i] = h[i]
         /\ g[i].kind = "result" => g[i] = h[i]
         /\ h[i].kind \in {"result", "notice"} => g[i] = h[i]
  BY <1>3
<1>6. Formed(g)
  BY <1>4, <1>5 DEF Formed
<1>7. \A S : Untold(h, S) => Untold(g, S)
  BY <1>4, <1>5 DEF Untold
<1>8. Paired(g, {})
  <2> SUFFICES ASSUME NEW i \in 1 .. Len(g), g[i].kind = "calls", NEW c \in Range(g[i].calls)
               PROVE  AnsweredAt(g, i, c)
    BY DEF Paired
  <2>1. g[i] = h[i]
    BY <1>4, <1>5
  <2>2. PICK j \in i + 1 .. Len(h) :
           /\ h[j].kind = "result" /\ h[j].call = c
           /\ \A k \in i + 1 .. j - 1 : h[k].kind \in {"result", "notice"}
    <3>1. i \in 1 .. Len(h) /\ h[i].kind = "calls" /\ c \in Range(h[i].calls)
      BY <1>4, <2>1
    <3>2. AnsweredAt(h, i, c)
      BY <3>1 DEF Paired
    <3> QED BY <3>2 DEF AnsweredAt
  <2>3. j \in 1 .. Len(h) /\ \A k \in i + 1 .. j - 1 : k \in 1 .. Len(h)
    BY <1>1, <1>4
  <2> QED BY <1>4, <1>5, <2>2, <2>3 DEF AnsweredAt
<1> QED BY <1>6, <1>7, <1>8 DEF g

\* The cut of a compression is inside the history or at its end.
LEMMA CutIs ==
  ASSUME NEW h, Len(h) \in Nat
  PROVE  Widened(h, TurnBoundary(h)) \in 1 .. Len(h) + 1
<1> DEFINE users == {i \in 1 .. Len(h) : h[i].kind \in {"user", "notice"}}
           recent == {i \in users : Cardinality({j \in users : j >= i}) = Preserve}
           b == TurnBoundary(h)
           W == {i \in 1 .. b : \A j \in i .. b - 1 : h[j].kind \in Chain}
<1>1. b \in 1 .. Len(h) + 1
  <2>1. CASE recent = {}
    BY <2>1 DEF TurnBoundary
  <2>2. CASE recent # {}
    <3>1. recent \in SUBSET (1 .. Len(h))
      OBVIOUS
    <3>2. b = Max(recent)
      BY <2>2 DEF TurnBoundary
    <3> HIDE DEF recent, b
    <3>3. Max(recent) \in recent
      BY <2>2, <3>1, MaxIs
    <3>4. b \in 1 .. Len(h)
      BY <3>1, <3>2, <3>3
    <3> QED BY <3>4
  <2> QED BY <2>1, <2>2
<1>2. Widened(h, b) = Min(W)
  BY DEF Widened
<1> HIDE DEF b
<1>3. W \in SUBSET Nat /\ b \in W
  BY <1>1
<1>4. W \subseteq 1 .. b
  OBVIOUS
<1> HIDE DEF W
<1>5. Min(W) \in W
  BY <1>3, MinIs
<1>6. Widened(h, b) \in 1 .. Len(h) + 1
  <2>1. Widened(h, b) \in 1 .. b
    BY <1>2, <1>4, <1>5
  <2> QED BY <1>1, <2>1
<1> QED BY <1>6 DEF b

\* compressSelective, wherever it cuts.
LEMMA Shortened ==
  ASSUME NEW h, Formed(h), Paired(h, {})
  PROVE  /\ Formed(Selective(h)) /\ Paired(Selective(h), {})
         /\ \A S : Untold(h, S) => Untold(Selective(h), S)
<1> DEFINE m == Widened(h, TurnBoundary(h))
           g == SubSeq(h, m, Len(h))
           f == [a \in 1 .. Len(g) |-> a + m - 1]
<1>1. Len(h) \in Nat /\ h \in Seq(Range(h))
  BY DEF Formed
<1>2. m \in 1 .. Len(h) + 1
  BY <1>1, CutIs
<1> HIDE DEF m
<1>3. m - 1 <= Len(h)
  BY <1>1, <1>2
<1>4. /\ g \in Seq(Range(g)) /\ Len(g) = Len(h) - m + 1
      /\ \A a \in 1 .. Len(g) : a + m - 1 \in m .. Len(h) /\ g[a] = h[a + m - 1]
  BY <1>1, <1>2, <1>3, Slice
<1> HIDE DEF g
<1>5. f \in [1 .. Len(g) -> 1 .. Len(h)]
  BY <1>1, <1>2, <1>4
<1>6. /\ \A a, b \in 1 .. Len(g) : a < b => f[a] < f[b]
      /\ \A a \in 1 .. Len(g) : g[a] = h[f[a]]
  BY <1>2, <1>4
<1>7. ASSUME NEW a \in 1 .. Len(g), NEW j \in f[a] + 1 .. Len(h)
      PROVE  \E b \in 1 .. Len(g) : f[b] = j
  <2>1. j - m + 1 \in 1 .. Len(g) /\ (j - m + 1) + m - 1 = j
    BY <1>1, <1>2, <1>4
  <2> QED BY <2>1
<1> HIDE DEF f
<1>8. Formed(g) /\ Paired(g, {}) /\ \A S : Untold(h, S) => Untold(g, S)
  <2>1. PartOf(g, h, f)
    BY <1>4, <1>5, <1>6, <1>7 DEF PartOf
  <2> QED BY <2>1, Embedded
<1> QED BY <1>8 DEF g, m, Selective

\* overflowRecoveryInMemory.
LEMMA CompressedIs ==
  ASSUME NEW h, Formed(h), Paired(h, {})
  PROVE  /\ Formed(Compressed(h)) /\ Paired(Compressed(h), {})
         /\ \A S : Untold(h, S) => Untold(Compressed(h), S)
BY ElidedIs, Shortened DEF Compressed

-----------------------------------------------------------------------------
(* The history through the steps of a turn *)

\* The beginning of the turn is where it was, until a context is too long.
Keeps ==
  ghost'.overflows = 0 =>
    /\ ghost.overflows = 0 /\ turn.start <= Len(history')
    /\ \A i \in 1 .. turn.start : history'[i] = history[i]

\* The calls of the batch that is being recorded.
Pending == IF pc = "tools" THEN Range(buf.batch) ELSE {}

\* What a step in a turn has to show.
LEMMA Moved ==
  ASSUME HistInv, pc # "idle", turn'.start = turn.start,
         Batched', Formed(history'), Paired(history', Pending'),
         Untold(history', Untried'), Keeps,
         pc' = "idle" => Lasting(history', Len(history'))
  PROVE  HistInv'
<1>1. Started'
  <2>1. turn'.start \in Nat
    BY DEF HistInv, Started
  <2>2. ASSUME ghost'.overflows = 0
        PROVE  turn'.start <= Len(history') /\ Lasting(history', turn'.start)
    BY <2>2 DEF HistInv, Started, Keeps, Lasting
  <2> QED BY <2>1, <2>2 DEF Started
<1> QED BY <1>1 DEF HistInv, Pending

\* Results not told of some calls are not told of fewer.
LEMMA Fewer ==
  ASSUME NEW h, NEW S, Untold(h, S), NEW T, T \subseteq S
  PROVE  Untold(h, T)
BY DEF Untold

\* A history that only grows keeps its beginning.
LEMMA Grows ==
  ASSUME HistInv, pc # "idle", ghost'.overflows = 0 => ghost.overflows = 0,
         Formed(history'), Len(history) <= Len(history'),
         \A i \in 1 .. Len(history) : history'[i] = history[i]
  PROVE  Keeps
<1> SUFFICES ASSUME ghost'.overflows = 0
             PROVE  /\ turn.start <= Len(history')
                    /\ \A i \in 1 .. turn.start : history'[i] = history[i]
  BY DEF Keeps
<1>1. turn.start \in Nat /\ turn.start <= Len(history)
  BY DEF HistInv, Started
<1>2. Len(history) \in Nat /\ Len(history') \in Nat
  BY DEF HistInv, Formed
<1> QED BY <1>1, <1>2

\* A turn that goes on with the same history and the same batch or none.
LEMMA Stays ==
  ASSUME HistInv, pc \notin {"idle", "tools"}, pc' \notin {"idle", "tools"},
         history' = history, turn'.start = turn.start,
         ghost'.overflows = 0 => ghost.overflows = 0,
         ghost'.streamed = ghost.streamed, buf'.batch \in {buf.batch, <<>>}
  PROVE  HistInv' /\ Keeps
<1>1. Batched' /\ Untried' \subseteq Untried
  <2>1. CASE buf'.batch = buf.batch
    BY <2>1 DEF HistInv, Batched, Untried
  <2>2. CASE buf'.batch = <<>>
    BY <2>2 DEF HistInv, Batched, Untried, Range
  <2> QED BY <2>1, <2>2
<1>2. Formed(history') /\ Paired(history', Pending') /\ Untold(history', Untried')
  BY <1>1, Fewer DEF HistInv, Pending
<1>3. Keeps
  <2>1. Len(history) <= Len(history')
    BY DEF HistInv, Formed
  <2> QED BY <1>2, <2>1, Grows
<1> QED BY <1>1, <1>2, <1>3, Moved

\* A turn that goes on with more of a history than before, and no batch to record.
LEMMA Longer ==
  ASSUME HistInv, pc \notin {"idle", "tools"}, pc' \notin {"idle", "tools"},
         Formed(history'), Paired(history', {}), Untold(history', Untried),
         Len(history) <= Len(history'),
         \A i \in 1 .. Len(history) : history'[i] = history[i],
         turn'.start = turn.start, ghost'.overflows = 0 => ghost.overflows = 0,
         ghost'.streamed = ghost.streamed, buf'.batch = buf.batch
  PROVE  HistInv' /\ Keeps
<1>1. Batched' /\ Untried' = Untried
  BY DEF HistInv, Batched, Untried
<1>2. Paired(history', Pending') /\ Untold(history', Untried')
  BY <1>1 DEF Pending
<1>3. Keeps
  BY Grows
<1> QED BY <1>1, <1>2, <1>3, Moved

\* The turn ends on a history that is not shorter.
LEMMA Returns ==
  ASSUME HistInv, pc \notin {"idle", "tools"}, NEW h, Return(h),
         Formed(h), Paired(h, {}), Untold(h, Untried), Len(history) <= Len(h),
         \A i \in 1 .. Len(history) : h[i] = history[i],
         turn'.start = turn.start, ghost'.overflows = 0 => ghost.overflows = 0,
         ghost'.streamed = ghost.streamed, buf'.batch \in {buf.batch, <<>>}
  PROVE  HistInv' /\ Keeps
<1>1. Batched' /\ Untried' \subseteq Untried /\ pc' = "idle" /\ history' = Strip(h)
  <2>1. CASE buf'.batch = buf.batch
    BY <2>1 DEF HistInv, Batched, Untried, Return
  <2>2. CASE buf'.batch = <<>>
    BY <2>2 DEF HistInv, Batched, Untried, Return, Range
  <2> QED BY <2>1, <2>2
<1>2. /\ Formed(history') /\ Paired(history', {}) /\ Untold(history', Untried)
      /\ Lasting(history', Len(history'))
  BY <1>1, Stripped
<1>3. Keeps
  <2> SUFFICES ASSUME ghost'.overflows = 0
               PROVE  /\ turn.start <= Len(history')
                      /\ \A i \in 1 .. turn.start : history'[i] = history[i]
    BY DEF Keeps
  <2>1. turn.start \in Nat /\ turn.start <= Len(history) /\ Lasting(history, turn.start)
    BY DEF HistInv, Started
  <2>2. Len(history) \in Nat /\ Len(h) \in Nat
    BY DEF HistInv, Formed
  <2>3. turn.start \in 0 .. Len(h) /\ \A i \in 1 .. turn.start : h[i] = history[i]
    BY <2>1, <2>2
  <2>4. Lasting(h, turn.start)
    BY <2>1, <2>3 DEF Lasting
  <2> QED BY <1>1, <2>3, <2>4, Stripped
<1>4. Paired(history', Pending') /\ Untold(history', Untried')
  BY <1>1, <1>2, Fewer DEF Pending
<1> QED BY <1>1, <1>2, <1>3, <1>4, Moved

\* A failure undoes the last round, of the history as it is or compressed.
LEMMA FailUndoes ==
  ASSUME IInv, HistInv, NEW why, NEW said, Fail(why, said), pc \notin {"idle", "tools"},
         why = "overflow" \/ said = history,
         Formed(said), Paired(said, {}), Untold(said, Untried)
  PROVE  HistInv' /\ Keeps
<1>1. /\ buf' = EmptyBuf /\ pc' \in {"backoff", "idle"}
      /\ ghost' = [ghost EXCEPT !.overflows = @ + (IF why = "overflow" THEN 1 ELSE 0)]
      /\ history' = IF pc' = "idle" THEN Strip(Undo(said)) ELSE Undo(said)
  BY DEF Fail, ResetBuf, Overflows, Return
<1>2. turn'.start = turn.start
  <2>1. \/ turn' = [turn EXCEPT !.mode = "retry", !.attempt = 0,
                                !.overflowTried = @ \/ why = "overflow"]
        \/ turn' = [turn EXCEPT !.attempt = @ + 1]
        \/ turn' = turn
    BY DEF Fail, NextAttempt, Return
  <2> QED BY <2>1 DEF IInv, Shapes
<1>3. /\ ghost'.streamed = ghost.streamed /\ ghost.overflows \in Nat
      /\ ghost'.overflows = ghost.overflows + (IF why = "overflow" THEN 1 ELSE 0)
  BY <1>1 DEF IInv, Shapes
<1>4. ghost'.overflows = 0 => ghost.overflows = 0 /\ said = history
  BY <1>3
<1>5. Batched' /\ Untried' \subseteq Untried
  <2>1. buf'.batch = <<>>
    BY <1>1 DEF EmptyBuf
  <2> QED BY <1>1, <1>3, <2>1 DEF HistInv, Batched, Untried, Range
<1> DEFINE u == Undo(said)
<1>6. turn.start \in Nat
  BY DEF HistInv, Started
<1>7. /\ Formed(u) /\ Paired(u, {}) /\ Untold(u, Untried)
      /\ Len(u) \in Nat /\ (turn.start <= Len(said) => turn.start <= Len(u))
      /\ Len(u) <= Len(said) /\ \A i \in 1 .. Len(u) : u[i] = said[i]
  BY <1>6, Undone
<1> HIDE DEF u
<1>8. /\ Formed(history') /\ Paired(history', {}) /\ Untold(history', Untried)
      /\ pc' = "idle" => Lasting(history', Len(history'))
  <2>1. /\ Formed(Strip(u)) /\ Paired(Strip(u), {}) /\ Untold(Strip(u), Untried)
        /\ Lasting(Strip(u), Len(Strip(u)))
    BY <1>7, Stripped
  <2> QED BY <1>1, <1>7, <2>1 DEF u
<1>9. Keeps
  <2> SUFFICES ASSUME ghost'.overflows = 0
               PROVE  /\ turn.start <= Len(history')
                      /\ \A i \in 1 .. turn.start : history'[i] = history[i]
    BY <1>4 DEF Keeps
  <2>1. said = history /\ turn.start <= Len(history) /\ Lasting(history, turn.start)
    BY <1>4 DEF HistInv, Started
  <2>2. turn.start <= Len(u) /\ \A i \in 1 .. turn.start : u[i] = history[i]
    BY <1>6, <1>7, <2>1
  <2>3. Lasting(u, turn.start)
    BY <2>1, <2>2 DEF Lasting
  <2>4. turn.start \in 0 .. Len(u)
    BY <1>6, <1>7, <2>2
  <2>5. /\ turn.start <= Len(Strip(u))
        /\ \A i \in 1 .. turn.start : Strip(u)[i] = u[i]
    BY <1>7, <2>3, <2>4, Stripped
  <2> QED BY <1>1, <2>2, <2>5 DEF u
<1>10. Paired(history', Pending') /\ Untold(history', Untried')
  BY <1>1, <1>5, <1>8, Fewer DEF Pending
<1> QED BY <1>2, <1>5, <1>8, <1>9, <1>10, Moved

-----------------------------------------------------------------------------
(* One lemma for each action *)

\* What is said outside the recording of a batch.
LEMMA Spoken ==
  ASSUME HistInv, pc # "tools", NEW kind, kind \notin {"calls", "result"}
  PROVE  LET g == Append(history, Message(kind))
         IN  /\ Formed(g) /\ Paired(g, {}) /\ Untold(g, Untried)
             /\ Len(history) \in Nat /\ Len(history) <= Len(g)
             /\ Len(g) = Len(history) + 1 /\ g[Len(g)] = Message(kind)
             /\ \A i \in 1 .. Len(history) : g[i] = history[i]
<1> DEFINE g == Append(history, Message(kind))
<1>1. Formed(history) /\ Paired(history, {}) /\ Untold(history, Untried)
  BY DEF HistInv
<1>2. Formed(g) /\ Paired(g, {}) /\ Untold(g, Untried)
  BY <1>1, Said
<1>3. /\ Len(history) \in Nat /\ Len(g) = Len(history) + 1
      /\ g[Len(history) + 1] = Message(kind)
      /\ \A i \in 1 .. Len(history) : g[i] = history[i]
  BY <1>1, Appended DEF Formed
<1> HIDE DEF g
<1>4. Len(history) <= Len(g) /\ g[Len(g)] = Message(kind)
  BY <1>3
<1> QED BY <1>2, <1>3, <1>4 DEF g

\* A turn begins where the history ends.
LEMMA SubmitTold == ASSUME IInv, HistInv, Submit PROVE HistInv'
<1>1. /\ pc = "idle" /\ pc' = "round" /\ history' = Append(history, Message("user"))
      /\ turn'.start = Len(history') /\ buf'.batch = <<>>
      /\ ghost'.streamed = ghost.streamed
  BY DEF Submit, NewTurn, EmptyBuf, IInv, Shapes
<1>2. /\ Formed(history') /\ Paired(history', {}) /\ Untold(history', Untried)
      /\ Len(history) \in Nat /\ Len(history') = Len(history) + 1
      /\ history'[Len(history')] = Message("user")
      /\ \A i \in 1 .. Len(history) : history'[i] = history[i]
  BY <1>1, Spoken
<1>3. Batched' /\ Untried' \subseteq Untried
  BY <1>1 DEF HistInv, Batched, Untried, Range
<1>4. Started'
  <2>1. Lasting(history, Len(history))
    BY <1>1 DEF HistInv, Started
  <2>2. ASSUME NEW i \in 1 .. Len(history') PROVE history'[i].kind # "note"
    <3>1. i \in 1 .. Len(history) \/ i = Len(history')
      BY <1>2
    <3> QED BY <1>2, <2>1, <3>1 DEF Lasting, Message
  <2> QED BY <1>1, <1>2, <2>2 DEF Started, Lasting
<1>5. Untold(history', Untried')
  BY <1>2, <1>3, Fewer
<1> QED BY <1>1, <1>2, <1>3, <1>4, <1>5 DEF HistInv

\* A stream opens.
LEMMA OpensTold ==
  ASSUME IInv, HistInv, pc \notin {"idle", "tools"}, NEW b, b \in {buf, EmptyBuf}, Opens(b),
         turn' = turn, ghost' = ghost
  PROVE  HistInv' /\ Keeps
<1>1. buf'.batch \in {buf.batch, <<>>}
  <2>1. CASE b = buf
    BY <2>1 DEF Opens, IInv, Shapes
  <2>2. CASE b = EmptyBuf
    BY <2>2 DEF Opens, EmptyBuf
  <2> QED BY <2>1, <2>2
<1>2. pc' = "streaming" /\ history' = history
  BY DEF Opens
<1> QED BY <1>1, <1>2, Stays

\* A recovery begins.
LEMMA RecoverTold ==
  ASSUME HistInv, pc \notin {"idle", "tools"}, Recover,
         turn'.start = turn.start, buf' = buf, ghost' = ghost
  PROVE  HistInv' /\ Keeps
<1>1. history' = Append(history, Message("note")) /\ pc' = "recovery"
  BY DEF Recover
<1>2. /\ Formed(history') /\ Paired(history', {}) /\ Untold(history', Untried)
      /\ Len(history) <= Len(history')
      /\ \A i \in 1 .. Len(history) : history'[i] = history[i]
  BY <1>1, Spoken
<1> QED BY <1>1, <1>2, Longer

\* The turn returns with the history as it is.
LEMMA ReturnTold ==
  ASSUME IInv, HistInv, pc \notin {"idle", "tools"}, Return(history), turn' = turn, buf' = buf,
         ghost' = ghost \/ \E n \in {0, 1} : Overflows(n)
  PROVE  HistInv' /\ Keeps
<1>1. ghost'.streamed = ghost.streamed /\ (ghost'.overflows = 0 => ghost.overflows = 0)
  BY DEF Overflows, IInv, Shapes
<1>2. Formed(history) /\ Paired(history, {}) /\ Untold(history, Untried)
  BY DEF HistInv
<1>3. Len(history) <= Len(history)
  BY <1>2 DEF Formed
<1> QED BY <1>1, <1>2, <1>3, Returns

\* The top of the loop: the end, recovery, a stream, or a failure to open it.
LEMMA RoundTold == ASSUME IInv, HistInv, Round PROVE HistInv' /\ Keeps
<1>1. pc = "round"
  BY DEF Round
<1>2. CASE Return(history) /\ UNCHANGED <<turn, buf, ghost>>
  BY <1>1, <1>2, ReturnTold
<1>3. CASE Recover /\ turn' = [turn EXCEPT !.mode = "recovery", !.recovering = 1]
           /\ UNCHANGED <<buf, ghost>>
  <2>1. turn'.start = turn.start
    BY <1>3 DEF IInv, Shapes
  <2> QED BY <1>1, <1>3, <2>1, RecoverTold
<1>4. CASE Opens(IF turn.round > 0 THEN ResetBuf ELSE buf) /\ UNCHANGED <<turn, ghost>>
  BY <1>1, <1>4, OpensTold DEF ResetBuf
<1>5. ASSUME NEW why \in Failures, Fail(why, history) PROVE HistInv' /\ Keeps
  <2>1. Formed(history) /\ Paired(history, {}) /\ Untold(history, Untried)
    BY <1>1 DEF HistInv
  <2> QED BY <1>1, <1>5, <2>1, FailUndoes
<1> QED BY <1>2, <1>3, <1>4, <1>5 DEF Round

\* A recovery round opens its stream or ends the turn.
LEMMA RecoveryRoundTold == ASSUME IInv, HistInv, RecoveryRound PROVE HistInv' /\ Keeps
<1>1. pc = "recovery" /\ turn' = turn
  BY DEF RecoveryRound
<1> QED BY <1>1, OpensTold, ReturnTold DEF RecoveryRound

\* The stream of a retry, its next attempt, or its end.
LEMMA RetryAttemptTold == ASSUME IInv, HistInv, RetryAttempt PROVE HistInv' /\ Keeps
<1>1. pc = "backoff"
  BY DEF RetryAttempt
<1>2. CASE Opens(buf) /\ UNCHANGED <<turn, ghost>>
  BY <1>1, <1>2, OpensTold
<1>3. CASE turn' = NextAttempt /\ UNCHANGED <<pc, history, buf, ghost>>
  <2>1. turn'.start = turn.start
    BY <1>3 DEF NextAttempt, IInv, Shapes
  <2> QED BY <1>1, <1>3, <2>1, Stays
<1>4. CASE Return(history) /\ (\E n \in {0, 1} : Overflows(n)) /\ UNCHANGED <<turn, buf>>
  BY <1>1, <1>4, ReturnTold
<1> QED BY <1>2, <1>3, <1>4 DEF RetryAttempt

\* Text and reasoning leave the history.
LEMMA WordsTold == ASSUME IInv, HistInv, Text \/ Thinking PROVE HistInv' /\ Keeps
<1>1. /\ pc = "streaming" /\ pc' = pc /\ history' = history /\ ghost' = ghost
      /\ turn' = [turn EXCEPT !.reasoned = TRUE]
      /\ \/ \E text : buf' = [buf EXCEPT !.text = text, !.seen = TRUE]
         \/ buf' = [buf EXCEPT !.text = "open", !.loop = TRUE, !.seen = TRUE]
  BY DEF Text, Thinking
<1>2. turn'.start = turn.start /\ buf'.batch = buf.batch
  BY <1>1 DEF IInv, Shapes
<1> QED BY <1>1, <1>2, Stays

\* A call streamed has no result yet.
LEMMA CallTold ==
  ASSUME IInv, HistInv, NEW c \in Calls, Call(c)
  PROVE  HistInv' /\ Keeps
<1>1. /\ pc = "streaming" /\ pc' = pc /\ history' = history /\ turn' = turn
      /\ c \notin ghost.streamed
      /\ buf'.batch = Append(buf.batch, c) /\ ghost'.streamed = ghost.streamed \cup {c}
      /\ ghost'.overflows = ghost.overflows
  BY DEF Call, IInv, Shapes
<1>2. buf.batch \in Seq(Calls) /\ Range(buf.batch) \subseteq ghost.streamed
  BY DEF HistInv, Batched
<1>3. /\ buf'.batch \in Seq(Calls) /\ Len(buf.batch) \in Nat
      /\ Len(buf'.batch) = Len(buf.batch) + 1 /\ buf'.batch[Len(buf.batch) + 1] = c
      /\ \A a \in 1 .. Len(buf.batch) : buf'.batch[a] = buf.batch[a]
  BY <1>1, <1>2
<1>4. \A a \in 1 .. Len(buf'.batch) : a \in 1 .. Len(buf.batch) \/ a = Len(buf.batch) + 1
  BY <1>3
<1>5. \A a \in 1 .. Len(buf.batch) : buf.batch[a] \in ghost.streamed
  BY <1>2 DEF Range
<1>6. Range(buf'.batch) \subseteq Range(buf.batch) \cup {c}
  BY <1>2, <1>3, <1>4 DEF Range
<1>7. Batched'
  <2>1. \A a, b \in 1 .. Len(buf'.batch) : buf'.batch[a] = buf'.batch[b] => a = b
    <3>1. \A a, b \in 1 .. Len(buf.batch) : buf.batch[a] = buf.batch[b] => a = b
      BY DEF HistInv, Batched
    <3> QED BY <1>1, <1>3, <1>4, <1>5, <3>1
  <2> QED BY <1>1, <1>2, <1>3, <1>6, <2>1 DEF Batched
<1>8. Untried' \subseteq Untried
  BY <1>1, <1>6 DEF Untried
<1>9. Formed(history') /\ Paired(history', Pending') /\ Untold(history', Untried')
  BY <1>1, <1>8, Fewer DEF HistInv, Pending
<1>10. Keeps
  <2>1. Len(history) <= Len(history')
    BY <1>1 DEF HistInv, Formed
  <2> QED BY <1>1, <1>9, <2>1, Grows
<1> QED BY <1>1, <1>7, <1>9, <1>10, Moved

\* The calls of a stream are recorded and run.
LEMMA CallsTold ==
  ASSUME IInv, HistInv, pc \notin {"idle", "tools"}, NEW h, NEW how, RunCalls(h, how),
         Formed(h), Paired(h, {}), Untold(h, Untried), Len(history) <= Len(h),
         \A i \in 1 .. Len(history) : h[i] = history[i],
         turn' = turn, buf.batch # <<>>, buf'.batch = buf.batch
  PROVE  HistInv' /\ Keeps
<1>1. /\ pc' = "tools" /\ history' = Append(h, Batch(buf.batch))
      /\ ghost'.streamed = ghost.streamed /\ ghost'.overflows = ghost.overflows
  BY DEF RunCalls, IInv, Shapes
<1>2. Batched' /\ Untried' = Untried /\ Pending' = Range(buf.batch)
  BY <1>1 DEF HistInv, Batched, Untried, Pending
<1>3. Formed(history') /\ Paired(history', Pending') /\ Untold(history', Untried')
  BY <1>1, <1>2, Asked
<1>4. /\ Len(h) \in Nat /\ Len(history') = Len(h) + 1
      /\ \A i \in 1 .. Len(h) : history'[i] = h[i]
  BY <1>1, Appended DEF Formed
<1>5. Len(history) \in Nat
  BY DEF HistInv, Formed
<1>6. Len(history) <= Len(history') /\ \A i \in 1 .. Len(history) : history'[i] = history[i]
  BY <1>4, <1>5
<1>7. Keeps
  BY <1>1, <1>3, <1>6, Grows
<1> QED BY <1>1, <1>2, <1>3, <1>7, Moved

\* A stream that ends with a reply.
LEMMA CompleteTold ==
  ASSUME IInv, HistInv, pc = "streaming", NEW how, Complete(how),
         buf' = buf \/ buf' = [buf EXCEPT !.term = TRUE]
  PROVE  HistInv' /\ Keeps
<1>1. buf'.batch = buf.batch
  BY DEF IInv, Shapes
<1>2. CASE buf.batch # <<>> /\ RunCalls(history, how) /\ UNCHANGED turn
  <2>1. Formed(history) /\ Paired(history, {}) /\ Untold(history, Untried)
    BY DEF HistInv
  <2>2. Len(history) <= Len(history)
    BY <2>1 DEF Formed
  <2> QED BY <1>1, <1>2, <2>1, <2>2, CallsTold
<1>3. CASE /\ history' = Append(history, Message("note"))
           /\ turn' = [turn EXCEPT !.auto = @ + 1] /\ pc' = "more" /\ UNCHANGED ghost
  <2>1. turn'.start = turn.start
    BY <1>3 DEF IInv, Shapes
  <2>2. /\ Formed(history') /\ Paired(history', {}) /\ Untold(history', Untried)
        /\ Len(history) <= Len(history')
        /\ \A i \in 1 .. Len(history) : history'[i] = history[i]
    BY <1>3, Spoken
  <2> QED BY <1>1, <1>3, <2>1, <2>2, Longer
<1>4. CASE Finalize(how)
  <2> DEFINE h == Append(history, Message("answer"))
  <2>1. /\ Formed(h) /\ Paired(h, {}) /\ Untold(h, Untried) /\ Len(history) <= Len(h)
        /\ \A i \in 1 .. Len(history) : h[i] = history[i]
    BY Spoken
  <2>2. /\ Return(h) /\ turn' = turn /\ ghost'.streamed = ghost.streamed
        /\ ghost'.overflows = ghost.overflows
    BY <1>4 DEF Finalize, IInv, Shapes
  <2> HIDE DEF h
  <2> QED BY <1>1, <2>1, <2>2, Returns
<1> QED BY <1>2, <1>3, <1>4 DEF Complete

\* A stream ends, and its calls run, or fails, and its round is undone.
LEMMA EndTold == ASSUME IInv, HistInv, StreamEnds PROVE HistInv' /\ Keeps
<1>1. pc = "streaming"
  BY DEF StreamEnds, Done, Eof, Stall, StreamFails, Strike
<1>2. Formed(history) /\ Paired(history, {}) /\ Untold(history, Untried)
  BY <1>1 DEF HistInv
<1>3. ASSUME NEW why, Fail(why, history) PROVE HistInv' /\ Keeps
  BY <1>1, <1>2, <1>3, FailUndoes
<1>4. ASSUME NEW how, Ended(how) PROVE HistInv' /\ Keeps
  BY <1>1, <1>3, <1>4, CompleteTold DEF Ended
<1>5. CASE Done
  BY <1>1, <1>5, CompleteTold DEF Done
<1>6. CASE Eof
  BY <1>4, <1>6 DEF Eof
<1>7. CASE Stall
  BY <1>3, <1>4, <1>7 DEF Stall
<1>8. CASE StreamFails
  <2>1. ASSUME Fail("overflow", Compressed(history)) PROVE HistInv' /\ Keeps
    <3>1. /\ Formed(Compressed(history)) /\ Paired(Compressed(history), {})
          /\ Untold(Compressed(history), Untried)
      BY <1>2, CompressedIs
    <3> QED BY <1>1, <2>1, <3>1, FailUndoes
  <2> QED BY <1>3, <1>8, <2>1 DEF StreamFails
<1>9. CASE Strike
  <2> DEFINE h == Append(history, Message("note"))
  <2>1. CASE Fail("fatal", history)
    BY <1>3, <2>1
  <2>2. CASE /\ buf' = [buf EXCEPT !.loop = FALSE, !.struck = TRUE] /\ turn' = turn
             /\ \/ buf.batch # <<>> /\ RunCalls(h, "strike")
                \/ history' = h /\ pc' = "more" /\ ghost' = ghost
    <3>1. /\ Formed(h) /\ Paired(h, {}) /\ Untold(h, Untried) /\ Len(history) <= Len(h)
          /\ \A i \in 1 .. Len(history) : h[i] = history[i]
      BY <1>1, Spoken
    <3>2. buf'.batch = buf.batch
      BY <2>2 DEF IInv, Shapes
    <3> HIDE DEF h
    <3>3. CASE buf.batch # <<>> /\ RunCalls(h, "strike")
      BY <1>1, <2>2, <3>1, <3>2, <3>3, CallsTold
    <3>4. CASE history' = h /\ pc' = "more" /\ ghost' = ghost
      BY <1>1, <2>2, <3>1, <3>2, <3>4, Longer
    <3> QED BY <2>2, <3>3, <3>4
  <2> QED BY <1>9, <2>1, <2>2 DEF Strike
<1> QED BY <1>5, <1>6, <1>7, <1>8, <1>9 DEF StreamEnds

\* The first of a sequence of distinct things and the others.
LEMMA FirstOf ==
  ASSUME NEW S, NEW b \in Seq(S), b # <<>>,
         \A i, j \in 1 .. Len(b) : b[i] = b[j] => i = j
  PROVE  /\ Tail(b) \in Seq(S) /\ Head(b) \in Range(b)
         /\ Range(Tail(b)) = Range(b) \ {Head(b)}
         /\ \A i, j \in 1 .. Len(Tail(b)) : Tail(b)[i] = Tail(b)[j] => i = j
         /\ Len(b) > 1 => Tail(b) # <<>>
         /\ ~(Len(b) > 1) => Range(b) = {Head(b)}
<1>1. /\ Len(b) \in Nat /\ Len(b) # 0 /\ Head(b) = b[1]
      /\ Tail(b) \in Seq(S) /\ Len(Tail(b)) = Len(b) - 1
      /\ \A i \in 1 .. Len(Tail(b)) : Tail(b)[i] = b[i + 1]
  BY HeadTailProperties
<1>2. \A i \in 1 .. Len(Tail(b)) : i + 1 \in 1 .. Len(b) /\ i + 1 # 1
  BY <1>1
<1>3. \A i \in 1 .. Len(b) : i = 1 \/ (i - 1 \in 1 .. Len(Tail(b)) /\ (i - 1) + 1 = i)
  BY <1>1
<1>4. 1 \in 1 .. Len(b) /\ Head(b) \in Range(b)
  BY <1>1 DEF Range
<1>5. Range(Tail(b)) = Range(b) \ {Head(b)}
  <2>1. ASSUME NEW x \in Range(Tail(b)) PROVE x \in Range(b) /\ x # Head(b)
    <3>1. PICK i \in 1 .. Len(Tail(b)) : x = b[i + 1]
      BY <1>1 DEF Range
    <3> QED BY <1>1, <1>2, <1>4, <3>1 DEF Range
  <2>2. ASSUME NEW x \in Range(b), x # Head(b) PROVE x \in Range(Tail(b))
    <3>1. PICK i \in 1 .. Len(b) : x = b[i]
      BY DEF Range
    <3>2. i - 1 \in 1 .. Len(Tail(b)) /\ (i - 1) + 1 = i
      BY <1>1, <1>3, <2>2, <3>1
    <3>3. Tail(b)[i - 1] = x
      BY <1>1, <3>1, <3>2
    <3>4. i - 1 \in DOMAIN Tail(b)
      BY <1>1, <3>2
    <3> QED BY <3>3, <3>4 DEF Range
  <2> QED BY <2>1, <2>2
<1>6. \A i, j \in 1 .. Len(Tail(b)) : Tail(b)[i] = Tail(b)[j] => i = j
  <2> SUFFICES ASSUME NEW i \in 1 .. Len(Tail(b)), NEW j \in 1 .. Len(Tail(b)),
                      Tail(b)[i] = Tail(b)[j]
               PROVE  i = j
    OBVIOUS
  <2>1. b[i + 1] = b[j + 1]
    BY <1>1
  <2>2. i + 1 = j + 1
    BY <1>2, <2>1
  <2> QED BY <1>1, <2>2
<1>7. Len(b) > 1 => Tail(b) # <<>>
  BY <1>1
<1>8. ASSUME ~(Len(b) > 1) PROVE Range(b) = {Head(b)}
  <2>1. \A i \in 1 .. Len(b) : i = 1
    BY <1>1, <1>8
  <2> QED BY <1>1, <1>4, <2>1 DEF Range
<1> QED BY <1>1, <1>4, <1>5, <1>6, <1>7, <1>8

\* A result answers the first call of the batch that has none.
LEMMA ResultTold == ASSUME IInv, HistInv, AppendResult PROVE HistInv' /\ Keeps
<1> DEFINE b == buf.batch
           c == Head(buf.batch)
<1>1. /\ pc = "tools" /\ history' = Append(history, Result(c))
      /\ \/ Len(b) > 1 /\ pc' = pc /\ buf' = [buf EXCEPT !.batch = Tail(b)]
         \/ ~(Len(b) > 1) /\ pc' = "more" /\ buf' = [buf EXCEPT !.batch = <<>>, !.text = "none"]
      /\ turn' = turn \/ \E x : turn' = [turn EXCEPT !.hadTools = x]
      /\ ghost' = ghost \/ ghost' = [ghost EXCEPT !.source = NoSource]
  BY DEF AppendResult
<1>2. /\ turn'.start = turn.start /\ ghost'.streamed = ghost.streamed
      /\ ghost'.overflows = ghost.overflows
      /\ \/ Len(b) > 1 /\ buf'.batch = Tail(b)
         \/ ~(Len(b) > 1) /\ buf'.batch = <<>>
  BY <1>1 DEF IInv, Shapes
<1>3. /\ b \in Seq(Calls) /\ b # <<>> /\ Range(b) \subseteq ghost.streamed
      /\ \A i, j \in 1 .. Len(b) : b[i] = b[j] => i = j
      /\ Formed(history) /\ Paired(history, Range(b)) /\ Untold(history, Untried)
  BY <1>1 DEF HistInv, Batched
<1>4. /\ Tail(b) \in Seq(Calls) /\ c \in Range(b) /\ Range(Tail(b)) = Range(b) \ {c}
      /\ \A i, j \in 1 .. Len(Tail(b)) : Tail(b)[i] = Tail(b)[j] => i = j
      /\ Len(b) > 1 => Tail(b) # <<>>
      /\ ~(Len(b) > 1) => Range(b) = {c}
  BY <1>3, FirstOf
<1>5. /\ <<>> \in Seq(Calls) /\ Range(<<>>) = {} /\ Len(<<>>) = 0
  BY DEF Range
<1> HIDE DEF b, c
<1>6. Range(buf'.batch) = Range(b) \ {c} /\ Pending' = Range(b) \ {c}
  BY <1>1, <1>2, <1>4, <1>5 DEF Pending
<1>7. Batched'
  <2>1. Range(buf'.batch) \subseteq ghost'.streamed
    BY <1>2, <1>3, <1>6
  <2>2. CASE Len(b) > 1 /\ pc' = pc /\ buf'.batch = Tail(b)
    BY <1>4, <2>1, <2>2 DEF Batched
  <2>3. CASE ~(Len(b) > 1) /\ pc' = "more" /\ buf'.batch = <<>>
    <3>1. buf'.batch \in Seq(Calls) /\ Len(buf'.batch) = 0
      BY <2>3
    <3> QED BY <2>1, <2>3, <3>1 DEF Batched
  <2> QED BY <1>1, <1>2, <2>2, <2>3
<1>8. Untried' \subseteq Untried /\ c \notin Untried' /\ c \in Untried
  BY <1>2, <1>3, <1>4, <1>6 DEF Untried, b
<1>9. Untold(history, {c}) /\ Untold(history, Untried')
  BY <1>3, <1>8, Fewer
<1>10. /\ Formed(history') /\ Paired(history', Range(b) \ {c})
       /\ Untold(history', Untried')
  BY <1>1, <1>3, <1>4, <1>8, <1>9, Told
<1>11. /\ Len(history) \in Nat /\ Len(history') = Len(history) + 1
       /\ \A i \in 1 .. Len(history) : history'[i] = history[i]
  BY <1>1, <1>3, Appended DEF Formed
<1>12. Keeps
  <2>1. Len(history) <= Len(history')
    BY <1>11
  <2> QED BY <1>1, <1>2, <1>10, <1>11, <2>1, Grows
<1>13. Paired(history', Pending') /\ (pc' # "idle")
  BY <1>1, <1>6, <1>10
<1> QED BY <1>1, <1>2, <1>7, <1>10, <1>12, <1>13, Moved

\* The next round begins with what the parent has queued.
LEMMA NextTold ==
  ASSUME HistInv, pc \notin {"idle", "tools"}, NextRound, turn'.start = turn.start,
         ghost' = ghost, buf' = buf
  PROVE  HistInv' /\ Keeps
<1>1. PICK texts \in Nat : history' = history \o [i \in 1 .. texts |-> Message("user")]
  <2>1. PICK texts \in 0 .. MaxSteers - outside.steers :
           history' = history \o [i \in 1 .. texts |-> Message("user")]
    BY DEF NextRound
  <2> DEFINE x == MaxSteers - outside.steers
  <2>2. texts \in 0 .. x
    OBVIOUS
  <2> HIDE DEF x
  <2>3. texts \in Nat
    BY <2>2
  <2> QED BY <2>1, <2>3
<1> DEFINE u == [i \in 1 .. texts |-> Message("user")]
           S == Range(history) \cup {Message("user")}
<1>2. Formed(history) /\ Paired(history, {}) /\ Untold(history, Untried) /\ pc' = "round"
  BY DEF HistInv, NextRound
<1>3. /\ history \in Seq(S) /\ u \in Seq(S) /\ Len(u) = texts
      /\ \A i \in 1 .. texts : u[i] = Message("user")
  BY <1>2 DEF Formed
<1> HIDE DEF S, u
<1>4. history' = history \o u
  BY <1>1 DEF u
<1>5. /\ Len(history) \in Nat /\ history' \in Seq(S) /\ Len(history') = Len(history) + texts
      /\ \A i \in 1 .. Len(history) : history'[i] = history[i]
      /\ \A i \in Len(history) + 1 .. Len(history') : history'[i] = u[i - Len(history)]
  <2>1. Len(history) \in Nat /\ Len(u) \in Nat
    BY <1>1, <1>3
  <2>2. /\ history' \in Seq(S) /\ Len(history') = Len(history) + Len(u)
        /\ \A i \in 1 .. Len(history) + Len(u) :
             history'[i] = IF i <= Len(history) THEN history[i] ELSE u[i - Len(history)]
    BY <1>3, <1>4, ConcatProperties
  <2> QED BY <1>3, <2>1, <2>2
<1>6. \A i \in Len(history) + 1 .. Len(history') : i - Len(history) \in 1 .. texts
  BY <1>5
<1>7. \A i \in Len(history) + 1 .. Len(history') : history'[i].kind = "user"
  BY <1>3, <1>5, <1>6 DEF Message
<1>8. Len(history) <= Len(history') /\ history' \in Seq(Range(history'))
  BY <1>5, OwnRange
<1>9. Formed(history') /\ Paired(history', {}) /\ Untold(history', Untried)
  BY <1>2, <1>5, <1>7, <1>8, Extended
<1> QED BY <1>2, <1>5, <1>8, <1>9, Longer

\* The next round, recovery, or the end.
LEMMA MoreTold ==
  ASSUME IInv, HistInv, MoreAfterRound \/ MoreAfterRetry \/ MoreAfterRecovery
  PROVE  HistInv' /\ Keeps
<1>1. pc = "more" /\ UNCHANGED <<buf, ghost>>
  BY DEF MoreAfterRound, MoreAfterRetry, MoreAfterRecovery
<1>2. turn'.start = turn.start
  <2>1. \/ turn' = turn
        \/ turn' = [turn EXCEPT !.mode = "recovery", !.recovering = 1, !.silent = SilentRounds]
        \/ turn' = [turn EXCEPT !.silent = SilentRounds, !.round = Rounds]
        \/ turn' = [turn EXCEPT !.mode = "round", !.attempt = 0, !.round = Rounds]
        \/ turn' = [turn EXCEPT !.recovering = @ + 1]
    BY DEF MoreAfterRound, MoreAfterRetry, MoreAfterRecovery
  <2> QED BY <2>1 DEF IInv, Shapes
<1>3. CASE Recover
  BY <1>1, <1>2, <1>3, RecoverTold
<1>4. CASE NextRound
  BY <1>1, <1>2, <1>4, NextTold
<1>5. CASE Return(history) /\ turn' = turn
  BY <1>1, <1>5, ReturnTold
<1>6. CASE pc' = "recovery" /\ history' = history
  BY <1>1, <1>2, <1>6, Stays
<1> QED BY <1>3, <1>4, <1>5, <1>6 DEF MoreAfterRound, MoreAfterRetry, MoreAfterRecovery

\* A notice comes at any time but during a stream.
LEMMA NoticeTold == ASSUME IInv, HistInv, Notice PROVE HistInv' /\ (pc # "idle" => Keeps)
<1>1. /\ history' = Append(history, Message("notice"))
      /\ UNCHANGED <<pc, turn, buf, ghost>>
  BY DEF Notice
<1>2. Formed(history) /\ Paired(history, Pending) /\ Untold(history, Untried)
  BY DEF HistInv, Pending
<1>3. Formed(history') /\ Paired(history', Pending) /\ Untold(history', Untried)
  BY <1>1, <1>2, Said
<1>4. /\ Len(history) \in Nat /\ Len(history') = Len(history) + 1
      /\ history'[Len(history) + 1] = Message("notice")
      /\ \A i \in 1 .. Len(history) : history'[i] = history[i]
  BY <1>1, <1>2, Appended DEF Formed
<1>5. Len(history) <= Len(history')
  BY <1>4
<1>6. Batched' /\ Pending' = Pending /\ Untried' = Untried
  BY <1>1 DEF HistInv, Batched, Pending, Untried
<1>7. CASE pc = "idle"
  <2>1. ASSUME NEW i \in 1 .. Len(history') PROVE history'[i].kind # "note"
    <3>1. i \in 1 .. Len(history) \/ i = Len(history) + 1
      BY <1>4
    <3>2. Lasting(history, Len(history))
      BY <1>7 DEF HistInv, Started
    <3> QED BY <1>4, <3>1, <3>2 DEF Lasting, Message
  <2>2. Started'
    BY <1>1, <1>7, <2>1 DEF HistInv, Started, Lasting
  <2> QED BY <1>3, <1>6, <1>7, <2>2 DEF HistInv, Pending
<1>8. CASE pc # "idle"
  <2>1. Keeps
    BY <1>1, <1>3, <1>4, <1>5, <1>8, Grows
  <2> QED BY <1>1, <1>3, <1>6, <1>8, <2>1, Moved
<1> QED BY <1>7, <1>8

\* Steps that leave the history and the turn.
LEMMA SameTold ==
  ASSUME HistInv, UNCHANGED <<history, pc, turn, buf, ghost>>
  PROVE  HistInv' /\ (pc # "idle" => Keeps)
<1>1. HistInv'
  BY DEF HistInv, Batched, Started, Untried
<1> QED BY <1>1 DEF HistInv, Started, Keeps

\* What earlier turns left is sound (PastsOK).
LEMMA HistInitially == Init => HistInv
<1> SUFFICES ASSUME Init PROVE HistInv
  OBVIOUS
<1>1. /\ history \in Pasts /\ pc = "idle" /\ turn = NewTurn(0) /\ ghost.streamed = {}
      /\ \E term : buf = [EmptyBuf EXCEPT !.term = term]
  BY DEF Init
<1>2. buf.batch = <<>> /\ turn.start = 0
  BY <1>1 DEF EmptyBuf, NewTurn
<1>3. Batched /\ Untried = Calls
  <2>1. buf.batch \in Seq(Calls) /\ Range(buf.batch) = {} /\ Len(buf.batch) = 0
    BY <1>2 DEF Range
  <2> QED BY <1>1, <2>1 DEF Batched, Untried
<1>4. /\ Formed(history) /\ Paired(history, {})
      /\ \A i \in 1 .. Len(history) :
           history[i].kind # "note" /\ (history[i].kind = "result" => history[i].call \notin Calls)
  BY <1>1, PastsOK
<1>5. Untold(history, Untried) /\ Started
  BY <1>1, <1>2, <1>3, <1>4 DEF Untold, Started, Lasting
<1> QED BY <1>1, <1>3, <1>4, <1>5 DEF HistInv

\* What every step does to the history.
LEMMA HistStep ==
  ASSUME IInv, HistInv, [Next]_vars
  PROVE  HistInv' /\ (pc # "idle" => Keeps)
<1>1. CASE Submit
  <2>1. pc = "idle"
    BY <1>1 DEF Submit
  <2> QED BY <1>1, <2>1, SubmitTold
<1>2. CASE Goes
  BY <1>2, RoundTold, RecoveryRoundTold, RetryAttemptTold, ResultTold, MoreTold DEF Goes
<1>3. CASE StreamEnds
  BY <1>3, EndTold
<1>4. CASE Text \/ Thinking \/ \E c \in Calls : Call(c)
  BY <1>4, WordsTold, CallTold
<1>5. CASE Notice
  BY <1>5, NoticeTold
<1>6. CASE Cancel \/ UNCHANGED vars
  BY <1>6, SameTold DEF Cancel, vars
<1> QED BY <1>1, <1>2, <1>3, <1>4, <1>5, <1>6 DEF Next

\* Both invariants hold in every reachable state.
LEMMA HistHolds == Spec => [](IInv /\ HistInv)
<1>1. Init => IInv /\ HistInv
  BY Initially, HistInitially
<1>2. IInv /\ HistInv /\ [Next]_vars => (IInv /\ HistInv)'
  BY Inductive, HistStep
<1> QED BY <1>1, <1>2, PTL DEF Spec

\* For any calls, limits and past, until a context is too long no step of a turn
\* takes anything of what was there when it began (turnStartHistoryLen,
\* undoLastAssistantMessage, stripEphemeralSystemMessages).
THEOREM EarlierTurnsKeptHolds == Spec => EarlierTurnsKept
<1> DEFINE A == pc # "idle" /\ ghost'.overflows = 0
                  => IsPrefix(SubSeq(history, 1, turn.start), history')
<1>1. IInv /\ HistInv /\ [Next]_vars => A
  <2> SUFFICES ASSUME IInv, HistInv, [Next]_vars, pc # "idle", ghost'.overflows = 0
               PROVE  IsPrefix(SubSeq(history, 1, turn.start), history')
    OBVIOUS
  <2> DEFINE n == turn.start
             s == SubSeq(history, 1, n)
  <2>1. /\ ghost.overflows = 0 /\ n <= Len(history')
        /\ \A i \in 1 .. n : history'[i] = history[i]
        /\ Formed(history')
    BY HistStep DEF Keeps, HistInv
  <2>2. n \in Nat /\ n <= Len(history) /\ Formed(history)
    BY <2>1 DEF HistInv, Started
  <2> HIDE DEF n
  <2>3. /\ history \in Seq(Range(history)) /\ Len(history) \in Nat
        /\ history' \in Seq(Range(history')) /\ Len(history') \in Nat
    BY <2>1, <2>2 DEF Formed
  <2>4. 1 - 1 <= n /\ 1 \in 1 .. Len(history) + 1 /\ 1 \in 1 .. Len(history') + 1
    BY <2>2, <2>3
  <2>5. /\ s \in Seq(Range(s)) /\ Len(s) = n - 1 + 1
        /\ \A a \in 1 .. Len(s) : s[a] = history[a + 1 - 1]
    BY <2>2, <2>3, <2>4, Slice
  <2>6. /\ Len(SubSeq(history', 1, n)) = n - 1 + 1
        /\ SubSeq(history', 1, n) \in Seq(Range(SubSeq(history', 1, n)))
        /\ \A a \in 1 .. Len(SubSeq(history', 1, n)) :
              SubSeq(history', 1, n)[a] = history'[a + 1 - 1]
    BY <2>1, <2>2, <2>3, <2>4, Slice
  <2> DEFINE t == SubSeq(history', 1, n)
  <2>7. Len(s) = n /\ Len(t) = n
    BY <2>2, <2>5, <2>6
  <2> HIDE DEF s, t
  <2>8. \A a \in 1 .. n : s[a] = t[a]
    <3>1. \A a \in 1 .. n : a + 1 - 1 = a
      BY <2>2
    <3> QED BY <2>1, <2>5, <2>6, <2>7, <3>1 DEF t
  <2>9. s = t
    <3>1. s \in Seq(Range(s) \cup Range(t)) /\ t \in Seq(Range(s) \cup Range(t))
      BY <2>5, <2>6 DEF t
    <3> QED BY <2>7, <2>8, <3>1, SeqEqual
  <2>10. SubSeq(history, 1, turn.start) = s /\ t = SubSeq(history', 1, Len(s))
    BY <2>7 DEF n, s, t
  <2>11. Len(s) <= Len(history') /\ SubSeq(s, 1, Len(s)) = SubSeq(history', 1, Len(s))
    <3>1. SubSeq(s, 1, Len(s)) = s
      BY <2>5, SubSeqFull
    <3> QED BY <2>1, <2>7, <2>9, <2>10, <3>1 DEF n
  <2> QED BY <2>10, <2>11 DEF IsPrefix
<1>2. [][IInv /\ HistInv /\ IInv' /\ HistInv' /\ [Next]_vars => A]_vars
  BY <1>1, PTL
<1> QED BY <1>1, HistHolds, PTL DEF Spec, EarlierTurnsKept

\* For any calls, limits and past, a request shows each call with its one result and
\* each result with its call, with notices at most in between (migrateMessages,
\* widenBoundaryForChains, appendToolResults).
THEOREM EveryCallAnsweredHolds == Spec => []EveryCallAnswered
<1>1. ASSUME HistInv, pc # "tools" PROVE EveryCallAnswered
  <2> DEFINE live == UNION {Range(history[i].calls) :
                              i \in {j \in 1 .. Len(history) : history[j].kind = "calls"}}
             P == {i \in 1 .. Len(history) :
                     history[i].kind = "result" => history[i].call \in live}
             g == Sent(history)
  <2>1. Formed(history) /\ Paired(history, {})
    BY <1>1 DEF HistInv
  <2>2. /\ history \in Seq(Range(history)) /\ Len(history) \in Nat
        /\ P \in SUBSET (1 .. Len(history)) /\ g = Those(history, P)
    BY <2>1 DEF Formed, Sent
  <2>3. /\ \A i \in 1 .. Len(history) :
              history[i].kind = "calls" => Range(history[i].calls) \subseteq live
        /\ \A c \in live : \E i \in 1 .. Len(history) :
              history[i].kind = "calls" /\ c \in Range(history[i].calls)
    OBVIOUS
  <2>4. \A i \in 1 .. Len(history) :
           i \in P <=> (history[i].kind = "result" => history[i].call \in live)
    OBVIOUS
  <2> HIDE DEF g, P, live
  <2>5. g \in Seq(Range(history))
    BY <2>2, Selected
  <2>6. PICK f \in [1 .. Len(g) -> P] :
           /\ \A a, b \in 1 .. Len(g) : a < b => f[a] < f[b]
           /\ \A i \in P : \E a \in 1 .. Len(g) : f[a] = i
           /\ \A a \in 1 .. Len(g) : g[a] = history[f[a]]
    BY <2>2, Selected
  <2>7. f \in [1 .. Len(g) -> 1 .. Len(history)] /\ g \in Seq(Range(g)) /\ Len(g) \in Nat
    <3>1. f \in [1 .. Len(g) -> 1 .. Len(history)]
      BY <2>2
    <3>2. g \in Seq(Range(g)) /\ Len(g) \in Nat
      BY <2>5, OwnRange
    <3> QED BY <3>1, <3>2
  <2>8. ASSUME NEW a \in 1 .. Len(g), g[a].kind = "calls",
               NEW j \in f[a] + 1 .. Len(history), history[j].call \in Range(g[a].calls)
        PROVE  \E b \in 1 .. Len(g) : f[b] = j
    <3>1. f[a] \in 1 .. Len(history) /\ j \in 1 .. Len(history)
      BY <2>2, <2>7
    <3>2. history[j].call \in live
      BY <2>3, <2>6, <2>8, <3>1
    <3> QED BY <2>4, <2>6, <3>1, <3>2
  <2>9. Formed(g) /\ Paired(g, {})
    <3>1. PartOf(g, history, f)
      BY <2>6, <2>7, <2>8 DEF PartOf
    <3> QED BY <2>1, <3>1, Embedded
  <2>10. ASSUME NEW i \in 1 .. Len(g), g[i].kind = "calls", NEW c \in Range(g[i].calls)
         PROVE  AnsweredAt(g, i, c)
    BY <2>9, <2>10 DEF Paired
  <2>11. \A i, j \in 1 .. Len(g) :
            g[i].kind = "result" /\ g[j].kind = "result" /\ g[i].call = g[j].call => i = j
    BY <2>9 DEF Formed
  <2>12. ASSUME NEW i \in 1 .. Len(g), g[i].kind = "calls", NEW c \in Range(g[i].calls)
         PROVE  Cardinality({j \in {k \in 1 .. Len(g) : g[k].kind = "result"} : g[j].call = c}) = 1
    <3>1. AnsweredAt(g, i, c)
      BY <2>10, <2>12
    <3>2. PICK j \in i + 1 .. Len(g) : g[j].kind = "result" /\ g[j].call = c
      BY <3>1 DEF AnsweredAt
    <3>3. j \in 1 .. Len(g)
      BY <2>7
    <3>4. {m \in {k \in 1 .. Len(g) : g[k].kind = "result"} : g[m].call = c} = {j}
      BY <2>11, <3>2, <3>3
    <3> QED BY <3>4, FS_Singleton
  <2>13. ASSUME NEW j \in 1 .. Len(g), g[j].kind = "result"
         PROVE  \E i \in 1 .. Len(g) :
                  /\ g[i].kind = "calls" /\ i < j /\ g[j].call \in Range(g[i].calls)
                  /\ \A k \in i + 1 .. j - 1 : g[k].kind \in {"result", "notice"}
    <3>1. f[j] \in P /\ f[j] \in 1 .. Len(history) /\ history[f[j]] = g[j]
      BY <2>6, <2>7
    <3>2. PICK x \in 1 .. Len(history) :
             history[x].kind = "calls" /\ g[j].call \in Range(history[x].calls)
      BY <2>3, <2>4, <2>13, <3>1
    <3>3. PICK i \in 1 .. Len(g) : f[i] = x
      BY <2>4, <2>6, <3>2
    <3>4. g[i].kind = "calls" /\ g[j].call \in Range(g[i].calls)
      BY <2>6, <3>2, <3>3
    <3>5. AnsweredAt(g, i, g[j].call)
      BY <2>10, <3>4
    <3>6. PICK m \in i + 1 .. Len(g) :
             /\ g[m].kind = "result" /\ g[m].call = g[j].call
             /\ \A k \in i + 1 .. m - 1 : g[k].kind \in {"result", "notice"}
      BY <3>5 DEF AnsweredAt
    <3>7. m \in 1 .. Len(g) /\ i < m
      BY <2>7
    <3>8. m = j
      BY <2>11, <2>13, <3>6, <3>7
    <3> QED BY <3>4, <3>6, <3>7, <3>8
  <2> SUFFICES
        /\ \A i \in {k \in 1 .. Len(g) : g[k].kind = "calls"} : \A c \in Range(g[i].calls) :
             Cardinality({j \in {k \in 1 .. Len(g) : g[k].kind = "result"} : g[j].call = c}) = 1
        /\ \A j \in {k \in 1 .. Len(g) : g[k].kind = "result"} :
             \E i \in {k \in 1 .. Len(g) : g[k].kind = "calls"} :
               /\ i < j /\ g[j].call \in Range(g[i].calls)
               /\ {g[k].kind : k \in i + 1 .. j - 1} \subseteq {"result", "notice"}
    BY DEF EveryCallAnswered, g
  <2>14. ASSUME NEW j \in {k \in 1 .. Len(g) : g[k].kind = "result"}
         PROVE  \E i \in {k \in 1 .. Len(g) : g[k].kind = "calls"} :
                  /\ i < j /\ g[j].call \in Range(g[i].calls)
                  /\ {g[k].kind : k \in i + 1 .. j - 1} \subseteq {"result", "notice"}
    BY <2>13
  <2> QED BY <2>12, <2>14
<1>2. HistInv => EveryCallAnswered
  BY <1>1 DEF EveryCallAnswered
<1> QED BY <1>2, HistHolds, PTL

=============================================================================
