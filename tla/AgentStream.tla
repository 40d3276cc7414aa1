----------------------------- MODULE AgentStream -----------------------------
(***************************************************************************)
(* One agent's turns: what processTurnWithStream makes of the streams a    *)
(* provider sends, and what it leaves in the conversation history          *)
(* (internal/agentic/agent_streaming.go, agent_stream_retry.go,            *)
(* agent_turn_lifecycle.go, agent_streamloop_detect.go,                    *)
(* agent_stream_stall.go).                                                 *)
(*                                                                         *)
(* A turn is a loop of rounds.  A round opens a stream, which brings text, *)
(* reasoning and tool calls and ends, fails or falls silent.  Calls run    *)
(* and are answered, and another round follows; a failure is retried with  *)
(* a backoff; a limit ends the loop with up to three recovery rounds.  The *)
(* turn's goroutine meets the user who cancels, notices that other         *)
(* goroutines append to the history, and the watchdog of the stream.       *)
(*                                                                         *)
(* The model's window is unknown to the program, so that nothing but a     *)
(* provider's refusal compresses the history (agent_compress_recovery.go,  *)
(* agent_compress_elision.go).  That compression is on, as it is by        *)
(* default (OnContextError).  The plugins' hooks, calls found in text, the *)
(* absolute tool budget, the watchdog of the reasoning and the unbounded   *)
(* retry mode are off.  The search for another wire format before a retry  *)
(* (agent_probe.go) changes where requests go and nothing here: it is left *)
(* out.                                                                    *)
(***************************************************************************)
EXTENDS Naturals, FiniteSets, SequencesExt

CONSTANTS
    Calls,            \* the tool calls a model may make, each with an id of its own
    Guarded,          \* calls a guardrail answers without running them
    MaxRetries, MaxRounds, MaxSilent, MaxStrikes, ResetAfter,  \* zero MaxRounds
                      \* or MaxSilent: no limit
    MaxAuto, MaxRecovery,  \* maxAutoContinuePerTurn, maxRecoveryRounds
    OmitsTerminator,  \* ProviderOmitsStreamTerminator
    Preserve,         \* PreserveRecentTurns
    Pasts,            \* what earlier turns may have left in the history
    MaxTurns, MaxNotices, MaxSteers  \* bounds

ASSUME LimitsOK ==
  /\ Guarded \subseteq Calls /\ OmitsTerminator \in BOOLEAN
  /\ MaxRounds \in Nat /\ MaxSilent \in Nat /\ MaxTurns \in Nat
  /\ MaxNotices \in Nat /\ MaxSteers \in Nat
  /\ {MaxRetries, MaxStrikes, ResetAfter, MaxAuto, MaxRecovery, Preserve} \subseteq Nat \ {0}

VARIABLES
    history,    \* the conversation
    pc,         \* where the turn's goroutine is
    turn,       \* the fields prepareTurn resets and the loops' locals
    buf,        \* the fields resetStreamRoundState clears
    strikes,    \* stream-loop strikes and the clean activity since the last
    cancelled,  \* the turn's context has ended
    outside,    \* turns, notices and steering texts so far
    ghost       \* calls streamed and executed, overflows of the turn, what the
                \* model's last words came from

vars == <<history, pc, turn, buf, strikes, cancelled, outside, ghost>>

-----------------------------------------------------------------------------

\* A message of the history: a user's text, a notice, an ephemeral note, an
\* assistant's calls or answer, a call's result.
Message(kind) == [kind |-> kind]
Batch(calls) == [kind |-> "calls", calls |-> calls]
Result(c) == [kind |-> "result", call |-> c]

\* What a message of the model was made from: how its stream ended, the end of
\* its text, whether an earlier stream was in the buffers.
NoSource == [how |-> "none", text |-> "none", mixed |-> FALSE]
Source(how) == [how |-> how, text |-> buf.text, mixed |-> buf.mixed]

\* Calls may be elided; their results are by then of no use to anybody.
Assistant == {"calls", "elided", "answer"}
Chain == {"calls", "elided", "result"}

\* The messages of a history at some places, in their order.
Those(h, places) ==
  LET upTo[n \in 0 .. Len(h)] ==
        IF n = 0 THEN <<>>
        ELSE IF n \in places THEN Append(upTo[n - 1], h[n]) ELSE upTo[n - 1]
  IN upTo[Len(h)]

\* stripEphemeralSystemMessages
Strip(h) == Those(h, {i \in 1 .. Len(h) : h[i].kind # "note"})

\* A variant that forgets where the turn began.
UndoFromStart(h) ==
  LET said == {i \in 1 .. Len(h) : h[i].kind \in Assistant}
  IN IF said = {} THEN h ELSE SubSeq(h, 1, Max(said) - 1)

\* undoLastAssistantMessage: the turn's last one goes, with all that follows.
Undo(h) ==
  LET said == {i \in turn.start + 1 .. Len(h) : h[i].kind \in Assistant}
  IN IF said = {} THEN h ELSE SubSeq(h, 1, Max(said) - 1)

\* findCompressionBoundary, before it is widened: the oldest of the last users'
\* messages, notices among them, or the end of a history with fewer.
TurnBoundary(h) ==
  LET users == {i \in 1 .. Len(h) : h[i].kind \in {"user", "notice"}}
      recent == {i \in users : Cardinality({j \in users : j >= i}) = Preserve}
  IN IF recent = {} THEN Len(h) + 1 ELSE Max(recent)

\* widenBoundaryForChains
Widened(h, b) == Min({i \in 1 .. b : \A j \in i .. b - 1 : h[j].kind \in Chain})

\* The last message to elide (computeElisionBoundary, forcedElisionBoundary).
ElisionBoundary(len) == IF len > 3 * Preserve THEN len - 3 * Preserve ELSE len - 2

\* elideToolMessages
Elided(h) ==
  [i \in 1 .. Len(h) |->
     IF i <= ElisionBoundary(Len(h)) /\ h[i].kind = "calls"
       THEN [h[i] EXCEPT !.kind = "elided"] ELSE h[i]]

\* compressSelective: what comes before the recent turns goes.
Selective(h) == SubSeq(h, Widened(h, TurnBoundary(h)), Len(h))

\* The hybrid strategy (overflowRecoveryInMemory).
Compressed(h) == Selective(Elided(h))

\* A variant that sends every result.
SentWithOrphans(h) == h

\* The request made from a history: elided calls are a remark of the model, and a
\* result without its call is left out (migrateMessages).
Sent(h) ==
  LET live == UNION {Range(h[i].calls) : i \in {j \in 1 .. Len(h) : h[j].kind = "calls"}}
  IN Those(h, {i \in 1 .. Len(h) : h[i].kind = "result" => h[i].call \in live})

\* The call c of the batch at i has its result, with nothing in between but other
\* results and notices.
AnsweredAt(h, i, c) ==
  \E j \in i + 1 .. Len(h) :
     /\ h[j].kind = "result" /\ h[j].call = c
     /\ \A k \in i + 1 .. j - 1 : h[k].kind \in {"result", "notice"}

\* Every call of a history is answered, but those of the batch being recorded.
Paired(h, pending) ==
  \A i \in 1 .. Len(h) : h[i].kind = "calls" =>
     \A c \in Range(h[i].calls) :
        \/ AnsweredAt(h, i, c)
        \/ c \in pending /\ \A k \in i + 1 .. Len(h) : h[k].kind \in {"result", "notice"}

\* A history as such: a call has one result at most.
Formed(h) ==
  /\ h \in Seq(Range(h))
  /\ \A i \in 1 .. Len(h) : h[i].kind = "calls" => h[i] = Batch(h[i].calls)
  /\ \A i, j \in 1 .. Len(h) :
        h[i].kind = "result" /\ h[j].kind = "result" /\ h[i].call = h[j].call => i = j

\* Earlier turns leave their calls answered, and no notes.
ASSUME PastsOK ==
  \A h \in Pasts :
     /\ Formed(h) /\ Paired(h, {})
     /\ \A i \in 1 .. Len(h) :
           h[i].kind # "note" /\ (h[i].kind = "result" => h[i].call \notin Calls)

NewTurn(start) ==
  [start |-> start, mode |-> "round", round |-> 0, attempt |-> 0,
   recovering |-> 0, silent |-> 0, auto |-> 0, reasoned |-> FALSE,
   hadTools |-> FALSE, overflowTried |-> FALSE]

\* text is what contentBuf and thinkingBuf hold: nothing, reasoning only, a text
\* that breaks off, one that ends like a finished sentence.  seen is genSawEvent,
\* which consumeStream clears; mixed says that text or calls of an earlier stream
\* were in the buffers when this one opened.
EmptyBuf ==
  [text |-> "none", batch |-> <<>>, seen |-> FALSE,
   loop |-> FALSE, struck |-> FALSE, term |-> FALSE, mixed |-> FALSE]

\* A variant that leaves the buffers to the next stream.
KeepingBuf == [buf EXCEPT !.loop = FALSE, !.struck = FALSE, !.term = FALSE]

\* A variant that leaves the provider's mark of a finished round.
KeepingTerm == [EmptyBuf EXCEPT !.term = buf.term]

\* resetStreamRoundState
ResetBuf == EmptyBuf

\* noteStreamLoopCleanActivity
Clean(n) ==
  IF strikes.count = 0 THEN strikes
  ELSE IF strikes.clean + n >= ResetAfter THEN [count |-> 0, clean |-> 0]
  ELSE [strikes EXCEPT !.clean = @ + n]

\* noteCleanStreamRound
CleanRound == IF buf.struck THEN strikes ELSE Clean(1)

-----------------------------------------------------------------------------

\* runInternal and prepareTurn.  The provider's mark of the last round of the
\* last turn is not reset.
Submit ==
  /\ pc = "idle" /\ outside.turns < MaxTurns
  /\ outside' = [outside EXCEPT !.turns = @ + 1]
  /\ history' = Append(history, Message("user"))
  /\ turn' = NewTurn(Len(history'))
  /\ buf' = [EmptyBuf EXCEPT !.term = buf.term]
  /\ cancelled' = FALSE /\ pc' = "round"
  /\ ghost' = [ghost EXCEPT !.overflows = 0, !.source = NoSource]
  /\ UNCHANGED strikes

\* processTurnWithStream returns: h is the history, the turn's notes go.
Return(h) == pc' = "idle" /\ history' = Strip(h)

\* A stream opens on what is in the buffers.
Opens(b) ==
  /\ pc' = "streaming"
  /\ buf' = [b EXCEPT !.seen = FALSE, !.mixed = b.mixed \/ b.text # "none" \/ b.batch # <<>>]
  /\ UNCHANGED history

\* runRecoveryStream begins.
Recover ==
  /\ history' = Append(history, Message("note"))
  /\ pc' = "recovery"

\* Why a stream failed, once the turn is cancelled or not.
Failures == IF cancelled THEN {"cancelled"} ELSE {"transient", "overflow", "fatal"}

\* A variant that retries however often the context is too long.
RetryableAlways(why) == why \in {"transient", "overflow"}

\* One overflow a turn is retried, and what is transient.
Retryable(why) == why = "transient" \/ (why = "overflow" /\ ~turn.overflowTried)

\* A variant that does not count.
SameAttempt == turn

NextAttempt == [turn EXCEPT !.attempt = @ + 1]

\* The requests that were too long are counted.
Overflows(n) == ghost' = [ghost EXCEPT !.overflows = @ + n]

\* A failure of the stream or of its opening, which finds the history so: the
\* partial round is undone and the error classified (handleStreamFailure,
\* runRetryAttempt).
Fail(why, said) ==
  LET h == Undo(said) IN
  /\ buf' = ResetBuf
  /\ Overflows(IF why = "overflow" THEN 1 ELSE 0)
  /\ CASE turn.mode # "retry" /\ Retryable(why) ->
            /\ turn' = [turn EXCEPT !.mode = "retry", !.attempt = 0,
                                    !.overflowTried = @ \/ why = "overflow"]
            /\ pc' = "backoff" /\ history' = h
       [] turn.mode = "retry" /\ why = "transient" /\ turn.attempt + 1 < MaxRetries ->
            /\ turn' = NextAttempt
            /\ pc' = "backoff" /\ history' = h
       [] OTHER -> Return(h) /\ UNCHANGED turn
  /\ UNCHANGED <<cancelled, outside>>

-----------------------------------------------------------------------------

\* The top of the turn's loop, up to the opening of the round's stream.
Round ==
  /\ pc = "round"
  /\ \/ /\ cancelled /\ Return(history)
        /\ UNCHANGED <<turn, buf, strikes, cancelled, outside, ghost>>
     \/ /\ ~cancelled /\ MaxRounds > 0 /\ turn.round >= MaxRounds
        /\ Recover /\ turn' = [turn EXCEPT !.mode = "recovery", !.recovering = 1]
        /\ UNCHANGED <<buf, strikes, cancelled, outside, ghost>>
     \/ /\ MaxRounds = 0 \/ turn.round < MaxRounds
        /\ \/ /\ Opens(IF turn.round > 0 THEN ResetBuf ELSE buf)
              /\ UNCHANGED <<turn, strikes, cancelled, outside, ghost>>
           \/ (\E why \in Failures : Fail(why, history)) /\ UNCHANGED strikes

\* A recovery round opens its stream on the buffers as they are; a failure to
\* open it ends the turn.
RecoveryRound ==
  /\ pc = "recovery"
  /\ \/ Opens(buf) /\ UNCHANGED ghost
     \/ Return(history) /\ (\E n \in {0, 1} : Overflows(n)) /\ UNCHANGED buf
  /\ UNCHANGED <<turn, strikes, cancelled, outside>>

\* The backoff of a retry, then the opening of its stream.  The wait may end
\* either way when the turn is cancelled; an opening that fails is followed by the
\* next attempt, unless the context is too long or it was the last.
RetryAttempt ==
  /\ pc = "backoff"
  /\ \/ Opens(buf) /\ UNCHANGED <<turn, ghost>>
     \/ /\ turn.attempt + 1 < MaxRetries /\ turn' = NextAttempt
        /\ UNCHANGED <<pc, history, buf, ghost>>
     \/ Return(history) /\ (\E n \in {0, 1} : Overflows(n)) /\ UNCHANGED <<turn, buf>>
  /\ UNCHANGED <<strikes, cancelled, outside>>

-----------------------------------------------------------------------------

\* A delta of the reply, which may by now repeat itself.
Text ==
  /\ pc = "streaming" /\ ~cancelled /\ ~buf.loop
  /\ \/ \E text \in {"open", "whole"} : buf' = [buf EXCEPT !.text = text, !.seen = TRUE]
     \/ buf' = [buf EXCEPT !.text = "open", !.loop = TRUE, !.seen = TRUE]
  /\ turn' = [turn EXCEPT !.reasoned = TRUE]
  /\ UNCHANGED <<history, pc, strikes, cancelled, outside, ghost>>

Thinking ==
  /\ pc = "streaming" /\ ~cancelled /\ ~buf.loop
  /\ buf' = [buf EXCEPT !.text = IF @ = "none" THEN "thought" ELSE @, !.seen = TRUE]
  /\ turn' = [turn EXCEPT !.reasoned = TRUE]
  /\ UNCHANGED <<history, pc, strikes, cancelled, outside, ghost>>

\* A whole call, buffered with the others of the round.
Call(c) ==
  /\ pc = "streaming" /\ ~cancelled /\ ~buf.loop /\ c \notin ghost.streamed
  /\ buf' = [buf EXCEPT !.batch = Append(@, c), !.seen = TRUE]
  /\ ghost' = [ghost EXCEPT !.streamed = @ \cup {c}]
  /\ UNCHANGED <<history, pc, turn, strikes, cancelled, outside>>

\* classifyPrematureStop: reasoning without an answer, nothing after tools; after
\* tools the words of the answer may promise more.
Premature ==
  turn.auto < MaxAuto /\ (buf.text = "thought" \/ turn.hadTools)

\* executeBufferedToolCalls, up to the calls' return: the stream ended as how
\* says.
RunCalls(h, how) ==
  /\ history' = Append(h, Batch(buf.batch))
  /\ pc' = "tools"
  /\ ghost' = [ghost EXCEPT !.executed = @ \cup (Range(buf.batch) \ Guarded),
                            !.source = Source(how)]

\* finalizeStreamTurn: the answer, whatever there is of it, ends the turn.
Finalize(how) ==
  /\ Return(Append(history, Message("answer")))
  /\ strikes' = IF turn.mode = "round" THEN CleanRound ELSE strikes
  /\ ghost' = [ghost EXCEPT !.source = Source(how)]
  /\ UNCHANGED turn

\* completeStreamTurn: calls run, a premature stop is continued.
Complete(how) ==
  \/ /\ buf.batch # <<>> /\ RunCalls(history, how)
     /\ UNCHANGED <<turn, strikes>>
  \/ /\ buf.batch = <<>> /\ Premature
     /\ history' = Append(history, Message("note"))
     /\ turn' = [turn EXCEPT !.auto = @ + 1] /\ pc' = "more"
     /\ UNCHANGED <<ghost, strikes>>
  \/ /\ buf.batch = <<>> /\ (Premature => buf.text \in {"open", "whole"})
     /\ Finalize(how)

\* The provider's own mark of the end (handleStreamDone).
Done ==
  /\ pc = "streaming" /\ ~cancelled /\ ~buf.loop
  /\ buf' = [buf EXCEPT !.term = TRUE] /\ Complete("done")
  /\ UNCHANGED <<cancelled, outside>>

\* finishStreamTurn on a stream that ended without an error: nothing at all is an
\* error before the turn's first tool.
Ended(how) ==
  IF ~turn.hadTools /\ ~buf.seen /\ buf.batch = <<>>
    THEN Fail(IF cancelled THEN "cancelled" ELSE "transient", history) /\ UNCHANGED strikes
    ELSE Complete(how) /\ UNCHANGED <<buf, cancelled, outside>>

Eof == pc = "streaming" /\ ~buf.loop /\ Ended("eof")

\* roundDeliveredCompleteAnswer
Delivered == buf.batch = <<>> /\ (buf.term \/ (OmitsTerminator /\ buf.text = "whole"))

\* The watchdog after a silence (onStreamStall).
Stall ==
  /\ pc = "streaming" /\ ~cancelled /\ ~buf.loop
  /\ IF Delivered THEN Ended("stall") ELSE Fail("transient", history) /\ UNCHANGED strikes

\* An error event or an error at the end, or the turn was cancelled.  When the
\* context was too long the history is compressed first (handleContextError), and
\* the undoing still counts from where the turn began before that.
StreamFails ==
  /\ pc = "streaming" /\ (buf.loop => cancelled)
  /\ \E why \in Failures : Fail(why, IF why = "overflow" THEN Compressed(history) ELSE history)
  /\ UNCHANGED strikes

\* The event, or the end, after the text was found to repeat itself.
Strike ==
  /\ pc = "streaming" /\ buf.loop
  /\ strikes' = [count |-> strikes.count + 1, clean |-> 0]
  /\ IF strikes.count + 1 >= MaxStrikes THEN Fail("fatal", history)
     ELSE /\ buf' = [buf EXCEPT !.loop = FALSE, !.struck = TRUE]
          /\ LET h == Append(history, Message("note")) IN
             IF buf.batch # <<>> THEN RunCalls(h, "strike")
             ELSE history' = h /\ pc' = "more" /\ UNCHANGED ghost
          /\ UNCHANGED <<turn, cancelled, outside>>

-----------------------------------------------------------------------------

\* appendToolResults, one message at a time: the first of the batch is next, and
\* the guarded calls are answered too.
AppendResult ==
  /\ pc = "tools"
  /\ LET batch == buf.batch
         real == Cardinality(Range(Last(SelectSeq(history, LAMBDA m : m.kind = "calls")).calls) \ Guarded)
     IN /\ history' = Append(history, Result(Head(batch)))
        /\ IF Len(batch) > 1
             THEN /\ buf' = [buf EXCEPT !.batch = Tail(batch)]
                  /\ UNCHANGED <<pc, turn, strikes, ghost>>
             ELSE /\ buf' = [buf EXCEPT !.batch = <<>>, !.text = "none"]
                  /\ turn' = [turn EXCEPT !.hadTools = @ \/ real > 0]
                  /\ strikes' = Clean(real) /\ pc' = "more"
                  /\ ghost' = [ghost EXCEPT !.source = NoSource]
  /\ UNCHANGED <<cancelled, outside>>

\* drainSteeringIntoHistory takes what the parent has queued, then the next
\* round.  A limit on the rounds apart,
\* only the first is told from the others.
NextRound ==
  /\ \E texts \in 0 .. MaxSteers - outside.steers :
       /\ history' = history \o [i \in 1 .. texts |-> Message("user")]
       /\ outside' = [outside EXCEPT !.steers = @ + texts]
  /\ pc' = "round"
Rounds == IF MaxRounds = 0 THEN 1 ELSE turn.round + 1

\* trackToolCallingRound, checkConsecutiveToolRounds
SilentRounds == IF turn.reasoned THEN 0 ELSE turn.silent + 1

\* After a stream that does not end the turn.
MoreAfterRound ==
  /\ pc = "more" /\ turn.mode = "round"
  /\ IF MaxSilent > 0 /\ SilentRounds >= MaxSilent
       THEN /\ Recover /\ UNCHANGED <<strikes, outside>>
            /\ turn' = [turn EXCEPT !.mode = "recovery", !.recovering = 1, !.silent = SilentRounds]
       ELSE /\ NextRound /\ strikes' = CleanRound
            /\ turn' = [turn EXCEPT !.silent = SilentRounds, !.round = Rounds]
  /\ UNCHANGED <<buf, cancelled, ghost>>

\* After a retry that brought calls the turn goes on, but in recovery the first
\* failure is returned.
MoreAfterRetry ==
  /\ pc = "more" /\ turn.mode = "retry"
  /\ IF turn.recovering > 0
       THEN Return(history) /\ UNCHANGED <<turn, outside>>
       ELSE NextRound /\ turn' = [turn EXCEPT !.mode = "round", !.attempt = 0, !.round = Rounds]
  /\ UNCHANGED <<buf, strikes, cancelled, ghost>>

\* A recovery round that brought calls again.
MoreAfterRecovery ==
  /\ pc = "more" /\ turn.mode = "recovery"
  /\ IF turn.recovering = MaxRecovery
       THEN Return(history) /\ UNCHANGED turn
       ELSE /\ turn' = [turn EXCEPT !.recovering = @ + 1] /\ pc' = "recovery"
            /\ UNCHANGED history
  /\ UNCHANGED <<buf, strikes, cancelled, outside, ghost>>

-----------------------------------------------------------------------------

\* The user cancels; a host injects a notice.  One that comes while a stream runs
\* leaves the history as one that came before it opened.
Cancel ==
  /\ pc # "idle" /\ ~cancelled /\ cancelled' = TRUE
  /\ UNCHANGED <<history, pc, turn, buf, strikes, outside, ghost>>

Notice ==
  /\ outside.notices < MaxNotices /\ pc # "streaming"
  /\ outside' = [outside EXCEPT !.notices = @ + 1]
  /\ history' = Append(history, Message("notice"))
  /\ UNCHANGED <<pc, turn, buf, strikes, cancelled, ghost>>

\* After some turns, which may have left the mark of a finished round.
Init ==
  /\ history \in Pasts /\ pc = "idle" /\ turn = NewTurn(0)
  /\ \E term \in IF history = <<>> THEN {FALSE} ELSE BOOLEAN : buf = [EmptyBuf EXCEPT !.term = term]
  /\ strikes = [count |-> 0, clean |-> 0] /\ cancelled = FALSE
  /\ outside = [turns |-> 0, notices |-> 0, steers |-> 0]
  /\ ghost = [streamed |-> {}, executed |-> {}, overflows |-> 0, source |-> NoSource]

Goes ==
  \/ Round \/ RecoveryRound \/ RetryAttempt \/ AppendResult
  \/ MoreAfterRound \/ MoreAfterRetry \/ MoreAfterRecovery

StreamEnds == Done \/ Eof \/ Stall \/ StreamFails \/ Strike

Next ==
  \/ Submit \/ Goes \/ StreamEnds
  \/ Text \/ Thinking \/ \E c \in Calls : Call(c)
  \/ Cancel \/ Notice

\* The turn's goroutine runs on, a backoff passes and tools return; a stream ends,
\* fails, or falls silent and is ended by the watchdog.
Fairness == WF_vars(Goes) /\ WF_vars(StreamEnds)

Spec == Init /\ [][Next]_vars /\ Fairness

-----------------------------------------------------------------------------

\* A request never shows a provider half a round: outside the recording of a
\* batch each call is answered exactly once, before the next thing anybody says
\* but a notice, and no answer is left without its call, wherever failures and
\* compressions cut the history (undoLastAssistantMessage; "tool_calls array and
\* tool results stay paired 1:1").
EveryCallAnswered ==
  LET sent == Sent(history)
      Where(kind) == {i \in 1 .. Len(sent) : sent[i].kind = kind}
      Between(i, j) == {sent[k].kind : k \in i + 1 .. j - 1}
  IN pc # "tools" =>
       /\ \A i \in Where("calls") : \A c \in Range(sent[i].calls) :
            Cardinality({j \in Where("result") : sent[j].call = c}) = 1
       /\ \A j \in Where("result") : \E i \in Where("calls") :
            /\ i < j /\ sent[j].call \in Range(sent[i].calls)
            /\ Between(i, j) \subseteq {"result", "notice"}

\* Until the context is found too long, a failure takes nothing from what the
\* earlier turns left in the history (turnStartHistoryLen).
EarlierTurnsKept ==
  [][pc # "idle" /\ ghost'.overflows = 0
       => IsPrefix(SubSeq(history, 1, turn.start), history')]_vars

\* What a stream that failed has brought is in no message and no call of it runs:
\* text and calls of two streams never meet, but in the recovery rounds, which
\* share their buffers.
NothingLeaks == ghost.source.mixed => turn.recovering > 0

\* A reply that ended in silence was one the provider had finished, as far as its
\* last words tell.  The mark of the end is stale in the first stream of a
\* turn and in recovery.
SilenceEndsWholeAnswers ==
  ghost.source.how = "stall" =>
    \/ turn.mode = "round" /\ turn.round = 0
    \/ turn.recovering > 0
    \/ OmitsTerminator /\ ghost.source.text = "whole"

\* A context that is too long is sent twice in a turn at most, however the
\* failures, retries and rounds follow each other.
OverflowEnds == ghost.overflows <= 2

\* Only calls prolong a turn: the rounds have no limit but the caller's
\* (effectiveMaxStreamRounds), so that a model that reasons and calls tools is
\* never cut off, but a turn that does not end runs calls again and again.
\* Retries, continuations, strikes and recovery rounds are bounded together, in
\* whatever order failures and silences bring them.
OnlyCallsProlong == []<>(pc \in {"idle", "tools"})

\* "not assistant messages from earlier rounds of the same turn" (agent.go): a call
\* that ran stays in the history with its result.
CompletedRoundsSurvive ==
  pc = "idle" => \A c \in ghost.executed :
    \E j \in 1 .. Len(history) : history[j].kind = "result" /\ history[j].call = c

\* compressSelective keeps the "system + recent turns" (agent_compress_elision.go): the
\* model is shown what the user asked.  It does not hold: see the README.
QuestionIsSent ==
  pc = "streaming" => \E i \in 1 .. Len(history) : history[i].kind = "user"

\* "Silence with no finished answer stays a stall error" (agent_stream_stall.go).  It does
\* not hold: see the README.
StallsAreRetried ==
  ghost.source.how = "stall" => OmitsTerminator /\ ghost.source.text = "whole"
=============================================================================
