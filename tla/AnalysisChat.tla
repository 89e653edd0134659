---------------------------- MODULE AnalysisChat ----------------------------
(***************************************************************************)
(* The analysis panel (internal/ui/analysispanel) and the streams of the   *)
(* analysis service it asks (internal/analysis/commands.go, provider).     *)
(*                                                                         *)
(* A question is answered by one message, or by a stream: a goroutine that *)
(* reads the provider and sends chunks through a channel of some capacity, *)
(* and a chain of commands that each take one of them.  The panel can be   *)
(* closed, emptied and asked again at any moment, and a stream has a time  *)
(* limit.  A request number is given to every question and another when    *)
(* one is given up; numbers are never reused, so the question whose        *)
(* answers are taken stands for the newest number, and 0 for a number      *)
(* nothing was asked under.                                                *)
(***************************************************************************)
EXTENDS Naturals, Sequences

CONSTANTS
    MaxQuestions,       \* bound on the questions asked
    MaxChunks,          \* bound on the chunks of one answer
    Capacity            \* streamEventCapacity

ASSUME ChatConstants ==
    MaxQuestions \in Nat /\ MaxChunks \in Nat /\ Capacity \in Nat \ {0}

VARIABLES
    provider,           \* whether a provider is configured
    visible, loading, streaming,
    asked,              \* the number of questions asked so far
    current,            \* the question whose answers are taken, or 0
    held,               \* the stream that streamCancel ends and streamChan reads, or 0
    raw,                \* streamRaw: for each of its chunks, the stream it came from
    history,            \* a sequence of questions and responses
    stage,              \* the goroutine of each stream
    canceled, expired,  \* what ended its context, if anything did
    queue, closed,      \* its channel
    reader,             \* the command of each question, and then its message
    sent,               \* history: the chunks that went into the channel
    whole,              \* history: the provider came to the end of its answer
    finished            \* history: the panel took the end of the stream

panelVars  == <<provider, visible, loading, streaming, asked, current, held, raw, history>>
streamVars == <<stage, expired, queue, closed, sent, whole>>
vars == <<panelVars, streamVars, canceled, reader, finished>>

Questions == 1..MaxQuestions
Stages == {"none", "starting", "running", "sending", "failed", "returned", "ended"}
Pending == {"reading", "analysis", "command"}
Messages == {"chunk", "failure", "done", "answer", "error", "suggestion", "refused"}
Pieces == [of : Questions, kind : {"chunk", "answer", "error", "hint"}]
Entries == [query : Questions, response : Seq(Pieces)]

TypeOK ==
    /\ provider \in BOOLEAN /\ visible \in BOOLEAN /\ loading \in BOOLEAN /\ streaming \in BOOLEAN
    /\ asked \in 0..MaxQuestions /\ current \in 0..MaxQuestions /\ held \in 0..MaxQuestions
    /\ raw \in Seq(Questions) /\ history \in Seq(Entries)
    /\ stage \in [Questions -> Stages]
    /\ canceled \in [Questions -> BOOLEAN] /\ expired \in [Questions -> BOOLEAN]
    /\ queue \in [Questions -> Seq({"chunk", "failure"})] /\ closed \in [Questions -> BOOLEAN]
    /\ reader \in [Questions -> Pending \cup Messages \cup {"none"}]
    /\ sent \in [Questions -> Nat]
    /\ whole \in [Questions -> BOOLEAN] /\ finished \in [Questions -> BOOLEAN]

-----------------------------------------------------------------------------
Piece(q, kind) == [of |-> q, kind |-> kind]
Entry(q, response) == [query |-> q, response |-> response]

\* The context of a stream is over.
Over(q) == canceled[q] \/ expired[q]

Init ==
    /\ provider \in BOOLEAN
    /\ visible = FALSE /\ loading = FALSE /\ streaming = FALSE
    /\ asked = 0 /\ current = 0 /\ held = 0 /\ raw = <<>> /\ history = <<>>
    /\ stage = [q \in Questions |-> "none"]
    /\ canceled = [q \in Questions |-> FALSE] /\ expired = [q \in Questions |-> FALSE]
    /\ queue = [q \in Questions |-> <<>>] /\ closed = [q \in Questions |-> FALSE]
    /\ reader = [q \in Questions |-> "none"]
    /\ sent = [q \in Questions |-> 0]
    /\ whole = [q \in Questions |-> FALSE] /\ finished = [q \in Questions |-> FALSE]

-----------------------------------------------------------------------------
(* The conversation                                                        *)

\* setLatestResponse.
WithLatest(response) ==
    IF history = <<>> THEN history
    ELSE [history EXCEPT ![Len(history)] = Entry(@.query, response)]

\* setLatestResponseIfEmpty.
WithLatestIfEmpty(response) ==
    IF history = <<>> \/ history[Len(history)].response # <<>> THEN history ELSE WithLatest(response)

\* The chunks of streamRaw as a response.
Chunks(text) == [i \in DOMAIN text |-> Piece(text[i], "chunk")]

\* The cancel function the panel holds is called; a call of another one has no effect.
CancelHeld == canceled' = [q \in Questions |-> canceled[q] \/ q = held]

EndStream ==
    /\ CancelHeld /\ held' = 0
    /\ streaming' = FALSE /\ loading' = FALSE /\ raw' = <<>>

\* A number is given so that the answer to come is dropped.
GiveUp == current' = IF loading \/ streaming THEN 0 ELSE current

-----------------------------------------------------------------------------
(* The user                                                                *)

\* SetVisible(TRUE): the key tab, or the screen of the panel is entered.
Show ==
    /\ ~visible /\ visible' = TRUE
    /\ UNCHANGED <<provider, loading, streaming, asked, current, held, raw, history, streamVars, canceled,
                   reader, finished>>

\* SetVisible(FALSE): esc, tab, or the screen of the panel is left.
Hide ==
    /\ visible /\ visible' = FALSE
    /\ GiveUp /\ EndStream
    /\ UNCHANGED <<provider, asked, history, streamVars, reader, finished>>

\* clearChat.
Clear ==
    /\ visible /\ GiveUp /\ EndStream
    /\ history' = <<>>
    /\ UNCHANGED <<provider, visible, asked, streamVars, reader, finished>>

\* submitInput and prepareQuery: nothing is asked while an answer is awaited.
Submit(response) ==
    /\ visible /\ ~loading /\ asked < MaxQuestions
    /\ asked' = asked + 1
    /\ history' = Append(history, Entry(asked + 1, response))
    /\ UNCHANGED <<provider, visible, queue, closed, expired, sent, whole, finished>>

\* beginRequest.
BeginRequest == loading' = TRUE /\ current' = asked + 1

\* rejectQueryWithoutProvider.
AskNobody ==
    /\ ~provider /\ Submit(<<Piece(asked + 1, "hint")>>)
    /\ UNCHANGED <<loading, streaming, current, held, raw, stage, canceled, reader>>

\* submitCommandRequest, and submitAnalysisRequest on a screen that has no context to give.
AskOnce(kind) ==
    /\ provider /\ Submit(<<>>) /\ BeginRequest
    /\ reader' = [reader EXCEPT ![asked + 1] = kind]
    /\ UNCHANGED <<streaming, held, raw, stage, canceled>>

\* startStreamingAnalysis.
AskStream ==
    /\ provider /\ Submit(<<>>) /\ BeginRequest
    /\ CancelHeld /\ held' = asked + 1
    /\ raw' = <<>> /\ streaming' = TRUE
    /\ stage' = [stage EXCEPT ![asked + 1] = "starting"]
    /\ UNCHANGED reader

-----------------------------------------------------------------------------
(* The service                                                             *)

ServiceOnly == UNCHANGED <<panelVars, finished>>

\* Analyze, AnalyzeClusterContext or GenerateCommand return within their time limits.
Reply(q, from, answers) ==
    /\ reader[q] = from
    /\ \E answer \in answers : reader' = [reader EXCEPT ![q] = answer]
    /\ ServiceOnly /\ UNCHANGED <<streamVars, canceled>>
Analyzed(q) == Reply(q, "analysis", {"answer", "error"})
Generated(q) == Reply(q, "command", {"suggestion", "refused"})

Move(q, from, to) == stage[q] = from /\ stage' = [stage EXCEPT ![q] = to]

\* The start command of AnalyzeStream: a goroutine, and the first read of its channel.
Start(q) ==
    /\ Move(q, "starting", "running")
    /\ reader' = [reader EXCEPT ![q] = "reading"]
    /\ ServiceOnly /\ UNCHANGED <<canceled, expired, queue, closed, sent, whole>>

\* context.WithTimeout.
Expire(q) ==
    /\ stage[q] \notin {"none", "ended"} /\ ~Over(q)
    /\ expired' = [expired EXCEPT ![q] = TRUE]
    /\ ServiceOnly /\ UNCHANGED <<stage, canceled, queue, closed, reader, sent, whole>>

\* streamSSE: an event that holds a chunk is decoded.
Decode(q) ==
    /\ sent[q] < MaxChunks /\ Move(q, "running", "sending")
    /\ ServiceOnly /\ UNCHANGED <<canceled, expired, queue, closed, reader, sent, whole>>

\* dispatch: the chunk is sent when there is room, or the context ends the stream.
SendChunk(q) ==
    /\ Len(queue[q]) < Capacity /\ Move(q, "sending", "running")
    /\ queue' = [queue EXCEPT ![q] = Append(@, "chunk")]
    /\ sent' = [sent EXCEPT ![q] = @ + 1]
    /\ ServiceOnly /\ UNCHANGED <<canceled, expired, closed, reader, whole>>

AbortChunk(q) ==
    /\ Over(q) /\ Move(q, "sending", "failed")
    /\ ServiceOnly /\ UNCHANGED <<canceled, expired, queue, closed, reader, sent, whole>>

\* The provider says that it is done, or ends its answer.
Complete(q) ==
    /\ Move(q, "running", "returned")
    /\ whole' = [whole EXCEPT ![q] = TRUE]
    /\ ServiceOnly /\ UNCHANGED <<canceled, expired, queue, closed, reader, sent>>

\* The request, the read of its body, an event or a limit fails, at the latest when the context ends.
Break(q) ==
    /\ Move(q, "running", "failed")
    /\ ServiceOnly /\ UNCHANGED <<canceled, expired, queue, closed, reader, sent, whole>>

\* runProviderStream: the failure is sent when there is room.
SendFailure(q) ==
    /\ Len(queue[q]) < Capacity /\ Move(q, "failed", "returned")
    /\ queue' = [queue EXCEPT ![q] = Append(@, "failure")]
    /\ ServiceOnly /\ UNCHANGED <<canceled, expired, closed, reader, sent, whole>>

\* Faults to be told apart: the failure is sent whoever reads, or only to who reads already.
DropNoFailure(q) == FALSE /\ UNCHANGED vars
DropFailureUnread(q) ==
    /\ Move(q, "failed", "returned")
    /\ ServiceOnly /\ UNCHANGED <<canceled, expired, queue, closed, reader, sent, whole>>

DropFailure(q) ==
    /\ Over(q) /\ Move(q, "failed", "returned")
    /\ ServiceOnly /\ UNCHANGED <<canceled, expired, queue, closed, reader, sent, whole>>

\* The deferred calls: the channel is closed and the context canceled.
CloseStream(q) ==
    /\ Move(q, "returned", "ended")
    /\ closed' = [closed EXCEPT ![q] = TRUE] /\ canceled' = [canceled EXCEPT ![q] = TRUE]
    /\ ServiceOnly /\ UNCHANGED <<expired, queue, reader, sent, whole>>

\* readStreamEvent.
Read(q) ==
    /\ reader[q] = "reading" /\ queue[q] # <<>>
    /\ reader' = [reader EXCEPT ![q] = Head(queue[q])]
    /\ queue' = [queue EXCEPT ![q] = Tail(@)]
    /\ ServiceOnly /\ UNCHANGED <<stage, canceled, expired, closed, sent, whole>>

ReadClosed(q) ==
    /\ reader[q] = "reading" /\ queue[q] = <<>> /\ closed[q]
    /\ reader' = [reader EXCEPT ![q] = "done"]
    /\ ServiceOnly /\ UNCHANGED <<streamVars, canceled>>

-----------------------------------------------------------------------------
(* The panel takes a message                                               *)

\* A fault to be told apart: the number of an answer is not compared.
AcceptsAll(q) == TRUE

\* handleAnalysisRequestResult.
Accepts(q) == q = current

Take(q, message) ==
    /\ reader[q] = message /\ Accepts(q)
    /\ UNCHANGED <<provider, visible, asked, current, streamVars>>

Drop(q) ==
    /\ reader[q] \in Messages /\ ~Accepts(q)
    /\ reader' = [reader EXCEPT ![q] = "none"]
    /\ UNCHANGED <<panelVars, streamVars, canceled, finished>>

Taken(q) == reader' = [reader EXCEPT ![q] = "none"]

\* A fault to be told apart: the next chunk is not asked for.
TakeLastChunk(q) ==
    /\ Take(q, "chunk")
    /\ raw' = Append(raw, q) /\ history' = WithLatest(Chunks(raw'))
    /\ Taken(q)
    /\ UNCHANGED <<loading, streaming, held, canceled, finished>>

\* appendStreamChunk.
TakeChunk(q) ==
    /\ Take(q, "chunk")
    /\ raw' = Append(raw, q) /\ history' = WithLatest(Chunks(raw'))
    /\ reader' = [p \in Questions |-> IF p = held THEN "reading" ELSE IF p = q THEN "none" ELSE reader[p]]
    /\ UNCHANGED <<loading, streaming, held, canceled, finished>>

\* handleStreamError.
TakeFailure(q) ==
    /\ Take(q, "failure")
    /\ EndStream /\ history' = WithLatestIfEmpty(<<Piece(q, "error")>>)
    /\ Taken(q) /\ UNCHANGED finished

\* finishStream.
TakeDone(q) ==
    /\ Take(q, "done")
    /\ history' = WithLatest(Chunks(raw)) /\ EndStream
    /\ finished' = [finished EXCEPT ![q] = TRUE]
    /\ Taken(q)

\* handleAnalysisResult.
TakeAnswer(q, message, piece) ==
    /\ Take(q, message)
    /\ loading' = FALSE /\ streaming' = FALSE
    /\ history' = WithLatestIfEmpty(<<Piece(q, piece)>>)
    /\ Taken(q) /\ UNCHANGED <<held, raw, canceled, finished>>

\* handleGeneratedCommand.
TakeCommand(q, message, piece) ==
    /\ Take(q, message)
    /\ loading' = FALSE
    /\ history' = WithLatestIfEmpty(<<Piece(q, piece)>>)
    /\ Taken(q) /\ UNCHANGED <<streaming, held, raw, canceled, finished>>

-----------------------------------------------------------------------------
User == Show \/ Hide \/ Clear \/ AskNobody \/ AskOnce("analysis") \/ AskOnce("command") \/ AskStream

Goroutine(q) ==
    \/ Start(q) \/ SendChunk(q) \/ AbortChunk(q) \/ SendFailure(q) \/ DropFailure(q) \/ CloseStream(q)
    \/ Break(q)
Answering(q) == Analyzed(q) \/ Generated(q) \/ Read(q) \/ ReadClosed(q)
Panel(q) ==
    \/ Drop(q) \/ TakeChunk(q) \/ TakeFailure(q) \/ TakeDone(q)
    \/ TakeAnswer(q, "answer", "answer") \/ TakeAnswer(q, "error", "error")
    \/ TakeCommand(q, "suggestion", "answer") \/ TakeCommand(q, "refused", "error")

Next ==
    \/ User
    \/ \E q \in Questions :
          Goroutine(q) \/ Decode(q) \/ Complete(q) \/ Expire(q) \/ Answering(q) \/ Panel(q)

\* Goroutines and commands run, the panel takes its messages, and time passes: a request ends with
\* its time limit at the latest.  A command that has its message reads no further: one condition
\* covers both.
Fairness ==
    \A q \in Questions :
        /\ WF_vars(Goroutine(q) /\ (stage[q] # "running" \/ Over(q)))
        /\ WF_vars(Expire(q)) /\ WF_vars(Answering(q) \/ Panel(q))

Spec == Init /\ [][Next]_vars
FairSpec == Spec /\ Fairness

-----------------------------------------------------------------------------
(* Properties                                                              *)

\* What is written under a question was said in answer to it.
AnswersItsQuestion ==
    \A i \in DOMAIN history : \A j \in DOMAIN history[i].response :
        history[i].response[j].of = history[i].query

\* An answer that ended like a whole one is whole and has every chunk, unless its time was over.
FinishedIsWhole ==
    \A i \in DOMAIN history :
        LET q == history[i].query
        IN  finished[q] /\ ~expired[q] => whole[q] /\ Len(history[i].response) = sent[q]

\* A stream whose cancel function nobody called is the one the panel shows and can end.
StreamIsHeld ==
    \A q \in Questions :
        stage[q] # "none" /\ ~canceled[q] => q = held /\ q = current /\ streaming /\ loading /\ visible

\* What is asked is answered or given up: the panel does not load for ever.
LoadingEnds == []<>~loading

\* The goroutine of a stream that is started ends, whether somebody reads its channel or not.
StreamsEnd == \A q \in Questions : []<>(stage[q] \in {"none", "ended"})
=============================================================================
