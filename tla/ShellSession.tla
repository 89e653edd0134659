---------------------------- MODULE ShellSession ----------------------------
(***************************************************************************)
(* A shell in a pod, internal/kube/shell.go.                               *)
(*                                                                         *)
(* startShellSession starts two goroutines: writeInput, which copies the   *)
(* input queue to the remote stdin, and run, which starts one reader for   *)
(* each of stdout and stderr, waits for the remote stream to return and    *)
(* then takes the session down.  The screen sends lines, reads the output  *)
(* and exit channels, and may close the session at any time; so may the    *)
(* lifetime of the connection.                                             *)
(*                                                                         *)
(* Lines are counted, not kept.  The stream itself is client code: while   *)
(* it runs it reads stdin and writes stdout and stderr through pipes, and  *)
(* it returns when the remote side ends or its context is done.            *)
(***************************************************************************)
EXTENDS Naturals

CONSTANTS
    MaxLines,       \* bound on the lines each remote stream writes
    MaxSends,       \* bound on the lines the screen sends
    InputRoom,      \* shellInputCapacity
    OutputRoom      \* shellOutputCapacity

ASSUME ShellBounds ==
    /\ MaxLines \in Nat /\ MaxSends \in Nat
    /\ InputRoom \in Nat \ {0} /\ OutputRoom \in Nat \ {0}

Streams == {"stdout", "stderr"}

VARIABLES
    once,           \* closeOnce: "open", who is inside it with closed set, "done" once cancelled
    ctxDone,        \* the context of the session is done
    endedBy,        \* history: who ended the context first
    input,          \* lines in the input channel
    writer,         \* where writeInput stands
    accepted,       \* history: lines Send has accepted
    wrote,          \* history: lines the remote side has written, of each stream
    pipe,           \* what each output pipe holds for its reader
    reader,         \* where each reader stands
    tooLong,        \* streams whose reader gave up on a line
    output,         \* lines in the output channel
    outputClosed,
    dropped,        \* droppedOutput
    delivered,      \* history: lines the screen has received
    run,            \* where run stands
    streamErr,      \* what StreamWithContext returned
    wasCanceled,
    exit            \* the error parts of the value in the exit channel, or NoExit

closeVars  == <<once, ctxDone, endedBy>>
inputVars  == <<input, writer, accepted>>
readVars   == <<wrote, pipe, reader, tooLong>>
outputVars == <<output, outputClosed, dropped, delivered>>
runVars    == <<run, streamErr, wasCanceled, exit>>
shellVars == <<closeVars, inputVars, readVars, outputVars, runVars>>

Parts  == {"stream", "tooLong", "dropped"}
NoExit == {"none"}

ShellTypeOK ==
    /\ once \in {"open", "screen", "run", "done"}
    /\ ctxDone \in BOOLEAN
    /\ endedBy \in {"nobody", "screen", "lifetime", "run"}
    /\ input \in 0 .. InputRoom
    /\ writer \in {"next", "write", "close", "done"}
    /\ accepted \in 0 .. MaxSends
    /\ wrote \in [Streams -> 0 .. MaxLines]
    /\ pipe \in [Streams -> {"empty", "line", "long", "closed"}]
    /\ reader \in [Streams -> {"scan", "emit", "finish", "done"}]
    /\ tooLong \subseteq Streams
    /\ output \in 0 .. OutputRoom
    /\ outputClosed \in BOOLEAN
    /\ dropped \in Nat
    /\ delivered \in Nat
    /\ run \in {"stream", "returned", "sampled", "wait", "close", "join", "collect", "exit", "ended"}
    /\ streamErr \in {"nil", "failure"}
    /\ wasCanceled \in BOOLEAN
    /\ exit \in {NoExit} \cup SUBSET Parts

ShellInit ==
    /\ once = "open" /\ ctxDone = FALSE /\ endedBy = "nobody"
    /\ input = 0 /\ writer = "next" /\ accepted = 0
    /\ wrote = [s \in Streams |-> 0]
    /\ pipe = [s \in Streams |-> "empty"]
    /\ reader = [s \in Streams |-> "scan"]
    /\ tooLong = {}
    /\ output = 0 /\ outputClosed = FALSE /\ dropped = 0 /\ delivered = 0
    /\ run = "stream" /\ streamErr = "nil" /\ wasCanceled = FALSE /\ exit = NoExit

----------------------------------------------------------------------------
(* Closing *)

EndContext(who) ==
    /\ ctxDone' = TRUE
    /\ endedBy' = IF ctxDone THEN endedBy ELSE who

\* shellSession.Close under closeOnce: the flag first, then the context.
Close(who) ==
    \/ /\ once = "open"
       /\ once' = who
       /\ UNCHANGED <<ctxDone, endedBy>>
    \/ /\ once = who
       /\ once' = "done"
       /\ EndContext(who)

\* Close and Interrupt, called by the screen
ScreenCloses ==
    /\ Close("screen")
    /\ UNCHANGED <<inputVars, readVars, outputVars, runVars>>

LifetimeEnds ==
    /\ ~ctxDone
    /\ EndContext("lifetime")
    /\ UNCHANGED <<once, inputVars, readVars, outputVars, runVars>>

----------------------------------------------------------------------------
(* Input *)

\* shellSession.Send: refused once closed or cancelled, and when the queue is full.
Send ==
    /\ once = "open"
    /\ ~ctxDone
    /\ input < InputRoom
    /\ accepted < MaxSends
    /\ input' = input + 1
    /\ accepted' = accepted + 1
    /\ UNCHANGED <<closeVars, writer, readVars, outputVars, runVars>>

\* nextInput: a line or the end of the context, whichever is ready.
NextInput ==
    /\ writer = "next"
    /\ \/ input > 0 /\ input' = input - 1 /\ writer' = "write"
       \/ ctxDone /\ writer' = "close" /\ UNCHANGED input
    /\ UNCHANGED <<closeVars, accepted, readVars, outputVars, runVars>>

\* The remote side takes the line that writeInputLine is blocked on.
RemoteReads ==
    /\ writer = "write"
    /\ run = "stream"
    /\ writer' = "next"
    /\ UNCHANGED <<closeVars, input, accepted, readVars, outputVars, runVars>>

StdinReaderClosed == run \in {"join", "collect", "exit", "ended"}

\* Mutant of WriteFails: run leaves its end of the stdin pipe open.
WriteNeverFails ==
    /\ FALSE
    /\ UNCHANGED shellVars

\* A write to the closed pipe; its error is ignored and Close is a no-op by then.
WriteFails ==
    /\ writer = "write"
    /\ StdinReaderClosed
    /\ writer' = "close"
    /\ UNCHANGED <<closeVars, input, accepted, readVars, outputVars, runVars>>

CloseInput ==
    /\ writer = "close"
    /\ writer' = "done"
    /\ UNCHANGED <<closeVars, input, accepted, readVars, outputVars, runVars>>

----------------------------------------------------------------------------
(* Output *)

\* The remote side writes a line, or one too long for the scanner; the pipe holds one.
RemoteWrites(s, kind) ==
    /\ run = "stream"
    /\ pipe[s] = "empty"
    /\ wrote[s] < MaxLines
    /\ wrote' = [wrote EXCEPT ![s] = @ + 1]
    /\ pipe' = [pipe EXCEPT ![s] = kind]
    /\ UNCHANGED <<closeVars, inputVars, reader, tooLong, outputVars, runVars>>

WritersClosed == run \notin {"stream", "returned", "sampled"}

\* scanOutput: a line, a line beyond shellMaximumLineBytes, or the end of the stream.
Scan(s) ==
    /\ reader[s] = "scan"
    /\ \/ /\ pipe[s] = "line"
          /\ reader' = [reader EXCEPT ![s] = "emit"]
          /\ pipe' = [pipe EXCEPT ![s] = "empty"]
          /\ UNCHANGED tooLong
       \/ /\ pipe[s] = "long"
          /\ reader' = [reader EXCEPT ![s] = "finish"]
          /\ tooLong' = tooLong \cup {s}
          /\ UNCHANGED pipe
       \/ /\ pipe[s] = "empty"
          /\ WritersClosed
          /\ reader' = [reader EXCEPT ![s] = "finish"]
          /\ UNCHANGED <<pipe, tooLong>>
    /\ UNCHANGED <<closeVars, inputVars, wrote, outputVars, runVars>>

\* Mutant of Emit: the line that does not fit is dropped without being counted.
EmitOrForget(s) ==
    /\ reader[s] = "emit"
    /\ \/ ctxDone /\ reader' = [reader EXCEPT ![s] = "finish"] /\ UNCHANGED output
       \/ output < OutputRoom /\ output' = output + 1 /\ reader' = [reader EXCEPT ![s] = "scan"]
       \/ ~ctxDone /\ output = OutputRoom /\ reader' = [reader EXCEPT ![s] = "scan"] /\ UNCHANGED output
    /\ UNCHANGED <<closeVars, inputVars, wrote, pipe, tooLong, outputClosed, dropped,
                   delivered, runVars>>

\* emitOutput: the end of the context, room in the channel, or neither.
Emit(s) ==
    /\ reader[s] = "emit"
    /\ \/ /\ ctxDone
          /\ reader' = [reader EXCEPT ![s] = "finish"]
          /\ UNCHANGED <<output, dropped>>
       \/ /\ output < OutputRoom
          /\ output' = output + 1
          /\ reader' = [reader EXCEPT ![s] = "scan"]
          /\ UNCHANGED dropped
       \/ /\ ~ctxDone /\ output = OutputRoom
          /\ dropped' = dropped + 1
          /\ reader' = [reader EXCEPT ![s] = "scan"]
          /\ UNCHANGED output
    /\ UNCHANGED <<closeVars, inputVars, wrote, pipe, tooLong, outputClosed, delivered,
                   runVars>>

\* The reader closes its pipe, which fails further writes, and hands in its error.
FinishReading(s) ==
    /\ reader[s] = "finish"
    /\ reader' = [reader EXCEPT ![s] = "done"]
    /\ pipe' = [pipe EXCEPT ![s] = "closed"]
    /\ UNCHANGED <<closeVars, inputVars, wrote, tooLong, outputVars, runVars>>

\* waitForShellOutput, one line at a time
ReceiveOutput ==
    /\ output > 0
    /\ output' = output - 1
    /\ delivered' = delivered + 1
    /\ UNCHANGED <<closeVars, inputVars, readVars, outputClosed, dropped, runVars>>

----------------------------------------------------------------------------
(* shellSession.run *)

RunStep(from, to) == run = from /\ run' = to

\* StreamWithContext returns: at the remote end, on a failure, or because the context is done.
StreamReturns(err) ==
    /\ RunStep("stream", "returned")
    /\ ctxDone => err = "failure"
    /\ streamErr' = err
    /\ UNCHANGED <<closeVars, inputVars, readVars, outputVars, wasCanceled, exit>>

SampleCanceled ==
    /\ RunStep("returned", "sampled")
    /\ wasCanceled' = ctxDone
    /\ UNCHANGED <<closeVars, inputVars, readVars, outputVars, streamErr, exit>>

CloseWriters ==
    /\ RunStep("sampled", "wait")
    /\ UNCHANGED <<closeVars, inputVars, readVars, outputVars, streamErr, wasCanceled,
                   exit>>

ReadersDone == \A s \in Streams : reader[s] = "done"

WaitForReaders ==
    /\ RunStep("wait", "close")
    /\ ReadersDone
    /\ UNCHANGED <<closeVars, inputVars, readVars, outputVars, streamErr, wasCanceled,
                   exit>>

\* run's Close, then its end of the stdin pipe; a Close under way elsewhere is waited for.
RunCloses ==
    /\ run = "close"
    /\ \/ Close("run") /\ UNCHANGED run
       \/ once = "done" /\ run' = "join" /\ UNCHANGED closeVars
    /\ UNCHANGED <<inputVars, readVars, outputVars, streamErr, wasCanceled, exit>>

JoinInput ==
    /\ RunStep("join", "collect")
    /\ writer = "done"
    /\ UNCHANGED <<closeVars, inputVars, readVars, outputVars, streamErr, wasCanceled,
                   exit>>

\* Mutant of Failures: an error of the stream is reported whoever ended it.
FailuresWithCancel ==
    {p \in Parts : \/ p = "stream"  /\ streamErr # "nil"
                   \/ p = "tooLong" /\ tooLong # {}
                   \/ p = "dropped" /\ dropped > 0}

\* What run reports: the stream unless it was cancelled, the readers, the dropped lines.
Failures ==
    {p \in Parts : \/ p = "stream"  /\ streamErr # "nil" /\ ~wasCanceled
                   \/ p = "tooLong" /\ tooLong # {}
                   \/ p = "dropped" /\ dropped > 0}

CloseOutput ==
    /\ RunStep("collect", "exit")
    /\ outputClosed' = TRUE
    /\ UNCHANGED <<closeVars, inputVars, readVars, output, dropped, delivered, streamErr,
                   wasCanceled, exit>>

ReportExit ==
    /\ RunStep("exit", "ended")
    /\ exit' = Failures
    /\ UNCHANGED <<closeVars, inputVars, readVars, outputVars, streamErr, wasCanceled>>

----------------------------------------------------------------------------
(* Specification *)

WriterStep    == NextInput \/ WriteFails \/ CloseInput
ReaderStep(s) == Scan(s) \/ Emit(s) \/ FinishReading(s)
RunProgress   == SampleCanceled \/ CloseWriters \/ WaitForReaders \/ RunCloses \/ JoinInput
                 \/ CloseOutput \/ ReportExit

ShellNext ==
    \/ ScreenCloses \/ LifetimeEnds
    \/ Send \/ RemoteReads \/ ReceiveOutput
    \/ WriterStep \/ RunProgress
    \/ \E s \in Streams : ReaderStep(s)
    \/ \E s \in Streams, kind \in {"line", "long"} : RemoteWrites(s, kind)
    \/ \E err \in {"nil", "failure"} : StreamReturns(err)

ShellSpec == ShellInit /\ [][ShellNext]_shellVars

\* Some goroutine of the session goes on while one can, whichever it is, and the stream obeys its
\* context: each has only so much to do.
ShellFairness ==
    WF_shellVars(\/ WriterStep \/ RunProgress
                 \/ \E s \in Streams : ReaderStep(s)
                 \/ once = "screen" /\ ScreenCloses
                 \/ ctxDone /\ StreamReturns("failure"))

FairShellSpec == ShellSpec /\ ShellFairness

----------------------------------------------------------------------------
(* Properties *)

\* The output channel is closed only when no reader can send on it any more.
OutputClosedLast ==
    outputClosed => ReadersDone

\* A line the remote side wrote is never lost in silence: an exit without error, of a
\* session nobody closed, follows the delivery of every line to the channel.
CleanExitLosesNothing ==
    exit = {} /\ endedBy = "run" =>
        wrote["stdout"] + wrote["stderr"] = delivered + output

\* Closing a session is not a failure of its stream; a stream that fails by itself is.
OnlyRealFailures ==
    exit # NoExit =>
        /\ wasCanceled => "stream" \notin exit
        /\ streamErr = "failure" /\ endedBy = "run" => "stream" \in exit

\* How far run has come tells what has ended; run cancels only after the readers are done.
RunOrder ==
    /\ run \in {"close", "join", "collect", "exit", "ended"} => ReadersDone
    /\ outputClosed <=> run \in {"exit", "ended"}
    /\ exit # NoExit <=> run = "ended"
    /\ ctxDone <=> endedBy # "nobody"
    /\ endedBy = "run" => run \in {"close", "join", "collect", "exit", "ended"} /\ ~wasCanceled
    /\ run = "ended" => exit = Failures
    /\ wasCanceled => ctxDone

\* Lines of a stream that are in its pipe or in the hands of its reader.
InFlight(s) == (IF pipe[s] \in {"line", "long"} THEN 1 ELSE 0) + (IF reader[s] = "emit" THEN 1 ELSE 0)

\* Until somebody else ends the session or a line is too long, every line is accounted for.
Accounting ==
    /\ \A s \in Streams : reader[s] = "done" <=> pipe[s] = "closed"
    /\ endedBy \in {"nobody", "run"} /\ tooLong = {} =>
        /\ \A s \in Streams : reader[s] = "finish" => pipe[s] = "empty" /\ WritersClosed
        /\ wrote["stdout"] + wrote["stderr"] =
               delivered + output + dropped + InFlight("stdout") + InFlight("stderr")

\* However the session ends, all of its goroutines end and its exit is reported, even when
\* the screen reads nothing any more.
SessionEnds ==
    ctxDone \/ run # "stream" ~> run = "ended" /\ writer = "done" /\ ReadersDone
=============================================================================
