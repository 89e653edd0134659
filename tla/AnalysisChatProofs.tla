------------------------- MODULE AnalysisChatProofs -------------------------
(***************************************************************************)
(* Proofs about AnalysisChat, for any number of questions and chunks and   *)
(* any capacity of the channel.                                            *)
(***************************************************************************)
EXTENDS AnalysisChat, TLAPS

USE ChatConstants

\* The switches and the numbers of the panel.
PanelTypes ==
    /\ provider \in BOOLEAN /\ visible \in BOOLEAN /\ loading \in BOOLEAN /\ streaming \in BOOLEAN
    /\ asked \in 0..MaxQuestions /\ current \in 0..MaxQuestions /\ held \in 0..MaxQuestions

\* The numbers the panel keeps are those of questions that were asked.
THEOREM PanelTyped == Spec => []PanelTypes
<1>1. Init => PanelTypes
  <2>1. Init => {provider, visible, loading, streaming} \subseteq BOOLEAN
    BY DEF Init
  <2> QED BY <2>1 DEF Init, PanelTypes
<1>2. PanelTypes /\ [Next]_vars => PanelTypes'
  <2> SUFFICES ASSUME PanelTypes, [Next]_vars PROVE PanelTypes'
    OBVIOUS
  <2> USE DEF PanelTypes, Questions, panelVars, streamVars
  <2>1. CASE Show
    BY <2>1 DEF Show
  <2>2. CASE Hide
    <3>1. /\ asked' \in 0..MaxQuestions /\ current' \in 0..MaxQuestions /\ held' \in 0..MaxQuestions
      BY <2>2 DEF Hide, EndStream, GiveUp
    <3>2. visible' \in BOOLEAN /\ provider' \in BOOLEAN
      BY <2>2, <3>1 DEF Hide, EndStream, GiveUp
    <3>3. loading' \in BOOLEAN /\ streaming' \in BOOLEAN
      BY <2>2, <3>1, <3>2 DEF Hide, EndStream, GiveUp
    <3> QED BY <3>1, <3>2, <3>3
  <2>3. CASE Clear
    <3>1. /\ asked' \in 0..MaxQuestions /\ current' \in 0..MaxQuestions /\ held' \in 0..MaxQuestions
      BY <2>3 DEF Clear, EndStream, GiveUp
    <3>2. visible' \in BOOLEAN /\ provider' \in BOOLEAN
      BY <2>3, <3>1 DEF Clear, EndStream, GiveUp
    <3>3. loading' \in BOOLEAN /\ streaming' \in BOOLEAN
      BY <2>3, <3>1, <3>2 DEF Clear, EndStream, GiveUp
    <3> QED BY <3>1, <3>2, <3>3
  <2>4. CASE AskNobody
    BY <2>4 DEF AskNobody, Submit
  <2>5. ASSUME NEW kind \in {"analysis", "command"}, AskOnce(kind) PROVE PanelTypes'
    <3>1. /\ asked' \in 0..MaxQuestions /\ current' \in 0..MaxQuestions /\ held' \in 0..MaxQuestions
      BY <2>5 DEF AskOnce, Submit, BeginRequest
    <3>2. /\ provider' \in BOOLEAN /\ visible' \in BOOLEAN /\ loading' \in BOOLEAN /\ streaming' \in BOOLEAN
      BY <2>5, <3>1 DEF AskOnce, Submit, BeginRequest
    <3> QED BY <3>1, <3>2
  <2>6. CASE AskStream
    <3>1. /\ asked' \in 0..MaxQuestions /\ current' \in 0..MaxQuestions /\ held' \in 0..MaxQuestions
      BY <2>6 DEF AskStream, Submit, BeginRequest
    <3>2. /\ provider' \in BOOLEAN /\ visible' \in BOOLEAN /\ loading' \in BOOLEAN /\ streaming' \in BOOLEAN
      BY <2>6, <3>1 DEF AskStream, Submit, BeginRequest
    <3> QED BY <3>1, <3>2
  <2>7. ASSUME NEW q \in Questions, Analyzed(q) PROVE PanelTypes'
    BY <2>7 DEF Analyzed, Reply, ServiceOnly
  <2>8. ASSUME NEW q \in Questions, Generated(q) PROVE PanelTypes'
    BY <2>8 DEF Generated, Reply, ServiceOnly
  <2>9. ASSUME NEW q \in Questions, Start(q) PROVE PanelTypes'
    BY <2>9 DEF Start, Move, ServiceOnly
  <2>10. ASSUME NEW q \in Questions, Expire(q) PROVE PanelTypes'
    BY <2>10 DEF Expire, ServiceOnly
  <2>11. ASSUME NEW q \in Questions, Decode(q) PROVE PanelTypes'
    BY <2>11 DEF Decode, Move, ServiceOnly
  <2>12. ASSUME NEW q \in Questions, SendChunk(q) PROVE PanelTypes'
    BY <2>12 DEF SendChunk, Move, ServiceOnly
  <2>13. ASSUME NEW q \in Questions, AbortChunk(q) PROVE PanelTypes'
    BY <2>13 DEF AbortChunk, Move, ServiceOnly
  <2>14. ASSUME NEW q \in Questions, Complete(q) PROVE PanelTypes'
    BY <2>14 DEF Complete, Move, ServiceOnly
  <2>15. ASSUME NEW q \in Questions, Break(q) PROVE PanelTypes'
    BY <2>15 DEF Break, Move, ServiceOnly
  <2>16. ASSUME NEW q \in Questions, SendFailure(q) PROVE PanelTypes'
    BY <2>16 DEF SendFailure, Move, ServiceOnly
  <2>17. ASSUME NEW q \in Questions, DropFailure(q) PROVE PanelTypes'
    BY <2>17 DEF DropFailure, Move, ServiceOnly
  <2>18. ASSUME NEW q \in Questions, CloseStream(q) PROVE PanelTypes'
    BY <2>18 DEF CloseStream, Move, ServiceOnly
  <2>19. ASSUME NEW q \in Questions, Read(q) PROVE PanelTypes'
    BY <2>19 DEF Read, ServiceOnly
  <2>20. ASSUME NEW q \in Questions, ReadClosed(q) PROVE PanelTypes'
    BY <2>20 DEF ReadClosed, ServiceOnly
  <2>21. ASSUME NEW q \in Questions, Drop(q) PROVE PanelTypes'
    BY <2>21 DEF Drop, Accepts
  <2>22. ASSUME NEW q \in Questions, TakeChunk(q) PROVE PanelTypes'
    BY <2>22 DEF TakeChunk, Take, Accepts
  <2>23. ASSUME NEW q \in Questions, TakeFailure(q) PROVE PanelTypes'
    <3>1. /\ asked' \in 0..MaxQuestions /\ current' \in 0..MaxQuestions /\ held' \in 0..MaxQuestions
      BY <2>23 DEF TakeFailure, Take, EndStream
    <3>2. visible' \in BOOLEAN /\ provider' \in BOOLEAN
      BY <2>23, <3>1 DEF TakeFailure, Take, EndStream
    <3>3. loading' \in BOOLEAN /\ streaming' \in BOOLEAN
      BY <2>23, <3>1, <3>2 DEF TakeFailure, Take, EndStream
    <3> QED BY <3>1, <3>2, <3>3
  <2>24. ASSUME NEW q \in Questions, TakeDone(q) PROVE PanelTypes'
    <3>1. /\ asked' \in 0..MaxQuestions /\ current' \in 0..MaxQuestions /\ held' \in 0..MaxQuestions
      BY <2>24 DEF TakeDone, Take, EndStream
    <3>2. visible' \in BOOLEAN /\ provider' \in BOOLEAN
      BY <2>24, <3>1 DEF TakeDone, Take, EndStream
    <3>3. loading' \in BOOLEAN /\ streaming' \in BOOLEAN
      BY <2>24, <3>1, <3>2 DEF TakeDone, Take, EndStream
    <3> QED BY <3>1, <3>2, <3>3
  <2>25. ASSUME NEW q \in Questions, NEW message \in {"answer", "error"},
                NEW piece \in {"answer", "error"}, TakeAnswer(q, message, piece)
         PROVE  PanelTypes'
    BY <2>25 DEF TakeAnswer, Take, Accepts, Taken
  <2>26. ASSUME NEW q \in Questions, NEW message \in {"suggestion", "refused"},
                NEW piece \in {"answer", "error"}, TakeCommand(q, message, piece)
         PROVE  PanelTypes'
    BY <2>26 DEF TakeCommand, Take, Accepts, Taken
  <2>27. CASE UNCHANGED vars
    BY <2>27 DEF vars
  <2> QED
    BY <2>1, <2>2, <2>3, <2>4, <2>5, <2>6, <2>7, <2>8, <2>9, <2>10, <2>11, <2>12, <2>13,
       <2>14, <2>15, <2>16, <2>17, <2>18, <2>19, <2>20, <2>21, <2>22, <2>23, <2>24, <2>25,
       <2>26, <2>27
    DEF Next, User, Goroutine, Answering, Panel
<1> QED BY <1>1, <1>2, PTL DEF Spec

\* The commands, their messages and the goroutines of the streams.
ReaderTypes ==
    /\ stage \in [Questions -> Stages]
    /\ reader \in [Questions -> Pending \cup Messages \cup {"none"}]
    /\ queue \in [Questions -> Seq({"chunk", "failure"})]

\* The goroutines, their channels and the commands that read them keep their types.
THEOREM ReaderTyped == Spec => []ReaderTypes
<1>1. Init => ReaderTypes
  BY DEF Init, ReaderTypes, Questions, Stages, Pending, Messages
<1>2. PanelTypes /\ ReaderTypes /\ [Next]_vars => ReaderTypes'
  <2> SUFFICES ASSUME PanelTypes, ReaderTypes, [Next]_vars PROVE ReaderTypes'
    OBVIOUS
  <2> USE DEF ReaderTypes, Questions, Stages, Pending, Messages, panelVars, streamVars
  <2>1. CASE Show
    BY <2>1 DEF Show
  <2>2. CASE Hide
    BY <2>2 DEF Hide, EndStream, CancelHeld, GiveUp
  <2>3. CASE Clear
    BY <2>3 DEF Clear, EndStream, CancelHeld, GiveUp
  <2>4. CASE AskNobody
    BY <2>4 DEF AskNobody, Submit
  <2>5. ASSUME NEW kind \in {"analysis", "command"}, AskOnce(kind) PROVE ReaderTypes'
    BY <2>5 DEF AskOnce, Submit, BeginRequest, PanelTypes
  <2>6. CASE AskStream
    BY <2>6 DEF AskStream, Submit, BeginRequest, CancelHeld, PanelTypes
  <2>7. ASSUME NEW q \in Questions, Analyzed(q) PROVE ReaderTypes'
    BY <2>7 DEF Analyzed, Reply, ServiceOnly
  <2>8. ASSUME NEW q \in Questions, Generated(q) PROVE ReaderTypes'
    BY <2>8 DEF Generated, Reply, ServiceOnly
  <2>9. ASSUME NEW q \in Questions, Start(q) PROVE ReaderTypes'
    BY <2>9 DEF Start, Move, ServiceOnly
  <2>10. ASSUME NEW q \in Questions, Expire(q) PROVE ReaderTypes'
    BY <2>10 DEF Expire, ServiceOnly
  <2>11. ASSUME NEW q \in Questions, Decode(q) PROVE ReaderTypes'
    BY <2>11 DEF Decode, Move, ServiceOnly
  <2>12. ASSUME NEW q \in Questions, SendChunk(q) PROVE ReaderTypes'
    BY <2>12 DEF SendChunk, Move, ServiceOnly
  <2>13. ASSUME NEW q \in Questions, AbortChunk(q) PROVE ReaderTypes'
    BY <2>13 DEF AbortChunk, Move, ServiceOnly
  <2>14. ASSUME NEW q \in Questions, Complete(q) PROVE ReaderTypes'
    BY <2>14 DEF Complete, Move, ServiceOnly
  <2>15. ASSUME NEW q \in Questions, Break(q) PROVE ReaderTypes'
    BY <2>15 DEF Break, Move, ServiceOnly
  <2>16. ASSUME NEW q \in Questions, SendFailure(q) PROVE ReaderTypes'
    BY <2>16 DEF SendFailure, Move, ServiceOnly
  <2>17. ASSUME NEW q \in Questions, DropFailure(q) PROVE ReaderTypes'
    BY <2>17 DEF DropFailure, Move, ServiceOnly
  <2>18. ASSUME NEW q \in Questions, CloseStream(q) PROVE ReaderTypes'
    BY <2>18 DEF CloseStream, Move, ServiceOnly
  <2>19. ASSUME NEW q \in Questions, Read(q) PROVE ReaderTypes'
    <3>1. queue[q] \in Seq({"chunk", "failure"}) /\ queue[q] # <<>>
      BY <2>19 DEF Read
    <3>2. Head(queue[q]) \in {"chunk", "failure"} /\ Tail(queue[q]) \in Seq({"chunk", "failure"})
      BY <3>1
    <3> QED BY <2>19, <3>1, <3>2 DEF Read, ServiceOnly
  <2>20. ASSUME NEW q \in Questions, ReadClosed(q) PROVE ReaderTypes'
    BY <2>20 DEF ReadClosed, ServiceOnly
  <2>21. ASSUME NEW q \in Questions, Drop(q) PROVE ReaderTypes'
    BY <2>21 DEF Drop, Accepts
  <2>22. ASSUME NEW q \in Questions, TakeChunk(q) PROVE ReaderTypes'
    BY <2>22 DEF TakeChunk, Take, Accepts
  <2>23. ASSUME NEW q \in Questions, TakeFailure(q) PROVE ReaderTypes'
    BY <2>23 DEF TakeFailure, Take, Accepts, Taken, EndStream, CancelHeld
  <2>24. ASSUME NEW q \in Questions, TakeDone(q) PROVE ReaderTypes'
    BY <2>24 DEF TakeDone, Take, Accepts, Taken, EndStream, CancelHeld
  <2>25. ASSUME NEW q \in Questions, NEW message \in {"answer", "error"},
                NEW piece \in {"answer", "error"}, TakeAnswer(q, message, piece)
         PROVE  ReaderTypes'
    BY <2>25 DEF TakeAnswer, Take, Accepts, Taken
  <2>26. ASSUME NEW q \in Questions, NEW message \in {"suggestion", "refused"},
                NEW piece \in {"answer", "error"}, TakeCommand(q, message, piece)
         PROVE  ReaderTypes'
    BY <2>26 DEF TakeCommand, Take, Accepts, Taken
  <2>27. CASE UNCHANGED vars
    BY <2>27 DEF vars
  <2> QED
    BY <2>1, <2>2, <2>3, <2>4, <2>5, <2>6, <2>7, <2>8, <2>9, <2>10, <2>11, <2>12, <2>13,
       <2>14, <2>15, <2>16, <2>17, <2>18, <2>19, <2>20, <2>21, <2>22, <2>23, <2>24, <2>25,
       <2>26, <2>27
    DEF Next, User, Goroutine, Answering, Panel
<1> QED BY <1>1, <1>2, PanelTyped, PTL DEF Spec

\* What happened to the streams.
HistoryTypes ==
    /\ canceled \in [Questions -> BOOLEAN] /\ expired \in [Questions -> BOOLEAN]
    /\ closed \in [Questions -> BOOLEAN] /\ sent \in [Questions -> Nat]
    /\ whole \in [Questions -> BOOLEAN] /\ finished \in [Questions -> BOOLEAN]

\* The history of the streams is a set of switches and counters.
THEOREM HistoryTyped == Spec => []HistoryTypes
<1>1. Init => HistoryTypes
  BY DEF Init, HistoryTypes
<1>2. HistoryTypes /\ [Next]_vars => HistoryTypes'
  <2> SUFFICES ASSUME HistoryTypes, [Next]_vars PROVE HistoryTypes'
    OBVIOUS
  <2> USE DEF HistoryTypes, Questions, panelVars, streamVars
  <2>1. CASE Show
    BY <2>1 DEF Show
  <2>2. CASE Hide
    <3>1. canceled' \in [Questions -> BOOLEAN]
      BY <2>2 DEF Hide, EndStream, CancelHeld
    <3> QED BY <2>2, <3>1 DEF Hide, GiveUp
  <2>3. CASE Clear
    <3>1. canceled' \in [Questions -> BOOLEAN]
      BY <2>3 DEF Clear, EndStream, CancelHeld
    <3> QED BY <2>3, <3>1 DEF Clear, GiveUp
  <2>4. CASE AskNobody
    BY <2>4 DEF AskNobody, Submit
  <2>5. ASSUME NEW kind \in {"analysis", "command"}, AskOnce(kind) PROVE HistoryTypes'
    BY <2>5 DEF AskOnce, Submit, BeginRequest
  <2>6. CASE AskStream
    <3>1. canceled' \in [Questions -> BOOLEAN]
      BY <2>6 DEF AskStream, CancelHeld
    <3> QED BY <2>6, <3>1 DEF AskStream, Submit, BeginRequest
  <2>7. ASSUME NEW q \in Questions, Analyzed(q) PROVE HistoryTypes'
    BY <2>7 DEF Analyzed, Reply, ServiceOnly
  <2>8. ASSUME NEW q \in Questions, Generated(q) PROVE HistoryTypes'
    BY <2>8 DEF Generated, Reply, ServiceOnly
  <2>9. ASSUME NEW q \in Questions, Start(q) PROVE HistoryTypes'
    BY <2>9 DEF Start, Move, ServiceOnly
  <2>10. ASSUME NEW q \in Questions, Expire(q) PROVE HistoryTypes'
    BY <2>10 DEF Expire, ServiceOnly
  <2>11. ASSUME NEW q \in Questions, Decode(q) PROVE HistoryTypes'
    BY <2>11 DEF Decode, Move, ServiceOnly
  <2>12. ASSUME NEW q \in Questions, SendChunk(q) PROVE HistoryTypes'
    BY <2>12 DEF SendChunk, Move, ServiceOnly
  <2>13. ASSUME NEW q \in Questions, AbortChunk(q) PROVE HistoryTypes'
    BY <2>13 DEF AbortChunk, Move, ServiceOnly
  <2>14. ASSUME NEW q \in Questions, Complete(q) PROVE HistoryTypes'
    BY <2>14 DEF Complete, Move, ServiceOnly
  <2>15. ASSUME NEW q \in Questions, Break(q) PROVE HistoryTypes'
    BY <2>15 DEF Break, Move, ServiceOnly
  <2>16. ASSUME NEW q \in Questions, SendFailure(q) PROVE HistoryTypes'
    BY <2>16 DEF SendFailure, Move, ServiceOnly
  <2>17. ASSUME NEW q \in Questions, DropFailure(q) PROVE HistoryTypes'
    BY <2>17 DEF DropFailure, Move, ServiceOnly
  <2>18. ASSUME NEW q \in Questions, CloseStream(q) PROVE HistoryTypes'
    BY <2>18 DEF CloseStream, Move, ServiceOnly
  <2>19. ASSUME NEW q \in Questions, Read(q) PROVE HistoryTypes'
    BY <2>19 DEF Read, ServiceOnly
  <2>20. ASSUME NEW q \in Questions, ReadClosed(q) PROVE HistoryTypes'
    BY <2>20 DEF ReadClosed, ServiceOnly
  <2>21. ASSUME NEW q \in Questions, Drop(q) PROVE HistoryTypes'
    BY <2>21 DEF Drop, Accepts
  <2>22. ASSUME NEW q \in Questions, TakeChunk(q) PROVE HistoryTypes'
    BY <2>22 DEF TakeChunk, Take, Accepts
  <2>23. ASSUME NEW q \in Questions, TakeFailure(q) PROVE HistoryTypes'
    <3>1. canceled' \in [Questions -> BOOLEAN]
      BY <2>23 DEF TakeFailure, EndStream, CancelHeld
    <3> QED BY <2>23, <3>1 DEF TakeFailure, Take, Accepts, Taken
  <2>24. ASSUME NEW q \in Questions, TakeDone(q) PROVE HistoryTypes'
    <3>1. canceled' \in [Questions -> BOOLEAN]
      BY <2>24 DEF TakeDone, EndStream, CancelHeld
    <3> QED BY <2>24, <3>1 DEF TakeDone, Take, Accepts, Taken
  <2>25. ASSUME NEW q \in Questions, NEW message \in {"answer", "error"},
                NEW piece \in {"answer", "error"}, TakeAnswer(q, message, piece)
         PROVE  HistoryTypes'
    BY <2>25 DEF TakeAnswer, Take, Accepts, Taken
  <2>26. ASSUME NEW q \in Questions, NEW message \in {"suggestion", "refused"},
                NEW piece \in {"answer", "error"}, TakeCommand(q, message, piece)
         PROVE  HistoryTypes'
    BY <2>26 DEF TakeCommand, Take, Accepts, Taken
  <2>27. CASE UNCHANGED vars
    BY <2>27 DEF vars
  <2> QED
    BY <2>1, <2>2, <2>3, <2>4, <2>5, <2>6, <2>7, <2>8, <2>9, <2>10, <2>11, <2>12, <2>13,
       <2>14, <2>15, <2>16, <2>17, <2>18, <2>19, <2>20, <2>21, <2>22, <2>23, <2>24, <2>25,
       <2>26, <2>27
    DEF Next, User, Goroutine, Answering, Panel
<1> QED BY <1>1, <1>2, PTL DEF Spec

\* The text on the panel.
TextTypes == raw \in Seq(Questions) /\ history \in Seq(Entries)

\* The chunks of a text are pieces, one for each.
LEMMA ChunksTyped ==
    ASSUME NEW text \in Seq(Questions)
    PROVE  Chunks(text) \in Seq(Pieces) /\ Len(Chunks(text)) = Len(text)
<1>1. \A i \in DOMAIN text : text[i] \in Questions
  OBVIOUS
<1>2. \A i \in DOMAIN text : Piece(text[i], "chunk") \in Pieces
  BY <1>1 DEF Piece, Pieces
<1>3. DOMAIN text = 1..Len(text) /\ Len(text) \in Nat
  OBVIOUS
<1>4. Chunks(text) \in [1..Len(text) -> Pieces]
  BY <1>2, <1>3 DEF Chunks
<1> QED BY <1>3, <1>4

\* A response of one piece.
LEMMA PieceTyped ==
    ASSUME NEW q \in Questions, NEW kind \in {"chunk", "answer", "error", "hint"}
    PROVE  <<Piece(q, kind)>> \in Seq(Pieces)
<1>1. Piece(q, kind) \in Pieces
  BY DEF Piece, Pieces
<1> QED BY <1>1

\* The latest entry is given a response, and the history stays one of entries.
LEMMA LatestTyped ==
    ASSUME history \in Seq(Entries), NEW response \in Seq(Pieces)
    PROVE  /\ WithLatest(response) \in Seq(Entries)
           /\ WithLatestIfEmpty(response) \in Seq(Entries)
<1>1. CASE history = <<>>
  BY <1>1 DEF WithLatest, WithLatestIfEmpty
<1>2. CASE history # <<>>
  <2>1. Len(history) \in DOMAIN history
    BY <1>2
  <2>2. history[Len(history)] \in Entries
    BY <2>1
  <2>3. Entry(history[Len(history)].query, response) \in Entries
    BY <2>2 DEF Entry, Entries
  <2>4. [history EXCEPT ![Len(history)] = Entry(@.query, response)] \in Seq(Entries)
    BY <2>1, <2>3
  <2> QED BY <1>2, <2>4 DEF WithLatest, WithLatestIfEmpty
<1> QED BY <1>1, <1>2

\* The conversation is a sequence of questions and responses.
THEOREM TextTyped == Spec => []TextTypes
<1>1. Init => TextTypes
  BY DEF Init, TextTypes
<1>2. PanelTypes /\ TextTypes /\ [Next]_vars => TextTypes'
  <2> SUFFICES ASSUME PanelTypes, TextTypes, [Next]_vars PROVE TextTypes'
    OBVIOUS
  <2> USE DEF TextTypes, panelVars, streamVars
  <2>1. CASE Show
    BY <2>1 DEF Show
  <2>2. CASE Hide
    BY <2>2 DEF Hide, EndStream, CancelHeld, GiveUp
  <2>3. CASE Clear
    BY <2>3 DEF Clear, EndStream, CancelHeld, GiveUp
  <2>4. CASE AskNobody
    <3>1. asked + 1 \in Questions
      BY <2>4 DEF AskNobody, Submit, PanelTypes, Questions
    <3>2. <<Piece(asked + 1, "hint")>> \in Seq(Pieces)
      BY <3>1, PieceTyped
    <3>3. Entry(asked + 1, <<Piece(asked + 1, "hint")>>) \in Entries
      BY <3>1, <3>2, ChatConstants DEF Entry, Entries
    <3>4. history' \in Seq(Entries)
      BY <2>4, <3>1, <3>2, <3>3 DEF AskNobody, Submit
    <3> QED BY <2>4, <3>1, <3>2, <3>3, <3>4 DEF AskNobody, Submit
  <2>5. ASSUME NEW kind \in {"analysis", "command"}, AskOnce(kind) PROVE TextTypes'
    <3>1. asked + 1 \in Questions
      BY <2>5 DEF AskOnce, Submit, PanelTypes, Questions
    <3>2. <<>> \in Seq(Pieces)
      BY <3>1
    <3>3. Entry(asked + 1, <<>>) \in Entries
      BY <3>1, <3>2, ChatConstants DEF Entry, Entries
    <3>4. history' \in Seq(Entries)
      BY <2>5, <3>1, <3>2, <3>3 DEF AskOnce, Submit
    <3> QED BY <2>5, <3>1, <3>2, <3>3, <3>4 DEF AskOnce, Submit, BeginRequest
  <2>6. CASE AskStream
    <3>1. asked + 1 \in Questions
      BY <2>6 DEF AskStream, Submit, PanelTypes, Questions
    <3>2. <<>> \in Seq(Pieces)
      BY <3>1
    <3>3. Entry(asked + 1, <<>>) \in Entries
      BY <3>1, <3>2, ChatConstants DEF Entry, Entries
    <3>4. history' \in Seq(Entries)
      BY <2>6, <3>1, <3>2, <3>3 DEF AskStream, Submit
    <3> QED BY <2>6, <3>1, <3>2, <3>3, <3>4 DEF AskStream, Submit, BeginRequest, CancelHeld
  <2>7. ASSUME NEW q \in Questions, Analyzed(q) PROVE TextTypes'
    BY <2>7 DEF Analyzed, Reply, ServiceOnly
  <2>8. ASSUME NEW q \in Questions, Generated(q) PROVE TextTypes'
    BY <2>8 DEF Generated, Reply, ServiceOnly
  <2>9. ASSUME NEW q \in Questions, Start(q) PROVE TextTypes'
    BY <2>9 DEF Start, Move, ServiceOnly
  <2>10. ASSUME NEW q \in Questions, Expire(q) PROVE TextTypes'
    BY <2>10 DEF Expire, ServiceOnly
  <2>11. ASSUME NEW q \in Questions, Decode(q) PROVE TextTypes'
    BY <2>11 DEF Decode, Move, ServiceOnly
  <2>12. ASSUME NEW q \in Questions, SendChunk(q) PROVE TextTypes'
    BY <2>12 DEF SendChunk, Move, ServiceOnly
  <2>13. ASSUME NEW q \in Questions, AbortChunk(q) PROVE TextTypes'
    BY <2>13 DEF AbortChunk, Move, ServiceOnly
  <2>14. ASSUME NEW q \in Questions, Complete(q) PROVE TextTypes'
    BY <2>14 DEF Complete, Move, ServiceOnly
  <2>15. ASSUME NEW q \in Questions, Break(q) PROVE TextTypes'
    BY <2>15 DEF Break, Move, ServiceOnly
  <2>16. ASSUME NEW q \in Questions, SendFailure(q) PROVE TextTypes'
    BY <2>16 DEF SendFailure, Move, ServiceOnly
  <2>17. ASSUME NEW q \in Questions, DropFailure(q) PROVE TextTypes'
    BY <2>17 DEF DropFailure, Move, ServiceOnly
  <2>18. ASSUME NEW q \in Questions, CloseStream(q) PROVE TextTypes'
    BY <2>18 DEF CloseStream, Move, ServiceOnly
  <2>19. ASSUME NEW q \in Questions, Read(q) PROVE TextTypes'
    BY <2>19 DEF Read, ServiceOnly
  <2>20. ASSUME NEW q \in Questions, ReadClosed(q) PROVE TextTypes'
    BY <2>20 DEF ReadClosed, ServiceOnly
  <2>21. ASSUME NEW q \in Questions, Drop(q) PROVE TextTypes'
    BY <2>21 DEF Drop, Accepts
  <2>22. ASSUME NEW q \in Questions, TakeChunk(q) PROVE TextTypes'
    <3>1. raw' \in Seq(Questions)
      BY <2>22 DEF TakeChunk, Take, EndStream, CancelHeld
    <3>2. Chunks(raw') \in Seq(Pieces)
      BY <3>1, ChunksTyped
    <3>3. WithLatest(Chunks(raw')) \in Seq(Entries)
      BY <3>1, <3>2, LatestTyped
    <3> QED BY <2>22, <3>1, <3>2, <3>3 DEF TakeChunk, Take, Accepts
  <2>23. ASSUME NEW q \in Questions, TakeFailure(q) PROVE TextTypes'
    <3>1. raw' \in Seq(Questions)
      BY <2>23 DEF TakeFailure, Take, EndStream, CancelHeld
    <3>2. <<Piece(q, "error")>> \in Seq(Pieces)
      BY <3>1, PieceTyped
    <3>3. WithLatestIfEmpty(<<Piece(q, "error")>>) \in Seq(Entries)
      BY <3>1, <3>2, LatestTyped
    <3> QED BY <2>23, <3>1, <3>2, <3>3 DEF TakeFailure, Take, Accepts, Taken, EndStream, CancelHeld
  <2>24. ASSUME NEW q \in Questions, TakeDone(q) PROVE TextTypes'
    <3>1. raw' \in Seq(Questions)
      BY <2>24 DEF TakeDone, Take, EndStream, CancelHeld
    <3>2. Chunks(raw) \in Seq(Pieces)
      BY <3>1, ChunksTyped
    <3>3. WithLatest(Chunks(raw)) \in Seq(Entries)
      BY <3>1, <3>2, LatestTyped
    <3> QED BY <2>24, <3>1, <3>2, <3>3 DEF TakeDone, Take, Accepts, Taken, EndStream, CancelHeld
  <2>25. ASSUME NEW q \in Questions, NEW message \in {"answer", "error"},
                NEW piece \in {"answer", "error"}, TakeAnswer(q, message, piece)
         PROVE  TextTypes'
    <3>1. raw' \in Seq(Questions)
      BY <2>25 DEF TakeAnswer, Take, EndStream, CancelHeld
    <3>2. <<Piece(q, piece)>> \in Seq(Pieces)
      BY <3>1, PieceTyped
    <3>3. WithLatestIfEmpty(<<Piece(q, piece)>>) \in Seq(Entries)
      BY <3>1, <3>2, LatestTyped
    <3> QED BY <2>25, <3>1, <3>2, <3>3 DEF TakeAnswer, Take, Accepts, Taken
  <2>26. ASSUME NEW q \in Questions, NEW message \in {"suggestion", "refused"},
                NEW piece \in {"answer", "error"}, TakeCommand(q, message, piece)
         PROVE  TextTypes'
    <3>1. raw' \in Seq(Questions)
      BY <2>26 DEF TakeCommand, Take, EndStream, CancelHeld
    <3>2. <<Piece(q, piece)>> \in Seq(Pieces)
      BY <3>1, PieceTyped
    <3>3. WithLatestIfEmpty(<<Piece(q, piece)>>) \in Seq(Entries)
      BY <3>1, <3>2, LatestTyped
    <3> QED BY <2>26, <3>1, <3>2, <3>3 DEF TakeCommand, Take, Accepts, Taken
  <2>27. CASE UNCHANGED vars
    BY <2>27 DEF vars
  <2> QED
    BY <2>1, <2>2, <2>3, <2>4, <2>5, <2>6, <2>7, <2>8, <2>9, <2>10, <2>11, <2>12, <2>13,
       <2>14, <2>15, <2>16, <2>17, <2>18, <2>19, <2>20, <2>21, <2>22, <2>23, <2>24, <2>25,
       <2>26, <2>27
    DEF Next, User, Goroutine, Answering, Panel
<1> QED BY <1>1, <1>2, PanelTyped, PTL DEF Spec

\* Every variable of the panel and of its streams keeps its type.
THEOREM TypeCorrect == Spec => []TypeOK
<1>1. PanelTypes /\ ReaderTypes /\ HistoryTypes /\ TextTypes => TypeOK
  BY DEF PanelTypes, ReaderTypes, HistoryTypes, TextTypes, TypeOK
<1> QED BY <1>1, PanelTyped, ReaderTyped, HistoryTyped, TextTyped, PTL

\* The commands that bring one message, and those that read a stream.
Once == {"analysis", "command", "answer", "error", "suggestion", "refused"}
OfStream == {"reading", "chunk", "failure", "done"}

\* Nothing is kept for a question that was not asked yet.
Fresh ==
    /\ current <= asked /\ held <= asked
    /\ \A q \in Questions : stage[q] # "none" \/ reader[q] # "none" => q <= asked

\* A question has one message or a stream.
OnceOnly == \A q \in Questions : reader[q] \in Once => stage[q] = "none"

\* A question that was not asked has no stream and no message (beginRequest numbers them in order).
THEOREM FreshQuestions == Spec => []Fresh
<1>1. Init => Fresh
  BY DEF Init, Fresh
<1>2. PanelTypes /\ ReaderTypes /\ Fresh /\ [Next]_vars => Fresh'
  <2> SUFFICES ASSUME PanelTypes, ReaderTypes, Fresh, [Next]_vars PROVE Fresh'
    OBVIOUS
  <2> USE DEF Fresh, PanelTypes, ReaderTypes, Questions, panelVars, streamVars
  <2>1. CASE Show
    BY <2>1 DEF Show
  <2>2. CASE Hide
    BY <2>2 DEF Hide, EndStream, CancelHeld, GiveUp
  <2>3. CASE Clear
    BY <2>3 DEF Clear, EndStream, CancelHeld, GiveUp
  <2>4. CASE AskNobody
    BY <2>4 DEF AskNobody, Submit
  <2>5. ASSUME NEW kind \in {"analysis", "command"}, AskOnce(kind) PROVE Fresh'
    BY <2>5 DEF AskOnce, Submit, BeginRequest
  <2>6. CASE AskStream
    BY <2>6 DEF AskStream, Submit, BeginRequest, CancelHeld
  <2>7. ASSUME NEW q \in Questions, Analyzed(q) PROVE Fresh'
    BY <2>7 DEF Analyzed, Reply, ServiceOnly
  <2>8. ASSUME NEW q \in Questions, Generated(q) PROVE Fresh'
    BY <2>8 DEF Generated, Reply, ServiceOnly
  <2>9. ASSUME NEW q \in Questions, Start(q) PROVE Fresh'
    BY <2>9 DEF Start, Move, ServiceOnly
  <2>10. ASSUME NEW q \in Questions, Expire(q) PROVE Fresh'
    BY <2>10 DEF Expire, ServiceOnly
  <2>11. ASSUME NEW q \in Questions, Decode(q) PROVE Fresh'
    BY <2>11 DEF Decode, Move, ServiceOnly
  <2>12. ASSUME NEW q \in Questions, SendChunk(q) PROVE Fresh'
    BY <2>12 DEF SendChunk, Move, ServiceOnly
  <2>13. ASSUME NEW q \in Questions, AbortChunk(q) PROVE Fresh'
    BY <2>13 DEF AbortChunk, Move, ServiceOnly
  <2>14. ASSUME NEW q \in Questions, Complete(q) PROVE Fresh'
    BY <2>14 DEF Complete, Move, ServiceOnly
  <2>15. ASSUME NEW q \in Questions, Break(q) PROVE Fresh'
    BY <2>15 DEF Break, Move, ServiceOnly
  <2>16. ASSUME NEW q \in Questions, SendFailure(q) PROVE Fresh'
    BY <2>16 DEF SendFailure, Move, ServiceOnly
  <2>17. ASSUME NEW q \in Questions, DropFailure(q) PROVE Fresh'
    BY <2>17 DEF DropFailure, Move, ServiceOnly
  <2>18. ASSUME NEW q \in Questions, CloseStream(q) PROVE Fresh'
    BY <2>18 DEF CloseStream, Move, ServiceOnly
  <2>19. ASSUME NEW q \in Questions, Read(q) PROVE Fresh'
    BY <2>19 DEF Read, ServiceOnly
  <2>20. ASSUME NEW q \in Questions, ReadClosed(q) PROVE Fresh'
    BY <2>20 DEF ReadClosed, ServiceOnly
  <2>21. ASSUME NEW q \in Questions, Drop(q) PROVE Fresh'
    BY <2>21 DEF Drop, Accepts
  <2>22. ASSUME NEW q \in Questions, TakeChunk(q) PROVE Fresh'
    BY <2>22 DEF TakeChunk, Take, Accepts
  <2>23. ASSUME NEW q \in Questions, TakeFailure(q) PROVE Fresh'
    BY <2>23 DEF TakeFailure, Take, Accepts, Taken, EndStream, CancelHeld
  <2>24. ASSUME NEW q \in Questions, TakeDone(q) PROVE Fresh'
    BY <2>24 DEF TakeDone, Take, Accepts, Taken, EndStream, CancelHeld
  <2>25. ASSUME NEW q \in Questions, NEW message \in {"answer", "error"},
                NEW piece \in {"answer", "error"}, TakeAnswer(q, message, piece)
         PROVE  Fresh'
    BY <2>25 DEF TakeAnswer, Take, Accepts, Taken
  <2>26. ASSUME NEW q \in Questions, NEW message \in {"suggestion", "refused"},
                NEW piece \in {"answer", "error"}, TakeCommand(q, message, piece)
         PROVE  Fresh'
    BY <2>26 DEF TakeCommand, Take, Accepts, Taken
  <2>27. CASE UNCHANGED vars
    BY <2>27 DEF vars
  <2> QED
    BY <2>1, <2>2, <2>3, <2>4, <2>5, <2>6, <2>7, <2>8, <2>9, <2>10, <2>11, <2>12, <2>13,
       <2>14, <2>15, <2>16, <2>17, <2>18, <2>19, <2>20, <2>21, <2>22, <2>23, <2>24, <2>25,
       <2>26, <2>27
    DEF Next, User, Goroutine, Answering, Panel
<1> QED BY <1>1, <1>2, PanelTyped, ReaderTyped, PTL DEF Spec

\* A question is answered by one message or by a stream, never by both.
THEOREM OneMessageOrStream == Spec => []OnceOnly
<1>1. Init => OnceOnly
  BY DEF Init, OnceOnly, Once
<1>2. PanelTypes /\ ReaderTypes /\ Fresh /\ OnceOnly /\ [Next]_vars => OnceOnly'
  <2> SUFFICES ASSUME PanelTypes, ReaderTypes, Fresh, OnceOnly, [Next]_vars PROVE OnceOnly'
    OBVIOUS
  <2> USE DEF OnceOnly, Once, Fresh, PanelTypes, ReaderTypes, Questions, panelVars,
            streamVars
  <2>1. CASE Show
    BY <2>1 DEF Show
  <2>2. CASE Hide
    BY <2>2 DEF Hide, EndStream, CancelHeld, GiveUp
  <2>3. CASE Clear
    BY <2>3 DEF Clear, EndStream, CancelHeld, GiveUp
  <2>4. CASE AskNobody
    BY <2>4 DEF AskNobody, Submit
  <2>5. ASSUME NEW kind \in {"analysis", "command"}, AskOnce(kind) PROVE OnceOnly'
    BY <2>5 DEF AskOnce, Submit, BeginRequest
  <2>6. CASE AskStream
    BY <2>6 DEF AskStream, Submit, BeginRequest, CancelHeld
  <2>7. ASSUME NEW q \in Questions, Analyzed(q) PROVE OnceOnly'
    BY <2>7 DEF Analyzed, Reply, ServiceOnly
  <2>8. ASSUME NEW q \in Questions, Generated(q) PROVE OnceOnly'
    BY <2>8 DEF Generated, Reply, ServiceOnly
  <2>9. ASSUME NEW q \in Questions, Start(q) PROVE OnceOnly'
    BY <2>9 DEF Start, Move, ServiceOnly
  <2>10. ASSUME NEW q \in Questions, Expire(q) PROVE OnceOnly'
    BY <2>10 DEF Expire, ServiceOnly
  <2>11. ASSUME NEW q \in Questions, Decode(q) PROVE OnceOnly'
    BY <2>11 DEF Decode, Move, ServiceOnly
  <2>12. ASSUME NEW q \in Questions, SendChunk(q) PROVE OnceOnly'
    BY <2>12 DEF SendChunk, Move, ServiceOnly
  <2>13. ASSUME NEW q \in Questions, AbortChunk(q) PROVE OnceOnly'
    BY <2>13 DEF AbortChunk, Move, ServiceOnly
  <2>14. ASSUME NEW q \in Questions, Complete(q) PROVE OnceOnly'
    BY <2>14 DEF Complete, Move, ServiceOnly
  <2>15. ASSUME NEW q \in Questions, Break(q) PROVE OnceOnly'
    BY <2>15 DEF Break, Move, ServiceOnly
  <2>16. ASSUME NEW q \in Questions, SendFailure(q) PROVE OnceOnly'
    BY <2>16 DEF SendFailure, Move, ServiceOnly
  <2>17. ASSUME NEW q \in Questions, DropFailure(q) PROVE OnceOnly'
    BY <2>17 DEF DropFailure, Move, ServiceOnly
  <2>18. ASSUME NEW q \in Questions, CloseStream(q) PROVE OnceOnly'
    BY <2>18 DEF CloseStream, Move, ServiceOnly
  <2>19. ASSUME NEW q \in Questions, Read(q) PROVE OnceOnly'
    <3>1. Head(queue[q]) \in {"chunk", "failure"}
      BY <2>19 DEF Read
    <3> QED BY <2>19, <3>1 DEF Read, ServiceOnly
  <2>20. ASSUME NEW q \in Questions, ReadClosed(q) PROVE OnceOnly'
    BY <2>20 DEF ReadClosed, ServiceOnly
  <2>21. ASSUME NEW q \in Questions, Drop(q) PROVE OnceOnly'
    BY <2>21 DEF Drop, Accepts
  <2>22. ASSUME NEW q \in Questions, TakeChunk(q) PROVE OnceOnly'
    BY <2>22 DEF TakeChunk, Take, Accepts
  <2>23. ASSUME NEW q \in Questions, TakeFailure(q) PROVE OnceOnly'
    BY <2>23 DEF TakeFailure, Take, Accepts, Taken, EndStream, CancelHeld
  <2>24. ASSUME NEW q \in Questions, TakeDone(q) PROVE OnceOnly'
    BY <2>24 DEF TakeDone, Take, Accepts, Taken, EndStream, CancelHeld
  <2>25. ASSUME NEW q \in Questions, NEW message \in {"answer", "error"},
                NEW piece \in {"answer", "error"}, TakeAnswer(q, message, piece)
         PROVE  OnceOnly'
    BY <2>25 DEF TakeAnswer, Take, Accepts, Taken
  <2>26. ASSUME NEW q \in Questions, NEW message \in {"suggestion", "refused"},
                NEW piece \in {"answer", "error"}, TakeCommand(q, message, piece)
         PROVE  OnceOnly'
    BY <2>26 DEF TakeCommand, Take, Accepts, Taken
  <2>27. CASE UNCHANGED vars
    BY <2>27 DEF vars
  <2> QED
    BY <2>1, <2>2, <2>3, <2>4, <2>5, <2>6, <2>7, <2>8, <2>9, <2>10, <2>11, <2>12, <2>13,
       <2>14, <2>15, <2>16, <2>17, <2>18, <2>19, <2>20, <2>21, <2>22, <2>23, <2>24, <2>25,
       <2>26, <2>27
    DEF Next, User, Goroutine, Answering, Panel
<1> QED BY <1>1, <1>2, PanelTyped, ReaderTyped, FreshQuestions, PTL DEF Spec

\* The stream that can be canceled is the one that is shown, and every other one was canceled.
HeldInv ==
    /\ held # 0 => held = current /\ streaming /\ loading /\ visible /\ stage[held] # "none"
    /\ streaming => held # 0
    /\ loading => visible /\ current # 0
    /\ \A q \in Questions : stage[q] # "none" /\ ~canceled[q] => q = held

\* A stream whose cancel function nobody called is the one the panel shows and can end.
THEOREM StreamsAreHeld == Spec => []HeldInv
<1>1. Init => HeldInv
  BY DEF Init, HeldInv
<1>2. PanelTypes /\ ReaderTypes /\ HistoryTypes /\ Fresh /\ OnceOnly /\ HeldInv /\ [Next]_vars => HeldInv'
  <2> SUFFICES ASSUME PanelTypes, ReaderTypes, HistoryTypes, Fresh, OnceOnly, HeldInv, [Next]_vars
               PROVE  HeldInv'
    OBVIOUS
  <2> USE DEF HeldInv, HistoryTypes, OnceOnly, Once, Fresh, PanelTypes, ReaderTypes,
            Questions, panelVars, streamVars
  <2>1. CASE Show
    BY <2>1 DEF Show
  <2>2. CASE Hide
    BY <2>2 DEF Hide, EndStream, CancelHeld, GiveUp
  <2>3. CASE Clear
    BY <2>3 DEF Clear, EndStream, CancelHeld, GiveUp
  <2>4. CASE AskNobody
    BY <2>4 DEF AskNobody, Submit
  <2>5. ASSUME NEW kind \in {"analysis", "command"}, AskOnce(kind) PROVE HeldInv'
    BY <2>5 DEF AskOnce, Submit, BeginRequest
  <2>6. CASE AskStream
    BY <2>6 DEF AskStream, Submit, BeginRequest, CancelHeld
  <2>7. ASSUME NEW q \in Questions, Analyzed(q) PROVE HeldInv'
    BY <2>7 DEF Analyzed, Reply, ServiceOnly
  <2>8. ASSUME NEW q \in Questions, Generated(q) PROVE HeldInv'
    BY <2>8 DEF Generated, Reply, ServiceOnly
  <2>9. ASSUME NEW q \in Questions, Start(q) PROVE HeldInv'
    BY <2>9 DEF Start, Move, ServiceOnly
  <2>10. ASSUME NEW q \in Questions, Expire(q) PROVE HeldInv'
    BY <2>10 DEF Expire, ServiceOnly
  <2>11. ASSUME NEW q \in Questions, Decode(q) PROVE HeldInv'
    BY <2>11 DEF Decode, Move, ServiceOnly
  <2>12. ASSUME NEW q \in Questions, SendChunk(q) PROVE HeldInv'
    BY <2>12 DEF SendChunk, Move, ServiceOnly
  <2>13. ASSUME NEW q \in Questions, AbortChunk(q) PROVE HeldInv'
    BY <2>13 DEF AbortChunk, Move, ServiceOnly
  <2>14. ASSUME NEW q \in Questions, Complete(q) PROVE HeldInv'
    BY <2>14 DEF Complete, Move, ServiceOnly
  <2>15. ASSUME NEW q \in Questions, Break(q) PROVE HeldInv'
    BY <2>15 DEF Break, Move, ServiceOnly
  <2>16. ASSUME NEW q \in Questions, SendFailure(q) PROVE HeldInv'
    BY <2>16 DEF SendFailure, Move, ServiceOnly
  <2>17. ASSUME NEW q \in Questions, DropFailure(q) PROVE HeldInv'
    BY <2>17 DEF DropFailure, Move, ServiceOnly
  <2>18. ASSUME NEW q \in Questions, CloseStream(q) PROVE HeldInv'
    BY <2>18 DEF CloseStream, Move, ServiceOnly
  <2>19. ASSUME NEW q \in Questions, Read(q) PROVE HeldInv'
    BY <2>19 DEF Read, ServiceOnly
  <2>20. ASSUME NEW q \in Questions, ReadClosed(q) PROVE HeldInv'
    BY <2>20 DEF ReadClosed, ServiceOnly
  <2>21. ASSUME NEW q \in Questions, Drop(q) PROVE HeldInv'
    BY <2>21 DEF Drop, Accepts
  <2>22. ASSUME NEW q \in Questions, TakeChunk(q) PROVE HeldInv'
    BY <2>22 DEF TakeChunk, Take, Accepts
  <2>23. ASSUME NEW q \in Questions, TakeFailure(q) PROVE HeldInv'
    BY <2>23 DEF TakeFailure, Take, Accepts, Taken, EndStream, CancelHeld
  <2>24. ASSUME NEW q \in Questions, TakeDone(q) PROVE HeldInv'
    BY <2>24 DEF TakeDone, Take, Accepts, Taken, EndStream, CancelHeld
  <2>25. ASSUME NEW q \in Questions, NEW message \in {"answer", "error"},
                NEW piece \in {"answer", "error"}, TakeAnswer(q, message, piece)
         PROVE  HeldInv'
    BY <2>25 DEF TakeAnswer, Take, Accepts, Taken
  <2>26. ASSUME NEW q \in Questions, NEW message \in {"suggestion", "refused"},
                NEW piece \in {"answer", "error"}, TakeCommand(q, message, piece)
         PROVE  HeldInv'
    BY <2>26 DEF TakeCommand, Take, Accepts, Taken
  <2>27. CASE UNCHANGED vars
    BY <2>27 DEF vars
  <2> QED
    BY <2>1, <2>2, <2>3, <2>4, <2>5, <2>6, <2>7, <2>8, <2>9, <2>10, <2>11, <2>12, <2>13,
       <2>14, <2>15, <2>16, <2>17, <2>18, <2>19, <2>20, <2>21, <2>22, <2>23, <2>24, <2>25,
       <2>26, <2>27
    DEF Next, User, Goroutine, Answering, Panel
<1> QED BY <1>1, <1>2, PanelTyped, ReaderTyped, HistoryTyped, FreshQuestions, OneMessageOrStream, PTL DEF Spec

\* A stream whose cancel function nobody called is held by a panel that shows it.
THEOREM EveryStreamIsHeld == Spec => []StreamIsHeld
<1>1. HeldInv => StreamIsHeld
  BY DEF HeldInv, StreamIsHeld, Questions
<1> QED BY <1>1, StreamsAreHeld, PTL

\* A stream is read only after it was started.
ReadStarted ==
    \A q \in Questions : stage[q] \in {"none", "starting"} => reader[q] \notin OfStream

\* A stream is read only after its start command ran (Service.AnalyzeStream).
THEOREM StreamsAreStarted == Spec => []ReadStarted
<1>1. Init => ReadStarted
  BY DEF Init, ReadStarted, OfStream
<1>2. PanelTypes /\ ReaderTypes /\ Fresh /\ OnceOnly /\ HeldInv /\ ReadStarted /\ [Next]_vars => ReadStarted'
  <2> SUFFICES ASSUME PanelTypes, ReaderTypes, Fresh, OnceOnly, HeldInv, ReadStarted, [Next]_vars
               PROVE  ReadStarted'
    OBVIOUS
  <2> USE DEF ReadStarted, OfStream, HeldInv, Fresh, Pending, Messages, PanelTypes,
            ReaderTypes, Questions, panelVars, streamVars
  <2>1. CASE Show
    BY <2>1 DEF Show
  <2>2. CASE Hide
    BY <2>2 DEF Hide, EndStream, CancelHeld, GiveUp
  <2>3. CASE Clear
    BY <2>3 DEF Clear, EndStream, CancelHeld, GiveUp
  <2>4. CASE AskNobody
    BY <2>4 DEF AskNobody, Submit
  <2>5. ASSUME NEW kind \in {"analysis", "command"}, AskOnce(kind) PROVE ReadStarted'
    BY <2>5 DEF AskOnce, Submit, BeginRequest
  <2>6. CASE AskStream
    BY <2>6 DEF AskStream, Submit, BeginRequest, CancelHeld
  <2>7. ASSUME NEW q \in Questions, Analyzed(q) PROVE ReadStarted'
    BY <2>7 DEF Analyzed, Reply, ServiceOnly
  <2>8. ASSUME NEW q \in Questions, Generated(q) PROVE ReadStarted'
    BY <2>8 DEF Generated, Reply, ServiceOnly
  <2>9. ASSUME NEW q \in Questions, Start(q) PROVE ReadStarted'
    BY <2>9 DEF Start, Move, ServiceOnly
  <2>10. ASSUME NEW q \in Questions, Expire(q) PROVE ReadStarted'
    BY <2>10 DEF Expire, ServiceOnly
  <2>11. ASSUME NEW q \in Questions, Decode(q) PROVE ReadStarted'
    BY <2>11 DEF Decode, Move, ServiceOnly
  <2>12. ASSUME NEW q \in Questions, SendChunk(q) PROVE ReadStarted'
    BY <2>12 DEF SendChunk, Move, ServiceOnly
  <2>13. ASSUME NEW q \in Questions, AbortChunk(q) PROVE ReadStarted'
    BY <2>13 DEF AbortChunk, Move, ServiceOnly
  <2>14. ASSUME NEW q \in Questions, Complete(q) PROVE ReadStarted'
    BY <2>14 DEF Complete, Move, ServiceOnly
  <2>15. ASSUME NEW q \in Questions, Break(q) PROVE ReadStarted'
    BY <2>15 DEF Break, Move, ServiceOnly
  <2>16. ASSUME NEW q \in Questions, SendFailure(q) PROVE ReadStarted'
    BY <2>16 DEF SendFailure, Move, ServiceOnly
  <2>17. ASSUME NEW q \in Questions, DropFailure(q) PROVE ReadStarted'
    BY <2>17 DEF DropFailure, Move, ServiceOnly
  <2>18. ASSUME NEW q \in Questions, CloseStream(q) PROVE ReadStarted'
    BY <2>18 DEF CloseStream, Move, ServiceOnly
  <2>19. ASSUME NEW q \in Questions, Read(q) PROVE ReadStarted'
    <3>1. Head(queue[q]) \in {"chunk", "failure"}
      BY <2>19 DEF Read
    <3> QED BY <2>19, <3>1 DEF Read, ServiceOnly
  <2>20. ASSUME NEW q \in Questions, ReadClosed(q) PROVE ReadStarted'
    BY <2>20 DEF ReadClosed, ServiceOnly
  <2>21. ASSUME NEW q \in Questions, Drop(q) PROVE ReadStarted'
    BY <2>21 DEF Drop, Accepts
  <2>22. ASSUME NEW q \in Questions, TakeChunk(q) PROVE ReadStarted'
    BY <2>22 DEF TakeChunk, Take, Accepts
  <2>23. ASSUME NEW q \in Questions, TakeFailure(q) PROVE ReadStarted'
    BY <2>23 DEF TakeFailure, Take, Accepts, Taken, EndStream, CancelHeld
  <2>24. ASSUME NEW q \in Questions, TakeDone(q) PROVE ReadStarted'
    BY <2>24 DEF TakeDone, Take, Accepts, Taken, EndStream, CancelHeld
  <2>25. ASSUME NEW q \in Questions, NEW message \in {"answer", "error"},
                NEW piece \in {"answer", "error"}, TakeAnswer(q, message, piece)
         PROVE  ReadStarted'
    BY <2>25 DEF TakeAnswer, Take, Accepts, Taken
  <2>26. ASSUME NEW q \in Questions, NEW message \in {"suggestion", "refused"},
                NEW piece \in {"answer", "error"}, TakeCommand(q, message, piece)
         PROVE  ReadStarted'
    BY <2>26 DEF TakeCommand, Take, Accepts, Taken
  <2>27. CASE UNCHANGED vars
    BY <2>27 DEF vars
  <2> QED
    BY <2>1, <2>2, <2>3, <2>4, <2>5, <2>6, <2>7, <2>8, <2>9, <2>10, <2>11, <2>12, <2>13,
       <2>14, <2>15, <2>16, <2>17, <2>18, <2>19, <2>20, <2>21, <2>22, <2>23, <2>24, <2>25,
       <2>26, <2>27
    DEF Next, User, Goroutine, Answering, Panel
<1> QED BY <1>1, <1>2, PanelTyped, ReaderTyped, FreshQuestions, OneMessageOrStream, StreamsAreHeld, PTL
           DEF Spec

\* An answer that would be taken is one the panel waits for, and that of a stream is of the held one.
Awaited ==
    \A q \in Questions : q = current =>
        /\ reader[q] # "none" \/ stage[q] = "starting" => loading
        /\ reader[q] \in OfStream \/ stage[q] = "starting" => held = q

\* What the panel takes it waits for: nothing arrives under the number of an answer that came.
THEOREM TakenIsAwaited == Spec => []Awaited
<1>1. Init => Awaited
  BY DEF Init, Awaited, OfStream
<1>2. PanelTypes /\ ReaderTypes /\ Fresh /\ OnceOnly /\ HeldInv /\ ReadStarted /\ Awaited /\ [Next]_vars => Awaited'
  <2> SUFFICES ASSUME PanelTypes, ReaderTypes, Fresh, OnceOnly, HeldInv, ReadStarted, Awaited, [Next]_vars
               PROVE  Awaited'
    OBVIOUS
  <2> USE DEF Awaited, ReadStarted, OnceOnly, Once, OfStream, HeldInv, Fresh, Pending,
            Messages, PanelTypes, ReaderTypes, Questions, panelVars, streamVars
  <2>1. CASE Show
    BY <2>1 DEF Show
  <2>2. CASE Hide
    BY <2>2 DEF Hide, EndStream, CancelHeld, GiveUp
  <2>3. CASE Clear
    BY <2>3 DEF Clear, EndStream, CancelHeld, GiveUp
  <2>4. CASE AskNobody
    BY <2>4 DEF AskNobody, Submit
  <2>5. ASSUME NEW kind \in {"analysis", "command"}, AskOnce(kind) PROVE Awaited'
    BY <2>5 DEF AskOnce, Submit, BeginRequest
  <2>6. CASE AskStream
    BY <2>6 DEF AskStream, Submit, BeginRequest, CancelHeld
  <2>7. ASSUME NEW q \in Questions, Analyzed(q) PROVE Awaited'
    BY <2>7 DEF Analyzed, Reply, ServiceOnly
  <2>8. ASSUME NEW q \in Questions, Generated(q) PROVE Awaited'
    BY <2>8 DEF Generated, Reply, ServiceOnly
  <2>9. ASSUME NEW q \in Questions, Start(q) PROVE Awaited'
    BY <2>9 DEF Start, Move, ServiceOnly
  <2>10. ASSUME NEW q \in Questions, Expire(q) PROVE Awaited'
    BY <2>10 DEF Expire, ServiceOnly
  <2>11. ASSUME NEW q \in Questions, Decode(q) PROVE Awaited'
    BY <2>11 DEF Decode, Move, ServiceOnly
  <2>12. ASSUME NEW q \in Questions, SendChunk(q) PROVE Awaited'
    BY <2>12 DEF SendChunk, Move, ServiceOnly
  <2>13. ASSUME NEW q \in Questions, AbortChunk(q) PROVE Awaited'
    BY <2>13 DEF AbortChunk, Move, ServiceOnly
  <2>14. ASSUME NEW q \in Questions, Complete(q) PROVE Awaited'
    BY <2>14 DEF Complete, Move, ServiceOnly
  <2>15. ASSUME NEW q \in Questions, Break(q) PROVE Awaited'
    BY <2>15 DEF Break, Move, ServiceOnly
  <2>16. ASSUME NEW q \in Questions, SendFailure(q) PROVE Awaited'
    BY <2>16 DEF SendFailure, Move, ServiceOnly
  <2>17. ASSUME NEW q \in Questions, DropFailure(q) PROVE Awaited'
    BY <2>17 DEF DropFailure, Move, ServiceOnly
  <2>18. ASSUME NEW q \in Questions, CloseStream(q) PROVE Awaited'
    BY <2>18 DEF CloseStream, Move, ServiceOnly
  <2>19. ASSUME NEW q \in Questions, Read(q) PROVE Awaited'
    BY <2>19 DEF Read, ServiceOnly
  <2>20. ASSUME NEW q \in Questions, ReadClosed(q) PROVE Awaited'
    BY <2>20 DEF ReadClosed, ServiceOnly
  <2>21. ASSUME NEW q \in Questions, Drop(q) PROVE Awaited'
    BY <2>21 DEF Drop, Accepts
  <2>22. ASSUME NEW q \in Questions, TakeChunk(q) PROVE Awaited'
    BY <2>22 DEF TakeChunk, Take, Accepts
  <2>23. ASSUME NEW q \in Questions, TakeFailure(q) PROVE Awaited'
    BY <2>23 DEF TakeFailure, Take, Accepts, Taken, EndStream, CancelHeld
  <2>24. ASSUME NEW q \in Questions, TakeDone(q) PROVE Awaited'
    BY <2>24 DEF TakeDone, Take, Accepts, Taken, EndStream, CancelHeld
  <2>25. ASSUME NEW q \in Questions, NEW message \in {"answer", "error"},
                NEW piece \in {"answer", "error"}, TakeAnswer(q, message, piece)
         PROVE  Awaited'
    BY <2>25 DEF TakeAnswer, Take, Accepts, Taken
  <2>26. ASSUME NEW q \in Questions, NEW message \in {"suggestion", "refused"},
                NEW piece \in {"answer", "error"}, TakeCommand(q, message, piece)
         PROVE  Awaited'
    BY <2>26 DEF TakeCommand, Take, Accepts, Taken
  <2>27. CASE UNCHANGED vars
    BY <2>27 DEF vars
  <2> QED
    BY <2>1, <2>2, <2>3, <2>4, <2>5, <2>6, <2>7, <2>8, <2>9, <2>10, <2>11, <2>12, <2>13,
       <2>14, <2>15, <2>16, <2>17, <2>18, <2>19, <2>20, <2>21, <2>22, <2>23, <2>24, <2>25,
       <2>26, <2>27
    DEF Next, User, Goroutine, Answering, Panel
<1> QED BY <1>1, <1>2, PanelTyped, ReaderTyped, FreshQuestions, OneMessageOrStream, StreamsAreHeld,
           StreamsAreStarted, PTL DEF Spec

\* The latest entry is that of the question an answer is awaited for, and the text that of its stream.
Conversation ==
    /\ loading => history # <<>> /\ history[Len(history)].query = current
    /\ \A j \in DOMAIN raw : raw[j] = held
    /\ AnswersItsQuestion

\* A response to the question of the latest entry may be written there.
LEMMA LatestAnswers ==
    ASSUME TextTypes, AnswersItsQuestion, NEW q \in Questions, NEW response \in Seq(Pieces),
           \A j \in DOMAIN response : response[j].of = q,
           history # <<>> => history[Len(history)].query = q,
           history' \in {WithLatest(response), WithLatestIfEmpty(response)}
    PROVE  /\ history # <<>> => history' # <<>> /\ history'[Len(history')].query = q
           /\ AnswersItsQuestion'
<1>1. CASE history' = history
  BY <1>1 DEF AnswersItsQuestion
<1>2. CASE history' # history
  <2>1. history # <<>> /\ history' = [history EXCEPT ![Len(history)] = Entry(@.query, response)]
    BY <1>2 DEF WithLatest, WithLatestIfEmpty
  <2>2. Len(history) \in DOMAIN history /\ DOMAIN history' = DOMAIN history /\ Len(history') = Len(history) /\ history' # <<>>
    BY <2>1 DEF TextTypes
  <2>3. history'[Len(history)] = [query |-> q, response |-> response]
    BY <2>1, <2>2 DEF Entry
  <2>4. \A i \in DOMAIN history : i # Len(history) => history'[i] = history[i]
    BY <2>1, <2>2
  <2> QED BY <2>2, <2>3, <2>4 DEF AnswersItsQuestion
<1> QED BY <1>1, <1>2

\* Chunks of one question answer it.
LEMMA ChunksAnswer ==
    ASSUME NEW text \in Seq(Questions), NEW q, \A j \in DOMAIN text : text[j] = q
    PROVE  \A j \in DOMAIN Chunks(text) : Chunks(text)[j].of = q
  BY DEF Chunks, Piece

\* So does a piece that names it.
LEMMA PieceAnswers ==
    ASSUME NEW q, NEW kind
    PROVE  \A j \in DOMAIN <<Piece(q, kind)>> : <<Piece(q, kind)>>[j].of = q
  BY DEF Piece

\* A question is added with what answers it, and is the latest.
LEMMA AskedAnswers ==
    ASSUME TextTypes, AnswersItsQuestion, NEW q \in Questions, NEW response \in Seq(Pieces),
           \A j \in DOMAIN response : response[j].of = q, history' = Append(history, Entry(q, response))
    PROVE  /\ history' # <<>> /\ history'[Len(history')].query = q
           /\ AnswersItsQuestion'
<1>1. Entry(q, response) \in Entries
  BY DEF Entry, Entries
<1>2. /\ DOMAIN history' = 1..(Len(history) + 1) /\ Len(history') = Len(history) + 1
      /\ history'[Len(history) + 1] = Entry(q, response) /\ DOMAIN history = 1..Len(history)
      /\ Len(history) \in Nat /\ history' # <<>>
      /\ \A i \in DOMAIN history : history'[i] = history[i]
  BY <1>1, SMTT(30) DEF TextTypes
<1>3. Entry(q, response).query = q /\ Entry(q, response).response = response
  BY DEF Entry
<1>4. \A i \in DOMAIN history' : i \in DOMAIN history \/ i = Len(history) + 1
  BY <1>2
<1> QED BY <1>2, <1>3, <1>4 DEF AnswersItsQuestion

\* The latest entry is the one an answer is awaited for: the messages of a question that was given up
\* are dropped, and the panel appends to the latest entry only while its answer is awaited.
THEOREM LatestIsAwaited == Spec => []Conversation
<1>1. Init => Conversation
  BY DEF Init, Conversation, AnswersItsQuestion
<1>2. PanelTypes /\ ReaderTypes /\ Fresh /\ OnceOnly /\ HeldInv /\ ReadStarted /\ TextTypes /\ Awaited /\ Conversation /\ [Next]_vars => Conversation'
  <2> SUFFICES ASSUME PanelTypes, ReaderTypes, Fresh, OnceOnly, HeldInv, ReadStarted, TextTypes, Awaited,
                      Conversation, [Next]_vars
               PROVE  Conversation'
    OBVIOUS
  <2> USE DEF Conversation, HeldInv, PanelTypes, ReaderTypes, Questions, panelVars,
            streamVars
  <2>1. CASE Show
    BY <2>1 DEF Show, AnswersItsQuestion
  <2>2. CASE Hide
    BY <2>2 DEF Hide, EndStream, CancelHeld, GiveUp, AnswersItsQuestion
  <2>3. CASE Clear
    BY <2>3 DEF Clear, EndStream, CancelHeld, GiveUp, AnswersItsQuestion
  <2>4. CASE AskNobody
    <3>1. asked + 1 \in Questions /\ TextTypes
      BY <2>4 DEF AskNobody, Submit, TextTypes
    <3>2. <<Piece(asked + 1, "hint")>> \in Seq(Pieces) /\ \A j \in DOMAIN <<Piece(asked + 1, "hint")>> : <<Piece(asked + 1, "hint")>>[j].of = asked + 1
      BY <3>1, PieceTyped, PieceAnswers
    <3>3. history' = Append(history, Entry(asked + 1, <<Piece(asked + 1, "hint")>>))
      BY <2>4, <3>1, <3>2 DEF AskNobody, Submit
    <3>4. /\ history' # <<>> /\ history'[Len(history')].query = asked + 1
         /\ AnswersItsQuestion'
      BY <3>1, <3>2, <3>3, AskedAnswers
    <3> QED BY <2>4, <3>1, <3>2, <3>3, <3>4 DEF AskNobody, Submit
  <2>5. ASSUME NEW kind \in {"analysis", "command"}, AskOnce(kind) PROVE Conversation'
    <3>1. asked + 1 \in Questions /\ TextTypes
      BY <2>5 DEF AskOnce, Submit, TextTypes
    <3>2. <<>> \in Seq(Pieces) /\ \A j \in DOMAIN <<>> : <<>>[j].of = asked + 1
      BY <3>1, PieceTyped, PieceAnswers
    <3>3. history' = Append(history, Entry(asked + 1, <<>>))
      BY <2>5, <3>1, <3>2 DEF AskOnce, Submit
    <3>4. /\ history' # <<>> /\ history'[Len(history')].query = asked + 1
         /\ AnswersItsQuestion'
      BY <3>1, <3>2, <3>3, AskedAnswers
    <3> QED BY <2>5, <3>1, <3>2, <3>3, <3>4 DEF AskOnce, Submit, BeginRequest
  <2>6. CASE AskStream
    <3>1. asked + 1 \in Questions /\ TextTypes
      BY <2>6 DEF AskStream, Submit, TextTypes
    <3>2. <<>> \in Seq(Pieces) /\ \A j \in DOMAIN <<>> : <<>>[j].of = asked + 1
      BY <3>1, PieceTyped, PieceAnswers
    <3>3. history' = Append(history, Entry(asked + 1, <<>>))
      BY <2>6, <3>1, <3>2 DEF AskStream, Submit
    <3>4. /\ history' # <<>> /\ history'[Len(history')].query = asked + 1
         /\ AnswersItsQuestion'
      BY <3>1, <3>2, <3>3, AskedAnswers
    <3> QED BY <2>6, <3>1, <3>2, <3>3, <3>4 DEF AskStream, Submit, BeginRequest, CancelHeld
  <2>7. ASSUME NEW q \in Questions, Analyzed(q) PROVE Conversation'
    BY <2>7 DEF Analyzed, Reply, ServiceOnly, AnswersItsQuestion
  <2>8. ASSUME NEW q \in Questions, Generated(q) PROVE Conversation'
    BY <2>8 DEF Generated, Reply, ServiceOnly, AnswersItsQuestion
  <2>9. ASSUME NEW q \in Questions, Start(q) PROVE Conversation'
    BY <2>9 DEF Start, Move, ServiceOnly, AnswersItsQuestion
  <2>10. ASSUME NEW q \in Questions, Expire(q) PROVE Conversation'
    BY <2>10 DEF Expire, ServiceOnly, AnswersItsQuestion
  <2>11. ASSUME NEW q \in Questions, Decode(q) PROVE Conversation'
    BY <2>11 DEF Decode, Move, ServiceOnly, AnswersItsQuestion
  <2>12. ASSUME NEW q \in Questions, SendChunk(q) PROVE Conversation'
    BY <2>12 DEF SendChunk, Move, ServiceOnly, AnswersItsQuestion
  <2>13. ASSUME NEW q \in Questions, AbortChunk(q) PROVE Conversation'
    BY <2>13 DEF AbortChunk, Move, ServiceOnly, AnswersItsQuestion
  <2>14. ASSUME NEW q \in Questions, Complete(q) PROVE Conversation'
    BY <2>14 DEF Complete, Move, ServiceOnly, AnswersItsQuestion
  <2>15. ASSUME NEW q \in Questions, Break(q) PROVE Conversation'
    BY <2>15 DEF Break, Move, ServiceOnly, AnswersItsQuestion
  <2>16. ASSUME NEW q \in Questions, SendFailure(q) PROVE Conversation'
    BY <2>16 DEF SendFailure, Move, ServiceOnly, AnswersItsQuestion
  <2>17. ASSUME NEW q \in Questions, DropFailure(q) PROVE Conversation'
    BY <2>17 DEF DropFailure, Move, ServiceOnly, AnswersItsQuestion
  <2>18. ASSUME NEW q \in Questions, CloseStream(q) PROVE Conversation'
    BY <2>18 DEF CloseStream, Move, ServiceOnly, AnswersItsQuestion
  <2>19. ASSUME NEW q \in Questions, Read(q) PROVE Conversation'
    BY <2>19 DEF Read, ServiceOnly, AnswersItsQuestion
  <2>20. ASSUME NEW q \in Questions, ReadClosed(q) PROVE Conversation'
    BY <2>20 DEF ReadClosed, ServiceOnly, AnswersItsQuestion
  <2>21. ASSUME NEW q \in Questions, Drop(q) PROVE Conversation'
    BY <2>21 DEF Drop, Accepts, AnswersItsQuestion
  <2>22. ASSUME NEW q \in Questions, TakeChunk(q) PROVE Conversation'
    <3>1. q = current /\ reader[q] # "none" /\ loading /\ held = q
      BY <2>22 DEF TakeChunk, Take, Accepts, Awaited, Messages, Once, OfStream
    <3>2. history # <<>> /\ history[Len(history)].query = q
      BY <3>1
    <3>3. raw' \in Seq(Questions) /\ \A j \in DOMAIN raw' : raw'[j] = q
      BY <2>22, <3>1, <3>2 DEF TakeChunk, Take, Accepts, TextTypes
    <3>4. Chunks(raw') \in Seq(Pieces) /\ \A j \in DOMAIN Chunks(raw') : Chunks(raw')[j].of = q
      BY <3>1, <3>2, <3>3, ChunksTyped, ChunksAnswer
    <3>5. history' = WithLatest(Chunks(raw'))
      BY <2>22, <3>1, <3>2, <3>3, <3>4 DEF TakeChunk
    <3>6. /\ history' # <<>> /\ history'[Len(history')].query = q
         /\ AnswersItsQuestion'
      BY <3>1, <3>2, <3>3, <3>4, <3>5, LatestAnswers
    <3> QED BY <2>22, <3>1, <3>2, <3>3, <3>4, <3>5, <3>6 DEF TakeChunk, Take, Accepts
  <2>23. ASSUME NEW q \in Questions, TakeFailure(q) PROVE Conversation'
    <3>1. q = current /\ reader[q] # "none" /\ loading /\ held = q
      BY <2>23 DEF TakeFailure, Take, Accepts, Awaited, Messages, Once, OfStream
    <3>2. history # <<>> /\ history[Len(history)].query = q
      BY <3>1
    <3>3. <<Piece(q, "error")>> \in Seq(Pieces) /\ \A j \in DOMAIN <<Piece(q, "error")>> : <<Piece(q, "error")>>[j].of = q
      BY <3>1, <3>2, PieceTyped, PieceAnswers
    <3>4. history' = WithLatestIfEmpty(<<Piece(q, "error")>>)
      BY <2>23, <3>1, <3>2, <3>3 DEF TakeFailure
    <3>5. /\ history' # <<>> /\ history'[Len(history')].query = q
         /\ AnswersItsQuestion'
      BY <3>1, <3>2, <3>3, <3>4, LatestAnswers
    <3> QED BY <2>23, <3>1, <3>2, <3>3, <3>4, <3>5 DEF TakeFailure, Take, Accepts, Taken, EndStream,
               CancelHeld
  <2>24. ASSUME NEW q \in Questions, TakeDone(q) PROVE Conversation'
    <3>1. q = current /\ reader[q] # "none" /\ loading /\ held = q
      BY <2>24 DEF TakeDone, Take, Accepts, Awaited, Messages, Once, OfStream
    <3>2. history # <<>> /\ history[Len(history)].query = q
      BY <3>1
    <3>3. raw \in Seq(Questions) /\ \A j \in DOMAIN raw : raw[j] = q
      BY <2>24, <3>1, <3>2 DEF TakeDone, TextTypes
    <3>4. Chunks(raw) \in Seq(Pieces) /\ \A j \in DOMAIN Chunks(raw) : Chunks(raw)[j].of = q
      BY <3>1, <3>2, <3>3, ChunksTyped, ChunksAnswer
    <3>5. history' = WithLatest(Chunks(raw))
      BY <2>24, <3>1, <3>2, <3>3, <3>4 DEF TakeDone
    <3>6. /\ history' # <<>> /\ history'[Len(history')].query = q
         /\ AnswersItsQuestion'
      BY <3>1, <3>2, <3>3, <3>4, <3>5, LatestAnswers
    <3> QED BY <2>24, <3>1, <3>2, <3>3, <3>4, <3>5, <3>6 DEF TakeDone, Take, Accepts, Taken, EndStream,
               CancelHeld
  <2>25. ASSUME NEW q \in Questions, NEW message \in {"answer", "error"},
                NEW piece \in {"answer", "error"}, TakeAnswer(q, message, piece)
         PROVE  Conversation'
    <3>1. q = current /\ reader[q] # "none" /\ loading
      BY <2>25 DEF TakeAnswer, Take, Accepts, Awaited, Messages, Once, OfStream
    <3>2. history # <<>> /\ history[Len(history)].query = q
      BY <3>1
    <3>3. <<Piece(q, piece)>> \in Seq(Pieces) /\ \A j \in DOMAIN <<Piece(q, piece)>> : <<Piece(q, piece)>>[j].of = q
      BY <3>1, <3>2, PieceTyped, PieceAnswers
    <3>4. history' = WithLatestIfEmpty(<<Piece(q, piece)>>)
      BY <2>25, <3>1, <3>2, <3>3 DEF TakeAnswer
    <3>5. /\ history' # <<>> /\ history'[Len(history')].query = q
         /\ AnswersItsQuestion'
      BY <3>1, <3>2, <3>3, <3>4, LatestAnswers
    <3> QED BY <2>25, <3>1, <3>2, <3>3, <3>4, <3>5 DEF TakeAnswer, Take, Accepts, Taken
  <2>26. ASSUME NEW q \in Questions, NEW message \in {"suggestion", "refused"},
                NEW piece \in {"answer", "error"}, TakeCommand(q, message, piece)
         PROVE  Conversation'
    <3>1. q = current /\ reader[q] # "none" /\ loading
      BY <2>26 DEF TakeCommand, Take, Accepts, Awaited, Messages, Once, OfStream
    <3>2. history # <<>> /\ history[Len(history)].query = q
      BY <3>1
    <3>3. <<Piece(q, piece)>> \in Seq(Pieces) /\ \A j \in DOMAIN <<Piece(q, piece)>> : <<Piece(q, piece)>>[j].of = q
      BY <3>1, <3>2, PieceTyped, PieceAnswers
    <3>4. history' = WithLatestIfEmpty(<<Piece(q, piece)>>)
      BY <2>26, <3>1, <3>2, <3>3 DEF TakeCommand
    <3>5. /\ history' # <<>> /\ history'[Len(history')].query = q
         /\ AnswersItsQuestion'
      BY <3>1, <3>2, <3>3, <3>4, LatestAnswers
    <3> QED BY <2>26, <3>1, <3>2, <3>3, <3>4, <3>5 DEF TakeCommand, Take, Accepts, Taken
  <2>27. CASE UNCHANGED vars
    BY <2>27 DEF vars, AnswersItsQuestion
  <2> QED
    BY <2>1, <2>2, <2>3, <2>4, <2>5, <2>6, <2>7, <2>8, <2>9, <2>10, <2>11, <2>12, <2>13,
       <2>14, <2>15, <2>16, <2>17, <2>18, <2>19, <2>20, <2>21, <2>22, <2>23, <2>24, <2>25,
       <2>26, <2>27
    DEF Next, User, Goroutine, Answering, Panel
<1> QED BY <1>1, <1>2, PanelTyped, ReaderTyped, FreshQuestions, OneMessageOrStream, StreamsAreHeld,
           StreamsAreStarted, TextTyped, TakenIsAwaited, PTL DEF Spec

\* What is written under a question was said in answer to it.
THEOREM ConversationHolds == Spec => []AnswersItsQuestion
<1>1. Conversation => AnswersItsQuestion
  BY DEF Conversation
<1> QED BY <1>1, LatestIsAwaited, PTL

\* Only the stream that is held can be canceled.
LEMMA OnlyTheHeld ==
    ASSUME HistoryTypes, CancelHeld, NEW q \in Questions, q # held
    PROVE  canceled'[q] <=> canceled[q]
  BY DEF CancelHeld

\* What the steps of a stream leave of it: one that does not run has sent nothing, its channel is
\* closed at its end, and its reader learns of that when nothing is left in it.
Closing ==
    \A q \in Questions :
        /\ stage[q] = "none" => ~canceled[q]
        /\ stage[q] \in {"none", "starting"} => sent[q] = 0 /\ queue[q] = <<>> /\ ~whole[q]
        /\ stage[q] \in {"starting", "running", "sending", "failed"} => ~whole[q]
        /\ closed[q] => stage[q] = "ended"
        /\ reader[q] = "done" => queue[q] = <<>> /\ closed[q]

\* The end of a channel is read after all that was sent through it (runProviderStream, readStreamEvent).
THEOREM StreamsClose == Spec => []Closing
<1>1. Init => Closing
  BY DEF Init, Closing
<1>2. PanelTypes /\ ReaderTypes /\ HistoryTypes /\ Fresh /\ HeldInv /\ ReadStarted /\ Closing /\ [Next]_vars => Closing'
  <2> SUFFICES ASSUME PanelTypes, ReaderTypes, HistoryTypes, Fresh, HeldInv, ReadStarted, Closing,
                      [Next]_vars
               PROVE  Closing'
    OBVIOUS
  <2> USE DEF Closing, HeldInv, PanelTypes, ReaderTypes, HistoryTypes, Questions, Fresh, ReadStarted,
            OfStream, panelVars, streamVars
  <2>1. CASE Show
    BY <2>1 DEF Show
  <2>2. CASE Hide
    <3>1. UNCHANGED <<sent, queue, whole, closed, stage, reader>>
      BY <2>2 DEF Hide
    <3>2. \A p \in Questions : stage'[p] = "none" => p # held /\ stage[p] = "none"
      BY <3>1
    <3>3. CancelHeld
      BY <2>2 DEF Hide, EndStream
    <3>4. \A p \in Questions : stage'[p] = "none" => ~canceled'[p]
      BY <3>2, <3>3, OnlyTheHeld
    <3> QED BY <3>1, <3>2, <3>4
  <2>3. CASE Clear
    <3>1. UNCHANGED <<sent, queue, whole, closed, stage, reader>>
      BY <2>3 DEF Clear
    <3>2. \A p \in Questions : stage'[p] = "none" => p # held /\ stage[p] = "none"
      BY <3>1
    <3>3. CancelHeld
      BY <2>3 DEF Clear, EndStream
    <3>4. \A p \in Questions : stage'[p] = "none" => ~canceled'[p]
      BY <3>2, <3>3, OnlyTheHeld
    <3> QED BY <3>1, <3>2, <3>4
  <2>4. CASE AskNobody
    BY <2>4 DEF AskNobody, Submit
  <2>5. ASSUME NEW kind \in {"analysis", "command"}, AskOnce(kind) PROVE Closing'
    BY <2>5 DEF AskOnce, Submit, BeginRequest
  <2>6. CASE AskStream
    <3>1. /\ asked + 1 \in Questions /\ stage[asked + 1] = "none" /\ asked + 1 # held
          /\ UNCHANGED <<sent, queue, whole, closed, reader>>
      BY <2>6 DEF AskStream, Submit
    <3>2. \A p \in Questions : p # asked + 1 => stage'[p] = stage[p]
      BY <2>6 DEF AskStream
    <3>3. stage'[asked + 1] = "starting"
      BY <2>6, <3>1 DEF AskStream
    <3>4. CancelHeld
      BY <2>6 DEF AskStream
    <3>5. \A p \in Questions : stage'[p] = "none" => ~canceled'[p]
      <4> SUFFICES ASSUME NEW p \in Questions, stage'[p] = "none" PROVE ~canceled'[p]
        OBVIOUS
      <4>1. p # asked + 1
        BY <3>3
      <4>2. stage[p] = "none"
        BY <3>2, <4>1
      <4>3. p # held
        BY <4>2
      <4> QED BY <3>4, <4>2, <4>3, OnlyTheHeld
    <3> QED BY <3>1, <3>2, <3>3, <3>5
  <2>7. ASSUME NEW q \in Questions, Analyzed(q) PROVE Closing'
    BY <2>7 DEF Analyzed, Reply, ServiceOnly
  <2>8. ASSUME NEW q \in Questions, Generated(q) PROVE Closing'
    BY <2>8 DEF Generated, Reply, ServiceOnly
  <2>9. ASSUME NEW q \in Questions, Start(q) PROVE Closing'
    BY <2>9 DEF Start, Move, ServiceOnly
  <2>10. ASSUME NEW q \in Questions, Expire(q) PROVE Closing'
    BY <2>10 DEF Expire, ServiceOnly
  <2>11. ASSUME NEW q \in Questions, Decode(q) PROVE Closing'
    BY <2>11 DEF Decode, Move, ServiceOnly
  <2>12. ASSUME NEW q \in Questions, SendChunk(q) PROVE Closing'
    BY <2>12 DEF SendChunk, Move, ServiceOnly
  <2>13. ASSUME NEW q \in Questions, AbortChunk(q) PROVE Closing'
    BY <2>13 DEF AbortChunk, Move, ServiceOnly
  <2>14. ASSUME NEW q \in Questions, Complete(q) PROVE Closing'
    BY <2>14 DEF Complete, Move, ServiceOnly
  <2>15. ASSUME NEW q \in Questions, Break(q) PROVE Closing'
    BY <2>15 DEF Break, Move, ServiceOnly
  <2>16. ASSUME NEW q \in Questions, SendFailure(q) PROVE Closing'
    BY <2>16 DEF SendFailure, Move, ServiceOnly
  <2>17. ASSUME NEW q \in Questions, DropFailure(q) PROVE Closing'
    BY <2>17 DEF DropFailure, Move, ServiceOnly
  <2>18. ASSUME NEW q \in Questions, CloseStream(q) PROVE Closing'
    BY <2>18 DEF CloseStream, Move, ServiceOnly
  <2>19. ASSUME NEW q \in Questions, Read(q) PROVE Closing'
    <3>1. Head(queue[q]) \in {"chunk", "failure"}
      BY <2>19 DEF Read
    <3> QED BY <2>19, <3>1 DEF Read, ServiceOnly
  <2>20. ASSUME NEW q \in Questions, ReadClosed(q) PROVE Closing'
    BY <2>20 DEF ReadClosed, ServiceOnly
  <2>21. ASSUME NEW q \in Questions, Drop(q) PROVE Closing'
    BY <2>21 DEF Drop, Accepts
  <2>22. ASSUME NEW q \in Questions, TakeChunk(q) PROVE Closing'
    BY <2>22 DEF TakeChunk, Take, Accepts
  <2>23. ASSUME NEW q \in Questions, TakeFailure(q) PROVE Closing'
    <3>1. UNCHANGED <<sent, queue, whole, closed, stage>> /\ (\A p \in Questions : reader'[p] # "none" => reader'[p] = reader[p])
      BY <2>23 DEF TakeFailure, Take, Taken
    <3>2. \A p \in Questions : stage'[p] = "none" => p # held /\ stage[p] = "none"
      BY <3>1
    <3>3. CancelHeld
      BY <2>23 DEF TakeFailure, EndStream
    <3>4. \A p \in Questions : stage'[p] = "none" => ~canceled'[p]
      BY <3>2, <3>3, OnlyTheHeld
    <3> QED BY <2>23, <3>1, <3>2, <3>4
  <2>24. ASSUME NEW q \in Questions, TakeDone(q) PROVE Closing'
    <3>1. UNCHANGED <<sent, queue, whole, closed, stage>> /\ (\A p \in Questions : reader'[p] # "none" => reader'[p] = reader[p])
      BY <2>24 DEF TakeDone, Take, Taken
    <3>2. \A p \in Questions : stage'[p] = "none" => p # held /\ stage[p] = "none"
      BY <3>1
    <3>3. CancelHeld
      BY <2>24 DEF TakeDone, EndStream
    <3>4. \A p \in Questions : stage'[p] = "none" => ~canceled'[p]
      BY <3>2, <3>3, OnlyTheHeld
    <3> QED BY <2>24, <3>1, <3>2, <3>4
  <2>25. ASSUME NEW q \in Questions, NEW message \in {"answer", "error"},
                NEW piece \in {"answer", "error"}, TakeAnswer(q, message, piece)
         PROVE  Closing'
    BY <2>25 DEF TakeAnswer, Take, Accepts, Taken
  <2>26. ASSUME NEW q \in Questions, NEW message \in {"suggestion", "refused"},
                NEW piece \in {"answer", "error"}, TakeCommand(q, message, piece)
         PROVE  Closing'
    BY <2>26 DEF TakeCommand, Take, Accepts, Taken
  <2>27. CASE UNCHANGED vars
    BY <2>27 DEF vars
  <2> QED
    BY <2>1, <2>2, <2>3, <2>4, <2>5, <2>6, <2>7, <2>8, <2>9, <2>10, <2>11, <2>12, <2>13,
       <2>14, <2>15, <2>16, <2>17, <2>18, <2>19, <2>20, <2>21, <2>22, <2>23, <2>24, <2>25,
       <2>26, <2>27
    DEF Next, User, Goroutine, Answering, Panel
<1> QED BY <1>1, <1>2, PanelTyped, ReaderTyped, HistoryTyped, FreshQuestions, StreamsAreHeld,
           StreamsAreStarted, PTL DEF Spec

\* The failure of a stream is on its way to the panel.
Failing(q) == reader[q] = "failure" \/ \E i \in DOMAIN queue[q] : queue[q][i] = "failure"

\* What is read from a channel, and what is left in it.
LEMMA HeadAndTail ==
    ASSUME NEW S, NEW s \in Seq(S), s # <<>>
    PROVE  /\ Head(s) = s[1] /\ Len(Tail(s)) = Len(s) - 1 /\ Len(s) \in Nat \ {0}
           /\ \A i \in DOMAIN Tail(s) : Tail(s)[i] = s[i + 1]
           /\ \A i \in DOMAIN s : i = 1 \/ i - 1 \in DOMAIN Tail(s)
<1>1. Len(s) \in Nat \ {0} /\ Len(Tail(s)) = Len(s) - 1 /\ DOMAIN s = 1..Len(s)
  OBVIOUS
<1>2. DOMAIN Tail(s) = 1..Len(s) - 1
  BY <1>1
<1> QED BY <1>1, <1>2

\* What is sent to a channel, behind what is in it.
LEMMA AppendedToQueue ==
    ASSUME NEW S, NEW s \in Seq(S), NEW e \in S
    PROVE  /\ Len(Append(s, e)) = Len(s) + 1 /\ Append(s, e)[Len(s) + 1] = e
           /\ Len(s) + 1 \in DOMAIN Append(s, e)
           /\ \A i \in DOMAIN s : i \in DOMAIN Append(s, e) /\ Append(s, e)[i] = s[i]
           /\ \A i \in DOMAIN Append(s, e) : i \in DOMAIN s \/ i = Len(s) + 1
<1>1. Len(s) \in Nat /\ DOMAIN s = 1..Len(s) /\ Len(Append(s, e)) = Len(s) + 1
  OBVIOUS
<1>2. DOMAIN Append(s, e) = 1..Len(s) + 1
  BY <1>1
<1> QED BY <1>1, <1>2

\* Of the stream that is shown nothing is lost: what was sent was taken, is on display, or is in its
\* channel, and it ends whole, or with a failure on its way, or by its time limit.
NothingIsLost(q) ==
    /\ canceled[q] => stage[q] = "ended"
    /\ stage[q] \in {"returned", "ended"} /\ ~expired[q] => whole[q] \/ Failing(q)
    /\ stage[q] # "starting" => reader[q] \in OfStream
    /\ ~Failing(q) => sent[q] = Len(raw) + Len(queue[q]) + (IF reader[q] = "chunk" THEN 1 ELSE 0)
Lossless == \A q \in Questions : q = held => NothingIsLost(q)

\* A step of one stream, and of what it has under way.
StepOf(q) ==
    /\ UNCHANGED <<held, raw>>
    /\ \A p \in Questions : p # q =>
        /\ reader'[p] = reader[p] /\ queue'[p] = queue[p] /\ stage'[p] = stage[p] /\ sent'[p] = sent[p]
        /\ (whole[p] => whole'[p]) /\ (canceled'[p] => canceled[p]) /\ (~expired'[p] => ~expired[p])

LEMMA OtherStreams ==
    ASSUME Lossless, NEW q \in Questions, StepOf(q), q = held => NothingIsLost(q)'
    PROVE  Lossless'
<1> SUFFICES ASSUME NEW p \in Questions, p = held, p # q PROVE NothingIsLost(p)'
  BY DEF Lossless, StepOf
<1>1. NothingIsLost(p)
  BY DEF Lossless
<1>2. Failing(p)' <=> Failing(p)
  BY DEF Failing, StepOf
<1> QED BY <1>1, <1>2 DEF NothingIsLost, StepOf

\* Nothing of the stream that is shown is lost on its way to the panel, and it ends short only by a
\* failure that the panel will be told or by its time limit.
THEOREM StreamIsLossless == Spec => []Lossless
<1>1. Init => Lossless
  BY DEF Init, Lossless, Questions
<1>2. PanelTypes /\ ReaderTypes /\ HistoryTypes /\ TextTypes /\ Fresh /\ OnceOnly /\ HeldInv /\ ReadStarted /\ Awaited /\ Closing /\ Lossless /\ [Next]_vars => Lossless'
  <2> SUFFICES ASSUME PanelTypes, ReaderTypes, HistoryTypes, TextTypes, Fresh, OnceOnly, HeldInv,
                      ReadStarted, Awaited, Closing, Lossless, [Next]_vars
               PROVE  Lossless'
    OBVIOUS
  <2> USE DEF Closing, HeldInv, OfStream, Once, OnceOnly, Fresh, PanelTypes, ReaderTypes,
            HistoryTypes, TextTypes, Questions, panelVars, streamVars
  <2>1. CASE Show
    BY <2>1 DEF Show, Lossless, NothingIsLost, Failing
  <2>2. CASE Hide
    BY <2>2 DEF Hide, EndStream, CancelHeld, GiveUp, Lossless
  <2>3. CASE Clear
    BY <2>3 DEF Clear, EndStream, CancelHeld, GiveUp, Lossless
  <2>4. CASE AskNobody
    BY <2>4 DEF AskNobody, Submit, Lossless, NothingIsLost, Failing
  <2>5. ASSUME NEW kind \in {"analysis", "command"}, AskOnce(kind) PROVE Lossless'
    BY <2>5 DEF AskOnce, Submit, BeginRequest, Lossless
  <2>6. CASE AskStream
    <3>1. asked + 1 \in Questions /\ stage[asked + 1] = "none" /\ reader[asked + 1] = "none"
      BY <2>6 DEF AskStream, Submit
    <3>2. /\ held' = asked + 1 /\ raw' = <<>> /\ stage'[asked + 1] = "starting" /\ reader' = reader
          /\ UNCHANGED <<sent, queue>>
      BY <2>6, <3>1 DEF AskStream, Submit
    <3>3. ~canceled'[asked + 1]
      BY <2>6, <3>1 DEF AskStream, CancelHeld
    <3>4. sent[asked + 1] = 0 /\ Len(queue[asked + 1]) = 0 /\ Len(raw') = 0
      BY <3>1, <3>2
    <3>5. reader'[asked + 1] = "none"
      BY <3>1, <3>2
    <3>6. sent'[asked + 1] = 0 /\ Len(queue'[asked + 1]) = 0
      BY <3>2, <3>4
    <3> SUFFICES ASSUME NEW q \in Questions, q = asked + 1 PROVE NothingIsLost(q)'
      BY <3>2 DEF Lossless
    <3>7. sent'[q] = Len(raw') + Len(queue'[q]) + (IF reader'[q] = "chunk" THEN 1 ELSE 0)
      BY <3>4, <3>5, <3>6
    <3> QED BY <3>2, <3>3, <3>7 DEF NothingIsLost
  <2>7. ASSUME NEW q \in Questions, Analyzed(q) PROVE Lossless'
    <3>1. StepOf(q)
      BY <2>7 DEF Analyzed, Reply, ServiceOnly, StepOf
    <3>2. q = held => NothingIsLost(q)
      BY DEF Lossless
    <3>3. Failing(q)' <=> Failing(q)
      BY <2>7, <3>1, <3>2 DEF Analyzed, Reply, ServiceOnly, Failing
    <3>4. q = held => NothingIsLost(q)'
      BY <2>7, <3>1, <3>2, <3>3 DEF Analyzed, Reply, ServiceOnly, NothingIsLost
    <3> QED BY <3>1, <3>2, <3>3, <3>4, OtherStreams
  <2>8. ASSUME NEW q \in Questions, Generated(q) PROVE Lossless'
    <3>1. StepOf(q)
      BY <2>8 DEF Generated, Reply, ServiceOnly, StepOf
    <3>2. q = held => NothingIsLost(q)
      BY DEF Lossless
    <3>3. Failing(q)' <=> Failing(q)
      BY <2>8, <3>1, <3>2 DEF Generated, Reply, ServiceOnly, Failing
    <3>4. q = held => NothingIsLost(q)'
      BY <2>8, <3>1, <3>2, <3>3 DEF Generated, Reply, ServiceOnly, NothingIsLost
    <3> QED BY <3>1, <3>2, <3>3, <3>4, OtherStreams
  <2>9. ASSUME NEW q \in Questions, Start(q) PROVE Lossless'
    <3>1. StepOf(q)
      BY <2>9 DEF Start, Move, ServiceOnly, StepOf
    <3>2. q = held => NothingIsLost(q)
      BY DEF Lossless
    <3>3. Failing(q)' <=> Failing(q)
      BY <2>9, <3>1, <3>2 DEF Start, Move, ServiceOnly, Failing, ReadStarted
    <3>4. q = held => NothingIsLost(q)'
      BY <2>9, <3>1, <3>2, <3>3 DEF Start, Move, ServiceOnly, NothingIsLost
    <3> QED BY <3>1, <3>2, <3>3, <3>4, OtherStreams
  <2>10. ASSUME NEW q \in Questions, Expire(q) PROVE Lossless'
    <3>1. StepOf(q)
      BY <2>10 DEF Expire, ServiceOnly, StepOf
    <3>2. q = held => NothingIsLost(q)
      BY DEF Lossless
    <3>3. Failing(q)' <=> Failing(q)
      BY <2>10, <3>1, <3>2 DEF Expire, ServiceOnly, Failing
    <3>4. q = held => NothingIsLost(q)'
      BY <2>10, <3>1, <3>2, <3>3 DEF Expire, ServiceOnly, NothingIsLost
    <3> QED BY <3>1, <3>2, <3>3, <3>4, OtherStreams
  <2>11. ASSUME NEW q \in Questions, Decode(q) PROVE Lossless'
    <3>1. StepOf(q)
      BY <2>11 DEF Decode, Move, ServiceOnly, StepOf
    <3>2. q = held => NothingIsLost(q)
      BY DEF Lossless
    <3>3. Failing(q)' <=> Failing(q)
      BY <2>11, <3>1, <3>2 DEF Decode, Move, ServiceOnly, Failing
    <3>4. q = held => NothingIsLost(q)'
      BY <2>11, <3>1, <3>2, <3>3 DEF Decode, Move, ServiceOnly, NothingIsLost
    <3> QED BY <3>1, <3>2, <3>3, <3>4, OtherStreams
  <2>12. ASSUME NEW q \in Questions, SendChunk(q) PROVE Lossless'
    <3>1. StepOf(q)
      BY <2>12 DEF SendChunk, Move, ServiceOnly, StepOf
    <3>2. q = held => NothingIsLost(q)
      BY DEF Lossless
    <3>3. queue[q] \in Seq({"chunk", "failure"}) /\ queue'[q] = Append(queue[q], "chunk")
      BY <2>12, <3>1, <3>2 DEF SendChunk, Move, ServiceOnly
    <3>4. Failing(q)' <=> Failing(q)
      <4>1. reader'[q] = reader[q]
        BY <2>12 DEF SendChunk, ServiceOnly
      <4>2. \A i \in DOMAIN queue[q] : i \in DOMAIN queue'[q] /\ queue'[q][i] = queue[q][i]
        BY <3>3, AppendedToQueue
      <4>3. \A i \in DOMAIN queue'[q] : i \in DOMAIN queue[q] \/ queue'[q][i] = "chunk"
        BY <3>3, AppendedToQueue
      <4> QED BY <4>1, <4>2, <4>3 DEF Failing
    <3>5. q = held => NothingIsLost(q)'
      BY <2>12, <3>1, <3>2, <3>3, <3>4 DEF SendChunk, Move, ServiceOnly, NothingIsLost
    <3> QED BY <3>1, <3>2, <3>3, <3>4, <3>5, OtherStreams
  <2>13. ASSUME NEW q \in Questions, AbortChunk(q) PROVE Lossless'
    <3>1. StepOf(q)
      BY <2>13 DEF AbortChunk, Move, ServiceOnly, StepOf
    <3>2. q = held => NothingIsLost(q)
      BY DEF Lossless
    <3>3. Failing(q)' <=> Failing(q)
      BY <2>13, <3>1, <3>2 DEF AbortChunk, Move, ServiceOnly, Failing
    <3>4. q = held => NothingIsLost(q)'
      BY <2>13, <3>1, <3>2, <3>3 DEF AbortChunk, Move, ServiceOnly, NothingIsLost
    <3> QED BY <3>1, <3>2, <3>3, <3>4, OtherStreams
  <2>14. ASSUME NEW q \in Questions, Complete(q) PROVE Lossless'
    <3>1. StepOf(q)
      BY <2>14 DEF Complete, Move, ServiceOnly, StepOf
    <3>2. q = held => NothingIsLost(q)
      BY DEF Lossless
    <3>3. Failing(q)' <=> Failing(q)
      BY <2>14, <3>1, <3>2 DEF Complete, Move, ServiceOnly, Failing
    <3>4. q = held => NothingIsLost(q)'
      BY <2>14, <3>1, <3>2, <3>3 DEF Complete, Move, ServiceOnly, NothingIsLost
    <3> QED BY <3>1, <3>2, <3>3, <3>4, OtherStreams
  <2>15. ASSUME NEW q \in Questions, Break(q) PROVE Lossless'
    <3>1. StepOf(q)
      BY <2>15 DEF Break, Move, ServiceOnly, StepOf
    <3>2. q = held => NothingIsLost(q)
      BY DEF Lossless
    <3>3. Failing(q)' <=> Failing(q)
      BY <2>15, <3>1, <3>2 DEF Break, Move, ServiceOnly, Failing
    <3>4. q = held => NothingIsLost(q)'
      BY <2>15, <3>1, <3>2, <3>3 DEF Break, Move, ServiceOnly, NothingIsLost
    <3> QED BY <3>1, <3>2, <3>3, <3>4, OtherStreams
  <2>16. ASSUME NEW q \in Questions, SendFailure(q) PROVE Lossless'
    <3>1. StepOf(q)
      BY <2>16 DEF SendFailure, Move, ServiceOnly, StepOf
    <3>2. q = held => NothingIsLost(q)
      BY DEF Lossless
    <3>3. queue[q] \in Seq({"chunk", "failure"}) /\ queue'[q] = Append(queue[q], "failure")
      BY <2>16, <3>1, <3>2 DEF SendFailure, Move, ServiceOnly
    <3>4. Failing(q)'
      <4>1. Len(queue[q]) + 1 \in DOMAIN queue'[q] /\ queue'[q][Len(queue[q]) + 1] = "failure"
        BY <3>3, AppendedToQueue
      <4> QED BY <4>1 DEF Failing
    <3>5. q = held => NothingIsLost(q)'
      BY <2>16, <3>1, <3>2, <3>3, <3>4 DEF SendFailure, Move, ServiceOnly, NothingIsLost
    <3> QED BY <3>1, <3>2, <3>3, <3>4, <3>5, OtherStreams
  <2>17. ASSUME NEW q \in Questions, DropFailure(q) PROVE Lossless'
    <3>1. StepOf(q)
      BY <2>17 DEF DropFailure, Move, ServiceOnly, StepOf
    <3>2. q = held => NothingIsLost(q)
      BY DEF Lossless
    <3>3. Failing(q)' <=> Failing(q)
      BY <2>17, <3>1, <3>2 DEF DropFailure, Move, ServiceOnly, Failing
    <3>4. q = held => NothingIsLost(q)'
      BY <2>17, <3>1, <3>2, <3>3 DEF DropFailure, Over, Move, ServiceOnly, NothingIsLost
    <3> QED BY <3>1, <3>2, <3>3, <3>4, OtherStreams
  <2>18. ASSUME NEW q \in Questions, CloseStream(q) PROVE Lossless'
    <3>1. StepOf(q)
      BY <2>18 DEF CloseStream, Move, ServiceOnly, StepOf
    <3>2. q = held => NothingIsLost(q)
      BY DEF Lossless
    <3>3. Failing(q)' <=> Failing(q)
      BY <2>18, <3>1, <3>2 DEF CloseStream, Move, ServiceOnly, Failing
    <3>4. q = held => NothingIsLost(q)'
      BY <2>18, <3>1, <3>2, <3>3 DEF CloseStream, Move, ServiceOnly, NothingIsLost
    <3> QED BY <3>1, <3>2, <3>3, <3>4, OtherStreams
  <2>19. ASSUME NEW q \in Questions, Read(q) PROVE Lossless'
    <3>1. StepOf(q)
      BY <2>19 DEF Read, ServiceOnly, StepOf
    <3>2. q = held => NothingIsLost(q)
      BY DEF Lossless
    <3>3. queue[q] \in Seq({"chunk", "failure"}) /\ queue[q] # <<>> /\ queue'[q] = Tail(queue[q]) /\ reader'[q] = Head(queue[q])
      BY <2>19, <3>1, <3>2 DEF Read, ServiceOnly
    <3>4. Head(queue[q]) \in {"chunk", "failure"} /\ Len(queue'[q]) = Len(queue[q]) - 1
      BY <3>3, HeadAndTail
    <3>5. Failing(q)' <=> Failing(q)
      <4>1. reader[q] = "reading" /\ reader'[q] = queue[q][1] /\ 1 \in DOMAIN queue[q]
        BY <2>19, <3>3 DEF Read
      <4>2. \A i \in DOMAIN queue'[q] : i + 1 \in DOMAIN queue[q] /\ queue'[q][i] = queue[q][i + 1]
        BY <3>3
      <4>3. \A i \in DOMAIN queue[q] : i = 1 \/ (i - 1 \in DOMAIN queue'[q] /\ queue'[q][i - 1] = queue[q][i])
        BY <3>3
      <4>4. ASSUME Failing(q)' PROVE Failing(q)
        BY <4>1, <4>2, <4>4 DEF Failing
      <4>5. ASSUME Failing(q) PROVE Failing(q)'
        <5>1. PICK i \in DOMAIN queue[q] : queue[q][i] = "failure"
          BY <4>1, <4>5 DEF Failing
        <5>2. CASE i = 1
          BY <4>1, <5>1, <5>2 DEF Failing
        <5>3. CASE i # 1
          <6>1. i - 1 \in DOMAIN queue'[q] /\ queue'[q][i - 1] = "failure"
            BY <4>3, <5>1, <5>3
          <6> QED BY <6>1 DEF Failing
        <5> QED BY <5>2, <5>3
      <4> QED BY <4>4, <4>5
    <3>6. q = held => NothingIsLost(q)'
      <4>1. UNCHANGED <<raw, stage, sent, whole, canceled, expired>> /\ reader[q] = "reading"
        BY <2>19 DEF Read, ServiceOnly
      <4>2. reader'[q] \in {"chunk", "failure"} /\ (~Failing(q)' => reader'[q] = "chunk")
        BY <3>3, <3>4 DEF Failing
      <4>3. Len(queue[q]) \in Nat
        BY <3>3
      <4> SUFFICES ASSUME q = held PROVE NothingIsLost(q)'
        OBVIOUS
      <4>4. NothingIsLost(q) /\ sent[q] \in Nat /\ Len(raw) \in Nat /\ reader'[q] \in OfStream
        BY <3>2, <4>2
      <4>5. ~Failing(q)' => sent'[q] = Len(raw') + Len(queue'[q]) + (IF reader'[q] = "chunk" THEN 1 ELSE 0)
        BY <3>4, <3>5, <4>1, <4>2, <4>3, <4>4 DEF NothingIsLost
      <4> QED BY <3>5, <4>1, <4>4, <4>5 DEF NothingIsLost
    <3> QED BY <3>1, <3>2, <3>3, <3>4, <3>5, <3>6, OtherStreams
  <2>20. ASSUME NEW q \in Questions, ReadClosed(q) PROVE Lossless'
    <3>1. StepOf(q)
      BY <2>20 DEF ReadClosed, ServiceOnly, StepOf
    <3>2. q = held => NothingIsLost(q)
      BY DEF Lossless
    <3>3. Failing(q)' <=> Failing(q)
      BY <2>20, <3>1, <3>2 DEF ReadClosed, ServiceOnly, Failing
    <3>4. q = held => NothingIsLost(q)'
      BY <2>20, <3>1, <3>2, <3>3 DEF ReadClosed, ServiceOnly, NothingIsLost
    <3> QED BY <3>1, <3>2, <3>3, <3>4, OtherStreams
  <2>21. ASSUME NEW q \in Questions, Drop(q) PROVE Lossless'
    <3>1. StepOf(q)
      BY <2>21 DEF Drop, StepOf
    <3>2. q # held
      BY <2>21 DEF Drop, Accepts
    <3> QED BY <3>1, <3>2, OtherStreams
  <2>22. ASSUME NEW q \in Questions, TakeChunk(q) PROVE Lossless'
    <3>1. q = held /\ held' = held /\ reader'[q] = "reading" /\ Len(raw') = Len(raw) + 1
      BY <2>22 DEF TakeChunk, Take, Accepts, Awaited
    <3>2. NothingIsLost(q) /\ Len(raw) \in Nat
      BY <3>1 DEF Lossless
    <3>3. Failing(q)' <=> Failing(q)
      BY <2>22, <3>1, <3>2 DEF TakeChunk, Take, Accepts, Failing
    <3>4. NothingIsLost(q)'
      BY <2>22, <3>1, <3>2, <3>3 DEF TakeChunk, Take, Accepts, NothingIsLost
    <3> QED BY <3>1, <3>4 DEF Lossless
  <2>23. ASSUME NEW q \in Questions, TakeFailure(q) PROVE Lossless'
    BY <2>23 DEF TakeFailure, Take, Accepts, Taken, EndStream, CancelHeld, Lossless
  <2>24. ASSUME NEW q \in Questions, TakeDone(q) PROVE Lossless'
    BY <2>24 DEF TakeDone, Take, Accepts, Taken, EndStream, CancelHeld, Lossless
  <2>25. ASSUME NEW q \in Questions, NEW message \in {"answer", "error"},
                NEW piece \in {"answer", "error"}, TakeAnswer(q, message, piece)
         PROVE  Lossless'
    BY <2>25 DEF TakeAnswer, Take, Accepts, Taken, Lossless
  <2>26. ASSUME NEW q \in Questions, NEW message \in {"suggestion", "refused"},
                NEW piece \in {"answer", "error"}, TakeCommand(q, message, piece)
         PROVE  Lossless'
    BY <2>26 DEF TakeCommand, Take, Accepts, Taken, Lossless
  <2>27. CASE UNCHANGED vars
    BY <2>27 DEF vars, Lossless, NothingIsLost, Failing
  <2> QED
    BY <2>1, <2>2, <2>3, <2>4, <2>5, <2>6, <2>7, <2>8, <2>9, <2>10, <2>11, <2>12, <2>13,
       <2>14, <2>15, <2>16, <2>17, <2>18, <2>19, <2>20, <2>21, <2>22, <2>23, <2>24, <2>25,
       <2>26, <2>27
    DEF Next, User, Goroutine, Answering, Panel
<1> QED BY <1>1, <1>2, PanelTyped, ReaderTyped, HistoryTyped, TextTyped, FreshQuestions,
           OneMessageOrStream, StreamsAreHeld, StreamsAreStarted, TakenIsAwaited, StreamsClose, PTL DEF Spec

\* A stream whose end was taken has ended, and nothing is under way for its question.
FinishedEnded == \A q \in Questions : finished[q] => stage[q] = "ended" /\ reader[q] = "none"

\* The end of an answer is the last thing the panel takes of it (finishStream).
THEOREM FinishedHasEnded == Spec => []FinishedEnded
<1>1. Init => FinishedEnded
  BY DEF Init, FinishedEnded
<1>2. PanelTypes /\ ReaderTypes /\ HistoryTypes /\ Fresh /\ HeldInv /\ Closing /\ FinishedEnded /\ [Next]_vars => FinishedEnded'
  <2> SUFFICES ASSUME PanelTypes, ReaderTypes, HistoryTypes, Fresh, HeldInv, Closing, FinishedEnded,
                      [Next]_vars
               PROVE  FinishedEnded'
    OBVIOUS
  <2> USE DEF FinishedEnded, HeldInv, Closing, Fresh, Messages, PanelTypes, ReaderTypes,
            HistoryTypes, Questions, panelVars, streamVars
  <2>1. CASE Show
    BY <2>1 DEF Show
  <2>2. CASE Hide
    BY <2>2 DEF Hide, EndStream, CancelHeld, GiveUp
  <2>3. CASE Clear
    BY <2>3 DEF Clear, EndStream, CancelHeld, GiveUp
  <2>4. CASE AskNobody
    BY <2>4 DEF AskNobody, Submit
  <2>5. ASSUME NEW kind \in {"analysis", "command"}, AskOnce(kind) PROVE FinishedEnded'
    BY <2>5 DEF AskOnce, Submit, BeginRequest
  <2>6. CASE AskStream
    BY <2>6 DEF AskStream, Submit, BeginRequest, CancelHeld
  <2>7. ASSUME NEW q \in Questions, Analyzed(q) PROVE FinishedEnded'
    BY <2>7 DEF Analyzed, Reply, ServiceOnly
  <2>8. ASSUME NEW q \in Questions, Generated(q) PROVE FinishedEnded'
    BY <2>8 DEF Generated, Reply, ServiceOnly
  <2>9. ASSUME NEW q \in Questions, Start(q) PROVE FinishedEnded'
    BY <2>9 DEF Start, Move, ServiceOnly
  <2>10. ASSUME NEW q \in Questions, Expire(q) PROVE FinishedEnded'
    BY <2>10 DEF Expire, ServiceOnly
  <2>11. ASSUME NEW q \in Questions, Decode(q) PROVE FinishedEnded'
    BY <2>11 DEF Decode, Move, ServiceOnly
  <2>12. ASSUME NEW q \in Questions, SendChunk(q) PROVE FinishedEnded'
    BY <2>12 DEF SendChunk, Move, ServiceOnly
  <2>13. ASSUME NEW q \in Questions, AbortChunk(q) PROVE FinishedEnded'
    BY <2>13 DEF AbortChunk, Move, ServiceOnly
  <2>14. ASSUME NEW q \in Questions, Complete(q) PROVE FinishedEnded'
    BY <2>14 DEF Complete, Move, ServiceOnly
  <2>15. ASSUME NEW q \in Questions, Break(q) PROVE FinishedEnded'
    BY <2>15 DEF Break, Move, ServiceOnly
  <2>16. ASSUME NEW q \in Questions, SendFailure(q) PROVE FinishedEnded'
    BY <2>16 DEF SendFailure, Move, ServiceOnly
  <2>17. ASSUME NEW q \in Questions, DropFailure(q) PROVE FinishedEnded'
    BY <2>17 DEF DropFailure, Move, ServiceOnly
  <2>18. ASSUME NEW q \in Questions, CloseStream(q) PROVE FinishedEnded'
    BY <2>18 DEF CloseStream, Move, ServiceOnly
  <2>19. ASSUME NEW q \in Questions, Read(q) PROVE FinishedEnded'
    <3>1. Head(queue[q]) \in {"chunk", "failure"}
      BY <2>19 DEF Read
    <3> QED BY <2>19, <3>1 DEF Read, ServiceOnly
  <2>20. ASSUME NEW q \in Questions, ReadClosed(q) PROVE FinishedEnded'
    BY <2>20 DEF ReadClosed, ServiceOnly
  <2>21. ASSUME NEW q \in Questions, Drop(q) PROVE FinishedEnded'
    BY <2>21 DEF Drop, Accepts
  <2>22. ASSUME NEW q \in Questions, TakeChunk(q) PROVE FinishedEnded'
    <3>1. reader[q] = "chunk" /\ q = current /\ UNCHANGED <<stage, finished>>
      BY <2>22 DEF TakeChunk, Take, Accepts
    <3>2. \A p \in Questions : p # q /\ p # held => reader'[p] = reader[p]
      BY <2>22 DEF TakeChunk
    <3> QED BY <3>1, <3>2
  <2>23. ASSUME NEW q \in Questions, TakeFailure(q) PROVE FinishedEnded'
    BY <2>23 DEF TakeFailure, Take, Accepts, Taken, EndStream, CancelHeld
  <2>24. ASSUME NEW q \in Questions, TakeDone(q) PROVE FinishedEnded'
    BY <2>24 DEF TakeDone, Take, Accepts, Taken, EndStream, CancelHeld
  <2>25. ASSUME NEW q \in Questions, NEW message \in {"answer", "error"},
                NEW piece \in {"answer", "error"}, TakeAnswer(q, message, piece)
         PROVE  FinishedEnded'
    BY <2>25 DEF TakeAnswer, Take, Accepts, Taken
  <2>26. ASSUME NEW q \in Questions, NEW message \in {"suggestion", "refused"},
                NEW piece \in {"answer", "error"}, TakeCommand(q, message, piece)
         PROVE  FinishedEnded'
    BY <2>26 DEF TakeCommand, Take, Accepts, Taken
  <2>27. CASE UNCHANGED vars
    BY <2>27 DEF vars
  <2> QED
    BY <2>1, <2>2, <2>3, <2>4, <2>5, <2>6, <2>7, <2>8, <2>9, <2>10, <2>11, <2>12, <2>13,
       <2>14, <2>15, <2>16, <2>17, <2>18, <2>19, <2>20, <2>21, <2>22, <2>23, <2>24, <2>25,
       <2>26, <2>27
    DEF Next, User, Goroutine, Answering, Panel
<1> QED BY <1>1, <1>2, PanelTyped, ReaderTyped, HistoryTyped, FreshQuestions, StreamsAreHeld, StreamsClose,
           PTL DEF Spec

\* Every question of the conversation was asked, and has one entry.
Ordered ==
    \A i \in DOMAIN history :
        /\ history[i].query <= asked
        /\ \A j \in DOMAIN history : history[i].query = history[j].query => i = j

\* A response written to the latest entry leaves the questions and all other entries as they were.
LEMMA LatestWritten ==
    ASSUME TextTypes, NEW response, history # <<>>,
           history' \in {WithLatest(response), WithLatestIfEmpty(response)}
    PROVE  /\ DOMAIN history' = DOMAIN history /\ Len(history) \in DOMAIN history
           /\ \A i \in DOMAIN history : history'[i].query = history[i].query
           /\ \A i \in DOMAIN history : i # Len(history) => history'[i] = history[i]
           /\ history' = WithLatest(response) => history'[Len(history)].response = response
<1>1. Len(history) \in DOMAIN history
  BY DEF TextTypes
<1>2. CASE history' = history /\ history' # WithLatest(response)
  BY <1>1, <1>2
<1>3. CASE history' = WithLatest(response)
  <2>1. history' = [history EXCEPT ![Len(history)] = Entry(@.query, response)]
    BY <1>3 DEF WithLatest
  <2>2. DOMAIN history' = DOMAIN history /\ history'[Len(history)] = Entry(history[Len(history)].query, response)
    BY <1>1, <2>1
  <2>3. history'[Len(history)].query = history[Len(history)].query /\ history'[Len(history)].response = response
    BY <2>2 DEF Entry
  <2>4. \A i \in DOMAIN history : i # Len(history) => history'[i] = history[i]
    BY <2>1
  <2> QED BY <1>1, <2>2, <2>3, <2>4
<1> QED BY <1>2, <1>3 DEF WithLatestIfEmpty

\* The question of an entry is one.
LEMMA QueryTyped == ASSUME TextTypes, NEW i \in DOMAIN history PROVE history[i].query \in Questions
<1>1. history[i] \in Entries
  BY DEF TextTypes
<1> QED BY <1>1 DEF Entries

\* An entry is added behind those there are.
LEMMA EntryAdded ==
    ASSUME TextTypes, NEW q \in Questions, NEW response \in Seq(Pieces), history' = Append(history, Entry(q, response))
    PROVE  /\ Len(history) + 1 \in DOMAIN history' /\ history'[Len(history) + 1].query = q
           /\ \A i \in DOMAIN history : i \in DOMAIN history' /\ history'[i] = history[i]
           /\ \A i \in DOMAIN history' : i \in DOMAIN history \/ i = Len(history) + 1
<1>1. Entry(q, response) \in Entries /\ Entry(q, response).query = q
  BY DEF Entry, Entries
<1> QED BY <1>1, AppendedToQueue DEF TextTypes

\* The next question is asked for the first time.
LEMMA OrderedAsked ==
    ASSUME PanelTypes, TextTypes, Ordered, asked + 1 \in Questions, asked' = asked + 1,
           NEW response \in Seq(Pieces), history' = Append(history, Entry(asked + 1, response))
    PROVE  Ordered'
<1>1. /\ Len(history) + 1 \in DOMAIN history' /\ history'[Len(history) + 1].query = asked + 1
      /\ \A i \in DOMAIN history : i \in DOMAIN history' /\ history'[i] = history[i]
      /\ \A i \in DOMAIN history' : i \in DOMAIN history \/ i = Len(history) + 1
  BY EntryAdded
<1>2. \A i \in DOMAIN history : history[i].query \in Questions
  BY QueryTyped
<1>3. asked \in Nat
  BY DEF PanelTypes
<1>4. \A i \in DOMAIN history : history'[i].query < asked + 1
  BY <1>1, <1>2, <1>3 DEF Ordered, Questions
<1> SUFFICES ASSUME NEW i \in DOMAIN history', NEW j \in DOMAIN history'
             PROVE  /\ history'[i].query <= asked + 1
                    /\ history'[i].query = history'[j].query => i = j
  BY DEF Ordered
<1>5. history'[i].query <= asked + 1
  BY <1>1, <1>2, <1>3, <1>4 DEF Questions
<1>6. CASE i \in DOMAIN history /\ j \in DOMAIN history
  BY <1>1, <1>5, <1>6 DEF Ordered
<1>7. CASE i = Len(history) + 1 \/ j = Len(history) + 1
  BY <1>1, <1>2, <1>3, <1>4, <1>5, <1>7 DEF Questions
<1> QED BY <1>1, <1>6, <1>7

\* A question has one entry of the conversation (prepareQuery).
THEOREM QuestionsOnce == Spec => []Ordered
<1>1. Init => Ordered
  BY DEF Init, Ordered
<1>2. PanelTypes /\ TextTypes /\ Ordered /\ [Next]_vars => Ordered'
  <2> SUFFICES ASSUME PanelTypes, TextTypes, Ordered, [Next]_vars PROVE Ordered'
    OBVIOUS
  <2> USE DEF Ordered, PanelTypes, TextTypes, Questions, panelVars, streamVars
  <2>1. CASE Show
    BY <2>1 DEF Show
  <2>2. CASE Hide
    BY <2>2 DEF Hide, EndStream, CancelHeld, GiveUp
  <2>3. CASE Clear
    BY <2>3 DEF Clear, EndStream, CancelHeld, GiveUp
  <2>4. CASE AskNobody
    <3>1. asked + 1 \in Questions /\ asked' = asked + 1
      BY <2>4 DEF AskNobody, Submit
    <3>2. <<Piece(asked + 1, "hint")>> \in Seq(Pieces)
      BY <3>1, PieceTyped
    <3>3. history' = Append(history, Entry(asked + 1, <<Piece(asked + 1, "hint")>>))
      BY <2>4, <3>1, <3>2 DEF AskNobody, Submit
    <3> QED BY <3>1, <3>2, <3>3, OrderedAsked
  <2>5. ASSUME NEW kind \in {"analysis", "command"}, AskOnce(kind) PROVE Ordered'
    <3>1. asked + 1 \in Questions /\ asked' = asked + 1
      BY <2>5 DEF AskOnce, Submit
    <3>2. <<>> \in Seq(Pieces)
      BY <3>1, PieceTyped
    <3>3. history' = Append(history, Entry(asked + 1, <<>>))
      BY <2>5, <3>1, <3>2 DEF AskOnce, Submit
    <3> QED BY <3>1, <3>2, <3>3, OrderedAsked
  <2>6. CASE AskStream
    <3>1. asked + 1 \in Questions /\ asked' = asked + 1
      BY <2>6 DEF AskStream, Submit
    <3>2. <<>> \in Seq(Pieces)
      BY <3>1, PieceTyped
    <3>3. history' = Append(history, Entry(asked + 1, <<>>))
      BY <2>6, <3>1, <3>2 DEF AskStream, Submit
    <3> QED BY <3>1, <3>2, <3>3, OrderedAsked
  <2>7. ASSUME NEW q \in Questions, Analyzed(q) PROVE Ordered'
    BY <2>7 DEF Analyzed, Reply, ServiceOnly
  <2>8. ASSUME NEW q \in Questions, Generated(q) PROVE Ordered'
    BY <2>8 DEF Generated, Reply, ServiceOnly
  <2>9. ASSUME NEW q \in Questions, Start(q) PROVE Ordered'
    BY <2>9 DEF Start, Move, ServiceOnly
  <2>10. ASSUME NEW q \in Questions, Expire(q) PROVE Ordered'
    BY <2>10 DEF Expire, ServiceOnly
  <2>11. ASSUME NEW q \in Questions, Decode(q) PROVE Ordered'
    BY <2>11 DEF Decode, Move, ServiceOnly
  <2>12. ASSUME NEW q \in Questions, SendChunk(q) PROVE Ordered'
    BY <2>12 DEF SendChunk, Move, ServiceOnly
  <2>13. ASSUME NEW q \in Questions, AbortChunk(q) PROVE Ordered'
    BY <2>13 DEF AbortChunk, Move, ServiceOnly
  <2>14. ASSUME NEW q \in Questions, Complete(q) PROVE Ordered'
    BY <2>14 DEF Complete, Move, ServiceOnly
  <2>15. ASSUME NEW q \in Questions, Break(q) PROVE Ordered'
    BY <2>15 DEF Break, Move, ServiceOnly
  <2>16. ASSUME NEW q \in Questions, SendFailure(q) PROVE Ordered'
    BY <2>16 DEF SendFailure, Move, ServiceOnly
  <2>17. ASSUME NEW q \in Questions, DropFailure(q) PROVE Ordered'
    BY <2>17 DEF DropFailure, Move, ServiceOnly
  <2>18. ASSUME NEW q \in Questions, CloseStream(q) PROVE Ordered'
    BY <2>18 DEF CloseStream, Move, ServiceOnly
  <2>19. ASSUME NEW q \in Questions, Read(q) PROVE Ordered'
    BY <2>19 DEF Read, ServiceOnly
  <2>20. ASSUME NEW q \in Questions, ReadClosed(q) PROVE Ordered'
    BY <2>20 DEF ReadClosed, ServiceOnly
  <2>21. ASSUME NEW q \in Questions, Drop(q) PROVE Ordered'
    BY <2>21 DEF Drop, Accepts
  <2>22. ASSUME NEW q \in Questions, TakeChunk(q) PROVE Ordered'
    <3>1. asked' = asked /\ history' = WithLatest(Chunks(raw'))
      BY <2>22 DEF TakeChunk, Take
    <3>2. DOMAIN history' = DOMAIN history /\ (\A i \in DOMAIN history : history'[i].query = history[i].query)
      BY <3>1, LatestWritten DEF TextTypes, WithLatest
    <3> QED BY <3>1, <3>2
  <2>23. ASSUME NEW q \in Questions, TakeFailure(q) PROVE Ordered'
    <3>1. asked' = asked /\ history' = WithLatestIfEmpty(<<Piece(q, "error")>>)
      BY <2>23 DEF TakeFailure, Take
    <3>2. DOMAIN history' = DOMAIN history /\ (\A i \in DOMAIN history : history'[i].query = history[i].query)
      BY <3>1, LatestWritten DEF TextTypes, WithLatestIfEmpty
    <3> QED BY <3>1, <3>2
  <2>24. ASSUME NEW q \in Questions, TakeDone(q) PROVE Ordered'
    <3>1. asked' = asked /\ history' = WithLatest(Chunks(raw))
      BY <2>24 DEF TakeDone, Take
    <3>2. DOMAIN history' = DOMAIN history /\ (\A i \in DOMAIN history : history'[i].query = history[i].query)
      BY <3>1, LatestWritten DEF TextTypes, WithLatest
    <3> QED BY <3>1, <3>2
  <2>25. ASSUME NEW q \in Questions, NEW message \in {"answer", "error"},
                NEW piece \in {"answer", "error"}, TakeAnswer(q, message, piece)
         PROVE  Ordered'
    <3>1. asked' = asked /\ history' = WithLatestIfEmpty(<<Piece(q, piece)>>)
      BY <2>25 DEF TakeAnswer, Take
    <3>2. DOMAIN history' = DOMAIN history /\ (\A i \in DOMAIN history : history'[i].query = history[i].query)
      BY <3>1, LatestWritten DEF TextTypes, WithLatestIfEmpty
    <3> QED BY <3>1, <3>2
  <2>26. ASSUME NEW q \in Questions, NEW message \in {"suggestion", "refused"},
                NEW piece \in {"answer", "error"}, TakeCommand(q, message, piece)
         PROVE  Ordered'
    <3>1. asked' = asked /\ history' = WithLatestIfEmpty(<<Piece(q, piece)>>)
      BY <2>26 DEF TakeCommand, Take
    <3>2. DOMAIN history' = DOMAIN history /\ (\A i \in DOMAIN history : history'[i].query = history[i].query)
      BY <3>1, LatestWritten DEF TextTypes, WithLatestIfEmpty
    <3> QED BY <3>1, <3>2
  <2>27. CASE UNCHANGED vars
    BY <2>27 DEF vars
  <2> QED
    BY <2>1, <2>2, <2>3, <2>4, <2>5, <2>6, <2>7, <2>8, <2>9, <2>10, <2>11, <2>12, <2>13,
       <2>14, <2>15, <2>16, <2>17, <2>18, <2>19, <2>20, <2>21, <2>22, <2>23, <2>24, <2>25,
       <2>26, <2>27
    DEF Next, User, Goroutine, Answering, Panel
<1> QED BY <1>1, <1>2, PanelTyped, TextTyped, PTL DEF Spec

\* What a step does not change of the streams whose end was taken.
FinishedKept ==
    /\ UNCHANGED finished
    /\ \A q \in Questions : finished[q] =>
        sent'[q] = sent[q] /\ (whole[q] => whole'[q]) /\ (~expired'[q] => ~expired[q])

\* Answers that finished stay whole while no entry changes,
LEMMA HistoryKept ==
    ASSUME TextTypes, FinishedIsWhole, FinishedKept, history' = history
    PROVE  FinishedIsWhole'
  BY QueryTyped DEF FinishedIsWhole, FinishedKept

\* while a question that has not finished is asked,
LEMMA HistoryAsked ==
    ASSUME TextTypes, FinishedIsWhole, FinishedKept, NEW q \in Questions, ~finished[q],
           NEW response \in Seq(Pieces), history' = Append(history, Entry(q, response))
    PROVE  FinishedIsWhole'
  BY QueryTyped, EntryAdded DEF FinishedIsWhole, FinishedKept

\* and while a response is written to one that has not finished.
LEMMA HistoryWritten ==
    ASSUME TextTypes, FinishedIsWhole, FinishedKept, NEW q \in Questions, ~finished[q],
           history # <<>>, history[Len(history)].query = q,
           NEW response, history' \in {WithLatest(response), WithLatestIfEmpty(response)}
    PROVE  FinishedIsWhole'
<1> SUFFICES ASSUME NEW i \in DOMAIN history, i # Len(history), finished'[history'[i].query], ~expired'[history'[i].query]
             PROVE  whole'[history'[i].query] /\ Len(history'[i].response) = sent'[history'[i].query]
  BY LatestWritten DEF FinishedIsWhole, FinishedKept
<1>1. history'[i] = history[i] /\ history[i].query \in Questions
  BY LatestWritten, QueryTyped
<1> QED BY <1>1 DEF FinishedIsWhole, FinishedKept

\* An answer that ended like a whole one is whole and has every chunk, unless its time was over: a
\* failure is told after the chunks that were sent before it, and a stream that drops its failure
\* was canceled by the panel, which takes nothing of it any more.
THEOREM FinishedAnswersAreWhole == Spec => []FinishedIsWhole
<1>1. Init => FinishedIsWhole
  BY DEF Init, FinishedIsWhole
<1>2. PanelTypes /\ ReaderTypes /\ HistoryTypes /\ TextTypes /\ Fresh /\ Awaited /\ Conversation /\ Closing /\ Lossless /\ FinishedEnded /\ Ordered /\ FinishedIsWhole /\ [Next]_vars => FinishedIsWhole'
  <2> SUFFICES ASSUME PanelTypes, ReaderTypes, HistoryTypes, TextTypes, Fresh, Awaited, Conversation,
                      Closing, Lossless, FinishedEnded, Ordered, FinishedIsWhole, [Next]_vars
               PROVE  FinishedIsWhole'
    OBVIOUS
  <2> USE DEF FinishedEnded, Closing, Fresh, PanelTypes, ReaderTypes, HistoryTypes,
            Questions, panelVars, streamVars
  <2>1. CASE Show
    <3>1. FinishedKept
      BY <2>1 DEF Show, FinishedKept
    <3>2. history' = history
      BY <2>1, <3>1 DEF Show
    <3> QED BY <3>1, <3>2, HistoryKept
  <2>2. CASE Hide
    <3>1. FinishedKept
      BY <2>2 DEF Hide, FinishedKept
    <3>2. history' = history
      BY <2>2, <3>1 DEF Hide
    <3> QED BY <3>1, <3>2, HistoryKept
  <2>3. CASE Clear
    <3>1. history' = <<>>
      BY <2>3 DEF Clear
    <3> QED BY <3>1 DEF FinishedIsWhole
  <2>4. CASE AskNobody
    <3>1. FinishedKept
      BY <2>4 DEF AskNobody, Submit, FinishedKept
    <3>2. asked + 1 \in Questions /\ ~finished[asked + 1]
      BY <2>4, <3>1 DEF AskNobody, Submit
    <3>3. <<Piece(asked + 1, "hint")>> \in Seq(Pieces)
      BY <3>1, <3>2, PieceTyped
    <3>4. history' = Append(history, Entry(asked + 1, <<Piece(asked + 1, "hint")>>))
      BY <2>4, <3>1, <3>2, <3>3 DEF AskNobody, Submit
    <3> QED BY <3>1, <3>2, <3>3, <3>4, HistoryAsked
  <2>5. ASSUME NEW kind \in {"analysis", "command"}, AskOnce(kind) PROVE FinishedIsWhole'
    <3>1. FinishedKept
      BY <2>5 DEF AskOnce, Submit, FinishedKept
    <3>2. asked + 1 \in Questions /\ ~finished[asked + 1]
      BY <2>5, <3>1 DEF AskOnce, Submit
    <3>3. <<>> \in Seq(Pieces)
      BY <3>1, <3>2, PieceTyped
    <3>4. history' = Append(history, Entry(asked + 1, <<>>))
      BY <2>5, <3>1, <3>2, <3>3 DEF AskOnce, Submit
    <3> QED BY <3>1, <3>2, <3>3, <3>4, HistoryAsked
  <2>6. CASE AskStream
    <3>1. FinishedKept
      BY <2>6 DEF AskStream, Submit, FinishedKept
    <3>2. asked + 1 \in Questions /\ ~finished[asked + 1]
      BY <2>6, <3>1 DEF AskStream, Submit
    <3>3. <<>> \in Seq(Pieces)
      BY <3>1, <3>2, PieceTyped
    <3>4. history' = Append(history, Entry(asked + 1, <<>>))
      BY <2>6, <3>1, <3>2, <3>3 DEF AskStream, Submit
    <3> QED BY <3>1, <3>2, <3>3, <3>4, HistoryAsked
  <2>7. ASSUME NEW q \in Questions, Analyzed(q) PROVE FinishedIsWhole'
    <3>1. FinishedKept
      BY <2>7 DEF Analyzed, Reply, ServiceOnly, FinishedKept
    <3>2. history' = history
      BY <2>7, <3>1 DEF Analyzed, Reply, ServiceOnly
    <3> QED BY <3>1, <3>2, HistoryKept
  <2>8. ASSUME NEW q \in Questions, Generated(q) PROVE FinishedIsWhole'
    <3>1. FinishedKept
      BY <2>8 DEF Generated, Reply, ServiceOnly, FinishedKept
    <3>2. history' = history
      BY <2>8, <3>1 DEF Generated, Reply, ServiceOnly
    <3> QED BY <3>1, <3>2, HistoryKept
  <2>9. ASSUME NEW q \in Questions, Start(q) PROVE FinishedIsWhole'
    <3>1. FinishedKept
      BY <2>9 DEF Start, Move, ServiceOnly, FinishedKept
    <3>2. history' = history
      BY <2>9, <3>1 DEF Start, ServiceOnly
    <3> QED BY <3>1, <3>2, HistoryKept
  <2>10. ASSUME NEW q \in Questions, Expire(q) PROVE FinishedIsWhole'
    <3>1. FinishedKept
      BY <2>10 DEF Expire, ServiceOnly, FinishedKept
    <3>2. history' = history
      BY <2>10, <3>1 DEF Expire, ServiceOnly
    <3> QED BY <3>1, <3>2, HistoryKept
  <2>11. ASSUME NEW q \in Questions, Decode(q) PROVE FinishedIsWhole'
    <3>1. FinishedKept
      BY <2>11 DEF Decode, Move, ServiceOnly, FinishedKept
    <3>2. history' = history
      BY <2>11, <3>1 DEF Decode, ServiceOnly
    <3> QED BY <3>1, <3>2, HistoryKept
  <2>12. ASSUME NEW q \in Questions, SendChunk(q) PROVE FinishedIsWhole'
    <3>1. FinishedKept
      BY <2>12 DEF SendChunk, Move, ServiceOnly, FinishedKept
    <3>2. history' = history
      BY <2>12, <3>1 DEF SendChunk, ServiceOnly
    <3> QED BY <3>1, <3>2, HistoryKept
  <2>13. ASSUME NEW q \in Questions, AbortChunk(q) PROVE FinishedIsWhole'
    <3>1. FinishedKept
      BY <2>13 DEF AbortChunk, Move, ServiceOnly, FinishedKept
    <3>2. history' = history
      BY <2>13, <3>1 DEF AbortChunk, ServiceOnly
    <3> QED BY <3>1, <3>2, HistoryKept
  <2>14. ASSUME NEW q \in Questions, Complete(q) PROVE FinishedIsWhole'
    <3>1. FinishedKept
      BY <2>14 DEF Complete, Move, ServiceOnly, FinishedKept
    <3>2. history' = history
      BY <2>14, <3>1 DEF Complete, ServiceOnly
    <3> QED BY <3>1, <3>2, HistoryKept
  <2>15. ASSUME NEW q \in Questions, Break(q) PROVE FinishedIsWhole'
    <3>1. FinishedKept
      BY <2>15 DEF Break, Move, ServiceOnly, FinishedKept
    <3>2. history' = history
      BY <2>15, <3>1 DEF Break, ServiceOnly
    <3> QED BY <3>1, <3>2, HistoryKept
  <2>16. ASSUME NEW q \in Questions, SendFailure(q) PROVE FinishedIsWhole'
    <3>1. FinishedKept
      BY <2>16 DEF SendFailure, Move, ServiceOnly, FinishedKept
    <3>2. history' = history
      BY <2>16, <3>1 DEF SendFailure, ServiceOnly
    <3> QED BY <3>1, <3>2, HistoryKept
  <2>17. ASSUME NEW q \in Questions, DropFailure(q) PROVE FinishedIsWhole'
    <3>1. FinishedKept
      BY <2>17 DEF DropFailure, Move, ServiceOnly, FinishedKept
    <3>2. history' = history
      BY <2>17, <3>1 DEF DropFailure, ServiceOnly
    <3> QED BY <3>1, <3>2, HistoryKept
  <2>18. ASSUME NEW q \in Questions, CloseStream(q) PROVE FinishedIsWhole'
    <3>1. FinishedKept
      BY <2>18 DEF CloseStream, Move, ServiceOnly, FinishedKept
    <3>2. history' = history
      BY <2>18, <3>1 DEF CloseStream, ServiceOnly
    <3> QED BY <3>1, <3>2, HistoryKept
  <2>19. ASSUME NEW q \in Questions, Read(q) PROVE FinishedIsWhole'
    <3>1. FinishedKept
      BY <2>19 DEF Read, ServiceOnly, FinishedKept
    <3>2. history' = history
      BY <2>19, <3>1 DEF Read, ServiceOnly
    <3> QED BY <3>1, <3>2, HistoryKept
  <2>20. ASSUME NEW q \in Questions, ReadClosed(q) PROVE FinishedIsWhole'
    <3>1. FinishedKept
      BY <2>20 DEF ReadClosed, ServiceOnly, FinishedKept
    <3>2. history' = history
      BY <2>20, <3>1 DEF ReadClosed, ServiceOnly
    <3> QED BY <3>1, <3>2, HistoryKept
  <2>21. ASSUME NEW q \in Questions, Drop(q) PROVE FinishedIsWhole'
    <3>1. FinishedKept
      BY <2>21 DEF Drop, Accepts, FinishedKept
    <3>2. history' = history
      BY <2>21, <3>1 DEF Drop
    <3> QED BY <3>1, <3>2, HistoryKept
  <2>22. ASSUME NEW q \in Questions, TakeChunk(q) PROVE FinishedIsWhole'
    <3>1. FinishedKept
      BY <2>22 DEF TakeChunk, Take, FinishedKept
    <3>2. q = current /\ reader[q] # "none" /\ loading
      BY <2>22, <3>1 DEF TakeChunk, Take, Accepts, Awaited, Messages
    <3>3. history # <<>> /\ history[Len(history)].query = q /\ ~finished[q]
      BY <3>2 DEF Conversation
    <3>4. history' = WithLatest(Chunks(raw'))
      BY <2>22, <3>1, <3>2, <3>3 DEF TakeChunk
    <3> QED BY <3>1, <3>2, <3>3, <3>4, HistoryWritten
  <2>23. ASSUME NEW q \in Questions, TakeFailure(q) PROVE FinishedIsWhole'
    <3>1. FinishedKept
      BY <2>23 DEF TakeFailure, Take, FinishedKept
    <3>2. q = current /\ reader[q] # "none" /\ loading
      BY <2>23, <3>1 DEF TakeFailure, Take, Accepts, Awaited, Messages
    <3>3. history # <<>> /\ history[Len(history)].query = q /\ ~finished[q]
      BY <3>2 DEF Conversation
    <3>4. history' = WithLatestIfEmpty(<<Piece(q, "error")>>)
      BY <2>23, <3>1, <3>2, <3>3 DEF TakeFailure
    <3> QED BY <3>1, <3>2, <3>3, <3>4, HistoryWritten
  <2>24. ASSUME NEW q \in Questions, TakeDone(q) PROVE FinishedIsWhole'
    <3>1. q = current /\ q = held /\ loading /\ reader[q] = "done"
      BY <2>24 DEF TakeDone, Take, Accepts, Awaited, OfStream
    <3>2. history # <<>> /\ history[Len(history)].query = q
      BY <3>1 DEF Conversation
    <3>3. queue[q] = <<>> /\ stage[q] = "ended" /\ ~Failing(q)
      BY <3>1 DEF Failing
    <3>4. ~expired[q] => whole[q] /\ sent[q] = Len(raw)
      <4>1. NothingIsLost(q)
        BY <3>1 DEF Lossless
      <4>2. sent[q] = Len(raw) + Len(queue[q])
        BY <3>1, <3>3, <4>1 DEF NothingIsLost
      <4>3. ~expired[q] => whole[q]
        BY <3>3, <4>1 DEF NothingIsLost
      <4> QED BY <3>3, <4>2, <4>3
    <3>5. history' = WithLatest(Chunks(raw)) /\ Len(Chunks(raw)) = Len(raw)
      BY <2>24, ChunksTyped DEF TakeDone, TextTypes
    <3>6. finished' = [finished EXCEPT ![q] = TRUE] /\ UNCHANGED <<sent, whole, expired>>
      BY <2>24, <3>1, <3>2, <3>3, <3>4, <3>5 DEF TakeDone, Take
    <3>7. \A i \in DOMAIN history : i # Len(history) => history'[i] = history[i] /\ history[i].query # q /\ history[i].query \in Questions
      BY <3>2, <3>5, LatestWritten, QueryTyped DEF Ordered, TextTypes
    <3>8. DOMAIN history' = DOMAIN history /\ history'[Len(history)].query = q /\ Len(history'[Len(history)].response) = Len(raw)
      BY <3>2, <3>5, LatestWritten
    <3> QED BY <3>4, <3>6, <3>7, <3>8 DEF FinishedIsWhole
  <2>25. ASSUME NEW q \in Questions, NEW message \in {"answer", "error"},
                NEW piece \in {"answer", "error"}, TakeAnswer(q, message, piece)
         PROVE  FinishedIsWhole'
    <3>1. FinishedKept
      BY <2>25 DEF TakeAnswer, Take, FinishedKept
    <3>2. q = current /\ reader[q] # "none" /\ loading
      BY <2>25, <3>1 DEF TakeAnswer, Take, Accepts, Awaited, Messages
    <3>3. history # <<>> /\ history[Len(history)].query = q /\ ~finished[q]
      BY <3>2 DEF Conversation
    <3>4. history' = WithLatestIfEmpty(<<Piece(q, piece)>>)
      BY <2>25, <3>1, <3>2, <3>3 DEF TakeAnswer
    <3> QED BY <3>1, <3>2, <3>3, <3>4, HistoryWritten
  <2>26. ASSUME NEW q \in Questions, NEW message \in {"suggestion", "refused"},
                NEW piece \in {"answer", "error"}, TakeCommand(q, message, piece)
         PROVE  FinishedIsWhole'
    <3>1. FinishedKept
      BY <2>26 DEF TakeCommand, Take, FinishedKept
    <3>2. q = current /\ reader[q] # "none" /\ loading
      BY <2>26, <3>1 DEF TakeCommand, Take, Accepts, Awaited, Messages
    <3>3. history # <<>> /\ history[Len(history)].query = q /\ ~finished[q]
      BY <3>2 DEF Conversation
    <3>4. history' = WithLatestIfEmpty(<<Piece(q, piece)>>)
      BY <2>26, <3>1, <3>2, <3>3 DEF TakeCommand
    <3> QED BY <3>1, <3>2, <3>3, <3>4, HistoryWritten
  <2>27. CASE UNCHANGED vars
    <3>1. FinishedKept
      BY <2>27 DEF vars, FinishedKept
    <3>2. history' = history
      BY <2>27 DEF vars
    <3> QED BY <3>1, <3>2, HistoryKept
  <2> QED
    BY <2>1, <2>2, <2>3, <2>4, <2>5, <2>6, <2>7, <2>8, <2>9, <2>10, <2>11, <2>12, <2>13,
       <2>14, <2>15, <2>16, <2>17, <2>18, <2>19, <2>20, <2>21, <2>22, <2>23, <2>24, <2>25,
       <2>26, <2>27
    DEF Next, User, Goroutine, Answering, Panel
<1> QED BY <1>1, <1>2, PanelTyped, ReaderTyped, HistoryTyped, TextTyped, FreshQuestions, TakenIsAwaited,
           LatestIsAwaited, StreamsClose, StreamIsLossless, FinishedHasEnded, QuestionsOnce, PTL DEF Spec

=============================================================================
