----------------------- MODULE PayloadDownloadProofs -----------------------
(***************************************************************************)
(* Theorems about PayloadDownload, for payloads of every length and pipes  *)
(* of every size.                                                          *)
(***************************************************************************)
EXTENDS PayloadDownload, TLAPS

\* The initial state satisfies the inductive invariant.
LEMMA PipeInit == Init => PipeInv
<1> SUFFICES ASSUME Init PROVE PipeInv
  OBVIOUS
<1> USE PayloadAssumption DEF Init, PayloadAssumption
<1>1. TypeOK
  <2>1. token \in BOOLEAN /\ last \in BOOLEAN
    BY Zenon
  <2>2. QED
    BY <2>1, SMT DEF TypeOK, Stopped, Ended
<1>2. InOrder /\ BackPressure
  BY SMT DEF InOrder, BackPressure
<1>3. EndIsReal
  BY SMT DEF EndIsReal
<1>4. QED
  BY <1>1, <1>2, <1>3, SMT DEF PipeInv

\* Each step of the writer's end preserves it.
LEMMA WriterKeepsInv == PipeInv /\ WriterStep => PipeInv'
<1> SUFFICES ASSUME PipeInv, WriterStep PROVE PipeInv'
  OBVIOUS
<1> USE DEF PipeInv, TypeOK, InOrder, BackPressure, EndIsReal, HashMatches,
            Stopped, Ended, PayloadAssumption, readerVars
<1>1. CASE Fetch
  BY <1>1, PayloadAssumption, SMT DEF Fetch, Full
<1>2. CASE EndFetch
  BY <1>2, PayloadAssumption, SMT DEF EndFetch
<1>3. CASE CompletePipe
  BY <1>3, PayloadAssumption, SMT DEF CompletePipe
<1>4. QED
  BY <1>1, <1>2, <1>3 DEF WriterStep

\* Each step of the reader's end preserves it.
LEMMA ReaderKeepsInv == PipeInv /\ ReaderStep => PipeInv'
<1> SUFFICES ASSUME PipeInv, ReaderStep PROVE PipeInv'
  OBVIOUS
<1> USE DEF PipeInv, TypeOK, InOrder, BackPressure, EndIsReal, HashMatches,
            Stopped, Ended, PayloadAssumption, writerVars
<1>1. CASE Read
  <2>1. CASE reader' = "write"
    <3>1. last' \in BOOLEAN
      BY <1>1, <2>1, Zenon DEF Read
    <3>2. last' => pipe = "closed"
      BY <1>1, <2>1, Zenon DEF Read
    <3>3. /\ batch' = fetched /\ pipe # "faulted"
          /\ reader \in {"ready", "waiting"}
          /\ UNCHANGED <<pc, outcome, content, token, writerVars, written, consumed>>
      BY <1>1, <2>1, SMT DEF Read
    <3>4. QED
      BY <2>1, <3>1, <3>2, <3>3, PayloadAssumption, SMT
  <2>2. CASE reader' # "write"
    BY <1>1, <2>2, PayloadAssumption, SMT DEF Read, Readable
  <2>3. QED
    BY <2>1, <2>2
<1>2. CASE WritePiece
  BY <1>2, PayloadAssumption, SMT DEF WritePiece
<1>3. CASE EndBatch
  BY <1>3, PayloadAssumption, SMT DEF EndBatch, AdvanceTo
<1>4. QED
  BY <1>1, <1>2, <1>3 DEF ReaderStep

\* So do the request, the end of the download and its cancellation.
LEMMA DownloadKeepsInv == PipeInv /\ (DownloadStep \/ Cancel) => PipeInv'
<1> SUFFICES ASSUME PipeInv, DownloadStep \/ Cancel PROVE PipeInv'
  OBVIOUS
<1> USE DEF PipeInv, TypeOK, InOrder, BackPressure, EndIsReal, HashMatches,
            Stopped, Ended, PayloadAssumption, writerVars, readerVars, Finish
<1>1. CASE Get
  <2>1. CASE pc' = "copy"
    BY <1>1, <2>1, PayloadAssumption, SMT DEF Get
  <2>2. CASE pc' = "over"
    BY <1>1, <2>2, PayloadAssumption, SMT DEF Get
  <2>3. QED
    BY <1>1, <2>1, <2>2, SMT DEF Get
<1>2. CASE Join
  BY <1>2, PayloadAssumption, SMT DEF Join, Verdict
<1>3. CASE Cancel
  BY <1>3, PayloadAssumption, SMT DEF Cancel
<1>4. QED
  BY <1>1, <1>2, <1>3 DEF DownloadStep

\* The inductive invariant of the piped copy of ConcurrentCopyToAsync.
THEOREM PipeInvariant == Spec => []PipeInv
<1>1. PipeInv /\ [Next]_vars => PipeInv'
  <2> SUFFICES ASSUME PipeInv, [Next]_vars PROVE PipeInv'
    OBVIOUS
  <2>1. CASE Next
    BY <2>1, WriterKeepsInv, ReaderKeepsInv, DownloadKeepsInv DEF Next
  <2>2. CASE UNCHANGED vars
    BY <2>2, SMT
    DEF PipeInv, TypeOK, InOrder, BackPressure, EndIsReal, HashMatches,
        vars, writerVars, readerVars
  <2>3. QED
    BY <2>1, <2>2
<1>2. QED
  BY <1>1, PipeInit, PTL DEF Spec

\* A download that succeeds has delivered the whole of the payload that its
\* sender referred to.
THEOREM SuccessIsComplete == Spec => []SuccessMeansComplete
<1>1. PipeInv => SuccessMeansComplete
  BY SMT DEF PipeInv, TypeOK, InOrder, EndIsReal, HashMatches, SuccessMeansComplete
<1>2. QED
  BY <1>1, PipeInvariant, PTL

\* InvalidMessageException is thrown for a payload that was changed, or else
\* after a cancellation or a failure of the receiver's stream.
THEOREM BlameIsRight == Spec => []BlameIsDeserved
<1>1. PipeInv => BlameIsDeserved
  BY SMT
  DEF PipeInv, TypeOK, InOrder, EndIsReal, HashMatches, BlameIsDeserved, Stopped
<1>2. QED
  BY <1>1, PipeInvariant, PTL

\* The copy is stuck exactly when the receiver's stream failed while the pipe was
\* full and nobody has cancelled.  Otherwise the writer pauses only while the
\* reader has something to read, and the reader waits only for a writer that can
\* go on: for every length, and all thresholds of the pipe.
THEOREM OneDeadlock == Spec => []StuckOnlyIfAbandoned
<1>0. ASSUME PipeInv, Abandoned
      PROVE  pc # "over" /\ ~WriterCanMove /\ ~ReaderCanMove /\ ~DownloadCanMove
  BY <1>0 DEF PipeInv, Abandoned, WriterCanMove, ReaderCanMove, DownloadCanMove, Ended
<1>1. PipeInv => StuckOnlyIfAbandoned
  <2> SUFFICES ASSUME PipeInv, pc = "copy", ~WriterCanMove, ~ReaderCanMove, ~DownloadCanMove
               PROVE  Abandoned
    <3>1. PipeInv => pc \in {"get", "copy", "over"}
      BY DEF PipeInv, TypeOK
    <3>2. QED
      BY <1>0, <3>1 DEF StuckOnlyIfAbandoned, DownloadCanMove
  <2> USE DEF PipeInv, TypeOK, WriterCanMove, ReaderCanMove, DownloadCanMove, Stopped, Ended
  <2>1. (writer = "paused" /\ ~token) \/ writer = "completed"
    OBVIOUS
  <2>2. \/ reader = "waiting" /\ ~token /\ pipe # "faulted" /\ ~Readable
        \/ reader \in Stopped
    OBVIOUS
  <2>3. CASE writer = "paused" /\ ~token
    <3>1. fetched > consumed
      BY <2>3, PayloadAssumption, SMT DEF BackPressure, PayloadAssumption
    <3>2. reader \in Stopped
      BY <2>2, <3>1 DEF Readable
    <3>3. reader \notin {"done", "faulted", "cancelled"}
      BY <2>3 DEF EndIsReal
    <3>4. QED
      BY <2>3, <3>2, <3>3 DEF Abandoned
  <2>4. CASE writer = "completed"
    BY <2>2, <2>4 DEF EndIsReal, Readable
  <2>5. QED
    BY <2>1, <2>3, <2>4
<1>2. QED
  BY <1>1, PipeInvariant, PTL

\* Neither end does anything once the download is over.
THEOREM NothingGoesOn == Spec => NothingGoesOnAfterwards
<1>1. PipeInv /\ [Next]_vars
         => [pc = "over" => UNCHANGED <<writerVars, readerVars, consumed>>]_vars
  <2> SUFFICES ASSUME PipeInv, [Next]_vars, pc = "over"
               PROVE UNCHANGED <<writerVars, readerVars, consumed>>
    BY SMT
  <2> USE DEF PipeInv, Stopped, Ended, writerVars, readerVars
  <2>1. ~Fetch /\ ~EndFetch /\ ~CompletePipe
    BY SMT DEF Fetch, EndFetch, CompletePipe
  <2>2. ~Read /\ ~WritePiece /\ ~EndBatch
    BY SMT DEF Read, WritePiece, EndBatch
  <2>3. ~Get /\ ~Join /\ ~Cancel
    BY SMT DEF Get, Join, Cancel
  <2>4. UNCHANGED vars
    BY <2>1, <2>2, <2>3 DEF Next, WriterStep, ReaderStep, DownloadStep
  <2>5. QED
    BY <2>4, SMT DEF vars
<1>2. QED
  BY <1>1, PipeInvariant, PTL DEF Spec, NothingGoesOnAfterwards
=============================================================================
