--------------------------- MODULE PayloadDownload ---------------------------
(***************************************************************************)
(* PayloadReference.DownloadPayloadAsync: the payload is fetched, then     *)
(* decrypted and copied to the receiver's stream through a pipe, whose two *)
(* ends run concurrently (Utilities.ConcurrentCopyToAsync), and its hash   *)
(* is verified at last.                                                    *)
(*                                                                         *)
(* The payload is counted in pieces, each what one read of the source      *)
(* yields.  The pipe and the two copy loops are those of                   *)
(* System.IO.Pipelines.                                                    *)
(***************************************************************************)
EXTENDS Integers

CONSTANTS
    Length,             \* pieces of the payload
    PauseThreshold,     \* pieces in the pipe at which its writer pauses
    ResumeThreshold,    \* pieces below which it goes on
    Fault               \* what may go wrong: "http", "target", "cancel"

ASSUME PayloadAssumption ==
    /\ Length \in Nat
    /\ PauseThreshold \in Nat
    /\ ResumeThreshold \in 1..PauseThreshold

VARIABLES
    pc,         \* the await DownloadPayloadAsync is at
    outcome,    \* how it ended
    content,    \* what is at the payload's location
    token,      \* the caller's cancellation was requested
    writer,     \* the copy of the source to the pipe
    reader,     \* the copy of the pipe to the receiver's stream
    pipe,       \* open, or completed by its writer with or without exception
    fetched,    \* pieces put into the pipe
    consumed,   \* pieces the reader has released
    written,    \* pieces in the receiver's stream
    batch,      \* the piece up to which the reader's last result goes
    last        \* that result said the pipe is completed

writerVars == <<writer, pipe, fetched>>
readerVars == <<reader, written, batch, last>>
vars == <<pc, outcome, content, token, writerVars, readerVars, consumed>>

\* The receiver's loop was left.
Stopped == {"done", "faulted", "failed", "cancelled"}

\* The writer's loop was left and its continuation has yet to run.
Ended == {"done", "failed", "cancelled"}

-----------------------------------------------------------------------------
(***************************************************************************)
(* The request, whose response is buffered before the copy starts.         *)
(***************************************************************************)

Finish(how) == pc' = "over" /\ outcome' = how

Get ==
    /\ pc = "get"
    /\ \/ token /\ Finish("cancelled") /\ UNCHANGED <<writer, reader>>
       \/ "http" \in Fault /\ Finish("httpError") /\ UNCHANGED <<writer, reader>>
       \/ /\ ~token /\ pc' = "copy" /\ UNCHANGED outcome
          /\ writer' = "read" /\ reader' = "ready"
    /\ UNCHANGED <<content, token, pipe, fetched, written, batch, last, consumed>>

-----------------------------------------------------------------------------
(***************************************************************************)
(* The writer's end: from.CopyToAsync(pipe.Writer).                        *)
(***************************************************************************)

Full == fetched' - consumed >= PauseThreshold

\* A flush that has to wait is taken for the end of the copy.
FetchUntilFull ==
    /\ writer = "read"
    /\ ~token /\ fetched < Length
    /\ fetched' = fetched + 1
    /\ writer' = IF Full THEN "done" ELSE "read"
    /\ UNCHANGED <<pc, outcome, content, token, pipe, readerVars, consumed>>

\* Reading a piece and flushing it; the flush waits while the pipe is full.
Fetch ==
    /\ writer = "read"
    /\ ~token /\ fetched < Length
    /\ fetched' = fetched + 1
    /\ writer' = IF Full THEN "paused" ELSE "read"
    /\ UNCHANGED <<pc, outcome, content, token, pipe, readerVars, consumed>>

\* The end of the source, where a payload that is no ciphertext fails to
\* decrypt at the latest; or a read or flush that finds itself cancelled.
EndFetch ==
    /\ \/ /\ writer = "read" /\ ~token
          /\ \/ content # "garbled" /\ fetched = Length /\ writer' = "done"
             \/ content = "garbled" /\ writer' = "failed"
       \/ writer \in {"read", "paused"} /\ token /\ writer' = "cancelled"
    /\ UNCHANGED <<pc, outcome, content, token, pipe, fetched, readerVars, consumed>>

\* A continuation for copies that did not fail only.
CompletePipeAfterSuccess ==
    /\ writer \in Ended
    /\ pipe' = IF writer = "failed" THEN pipe ELSE "closed"
    /\ writer' = "completed"
    /\ UNCHANGED <<pc, outcome, content, token, fetched, readerVars, consumed>>

\* The continuation: a cancelled task has no exception to pass on.
CompletePipe ==
    /\ writer \in Ended
    /\ pipe' = IF writer = "failed" THEN "faulted" ELSE "closed"
    /\ writer' = "completed"
    /\ UNCHANGED <<pc, outcome, content, token, fetched, readerVars, consumed>>

-----------------------------------------------------------------------------
(***************************************************************************)
(* The reader's end: pipe.Reader.CopyToAsync(receivingStream).             *)
(***************************************************************************)

Readable == fetched > consumed \/ pipe = "closed"

\* ReadAsync: a waiting reader is completed by what comes first, the writer
\* or the cancellation; an exception of the writer overtakes what it wrote.
Read ==
    /\ reader \in {"ready", "waiting"}
    /\ \/ token /\ reader' = "cancelled" /\ UNCHANGED <<batch, last>>
       \/ /\ ~(token /\ reader = "ready")
          /\ \/ pipe = "faulted" /\ reader' = "faulted" /\ UNCHANGED <<batch, last>>
             \/ /\ pipe # "faulted" /\ Readable
                /\ reader' = "write" /\ batch' = fetched /\ last' = (pipe = "closed")
             \/ /\ pipe = "open" /\ ~Readable /\ reader = "ready"
                /\ reader' = "waiting" /\ UNCHANGED <<batch, last>>
    /\ UNCHANGED <<pc, outcome, content, token, writerVars, written, consumed>>

WritePiece ==
    /\ reader = "write" /\ written < batch
    /\ written' = written + 1
    /\ UNCHANGED <<pc, outcome, content, token, writerVars, reader, batch, last, consumed>>

\* Releasing the whole result although a write of it failed.
AdvanceToEnd ==
    /\ consumed' = batch
    /\ writer' = IF writer = "paused" /\ fetched - batch < ResumeThreshold
                    THEN "read" ELSE writer

\* AdvanceTo releases what was written, and lets a paused writer go on.
AdvanceTo ==
    /\ consumed' = written
    /\ writer' = IF writer = "paused" /\ fetched - written < ResumeThreshold
                    THEN "read" ELSE writer

\* The result is written, or a write fails or is cancelled; either way the
\* loop calls AdvanceTo.  Nothing completes the pipe's reader.
EndBatch ==
    /\ reader = "write"
    /\ \/ written = batch /\ reader' = IF last THEN "done" ELSE "ready"
       \/ written < batch /\ "target" \in Fault /\ reader' = "failed"
       \/ written < batch /\ token /\ reader' = "cancelled"
    /\ AdvanceTo
    /\ UNCHANGED <<pc, outcome, content, token, pipe, fetched, written, batch, last>>

-----------------------------------------------------------------------------
(***************************************************************************)
(* The end of the download and its caller.                                 *)
(***************************************************************************)

HashMatches == content = "intact" /\ fetched = Length

\* What comes of the copy, by the way the reader's end stopped.  A target that
\* throws NotSupportedException is reported like a payload that does not decrypt.
Verdict ==
    CASE reader = "done"      -> {IF HashMatches THEN "ok" ELSE "invalid"}
      [] reader = "faulted"   -> {"invalid"}
      [] reader = "failed"    -> {"targetError", "invalid"}
      [] reader = "cancelled" -> {"cancelled"}

\* The comparison of the hashes as soon as the source has been read.
JoinOnWriter ==
    /\ pc = "copy" /\ writer = "completed"
    /\ reader \in Stopped => \E how \in Verdict : Finish(how)
    /\ reader \notin Stopped => Finish(IF HashMatches THEN "ok" ELSE "invalid")
    /\ UNCHANGED <<content, token, writerVars, readerVars, consumed>>

\* Task.WhenAny: the end of one copy is the end of the download.
JoinAtFirst ==
    /\ pc = "copy" /\ (writer = "completed" \/ reader \in Stopped)
    /\ Finish(IF HashMatches THEN "ok" ELSE "invalid")
    /\ UNCHANGED <<content, token, writerVars, readerVars, consumed>>

\* Task.WhenAll of both ends, then the comparison of the hashes.
Join ==
    /\ pc = "copy" /\ writer = "completed" /\ reader \in Stopped
    /\ \E how \in Verdict : Finish(how)
    /\ UNCHANGED <<content, token, writerVars, readerVars, consumed>>

Cancel ==
    /\ "cancel" \in Fault /\ ~token /\ pc # "over"
    /\ token' = TRUE
    /\ UNCHANGED <<pc, outcome, content, writerVars, readerVars, consumed>>

Init ==
    /\ pc = "get" /\ outcome = "none"
    /\ content \in {"intact", "changed", "garbled"}
    /\ token = FALSE
    /\ writer = "none" /\ reader = "none" /\ pipe = "open"
    /\ fetched = 0 /\ consumed = 0 /\ written = 0 /\ batch = 0
    /\ last = FALSE

WriterStep == Fetch \/ EndFetch \/ CompletePipe
ReaderStep == Read \/ WritePiece \/ EndBatch
DownloadStep == Get \/ Join

Next == WriterStep \/ ReaderStep \/ DownloadStep \/ Cancel

Spec == Init /\ [][Next]_vars

\* Both loops and the method itself run on the thread pool; the receiver's
\* stream takes or refuses each write.  Nothing makes the caller cancel.
FairSpec ==
    Spec /\ WF_vars(WriterStep) /\ WF_vars(ReaderStep) /\ WF_vars(DownloadStep)

-----------------------------------------------------------------------------
(***************************************************************************)
(* Properties.                                                             *)
(***************************************************************************)

TypeOK ==
    /\ pc \in {"get", "copy", "over"}
    /\ outcome \in {"none", "ok", "invalid", "httpError", "targetError", "cancelled"}
    /\ content \in {"intact", "changed", "garbled"}
    /\ token \in BOOLEAN
    /\ writer \in {"none", "read", "paused", "completed"} \cup Ended
    /\ reader \in {"none", "ready", "waiting", "write"} \cup Stopped
    /\ pipe \in {"open", "closed", "faulted"}
    /\ fetched \in 0..Length
    /\ consumed \in Nat /\ written \in Nat /\ batch \in Nat
    /\ last \in BOOLEAN

\* Nothing is lost, repeated or reordered between the ends.
InOrder == consumed <= written /\ written <= batch /\ batch <= fetched

\* The writer is paused only while ResumeThreshold pieces or more wait for
\* the reader, and the pipe never holds more than PauseThreshold.
BackPressure ==
    /\ fetched - consumed <= PauseThreshold
    /\ writer \in {"none", "read"} => fetched - consumed < PauseThreshold
    /\ writer = "paused" => fetched - consumed >= ResumeThreshold

\* What the reader was told of the pipe's end is true of the writer.
EndIsReal ==
    /\ pipe # "open" <=> writer = "completed"
    /\ last => pipe = "closed" /\ batch = fetched
    /\ reader = "done" => last /\ written = batch
    /\ reader = "faulted" => pipe = "faulted"
    /\ writer = "failed" \/ pipe = "faulted" => content = "garbled"
    /\ ~token => writer # "cancelled" /\ reader # "cancelled"
    /\ ~token /\ (writer = "done" \/ pipe = "closed") =>
          content # "garbled" /\ fetched = Length

\* The pipe of ConcurrentCopyToAsync: the inductive invariant.
PipeInv ==
    /\ TypeOK /\ InOrder /\ BackPressure /\ EndIsReal
    /\ pc = "over" <=> outcome # "none"
    /\ writer = "none" <=> reader = "none"
    /\ pc = "get" => writer = "none"
    /\ pc = "copy" => writer # "none"
    /\ pc = "over" => \/ writer = "none"
                      \/ writer = "completed" /\ reader \in Stopped
    /\ outcome \in {"ok", "invalid"} => writer = "completed" /\ reader \in Stopped
    /\ outcome = "ok" => HashMatches /\ reader = "done"
    /\ outcome = "invalid" => reader # "cancelled" /\ (reader = "done" => ~HashMatches)

\* DownloadPayloadAsync returns normally only when the receiver's stream has
\* the whole payload, which is the one its sender referred to.
SuccessMeansComplete == outcome = "ok" => content = "intact" /\ written = Length

\* InvalidMessageException is about a payload that was changed - unless the
\* caller cancelled, which may end a waiting reader as if the payload ended
\* there, or its stream failed.
BlameIsDeserved ==
    outcome = "invalid" => content # "intact" \/ token \/ reader = "failed"

\* Nothing is read or written any more when the caller has the outcome, who
\* is then free to dispose of its stream, and the method of its own.
NothingGoesOnAfterwards ==
    [][pc = "over" => UNCHANGED <<writerVars, readerVars, consumed>>]_vars

\* The receiver's stream failed while the pipe was full: the writer waits for
\* a reader that is gone.
Abandoned == reader = "failed" /\ writer = "paused" /\ ~token

\* The guards of the steps of both ends and of the method.
WriterCanMove ==
    \/ writer \in {"read"} \cup Ended
    \/ writer = "paused" /\ token

ReaderCanMove ==
    \/ reader \in {"ready", "write"}
    \/ reader = "waiting" /\ (token \/ pipe = "faulted" \/ Readable)

DownloadCanMove ==
    \/ pc = "get"
    \/ pc = "copy" /\ writer = "completed" /\ reader \in Stopped

\* The piped copy has one deadlock: a download that is not over is stuck, until
\* somebody cancels it, exactly when it is abandoned.  Back pressure alone never
\* makes both ends wait for each other.
StuckOnlyIfAbandoned ==
    /\ pc # "over" /\ ~WriterCanMove /\ ~ReaderCanMove /\ ~DownloadCanMove
    <=> Abandoned

\* Every download ends, whatever the source holds and however the ends are
\* interleaved, but for one that is abandoned and never cancelled.
DownloadEnds == pc = "copy" ~> pc = "over" \/ Abandoned
=============================================================================
