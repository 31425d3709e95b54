------------------------ MODULE StreamWithProgress ------------------------
(***************************************************************************)
(* The wrapper StreamWithProgress around a stream: it settles for reading  *)
(* or writing at its first use, counts the bytes that pass, and throws     *)
(* StreamTooLongException once the count exceeds its limit.                *)
(***************************************************************************)
EXTENDS Integers

CONSTANTS
    Stream,     \* the wrappers
    NoLimit,    \* the null that LengthLimit may be
    MaxBytes    \* bound: what passes through one wrapper in StreamNext

ASSUME StreamAssumption == NoLimit \notin Int /\ MaxBytes \in Nat

VARIABLES
    readMode,           \* read or write mode, once settled
    lengthLimit,        \* LengthLimit
    bytesTransferred,   \* BytesTransferred
    moved,              \* history: the bytes the inner stream gave or took
    handed              \* history: those of calls that did not throw

streamVars == <<readMode, lengthLimit, bytesTransferred, moved, handed>>

\* A check of the count as it was before this call.
TooLongBefore(s, n) ==
    lengthLimit[s] # NoLimit /\ bytesTransferred[s] > lengthLimit[s]

\* Counting n more bytes throws StreamTooLongException.
TooLong(s, n) ==
    lengthLimit[s] # NoLimit /\ bytesTransferred[s] + n > lengthLimit[s]

\* ReportProgress(n), after the inner stream moved n bytes.
ReportProgress(s, n) ==
    /\ bytesTransferred' = [bytesTransferred EXCEPT ![s] = @ + n]
    /\ moved' = [moved EXCEPT ![s] = @ + n]
    /\ handed' = [handed EXCEPT ![s] = IF TooLong(s, n) THEN @ ELSE @ + n]

\* Read and ReadAsync: the bytes are lost to the caller when this throws.
Read(s, n) ==
    /\ readMode[s] # "write"
    /\ readMode' = [readMode EXCEPT ![s] = "read"]
    /\ ReportProgress(s, n)
    /\ UNCHANGED lengthLimit

\* Write, WriteAsync and WriteByte: the inner stream has the bytes anyway.
Write(s, n) ==
    /\ readMode[s] # "read"
    /\ readMode' = [readMode EXCEPT ![s] = "write"]
    /\ ReportProgress(s, n)
    /\ UNCHANGED lengthLimit

\* ReadByte of a byte that is there: Stream.ReadByte calls this class's Read,
\* which reports the byte; then ReadByte reports it again, so BytesTransferred
\* is twice the number of bytes so read, and the limit is met at half of it.
ReadByte(s) ==
    /\ readMode[s] # "write"
    /\ readMode' = [readMode EXCEPT ![s] = "read"]
    /\ moved' = [moved EXCEPT ![s] = @ + 1]
    /\ \/ /\ TooLong(s, 1)
          /\ bytesTransferred' = [bytesTransferred EXCEPT ![s] = @ + 1]
          /\ UNCHANGED handed
       \/ /\ ~TooLong(s, 1)
          /\ bytesTransferred' = [bytesTransferred EXCEPT ![s] = @ + 2]
          /\ handed' = [handed EXCEPT ![s] = IF TooLong(s, 2) THEN @ ELSE @ + 1]
    /\ UNCHANGED lengthLimit

\* A new wrapper with a limit, of a stream that nothing has passed through.
SetLimit(s, limit) ==
    /\ lengthLimit' = [lengthLimit EXCEPT ![s] = limit]
    /\ UNCHANGED <<readMode, bytesTransferred, moved, handed>>

StreamInit ==
    /\ readMode = [s \in Stream |-> "unset"]
    /\ lengthLimit \in [Stream -> {NoLimit} \cup 0..MaxBytes]
    /\ bytesTransferred = [s \in Stream |-> 0]
    /\ moved = [s \in Stream |-> 0]
    /\ handed = [s \in Stream |-> 0]

StreamNext ==
    \E s \in Stream :
       \/ \E n \in 1..MaxBytes - moved[s] : Read(s, n) \/ Write(s, n)
       \/ moved[s] < MaxBytes /\ ReadByte(s)

StreamSpec == StreamInit /\ [][StreamNext]_streamVars

-----------------------------------------------------------------------------

StreamTypeOK ==
    /\ readMode \in [Stream -> {"unset", "read", "write"}]
    /\ lengthLimit \in [Stream -> Nat \cup {NoLimit}]
    /\ bytesTransferred \in [Stream -> Nat]
    /\ moved \in [Stream -> Nat]
    /\ handed \in [Stream -> Nat]

\* However the bytes are divided over calls, and whatever is called after an
\* exception, no caller passes more bytes than LengthLimit through a wrapper
\* without the exception.
LimitIsKept ==
    \A s \in Stream : lengthLimit[s] # NoLimit => handed[s] <= lengthLimit[s]

\* The count never falls short of what callers passed: why LimitIsKept holds.
CountIsEnough == \A s \in Stream : handed[s] <= bytesTransferred[s]
=============================================================================
