--------------------------- MODULE BlobPurgeProofs ---------------------------
(***************************************************************************)
(* Theorems about BlobPurge, for any blobs, expirations, capacities and    *)
(* faults: the purge deletes only what has expired, and misses nothing     *)
(* when it returns normally.                                               *)
(***************************************************************************)
EXTENDS BlobPurge, FiniteSetTheorems, TLAPS

-----------------------------------------------------------------------------
(***************************************************************************)
(* Days.                                                                   *)
(***************************************************************************)

\* The name of a directory is the midnight that ends the day of each of its
\* blobs.
LEMMA DayAfterEndsTheDay ==
    ASSUME NEW t \in Nat
    PROVE  DayAfter(t) \in Nat /\ t < DayAfter(t) /\ DayAfter(t) <= t + TicksPerDay
  <1>1. TicksPerDay \in Nat /\ TicksPerDay > 0
    BY PurgeAssumption DEF PurgeAssumption
  <1>2. t % TicksPerDay \in 0..(TicksPerDay - 1) /\ t % TicksPerDay <= t
    BY <1>1
  <1>3. QED
    BY <1>1, <1>2 DEF DayAfter

\* A blob that expires has a directory.
LEMMA ExpiringBlobsHaveADay ==
    ASSUME TypeOK, NEW b \in Blob, expires[b] # Never
    PROVE  expires[b] \in Nat /\ DayAfter(expires[b]) \in Day
  BY PurgeAssumption DEF PurgeAssumption, TypeOK, Day

LEMMA DaysAreNumbers == Day \subseteq Nat
  <1>1. ASSUME NEW t \in Expiration \ {Never} PROVE DayAfter(t) \in Nat
    BY <1>1, DayAfterEndsTheDay, PurgeAssumption DEF PurgeAssumption
  <1>2. QED
    BY <1>1 DEF Day

-----------------------------------------------------------------------------
(***************************************************************************)
(* The inductive invariant.                                                *)
(***************************************************************************)

THEOREM TypeCorrect == Spec => []TypeOK
  <1>1. Init => TypeOK
    <2> SUFFICES ASSUME Init PROVE TypeOK
      OBVIOUS
    <2> QED
      BY DEF Init, TypeOK
  <1>2. TypeOK /\ [Next]_vars => TypeOK'
    <2> SUFFICES ASSUME TypeOK, [Next]_vars PROVE TypeOK'
      OBVIOUS
    <2> USE DEF TypeOK, callVars, blockVars
    <2>1. CASE SendDirectory
      BY <2>1 DEF SendDirectory
    <2>2. CASE EndListing
      BY <2>2 DEF EndListing
    <2>3. CASE Drain
      BY <2>3 DEF Drain, Finish
    <2>4. CASE Await
      BY <2>4 DEF Await, Finish
    <2>5. CASE CancelListing \/ FailListing
      BY <2>5 DEF CancelListing, FailListing, Finish
    <2>6. ASSUME NEW d \in Day, StartDirectory(d) PROVE TypeOK'
      BY <2>6 DEF StartDirectory, CanStartDirectory, In
    <2>7. ASSUME NEW d \in Day, NEW b \in Blob, SendBlob(d, b) PROVE TypeOK'
      BY <2>7 DEF SendBlob
    <2>8. ASSUME NEW d \in Day, EndDirectory(d) \/ FailDirectory(d) PROVE TypeOK'
      BY <2>8 DEF EndDirectory, FailDirectory
    <2>9. ASSUME NEW b \in Blob, StartDelete(b) PROVE TypeOK'
      BY <2>9 DEF StartDelete, CanStartDelete
    <2>10. ASSUME NEW b \in Blob, EndDelete(b) PROVE TypeOK'
      BY <2>10 DEF EndDelete
    <2>11. ASSUME NEW b \in Blob, DeleteElsewhere(b) PROVE TypeOK'
      BY <2>11 DEF DeleteElsewhere
    <2>12. CASE Cancel
      BY <2>12 DEF Cancel
    <2>13. CASE UNCHANGED vars
      BY <2>13 DEF vars
    <2>14. QED
      BY <2>1, <2>2, <2>3, <2>4, <2>5, <2>6, <2>7, <2>8, <2>9, <2>10, <2>11, <2>12, <2>13
         DEF Next, CallStep, DirectoryStep, DeleteStep
  <1>3. QED
    BY <1>1, <1>2, PTL DEF Spec

\* Taking one more element into a set that has room for it.
LEMMA OneMore ==
    ASSUME NEW S, NEW T, NEW x, NEW n \in Nat,
           IsFiniteSet(S), Cardinality(S) < n, T \subseteq S \cup {x}
    PROVE  IsFiniteSet(T) /\ Cardinality(T) <= n
  <1>1. IsFiniteSet(S \cup {x}) /\ Cardinality(S \cup {x}) <= Cardinality(S) + 1
    <2>1. Cardinality(S) \in Nat
      BY FS_CardinalityType
    <2>2. IsFiniteSet(S \cup {x})
      BY FS_AddElement
    <2>3. Cardinality(S \cup {x}) = IF x \in S THEN Cardinality(S) ELSE Cardinality(S) + 1
      BY FS_AddElement
    <2>4. QED
      BY <2>1, <2>2, <2>3
  <1>2. IsFiniteSet(T) /\ Cardinality(T) <= Cardinality(S \cup {x})
    BY <1>1, FS_Subset
  <1>3. Cardinality(S) \in Nat /\ Cardinality(T) \in Nat /\ Cardinality(S \cup {x}) \in Nat
    BY <1>1, <1>2, FS_CardinalityType
  <1>4. QED
    BY <1>1, <1>2, <1>3

LEMMA NoMore ==
    ASSUME NEW S, NEW T, NEW n \in Nat,
           IsFiniteSet(S), Cardinality(S) <= n, T \subseteq S
    PROVE  IsFiniteSet(T) /\ Cardinality(T) <= n
  <1>1. IsFiniteSet(T) /\ Cardinality(T) <= Cardinality(S)
    BY FS_Subset
  <1>2. Cardinality(S) \in Nat /\ Cardinality(T) \in Nat
    BY <1>1, FS_CardinalityType
  <1>3. QED
    BY <1>1, <1>2

\* The blocks take in one at a time, and only when there is room.
LEMMA BlocksAreBoundedStep ==
    ASSUME TypeOK, BlocksAreBounded, [Next]_vars
    PROVE  BlocksAreBounded'
  <1> USE DEF TypeOK, callVars, blockVars
  <1>1. DirectoryCapacity \in Nat /\ BlobCapacity \in Nat
    BY PurgeAssumption DEF PurgeAssumption
  <1>2. ASSUME HeldDirectories' \subseteq HeldDirectories
        PROVE  IsFiniteSet(HeldDirectories') /\ DirectoryCount' <= DirectoryCapacity
    BY <1>1, <1>2, NoMore DEF BlocksAreBounded, DirectoryCount
  <1>3. ASSUME HeldBlobs' \subseteq HeldBlobs
        PROVE  IsFiniteSet(HeldBlobs') /\ BlobCount' <= BlobCapacity
    BY <1>1, <1>3, NoMore DEF BlocksAreBounded, BlobCount
  <1>4. CASE SendDirectory
    <2>1. HeldBlobs' \subseteq HeldBlobs
      BY <1>4 DEF SendDirectory, HeldBlobs
    <2>2. CASE UNCHANGED directory
      BY <1>2, <1>3, <2>1, <2>2 DEF HeldDirectories, BlocksAreBounded
    <2>3. ASSUME NEW d \in Day, DirectoryCount < DirectoryCapacity,
                 directory' = [directory EXCEPT ![d] = "queued"]
          PROVE  BlocksAreBounded'
      <3>1. HeldDirectories' \subseteq HeldDirectories \cup {d}
        BY <2>3 DEF HeldDirectories
      <3>2. IsFiniteSet(HeldDirectories') /\ DirectoryCount' <= DirectoryCapacity
        BY <1>1, <2>3, <3>1, OneMore DEF BlocksAreBounded, DirectoryCount
      <3>3. QED
        BY <1>3, <2>1, <3>2 DEF BlocksAreBounded
    <2>4. QED
      BY <1>4, <2>2, <2>3 DEF SendDirectory, DirectoriesTake
  <1>5. ASSUME NEW d \in Day, NEW b \in Blob, SendBlob(d, b) PROVE BlocksAreBounded'
    <2>1. HeldDirectories' \subseteq HeldDirectories
      BY <1>5 DEF SendBlob, HeldDirectories
    <2>2. CASE UNCHANGED item
      BY <1>2, <1>3, <2>1, <2>2 DEF HeldBlobs, BlocksAreBounded
    <2>3. CASE BlobCount < BlobCapacity /\ item' = [item EXCEPT ![b] = "queued"]
      <3>1. HeldBlobs' \subseteq HeldBlobs \cup {b}
        BY <2>3 DEF HeldBlobs
      <3>2. IsFiniteSet(HeldBlobs') /\ BlobCount' <= BlobCapacity
        BY <1>1, <2>3, <3>1, OneMore DEF BlocksAreBounded, BlobCount
      <3>3. QED
        BY <1>2, <2>1, <3>2 DEF BlocksAreBounded
    <2>4. QED
      BY <1>5, <2>2, <2>3 DEF SendBlob, BlobsTake
  <1>6. ASSUME HeldDirectories' \subseteq HeldDirectories, HeldBlobs' \subseteq HeldBlobs
        PROVE  BlocksAreBounded'
    BY <1>2, <1>3, <1>6 DEF BlocksAreBounded
  <1>7. CASE EndListing \/ Drain \/ Await \/ CancelListing \/ FailListing \/ Cancel
    BY <1>6, <1>7
       DEF EndListing, Drain, Await, CancelListing, FailListing, Cancel,
           HeldDirectories, HeldBlobs
  <1>8. ASSUME NEW d \in Day, StartDirectory(d) \/ EndDirectory(d) \/ FailDirectory(d)
        PROVE  BlocksAreBounded'
    BY <1>6, <1>8
       DEF StartDirectory, CanStartDirectory, CanStartDirectory, EndDirectory, FailDirectory, Processing,
           HeldDirectories, HeldBlobs
  <1>9. ASSUME NEW b \in Blob, StartDelete(b) \/ EndDelete(b) \/ DeleteElsewhere(b)
        PROVE  BlocksAreBounded'
    BY <1>6, <1>9 DEF StartDelete, CanStartDelete, EndDelete, DeleteElsewhere, HeldDirectories, HeldBlobs
  <1>10. CASE UNCHANGED vars
    BY <1>6, <1>10 DEF vars, HeldDirectories, HeldBlobs
  <1>11. QED
    BY <1>4, <1>5, <1>7, <1>8, <1>9, <1>10 DEF Next, CallStep, DirectoryStep, DeleteStep

\* Only the enumeration puts directories into the first block, only the handler
\* of a directory its blobs into the second.
LEMMA WorkIsOfItsDirectoryStep ==
    ASSUME TypeOK, WorkIsOfItsDirectory, [Next]_vars
    PROVE  WorkIsOfItsDirectory'
  <1> USE DEF TypeOK, WorkIsOfItsDirectory, callVars, blockVars
  <1>1. CASE SendDirectory
    <2>1. PICK d \in listed : d < before /\ directory[d] = "none" /\ listed' = listed \ {d}
                             /\ directory' \in {directory, [directory EXCEPT ![d] = "queued"]}
      BY <1>1 DEF SendDirectory
    <2>2. QED
      BY <1>1, <2>1, ExpiringBlobsHaveADay DEF SendDirectory
  <1>2. ASSUME NEW d \in Day, StartDirectory(d) PROVE WorkIsOfItsDirectory'
    BY <1>2, ExpiringBlobsHaveADay DEF StartDirectory, CanStartDirectory, In
  <1>3. ASSUME NEW d \in Day, NEW b \in Blob, SendBlob(d, b)
        PROVE  WorkIsOfItsDirectory'
    BY <1>3, ExpiringBlobsHaveADay DEF SendBlob, BlobsTake, Processing
  <1>4. ASSUME NEW d \in Day, EndDirectory(d) \/ FailDirectory(d)
        PROVE  WorkIsOfItsDirectory'
    BY <1>4, ExpiringBlobsHaveADay DEF EndDirectory, FailDirectory, Processing
  <1>5. ASSUME NEW b \in Blob, StartDelete(b) \/ EndDelete(b) \/ DeleteElsewhere(b)
        PROVE  WorkIsOfItsDirectory'
    BY <1>5 DEF StartDelete, CanStartDelete, EndDelete, DeleteElsewhere
  <1>6. CASE EndListing \/ Drain \/ Await \/ CancelListing \/ FailListing \/ Cancel
    BY <1>6 DEF EndListing, Drain, Await, CancelListing, FailListing, Cancel
  <1>7. CASE UNCHANGED vars
    BY <1>7 DEF vars
  <1>8. QED
    BY <1>1, <1>2, <1>3, <1>4, <1>5, <1>6, <1>7 DEF Next, CallStep, DirectoryStep, DeleteStep

\* What is over stays over: an empty block that has been completed takes in
\* nothing and cannot fail any more.
LEMMA StagesAreOverStep ==
    ASSUME TypeOK, WorkIsOfItsDirectory, StagesAreOver, [Next]_vars
    PROVE  StagesAreOver'
  <1> USE DEF TypeOK, StagesAreOver, HeldDirectories, HeldBlobs, callVars, blockVars
  <1>1. CASE SendDirectory
    BY <1>1 DEF SendDirectory
  <1>2. CASE EndListing
    <2>1. \A d \in listed : d >= before
      BY <1>2 DEF EndListing
    <2>2. QED
      BY <1>2, <2>1 DEF EndListing
  <1>3. CASE Drain
    BY <1>3 DEF Drain, Finish, Processing
  <1>4. CASE Await
    BY <1>4 DEF Await, Finish
  <1>5. CASE CancelListing \/ FailListing
    BY <1>5 DEF CancelListing, FailListing, Finish
  <1>6. ASSUME NEW d \in Day, StartDirectory(d) PROVE StagesAreOver'
    BY <1>6 DEF StartDirectory, CanStartDirectory
  <1>7. ASSUME NEW d \in Day, NEW b \in Blob, SendBlob(d, b) PROVE StagesAreOver'
    BY <1>7 DEF SendBlob, BlobsTake, Processing
  <1>8. ASSUME NEW d \in Day, EndDirectory(d) \/ FailDirectory(d)
        PROVE  StagesAreOver'
    BY <1>8 DEF EndDirectory, FailDirectory, Processing
  <1>9. ASSUME NEW b \in Blob, StartDelete(b) \/ EndDelete(b) PROVE StagesAreOver'
    BY <1>9 DEF StartDelete, CanStartDelete, EndDelete
  <1>10. ASSUME NEW b \in Blob, DeleteElsewhere(b) PROVE StagesAreOver'
    BY <1>10 DEF DeleteElsewhere
  <1>11. CASE Cancel
    BY <1>11 DEF Cancel
  <1>12. CASE UNCHANGED vars
    BY <1>12 DEF vars
  <1>13. QED
    BY <1>1, <1>2, <1>3, <1>4, <1>5, <1>6, <1>7, <1>8, <1>9, <1>10, <1>11, <1>12
       DEF Next, CallStep, DirectoryStep, DeleteStep

LEMMA ExpirationsAreFixed ==
    ASSUME [Next]_vars
    PROVE  UNCHANGED <<expires, before>> /\ store' \subseteq store
  BY DEF Next, CallStep, SendDirectory, EndListing, Drain, Await, CancelListing,
         FailListing, Finish, DirectoryStep, StartDirectory, SendBlob, EndDirectory,
         FailDirectory, DeleteStep, StartDelete, EndDelete, DeleteElsewhere, Cancel,
         vars, callVars, blockVars

\* Each step hands a blob on to the next stage, deletes it, or fails.
LEMMA BlobIsHandedOn ==
    ASSUME TypeOK, [Next]_vars,
           NEW b \in store, b \in store', expires[b] # Never,
           NEW d \in Day, d = DayAfter(expires[b]),
           Ahead(d, b) \/ failed # {} \/ token
    PROVE  (Ahead(d, b) \/ failed # {} \/ token)'
  <1> DEFINE Kept == Ahead(d, b) \/ failed # {} \/ token
  <1> USE DEF TypeOK, Ahead, HeldBlobs, callVars, blockVars
  <1>1. CASE SendDirectory
    BY <1>1 DEF SendDirectory
  <1>2. CASE EndListing \/ Drain \/ Await \/ CancelListing \/ FailListing \/ Cancel
    BY <1>2 DEF EndListing, Drain, Await, CancelListing, FailListing, Finish, Cancel
  <1>3. ASSUME NEW c \in Day, StartDirectory(c) PROVE Kept'
    <2>1. c = d => b \in In(c)
      BY DEF In
    <2>2. QED
      BY <1>3, <2>1 DEF StartDirectory, CanStartDirectory
  <1>4. ASSUME NEW c \in Day, NEW a \in Blob, SendBlob(c, a) PROVE Kept'
    BY <1>4 DEF SendBlob
  <1>5. ASSUME NEW c \in Day, EndDirectory(c) \/ FailDirectory(c) PROVE Kept'
    BY <1>5 DEF EndDirectory, FailDirectory, Processing
  <1>6. ASSUME NEW a \in Blob, StartDelete(a) PROVE Kept'
    BY <1>6 DEF StartDelete, CanStartDelete
  <1>7. ASSUME NEW a \in Blob, EndDelete(a) PROVE Kept'
    BY <1>7 DEF EndDelete
  <1>8. ASSUME NEW a \in Blob, DeleteElsewhere(a) PROVE Kept'
    BY <1>8 DEF DeleteElsewhere
  <1>9. CASE UNCHANGED vars
    BY <1>9 DEF vars
  <1>10. QED
    BY <1>1, <1>2, <1>3, <1>4, <1>5, <1>6, <1>7, <1>8, <1>9
       DEF Next, CallStep, DirectoryStep, DeleteStep

LEMMA NothingIsForgottenStep ==
    ASSUME TypeOK, NothingIsForgotten, [Next]_vars
    PROVE  NothingIsForgotten'
  <1> SUFFICES ASSUME NEW b \in store',
                      expires'[b] # Never, DayAfter(expires'[b]) < before'
               PROVE  (Ahead(DayAfter(expires[b]), b) \/ failed # {} \/ token)'
    BY DEF NothingIsForgotten
  <1>1. UNCHANGED <<expires, before>> /\ b \in store /\ b \in Blob
    BY ExpirationsAreFixed DEF TypeOK
  <1>2. PICK d \in Day : d = DayAfter(expires[b])
    BY <1>1, ExpiringBlobsHaveADay
  <1>3. Ahead(d, b) \/ failed # {} \/ token
    BY <1>1, <1>2 DEF NothingIsForgotten
  <1>4. (Ahead(d, b) \/ failed # {} \/ token)'
    BY <1>1, <1>2, <1>3, BlobIsHandedOn
  <1>5. QED
    BY <1>1, <1>2, <1>4 DEF Ahead, HeldBlobs

-----------------------------------------------------------------------------
(***************************************************************************)
(* The purge never stops in the middle.                                    *)
(***************************************************************************)

\* A blob that the second block has accepted is deleted or waits for others that
\* are; a directory that is being listed goes on unless that block is full; one
\* that is queued is started or waits for others that are listed.
LEMMA HeldBlobMoves ==
    ASSUME NEW b \in HeldBlobs, ~token, "deletions" \notin failed
    PROVE  \E c \in Blob : BlobCanMove(c)
  <1>1. CASE \E c \in Blob : item[c] = "deleting"
    BY <1>1 DEF BlobCanMove
  <1>2. CASE \A c \in Blob : item[c] # "deleting"
    <2>1. {c \in Blob : item[c] = "deleting"} = {}
      BY <1>2
    <2>2. Cardinality({c \in Blob : item[c] = "deleting"}) < BlobParallel
      BY <2>1, FS_EmptySet, PurgeAssumption DEF PurgeAssumption
    <2>3. b \in Blob /\ item[b] = "queued"
      BY <1>2 DEF HeldBlobs
    <2>4. QED
      BY <2>2, <2>3 DEF BlobCanMove, CanStartDelete
  <1>3. QED
    BY <1>1, <1>2

LEMMA ListedDirectoryMoves ==
    ASSUME BlocksAreBounded, NEW d \in Day, Processing(d)
    PROVE  (\E c \in Day : DirectoryCanMove(c)) \/ (\E b \in Blob : BlobCanMove(b))
  <1>1. CASE token \/ BlobsTake
    BY <1>1 DEF DirectoryCanMove
  <1>2. CASE ~token /\ ~BlobsTake
    <2>1. HeldBlobs # {}
      <3>1. BlobCount # 0
        <4>1. BlobCapacity \in Nat /\ BlobCapacity > 0 /\ ~(BlobCount < BlobCapacity)
          BY <1>2, PurgeAssumption DEF BlobsTake, PurgeAssumption
        <4>2. QED
          BY <4>1
      <3>2. QED
        BY <3>1, FS_EmptySet DEF BlobCount
    <2>2. QED
      BY <1>2, <2>1, HeldBlobMoves DEF BlobsTake
  <1>3. QED
    BY <1>1, <1>2

LEMMA HeldDirectoryMoves ==
    ASSUME BlocksAreBounded, NEW d \in HeldDirectories, ~token, "directories" \notin failed
    PROVE  (\E c \in Day : DirectoryCanMove(c)) \/ (\E b \in Blob : BlobCanMove(b))
  <1>1. CASE \E c \in Day : Processing(c)
    BY <1>1, ListedDirectoryMoves
  <1>2. CASE \A c \in Day : ~Processing(c)
    <2>1. {c \in Day : Processing(c)} = {}
      BY <1>2
    <2>2. Cardinality({c \in Day : Processing(c)}) < DirectoryParallel
      BY <2>1, FS_EmptySet, PurgeAssumption DEF PurgeAssumption
    <2>3. d \in Day /\ directory[d] = "queued"
      BY <1>2 DEF HeldDirectories, Processing
    <2>4. CanStartDirectory(d)
      BY <2>2, <2>3 DEF CanStartDirectory
    <2>5. QED
      BY <2>3, <2>4 DEF DirectoryCanMove
  <1>3. QED
    BY <1>1, <1>2

\* Whatever the method waits for, it moves itself or waits for somebody who can.
LEMMA NobodyIsStuck ==
    ASSUME TypeOK, BlocksAreBounded
    PROVE  SomebodyCanMove
  <1> SUFFICES ASSUME pc # "over", ~MethodCanMove
               PROVE  (\E d \in Day : DirectoryCanMove(d)) \/ (\E b \in Blob : BlobCanMove(b))
    BY DEF SomebodyCanMove
  <1>1. CASE pc = "list"
    <2>1. ~token /\ ~DirectoriesTake
      BY <1>1 DEF MethodCanMove
    <2>2. DirectoryCapacity \in Nat /\ DirectoryCapacity > 0
          /\ ~(DirectoryCount < DirectoryCapacity)
      BY <2>1, PurgeAssumption DEF DirectoriesTake, PurgeAssumption
    <2>3. DirectoryCount # 0
      BY <2>2
    <2>4. HeldDirectories # {}
      BY <2>3, FS_EmptySet DEF DirectoryCount
    <2>5. QED
      BY <2>1, <2>4, HeldDirectoryMoves DEF DirectoriesTake
  <1>2. CASE pc = "drain"
    <2>1. CASE \E d \in Day : Processing(d)
      BY <2>1, ListedDirectoryMoves
    <2>2. CASE \A d \in Day : ~Processing(d)
      <3>1. ~token /\ "directories" \notin failed /\ HeldDirectories # {}
        BY <1>2, <2>2 DEF MethodCanMove, HeldDirectories
      <3>2. QED
        BY <3>1, HeldDirectoryMoves
    <2>3. QED
      BY <2>1, <2>2
  <1>3. CASE pc = "finish"
    <2>1. CASE \E b \in Blob : item[b] = "deleting"
      BY <2>1 DEF BlobCanMove
    <2>2. CASE \A b \in Blob : item[b] # "deleting"
      <3>1. ~token /\ "deletions" \notin failed /\ HeldBlobs # {}
        BY <1>3, <2>2 DEF MethodCanMove, HeldBlobs
      <3>2. QED
        BY <3>1, HeldBlobMoves
    <2>3. QED
      BY <2>1, <2>2
  <1>4. QED
    BY <1>1, <1>2, <1>3 DEF TypeOK

\* The blocks, the stages of the method and the way of each blob through them,
\* under failing storage, cancellation and deletions by others.
THEOREM PurgeInvariant == Spec => []PurgeInv
  <1>1. Init => BlocksAreBounded /\ WorkIsOfItsDirectory /\ StagesAreOver
    <2> SUFFICES ASSUME Init PROVE BlocksAreBounded /\ WorkIsOfItsDirectory /\ StagesAreOver
      OBVIOUS
    <2>1. HeldDirectories = {} /\ HeldBlobs = {}
      BY DEF Init, HeldDirectories, HeldBlobs
    <2>2. BlocksAreBounded
      BY <2>1, FS_EmptySet, PurgeAssumption
         DEF BlocksAreBounded, DirectoryCount, BlobCount, PurgeAssumption
    <2>3. WorkIsOfItsDirectory /\ StagesAreOver
      BY <2>1 DEF Init, WorkIsOfItsDirectory, StagesAreOver
    <2>4. QED
      BY <2>2, <2>3
  <1>2. Init => NothingIsForgotten
    <2> SUFFICES ASSUME Init, NEW b \in store, expires[b] # Never
                 PROVE  DayAfter(expires[b]) \in listed
      BY DEF NothingIsForgotten, Ahead
    <2>1. expires[b] \in Expiration \ {Never} /\ b \in Blob
      BY DEF Init
    <2>2. DayAfter(expires[b]) \in Day /\ b \in In(DayAfter(expires[b]))
      BY <2>1 DEF Day, In
    <2>3. QED
      BY <2>2 DEF Init
  <1>3. TypeOK /\ TypeOK' /\ BlocksAreBounded /\ WorkIsOfItsDirectory /\ StagesAreOver
        /\ NothingIsForgotten /\ [Next]_vars
        => (BlocksAreBounded /\ WorkIsOfItsDirectory /\ StagesAreOver /\ NothingIsForgotten)'
    BY BlocksAreBoundedStep, WorkIsOfItsDirectoryStep, StagesAreOverStep,
       NothingIsForgottenStep
  <1>4. TypeOK /\ BlocksAreBounded => SomebodyCanMove
    BY NobodyIsStuck
  <1>5. QED
    BY <1>1, <1>2, <1>3, <1>4, TypeCorrect, PTL DEF Spec, PurgeInv

-----------------------------------------------------------------------------
(***************************************************************************)
(* What the purge promises.                                                *)
(***************************************************************************)

\* The purge deletes only what expires before the given time, although it looks
\* at nothing but the names of directories.
THEOREM OnlyExpiredBlobsArePurged == Spec => []OnlyExpiredArePurged
  <1>1. PurgeInv => OnlyExpiredArePurged
    <2> SUFFICES ASSUME PurgeInv, NEW b \in Blob, item[b] # "none" PROVE Expired(b)
      BY DEF OnlyExpiredArePurged
    <2>1. expires[b] # Never /\ directory[DayAfter(expires[b])] # "none"
      BY DEF PurgeInv, WorkIsOfItsDirectory
    <2>2. expires[b] \in Nat /\ DayAfter(expires[b]) \in Day
      BY <2>1, ExpiringBlobsHaveADay DEF PurgeInv
    <2>3. expires[b] < DayAfter(expires[b]) /\ DayAfter(expires[b]) \in Nat
      BY <2>2, DayAfterEndsTheDay
    <2>4. DayAfter(expires[b]) < before
      BY <2>1, <2>2 DEF PurgeInv, WorkIsOfItsDirectory
    <2>5. before \in Nat
      BY PurgeAssumption DEF PurgeInv, TypeOK, PurgeAssumption
    <2>6. QED
      BY <2>1, <2>2, <2>3, <2>4, <2>5 DEF Expired
  <1>2. QED
    BY <1>1, PurgeInvariant, PTL

\* A purge that returns normally has left no blob that expired more than a day
\* before the given time.
THEOREM PurgeMissesNothing == Spec => []PurgeIsComplete
  <1>1. PurgeInv => PurgeIsComplete
    <2> SUFFICES ASSUME PurgeInv, outcome = "ok", NEW b \in store, expires[b] # Never,
                        ~(expires[b] + TicksPerDay >= before)
                 PROVE  FALSE
      BY DEF PurgeIsComplete
    <2>1. b \in Blob /\ expires[b] \in Nat /\ DayAfter(expires[b]) \in Day
      BY ExpiringBlobsHaveADay DEF PurgeInv, TypeOK
    <2>2. before \in Nat /\ TicksPerDay \in Nat
      BY PurgeAssumption DEF PurgeInv, TypeOK, PurgeAssumption
    <2>3. DayAfter(expires[b]) \in Nat /\ DayAfter(expires[b]) < before
      BY <2>1, <2>2, DayAfterEndsTheDay
    <2>4. DayAfter(expires[b]) \notin listed
      BY <2>2, <2>3 DEF PurgeInv, StagesAreOver
    <2>5. directory[DayAfter(expires[b])] \notin {"queued", "listing"}
      BY <2>1 DEF PurgeInv, StagesAreOver, HeldDirectories
    <2>6. b \notin HeldBlobs /\ failed = {} /\ ~token
      BY DEF PurgeInv, TypeOK, StagesAreOver
    <2>7. QED
      BY <2>3, <2>4, <2>5, <2>6 DEF PurgeInv, NothingIsForgotten, Ahead
  <1>2. QED
    BY <1>1, PurgeInvariant, PTL

\* No directory is listed twice and no blob deleted twice by one purge: together
\* with PurgeInvariant, by which somebody can always move, what is missing from
\* a proof that the purge ends is fairness alone.
THEOREM PurgeOnlyAdvances == Spec => WorkOnlyAdvances
  <1> DEFINE Advance ==
          /\ listed' \subseteq listed
          /\ \A d \in Day : Stage[directory[d]] <= Stage[directory'[d]]
          /\ \A d \in Day : rest'[d] \subseteq rest[d] \/ directory[d] = "queued"
          /\ \A b \in Blob : Stage[item[b]] <= Stage[item'[b]]
  <1>1. PurgeInv /\ [Next]_vars => [Advance]_vars
    <2> SUFFICES ASSUME PurgeInv, Next PROVE Advance
      OBVIOUS
    <2> USE DEF PurgeInv, TypeOK, Stage, callVars, blockVars
    <2>1. CASE UNCHANGED <<listed, directory, rest, item>>
      BY <2>1
    <2>2. CASE SendDirectory
      <3>1. PICK d \in listed : listed' = listed \ {d} /\ directory[d] = "none"
                /\ directory' \in {directory, [directory EXCEPT ![d] = "queued"]}
        BY <2>2 DEF SendDirectory, WorkIsOfItsDirectory
      <3>2. UNCHANGED <<rest, item>>
        BY <2>2 DEF SendDirectory
      <3>3. QED
        BY <3>1, <3>2
    <2>3. ASSUME NEW d \in Day, StartDirectory(d) PROVE Advance
      BY <2>3 DEF StartDirectory, CanStartDirectory
    <2>4. ASSUME NEW d \in Day, NEW b \in Blob, SendBlob(d, b) PROVE Advance
      <3>1. item[b] = "none"
        BY <2>4 DEF SendBlob, WorkIsOfItsDirectory
      <3>2. QED
        BY <2>4, <3>1 DEF SendBlob
    <2>5. ASSUME NEW d \in Day, EndDirectory(d) \/ FailDirectory(d) PROVE Advance
      BY <2>5 DEF EndDirectory, FailDirectory, Processing
    <2>6. ASSUME NEW b \in Blob, StartDelete(b) PROVE Advance
      BY <2>6 DEF StartDelete, CanStartDelete
    <2>7. ASSUME NEW b \in Blob, EndDelete(b) PROVE Advance
      BY <2>7 DEF EndDelete
    <2>8. QED
      BY <2>1, <2>2, <2>3, <2>4, <2>5, <2>6, <2>7
         DEF Next, CallStep, EndListing, Drain, Await, CancelListing, FailListing,
             DirectoryStep, DeleteStep, DeleteElsewhere, Cancel
  <1>2. QED
    BY <1>1, PurgeInvariant, PTL DEF Spec, WorkOnlyAdvances
=============================================================================
