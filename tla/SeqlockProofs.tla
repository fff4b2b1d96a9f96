--------------------------- MODULE SeqlockProofs ----------------------------
(***************************************************************************)
(* The seqlock is torn-free for every region, every even modulus and every *)
(* number of retries, as long as no writer stops half way (Spec).          *)
(*                                                                         *)
(* NoTornRead alone is not inductive.  The strengthening says what makes   *)
(* it true: the parity of seq tells whether a write is in progress, and    *)
(* seq has moved away from s1 by exactly the stores made since, so that    *)
(* seq = s1 at the end of an attempt means no write overlapped the copy.   *)
(***************************************************************************)
EXTENDS Seqlock, TLAPS

\* seq is odd exactly while a write is in progress.
ParityInv ==
    /\ wpc = "idle" => seq % 2 = 0
    /\ wpc = "storing" => wseq % 2 = 0 /\ seq = Bump(wseq)

\* Stored words carry the attempt in progress; a stable region is whole.
DataInv ==
    /\ wpc = "idle" => data = Whole(committed)
    /\ wpc = "storing" => \A w \in Words \ unwritten : data[w] = attempt

\* s1 plus the stores since, wrapped once at most.
Ahead(k) == IF s1 + k < SeqMod THEN s1 + k ELSE s1 + k - SeqMod

CopyInv ==
    rpc = "copy" =>
        /\ tries < MaxRetries
        /\ s1 % 2 = 0
        /\ seq = Ahead(stores)
        /\ wpc = "storing" => stores + 1 < SeqMod
        /\ stores = 0 => \A w \in Words \ unread : copy[w] = committed

IInv == TypeOK /\ ParityInv /\ DataInv /\ CopyInv /\ NoTornRead

USE SeqModAssumption, BoundsAssumption DEF Attempts

-----------------------------------------------------------------------------

\* wrapping_add(1) stays in range and changes the parity, because the modulus
\* is even; only the modulus wraps to 0.
LEMMA BumpParity ==
    ASSUME NEW s \in 0 .. SeqMod - 1
    PROVE  /\ Bump(s) \in 0 .. SeqMod - 1
           /\ s % 2 = 0 => Bump(s) % 2 # 0
           /\ s % 2 # 0 => Bump(s) % 2 = 0
  BY DEF Bump

\* The initial state satisfies the invariant.
LEMMA InitIInv == Init => IInv
  BY DEF Init, IInv, TypeOK, ParityInv, DataInv, CopyInv, NoTornRead, Whole

\* The type invariant is preserved by every step.
LEMMA NextTypeOK == IInv /\ [Next]_vars => TypeOK'
<1> SUFFICES ASSUME IInv, [Next]_vars PROVE TypeOK'
  OBVIOUS
<1> USE DEF IInv, TypeOK
<1>1. CASE BeginWrite
  <2>1. Bump(seq) \in 0 .. SeqMod - 1
    BY BumpParity
  <2>2. stores' \in 0 .. SeqMod - 1
    BY <1>1 DEF BeginWrite, CountStore, CannotLap
  <2>3. QED
    BY <1>1, <2>1, <2>2 DEF BeginWrite, reader
<1>2. ASSUME NEW w \in Words, StoreWord(w) PROVE TypeOK'
  BY <1>2 DEF StoreWord, reader
<1>3. CASE EndWrite
  <2>1. Bump(Bump(wseq)) \in 0 .. SeqMod - 1
    BY BumpParity
  <2>2. stores' \in 0 .. SeqMod - 1
    BY <1>3 DEF EndWrite, CountStore, CopyInv
  <2>3. QED
    BY <1>3, <2>1, <2>2 DEF EndWrite, reader
<1>4. CASE BeginRead
  BY <1>4 DEF BeginRead, region, writer
<1>5. CASE LoadEven
  BY <1>5 DEF LoadEven, region, writer
<1>6. CASE LoadOdd
  BY <1>6 DEF LoadOdd, region, writer
<1>7. ASSUME NEW w \in Words, CopyWord(w) PROVE TypeOK'
  BY <1>7 DEF CopyWord, region, writer
<1>8. CASE Accept
  BY <1>8 DEF Accept, region, writer
<1>9. CASE Discard
  <2>1. tries < MaxRetries
    \* an attempt in progress is one of the MaxRetries
    BY <1>9 DEF Discard, CopyInv
  <2>2. QED
    BY <1>9, <2>1 DEF Discard, region, writer
<1>10. CASE GiveUp
  BY <1>10 DEF GiveUp, region, writer
<1>11. CASE UNCHANGED vars
  BY <1>11 DEF vars, region, writer, reader
<1>12. QED
  BY <1>1, <1>2, <1>3, <1>4, <1>5, <1>6, <1>7, <1>8, <1>9, <1>10, <1>11
     DEF Next, Write, Read

\* Each store to seq flips its parity; nothing else moves wpc or seq.
LEMMA NextParityInv == IInv /\ [Next]_vars => ParityInv'
<1> SUFFICES ASSUME IInv, [Next]_vars PROVE ParityInv'
  OBVIOUS
<1> USE DEF IInv, TypeOK, ParityInv
<1>1. CASE BeginWrite
  BY <1>1 DEF BeginWrite
<1>2. ASSUME NEW w \in Words, StoreWord(w) PROVE ParityInv'
  BY <1>2 DEF StoreWord
<1>3. CASE EndWrite
  <2>1. wseq % 2 = 0
    BY <1>3 DEF EndWrite
  <2>2. Bump(wseq) % 2 # 0 /\ Bump(wseq) \in 0 .. SeqMod - 1
    BY <2>1, BumpParity
  <2>3. Bump(Bump(wseq)) % 2 = 0
    BY <2>2, BumpParity
  <2>4. QED
    BY <1>3, <2>3 DEF EndWrite
<1>4. CASE UNCHANGED <<region, writer>>
  BY <1>4 DEF region, writer
<1>5. QED
  BY <1>1, <1>2, <1>3, <1>4
     DEF Next, Write, Read, BeginRead, LoadEven, LoadOdd, CopyWord, Accept,
         Discard, GiveUp, vars

\* Only StoreWord touches the words, and EndWrite finds them all stored.
LEMMA NextDataInv == IInv /\ [Next]_vars => DataInv'
<1> SUFFICES ASSUME IInv, [Next]_vars PROVE DataInv'
  OBVIOUS
<1> USE DEF IInv, TypeOK, DataInv, Whole
<1>1. CASE BeginWrite
  BY <1>1 DEF BeginWrite
<1>2. ASSUME NEW w \in Words, StoreWord(w) PROVE DataInv'
  BY <1>2 DEF StoreWord
<1>3. CASE EndWrite
  BY <1>3 DEF EndWrite
<1>4. CASE UNCHANGED <<region, writer>>
  BY <1>4 DEF region, writer
<1>5. QED
  BY <1>1, <1>2, <1>3, <1>4
     DEF Next, Write, Read, BeginRead, LoadEven, LoadOdd, CopyWord, Accept,
         Discard, GiveUp, vars

\* While an attempt copies, every store to seq takes it one further from s1,
\* and what was copied before the first of them is the committed write.
LEMMA NextCopyInv == IInv /\ [Next]_vars => CopyInv'
<1> SUFFICES ASSUME IInv, [Next]_vars, rpc' = "copy" PROVE CopyInv'
  BY DEF CopyInv
<1> USE DEF IInv, TypeOK
<1>1. CASE BeginWrite
  <2>1. rpc = "copy" /\ stores' = stores + 1 /\ stores + 2 < SeqMod
    BY <1>1 DEF BeginWrite, CountStore, CannotLap, reader
  <2>2. seq' = Ahead(stores')
    BY <1>1, <2>1 DEF BeginWrite, CopyInv, Ahead, Bump, reader
  <2>3. QED
    BY <1>1, <2>1, <2>2 DEF BeginWrite, CopyInv, reader, Ahead
<1>2. ASSUME NEW w \in Words, StoreWord(w) PROVE CopyInv'
  BY <1>2 DEF StoreWord, CopyInv, reader, Ahead
<1>3. CASE EndWrite
  <2>1. rpc = "copy" /\ stores' = stores + 1 /\ stores + 1 < SeqMod
    BY <1>3 DEF EndWrite, CountStore, CopyInv, reader
  <2>2. seq' = Bump(seq)
    BY <1>3 DEF EndWrite, ParityInv
  <2>3. seq' = Ahead(stores')
    BY <1>3, <2>1, <2>2 DEF EndWrite, CopyInv, Ahead, Bump, reader
  <2>4. QED
    BY <1>3, <2>1, <2>3 DEF EndWrite, CopyInv, reader, Ahead
<1>4. CASE LoadEven
  BY <1>4 DEF LoadEven, CopyInv, ParityInv, Ahead, region, writer
<1>5. ASSUME NEW w \in Words, CopyWord(w) PROVE CopyInv'
  <2>1. stores = 0 => data[w] = committed
    <3>1. stores = 0 => seq % 2 = 0
      BY <1>5 DEF CopyWord, CopyInv, Ahead
    <3>2. seq % 2 = 0 => wpc = "idle"
      BY BumpParity DEF ParityInv
    <3>3. QED
      BY <3>1, <3>2 DEF DataInv, Whole
  <2>2. QED
    BY <1>5, <2>1 DEF CopyWord, CopyInv, Ahead, region, writer
<1>6. CASE UNCHANGED vars
  BY <1>6 DEF vars, region, writer, reader, CopyInv, Ahead
<1>7. QED
  BY <1>1, <1>2, <1>3, <1>4, <1>5, <1>6
     DEF Next, Write, Read, BeginRead, LoadOdd, Accept, Discard, GiveUp

\* What an attempt accepts is the committed write: s1 was met again, so no
\* store was made to seq since the attempt began.
LEMMA AcceptedIsCommitted ==
    ASSUME IInv, Accept
    PROVE  lastGood' = Whole(committed)
<1>1. stores = 0
  BY DEF IInv, TypeOK, Accept, CopyInv, Ahead
<1>2. \A w \in Words : copy[w] = committed
  BY <1>1 DEF IInv, Accept, CopyInv
<1>3. copy = Whole(committed)
  BY <1>2 DEF IInv, TypeOK, Whole
<1>4. QED
  BY <1>3 DEF Accept

\* Accept is the only action that changes the snapshot the reader works with.
LEMMA OnlyAcceptChangesLastGood ==
    [Next]_vars => lastGood' = lastGood \/ Accept
  BY DEF Next, Write, Read, BeginWrite, StoreWord, EndWrite, BeginRead,
         LoadEven, LoadOdd, CopyWord, Discard, GiveUp, vars, reader

\* Every step keeps the invariant: its conjuncts one by one.
LEMMA NextIInv == IInv /\ [Next]_vars => IInv'
<1> SUFFICES ASSUME IInv, [Next]_vars PROVE IInv'
  OBVIOUS
<1>1. NoTornRead'
  <2>1. CASE lastGood' = lastGood
    BY <2>1 DEF IInv, NoTornRead, Whole
  <2>2. CASE Accept
    BY <2>2, AcceptedIsCommitted DEF IInv, TypeOK, NoTornRead, Whole
  <2>3. QED
    BY <2>1, <2>2, OnlyAcceptChangesLastGood
<1>2. QED
  BY <1>1, NextTypeOK, NextParityInv, NextDataInv, NextCopyInv DEF IInv

\* The first state has the invariant and every step keeps it.
LEMMA Invariance == Spec => []IInv
  BY InitIInv, NextIInv, PTL DEF Spec

-----------------------------------------------------------------------------

\* Every variable keeps its type: in particular the wrapped sequence numbers
\* stay below the modulus and a read makes at most MaxRetries attempts.
THEOREM SeqlockTypeOK == Spec => []TypeOK
  BY Invariance, PTL DEF IInv

\* No interleaving of seqlock_write and seqlock_read hands the reader a mix
\* of two writes.
THEOREM SeqlockNoTornRead == Spec => []NoTornRead
  BY Invariance, PTL DEF IInv

\* What a read returns is the write complete at the moment it returns.
THEOREM SeqlockReadIsCurrent == Spec => ReadIsCurrent
<1>1. IInv /\ [Next]_vars =>
        [lastGood' # lastGood => lastGood' = Whole(committed)]_vars
  BY AcceptedIsCommitted, OnlyAcceptChangesLastGood
<1>2. QED
  BY <1>1, Invariance, PTL DEF Spec, ReadIsCurrent

\* The seqlock implements the atomic register: EndWrite is the register's
\* write, Accept its read, and every other step is invisible to it.
THEOREM SeqlockImplementsRegister == Spec => RegisterSpec
<1>1. Init => Register!Init
  BY DEF Init, Register!Init, Whole
<1>2. IInv /\ [Next]_vars => [Register!Next]_(Register!vars)
  <2> SUFFICES ASSUME IInv, [Next]_vars
               PROVE  Register!Write \/ Register!Read \/ UNCHANGED Register!vars
    BY DEF Register!Next
  <2>1. CASE Accept
    BY <2>1, AcceptedIsCommitted DEF Accept, writer, Register!Read
  <2>2. CASE EndWrite
    <3>1. lastGood' = lastGood
      BY <2>2 DEF EndWrite, reader
    <3>2. committed' \in Attempts
      BY <2>2 DEF EndWrite, IInv, TypeOK
    <3>3. QED
      BY <3>1, <3>2 DEF Register!Write
  <2>3. CASE lastGood' = lastGood /\ committed' = committed
    BY <2>3 DEF Register!vars, Whole
  <2>4. QED
    BY <2>1, <2>2, <2>3
       DEF Next, Write, Read, BeginWrite, StoreWord, BeginRead, LoadEven,
           LoadOdd, CopyWord, Discard, GiveUp, vars, writer, reader
<1>3. QED
  BY <1>1, <1>2, Invariance, PTL DEF Spec, RegisterSpec, Register!Spec

=============================================================================
