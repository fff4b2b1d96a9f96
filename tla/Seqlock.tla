------------------------------ MODULE Seqlock -------------------------------
(***************************************************************************)
(* One seqlocked region of the shared-memory segment: one writer and one   *)
(* reader in different processes (or threads), no lock.  The input region  *)
(* is written by the Python client and read by the daemon's control loop,  *)
(* the output region the other way round, and the cerebellum's SeqCell     *)
(* follows the same steps between two threads of the daemon.               *)
(*                                                                         *)
(* The region is a set of words, each written by a separate store and read *)
(* by a separate load, in any order.  What is stored is abstracted to the  *)
(* number of the write attempt it comes from.  The fences on both sides    *)
(* make the stores of the sequence number and of the words visible in      *)
(* program order, so memory is sequentially consistent here.               *)
(***************************************************************************)
EXTENDS Naturals

CONSTANTS
    Words,          \* the fields of the region
    SeqMod,         \* sequence numbers wrap at SeqMod (2^32 in the code)
    MaxRetries,     \* attempts of one read before it gives up
    MaxAttempts,    \* bound: write attempts
    MaxCrashes      \* bound: writers that stop half way

ASSUME SeqModAssumption == SeqMod \in Nat /\ SeqMod > 2 /\ SeqMod % 2 = 0
ASSUME BoundsAssumption ==
    MaxRetries \in Nat /\ MaxAttempts \in Nat /\ MaxCrashes \in Nat
ASSUME WordsAssumption == Words # {}

VARIABLES
    seq,            \* the sequence number in shared memory
    data,           \* the words in shared memory
    wpc,            \* the writer: "idle" or "storing"
    unwritten,      \* words the write in progress has still to store
    wseq,           \* the writer's local copy of seq
    rpc,            \* the reader: "idle", "load" or "copy"
    s1,             \* the sequence number the reader's attempt began with
    unread,         \* words the attempt has still to copy
    copy,           \* the attempt's snapshot
    tries,          \* failed attempts of this read
    lastGood,       \* the snapshot the reader works with
    \* History.  No operation reads them, but for the guards that name a bound.
    attempt,        \* number of the last write attempt
    committed,      \* the last write attempt that ran to its end
    stores,         \* stores to seq since the reader's attempt began
    crashes         \* writers that stopped half way

region == <<seq, data>>
writer == <<wpc, unwritten, wseq, attempt, committed, crashes>>
reader == <<rpc, s1, unread, copy, tries, lastGood>>
vars == <<region, writer, reader, stores>>

Attempts == 0 .. MaxAttempts

TypeOK ==
    /\ seq \in 0 .. SeqMod - 1
    /\ data \in [Words -> Attempts]
    /\ wpc \in {"idle", "storing"}
    /\ unwritten \in SUBSET Words
    /\ wseq \in 0 .. SeqMod - 1
    /\ rpc \in {"idle", "load", "copy"}
    /\ s1 \in 0 .. SeqMod - 1
    /\ unread \in SUBSET Words
    /\ copy \in [Words -> Attempts]
    /\ tries \in 0 .. MaxRetries
    /\ lastGood \in [Words -> Attempts]
    /\ attempt \in Attempts
    /\ committed \in Attempts
    /\ stores \in 0 .. SeqMod - 1
    /\ crashes \in 0 .. MaxCrashes

\* Slip: the counter is not brought round.
BumpUnwrapped(s) == s + 1

\* u32::wrapping_add(1), and the c_uint32 the Python client stores into.
Bump(s) == IF s + 1 = SeqMod THEN 0 ELSE s + 1

Whole(v) == [w \in Words |-> v]

\* `stores` matters only while an attempt is copying.
CountStore == stores' = IF rpc = "copy" THEN stores + 1 ELSE 0

Init ==
    /\ seq = 0
    /\ data = Whole(0)
    /\ wpc = "idle"
    /\ unwritten = {}
    /\ wseq = 0
    /\ rpc = "idle"
    /\ s1 = 0
    /\ unread = {}
    /\ copy = Whole(0)
    /\ tries = 0
    /\ lastGood = Whole(0)
    /\ attempt = 0
    /\ committed = 0
    /\ stores = 0
    /\ crashes = 0

-----------------------------------------------------------------------------
(* The writer: seqlock_write, and write_input of the Python client.        *)

\* The attempt's sequence number cannot come round to s1 under one reader
\* attempt: that takes SeqMod / 2 = 2^31 writes within the microseconds one
\* copy of the region lasts.
CannotLap == rpc = "copy" => stores + 2 < SeqMod

\* Slip: the words are stored without making seq odd first.
BeginWriteUnmarked ==
    /\ wpc = "idle"
    /\ attempt < MaxAttempts
    /\ CannotLap
    /\ wseq' = seq
    /\ attempt' = attempt + 1
    /\ unwritten' = Words
    /\ wpc' = "storing"
    /\ UNCHANGED <<region, committed, crashes, reader, stores>>

BeginWrite ==
    /\ wpc = "idle"
    /\ attempt < MaxAttempts
    /\ CannotLap
    /\ wseq' = seq
    /\ seq' = Bump(seq)
    /\ CountStore
    /\ attempt' = attempt + 1
    /\ unwritten' = Words
    /\ wpc' = "storing"
    /\ UNCHANGED <<data, committed, crashes, reader>>

StoreWord(w) ==
    /\ wpc = "storing"
    /\ w \in unwritten
    /\ data' = [data EXCEPT ![w] = attempt]
    /\ unwritten' = unwritten \ {w}
    /\ UNCHANGED <<seq, wpc, wseq, attempt, committed, crashes, reader, stores>>

EndWrite ==
    /\ wpc = "storing"
    /\ unwritten = {}
    /\ seq' = Bump(Bump(wseq))
    /\ CountStore
    /\ committed' = attempt
    /\ wpc' = "idle"
    /\ UNCHANGED <<data, unwritten, wseq, attempt, crashes, reader>>

\* The client is killed, interrupted, or given a list of the wrong length
\* between its two stores of seq.  Nothing puts seq back; the next writer
\* (the same process after catching the exception, or a new one that
\* attaches) starts from whatever it finds there.
Crash ==
    /\ wpc = "storing"
    /\ crashes < MaxCrashes
    /\ wpc' = "idle"
    /\ unwritten' = {}
    /\ crashes' = crashes + 1
    /\ UNCHANGED <<region, wseq, attempt, committed, reader, stores>>

-----------------------------------------------------------------------------
(* The reader: seqlock_read with the caller's fallback to its last         *)
(* known-good snapshot, and read_output of the Python client.              *)

BeginRead ==
    /\ rpc = "idle"
    /\ rpc' = "load"
    /\ tries' = 0
    /\ UNCHANGED <<region, writer, s1, unread, copy, lastGood, stores>>

\* Slip: an odd sequence number is as good as an even one.
LoadWhateverParity ==
    /\ rpc = "load"
    /\ tries < MaxRetries
    /\ s1' = seq
    /\ stores' = 0
    /\ unread' = Words
    /\ rpc' = "copy"
    /\ UNCHANGED <<region, writer, copy, tries, lastGood>>

LoadEven ==
    /\ rpc = "load"
    /\ tries < MaxRetries
    /\ seq % 2 = 0
    /\ s1' = seq
    /\ stores' = 0
    /\ unread' = Words
    /\ rpc' = "copy"
    /\ UNCHANGED <<region, writer, copy, tries, lastGood>>

\* Slip: the wait for an even number is not counted as an attempt.
LoadOddUncounted ==
    /\ rpc = "load"
    /\ tries < MaxRetries
    /\ seq % 2 # 0
    /\ UNCHANGED <<region, writer, reader, stores>>

LoadOdd ==
    /\ rpc = "load"
    /\ tries < MaxRetries
    /\ seq % 2 # 0
    /\ tries' = tries + 1
    /\ UNCHANGED <<region, writer, rpc, s1, unread, copy, lastGood, stores>>

CopyWord(w) ==
    /\ rpc = "copy"
    /\ w \in unread
    /\ copy' = [copy EXCEPT ![w] = data[w]]
    /\ unread' = unread \ {w}
    /\ UNCHANGED <<region, writer, rpc, s1, tries, lastGood, stores>>

\* Slip: the sequence number is not loaded again after the copy.
AcceptUnchecked ==
    /\ rpc = "copy"
    /\ unread = {}
    /\ lastGood' = copy
    /\ rpc' = "idle"
    /\ UNCHANGED <<region, writer, s1, unread, copy, tries, stores>>

Accept ==
    /\ rpc = "copy"
    /\ unread = {}
    /\ seq = s1
    /\ lastGood' = copy
    /\ rpc' = "idle"
    /\ UNCHANGED <<region, writer, s1, unread, copy, tries, stores>>

Discard ==
    /\ rpc = "copy"
    /\ unread = {}
    /\ seq # s1
    /\ tries' = tries + 1
    /\ rpc' = "load"
    /\ UNCHANGED <<region, writer, s1, unread, copy, lastGood, stores>>

GiveUp ==
    /\ rpc = "load"
    /\ tries = MaxRetries
    /\ rpc' = "idle"
    /\ UNCHANGED <<region, writer, s1, unread, copy, tries, lastGood, stores>>

-----------------------------------------------------------------------------

Write == BeginWrite \/ (\E w \in Words : StoreWord(w)) \/ EndWrite

Read ==
    \/ BeginRead \/ LoadEven \/ LoadOdd
    \/ (\E w \in Words : CopyWord(w))
    \/ Accept \/ Discard \/ GiveUp

Next == Write \/ Read

\* The reader's steps are straight-line code of a running loop.  Nothing is
\* assumed of the writer: it may stop between any two of its stores.
Spec == Init /\ [][Next]_vars /\ WF_vars(Read)

\* Writers that stop half way and are followed by another.
CrashSpec == Init /\ [][Next \/ Crash]_vars /\ WF_vars(Read)

-----------------------------------------------------------------------------
(* Properties.                                                             *)

\* No snapshot the reader works with mixes two writes, whatever the
\* interleaving of the writer's and the reader's stores and loads
\* ("guaranteeing `read_fn` never sees a torn write", shm.rs).
NoTornRead == \E v \in Attempts : lastGood = Whole(v)

\* A read that succeeds returns the write that is complete at the moment it
\* returns, so nothing older than the newest complete write is ever accepted
\* and a later read never goes back to an earlier write.
ReadIsCurrent == [][lastGood' # lastGood => lastGood' = Whole(committed)]_vars

\* The region with its retries and fallback implements one atomic register.
Register == INSTANCE SharedRegister WITH
    Snapshot <- {Whole(v) : v \in Attempts},
    register <- Whole(committed),
    held     <- lastGood

RegisterSpec == Register!Spec

\* A read always ends, however the writer interferes and even if it stopped
\* for good in the middle of a write: the control loop cannot be held up.
ReadEnds == rpc = "load" ~> rpc = "idle"

=============================================================================
