---------------------------- MODULE DeviceStorage ---------------------------
(***************************************************************************)
(* Where the web app keeps its state (apps/web/src/lib/storage.ts): one    *)
(* record in IndexedDB and, when IndexedDB is late or fails, a copy in     *)
(* localStorage.  A write is given 900 ms; after that the caller goes on   *)
(* with the copy, but the put is not withdrawn and may still be carried    *)
(* out.                                                                    *)
(*                                                                         *)
(* A write ends for its caller when the request of the put succeeds        *)
(* (storage.ts:32).  IndexedDB commits the transaction only after that,    *)
(* and may still abort it: nobody listens for it.  IndexedDB carries out   *)
(* the puts of a page in the order of the calls, because every call opens  *)
(* the same database and overlapping readwrite transactions run one after  *)
(* the other, in the order they were created.                              *)
(*                                                                         *)
(* Every operator below says what one event does to the storage; module    *)
(* DeviceApp combines it with what the event does to the page.             *)
(***************************************************************************)
EXTENDS Naturals, SequencesExt

CONSTANTS
    Content,       \* what can be stored: the whole state of the app
    NoContent,     \* null
    Caller,        \* those that wait for their write to end
    Nobody,        \* the store effect of the page, which does not
    FallbackWorks, \* whether localStorage takes what it is given
    MaxFaults      \* bound of the model: things that are late or fail

VARIABLES
    idb,        \* the record in IndexedDB
    fallback,   \* the copy in localStorage
    txn,        \* the put that has succeeded and is not committed yet, if any
    puts,       \* writes whose caller has not been answered, in order
    late,       \* puts given up by the page and not carried out yet
    undone,     \* history: the last write was aborted after its success, or
                \* failed while an earlier one was awaited
    faults

PutType == [content : Content, caller : Caller \cup {Nobody}]

StorageTypeOK ==
    /\ {idb, fallback, txn} \subseteq Content \cup {NoContent}
    /\ puts \in Seq(PutType)
    /\ late \in Seq(Content)
    /\ undone \in BOOLEAN
    /\ faults \in 0..MaxFaults

StorageInit(content) ==
    /\ idb = content /\ fallback = NoContent /\ txn = NoContent
    /\ puts = <<>> /\ late = <<>> /\ undone = FALSE /\ faults = 0

\* writeStoredState is called: the put is on its way.
WriteStoredState(content, caller) ==
    /\ puts' = Append(puts, [content |-> content, caller |-> caller])
    /\ undone' = FALSE
    /\ UNCHANGED <<idb, fallback, txn, late, faults>>

\* The request of the oldest put succeeds: its caller drops the copy and goes on.
PutSucceeds ==
    /\ txn = NoContent /\ late = <<>> /\ puts # <<>>
    /\ txn' = Head(puts).content /\ puts' = Tail(puts)
    /\ fallback' = NoContent
    /\ UNCHANGED <<idb, late, undone, faults>>

\* The transaction of that put is committed ...
Commit ==
    /\ txn # NoContent
    /\ idb' = txn /\ txn' = NoContent
    /\ UNCHANGED <<fallback, puts, late, undone, faults>>

\* ... or aborted, for want of space or because the disk fails.  No copy is
\* left unless a later write leaves one.
Abort ==
    /\ txn # NoContent /\ faults < MaxFaults
    /\ txn' = NoContent
    /\ undone' = (undone \/ (late = <<>> /\ puts = <<>>))
    /\ faults' = faults + 1
    /\ UNCHANGED <<idb, fallback, puts, late>>

\* localStorage gets the content, or refuses it silently.
SaveCopy(content) == fallback' = IF FallbackWorks THEN content ELSE fallback

\* Mutant: the put that is given up keeps the caller it had.
GiveUpPut ==
    /\ puts # <<>> /\ faults < MaxFaults
    /\ puts' = Tail(puts) /\ late' = Append(late, Head(puts))
    /\ SaveCopy(Head(puts).content)
    /\ faults' = faults + 1
    /\ UNCHANGED <<idb, txn, undone>>

\* 900 ms are over: the caller goes on with a copy, the put with nobody.
PutTimesOut ==
    /\ puts # <<>> /\ faults < MaxFaults
    /\ puts' = Tail(puts) /\ late' = Append(late, Head(puts).content)
    /\ SaveCopy(Head(puts).content)
    /\ faults' = faults + 1
    /\ UNCHANGED <<idb, txn, undone>>

\* Mutant: a failed put ends the write without a copy.
DropPut(i) ==
    /\ i \in DOMAIN puts /\ faults < MaxFaults
    /\ puts' = RemoveAt(puts, i)
    /\ faults' = faults + 1
    /\ UNCHANGED <<idb, fallback, txn, late, undone>>

\* A put fails while its caller waits, at its request or, in any order, when it
\* opens the database.  The success of an earlier one will remove the copy.
PutFails(i) ==
    /\ i \in DOMAIN puts /\ faults < MaxFaults
    /\ puts' = RemoveAt(puts, i)
    /\ SaveCopy(puts[i].content)
    /\ undone' = (undone \/ (i > 1 /\ i = Len(puts)))
    /\ faults' = faults + 1
    /\ UNCHANGED <<idb, txn, late>>

\* A put that was given up is carried out after all ...
LatePutCommits ==
    /\ txn = NoContent /\ late # <<>>
    /\ idb' = Head(late) /\ late' = Tail(late)
    /\ UNCHANGED <<fallback, txn, puts, undone, faults>>

\* ... or fails: nobody notices either.
LatePutFails ==
    /\ late # <<>> /\ faults < MaxFaults
    /\ late' = Tail(late)
    /\ faults' = faults + 1
    /\ UNCHANGED <<idb, fallback, txn, puts, undone>>

\* readStoredState when a page opens: IndexedDB answers in time, or the copy
\* in localStorage is taken for the state, also when there is none.
ReadStoredState(content) ==
    /\ \/ content = idb /\ UNCHANGED faults
       \/ content = fallback /\ faults < MaxFaults /\ faults' = faults + 1
    /\ UNCHANGED <<idb, fallback, txn, puts, late, undone>>

\* The page is gone, with the puts that have not been carried out; the
\* transaction that was to be committed may or may not be.
ClosePage ==
    /\ idb' \in {idb, IF txn = NoContent THEN idb ELSE txn}
    /\ txn' = NoContent /\ puts' = <<>> /\ late' = <<>> /\ undone' = FALSE
    /\ UNCHANGED <<fallback, faults>>
=============================================================================
