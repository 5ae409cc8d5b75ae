----------------------------- MODULE KvRecovery -----------------------------
(***************************************************************************)
(* KvStore with a process that may die at any step and start again.        *)
(*   - The data file is written through the operating system: what WriteAt *)
(*     returned for is there after the restart.                            *)
(*   - The free list is saved inside every operation that changes it, by   *)
(*     truncating its file and encoding into it: a process that dies in     *)
(*     between leaves a file that does not decode. Then fl.load fails in    *)
(*     every operation, for good: no block is handed out, and what is freed *)
(*     is lost, since no handler looks at the error of MarkAsFree.          *)
(*   - The index reaches its files through unsent lines, a channel, a buffer *)
(*     and snapshots (module IndexWal), any of which may be behind, in       *)
(*     another order, or fail. Here a restart finds of each key some entry   *)
(*     that it had before, whichever: nothing is promised of the log but    *)
(*     that it makes no entries up. (A line cut in two by a full disk might. *)
(*     It is left out.)                                                     *)
(***************************************************************************)
EXTENDS KvStore

VARIABLES
    logged,   \* per key: the entries it has had, one of which the files give back
    torn      \* the file of the free list does not decode

rvars == <<vars, logged, torn>>

NoBlocks == [k \in {} |-> NoSpan]

RInit == Init /\ logged = [k \in Keys |-> {index[k]}] /\ torn = FALSE

\* saveElement and removeElement leave a line of the change, see Reborn.
Remember == logged' = [k \in Keys |-> logged[k] \cup {index'[k]}]

\* With a torn list GetBlock and SaveBlockCheck find no block, as on an empty
\* one, and MarkAsFree files none: see MarkLost.
Loaded == Next /\ (torn => free' = free)

\* MarkAsFree answers the error of fl.load.
MarkLost(c) ==
    /\ torn /\ pc[c] = "mark"
    /\ Return(c)
    /\ UNCHANGED <<store, queue>>

\* An operation that saves the free list may be at it: MarkAsFree, a
\* SaveBlockCheck or a GetBlock that has found a block.
SavingList ==
    \/ worker.mode = "collect" /\ worker.total > 0
       /\ chan = <<>> /\ Fitting(free, worker.total) # {}
    \/ \E c \in Clients :
          \/ pc[c] = "mark"
          \/ pc[c] \in {"written", "directWritten"}
             /\ Covering(free, req[c].span) # {}
          \/ c \in DirectSavers /\ pc[c] = "idle"
             /\ \E w \in Workload : Fitting(free, Size[w[2]]) # {}

\* What loadSnapshot and applyWalFile may rebuild the index from.
Recoverable ==
    {found \in [Keys -> UNION {logged[k] : k \in Keys}] :
        \A k \in Keys : found[k] \in logged[k]}

\* The process dies and starts again.
Reborn ==
    /\ index' \in Recoverable
    /\ chan' = <<>> /\ batch' = <<>> /\ worker' = Idle
    /\ pc' = [c \in Clients |-> "idle"]
    /\ req' = [c \in Clients |-> NoRequest]
    /\ UNCHANGED <<disk, eof, logged>>

\* fl.load finds the list as it was last saved, or torn as it was.
Restart == Reborn /\ UNCHANGED <<free, torn>>

\* The process dies between os.Create and the end of Encode.
RestartTorn ==
    /\ ~torn /\ SavingList
    /\ Reborn
    /\ torn' = TRUE /\ free' = NoBlocks

RNext == \/ (Loaded \/ \E c \in Clients : MarkLost(c)) /\ Remember /\ UNCHANGED torn
         \/ Restart
         \/ RestartTorn

RSpec == RInit /\ [][RNext]_rvars

\* Two restrictions of RSpec under which a restart is harmless. The first: the
\* process dies only when its files have every change of the index, as they have
\* 50 ms after the last one; a write, a save of the free list, or what a handler
\* does with a span may be cut short.
FlushedNext == RNext /\ (Restart \/ RestartTorn => index' = index)
FlushedSpec == RInit /\ [][FlushedNext]_rvars

\* The second: nothing is freed, neither by a free nor by a save over an old entry.
\* The process may die at any step.
NoneFreed == \A c \in Clients : pc[c] # "mark"
KeepingNext == RNext /\ NoneFreed'
KeepingSpec == RInit /\ [][KeepingNext]_rvars

-----------------------------------------------------------------------------
(* Properties. *)

\* The log never runs ahead of the file: no restart brings back an entry that
\* points beyond the end of the data file.
LoggedWithinFile == \A k \in Keys : \A s \in logged[k] : s.end <= eof

\* Whatever entry of a key a restart brings back, it points at a value that was
\* saved for the key.
LoggedPointsAtData ==
    \A k \in Keys : \A s \in logged[k] \ {NoSpan} :
        \E v \in Values : <<k, v>> \in Workload /\ Holds(disk, s, v)

\* What makes it inductive, under KeepingSpec: no write ever goes to the middle of
\* the file, and what was written there belongs to one key.
OnlyAppends ==
    /\ DOMAIN free = {}
    /\ worker.mode # "reuse"
    /\ \A c \in Clients : pc[c] \notin {"directReuse", "directWritten"}
LoggedApart ==
    \A j, k \in Keys : j # k =>
        \A s \in logged[j], t \in logged[k] : Apart(s, t)
NewApart ==
    \A c \in Clients : pc[c] \in {"written", "store"} =>
        \A k \in Keys : \A s \in logged[k] : Apart(req[c].span, s)
KeepingInv ==
    /\ OneWriterInv /\ NoneFreed /\ OnlyAppends
    /\ LoggedPointsAtData /\ LoggedApart /\ NewApart

\* A read that has looked up its span finds a value of its key there, whatever is
\* saved until its turn comes.
ReadersHold ==
    \A c \in Clients : pc[c] \in Asking =>
        \E v \in Values :
            <<req[c].key, v>> \in Workload /\ Holds(disk, req[c].span, v)
=============================================================================
