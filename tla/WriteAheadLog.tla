---------------------------- MODULE WriteAheadLog ----------------------------
(***************************************************************************)
(* The write-ahead log: the WAL thread appends each entry it receives to a *)
(* buffered file and syncs the file every few entries and at the end       *)
(* (engine/wal.rs, wal_thread_loop of engine/runtime/threads.rs).          *)
(*                                                                         *)
(* The engine creates the channel and the thread, but every statement that *)
(* would send an entry is commented out.  Sending is therefore external:   *)
(* it stands for any holder of wal_tx.                                     *)
(*                                                                         *)
(* An entry reaches the file in three pieces: the beginning and the rest   *)
(* of its JSON text, which writeln! puts into the buffer together, and the *)
(* line end, which it puts there by itself.  A write(2) may take fewer     *)
(* pieces than it is given.  The kernel is external: it fails at most      *)
(* MaxFaults times, and the process or the machine crashes at most         *)
(* MaxCrashes times.                                                       *)
(***************************************************************************)
EXTENDS Integers, Sequences, FiniteSets, SequencesExt

CONSTANTS SyncInterval,   \* sync_interval
          BufferSize,     \* pieces the BufWriter holds
          QueueCapacity,  \* capacity of the channel to the thread
          MaxEntries,     \* bound: entries sent
          MaxFaults,      \* bound: failed system calls
          MaxCrashes      \* bound: crashes

(* The buffer is larger than any entry, so none is written past it.        *)
ASSUME LogAssumption ==
  /\ {SyncInterval, QueueCapacity} \subseteq Nat \ {0}
  /\ BufferSize \in Nat /\ BufferSize > 2
  /\ {MaxEntries, MaxFaults, MaxCrashes} \subseteq Nat

Entry == 1 .. MaxEntries
Beginning == 1
Rest == 2
LineEnd == 3
Piece == Entry \X {Beginning, Rest, LineEnd}

(* pieces: the file as the kernel shows it; synced: how many of them a     *)
(* crash of the machine cannot take; damaged: pages of a failed fsync were *)
(* given up, and no later fsync writes them; openings: processes that      *)
(* opened the file.                                                        *)
File == [pieces : Seq(Piece), synced : Nat, damaged : BOOLEAN, openings : Nat]
NoFile == [pieces |-> << >>, synced |-> 0, damaged |-> FALSE, openings |-> 0]

VARIABLES queue,               \* the channel wal_rx receives from
          closed,              \* every sender is dropped
          phase,               \* where the thread stands
          ending,              \* it syncs for the last time
          entry,               \* the entry it appends
          buffer,              \* pieces in the BufWriter
          entries_since_sync,  \* appended since the last sync
          files,               \* second -> the file named after it
          now,                 \* the second the process started in
          sent,                \* entries sent so far
          born,                \* entries sent before this process started
          faults,              \* failed system calls so far
          crashes              \* crashes so far

channel == <<queue, closed, sent>>
writer == <<buffer, entries_since_sync>>
world == <<now, born, faults, crashes>>
vars == <<channel, phase, ending, entry, writer, files, world>>

-----------------------------------------------------------------------------
(* The environment of the thread.                                          *)

Send ==
  /\ ~closed /\ sent < MaxEntries /\ Len(queue) < QueueCapacity
  /\ sent' = sent + 1
  /\ queue' = Append(queue, sent + 1)
  /\ UNCHANGED <<closed, phase, ending, entry, writer, files, world>>

(* stop() drops the last sender and joins the thread.                      *)
Close ==
  /\ ~closed
  /\ closed' = TRUE
  /\ UNCHANGED <<queue, sent, phase, ending, entry, writer, files, world>>

(* Mutant: the file is opened for writing from its start.                  *)
OpenedAnew(file) == [NoFile EXCEPT !.openings = file.openings + 1]
Opened(file) == [file EXCEPT !.openings = @ + 1]

(* WalWriter::new: the file is named after the second and opened to append *)
(* to it, be it new or not.                                                *)
Open ==
  /\ phase = "open"
  /\ files' = [files EXCEPT ![now] = Opened(@)]
  /\ phase' = "receive"
  /\ UNCHANGED <<channel, ending, entry, writer, world>>

(* Without a writer the thread is over.                                    *)
OpenFails ==
  /\ phase = "open" /\ faults < MaxFaults
  /\ faults' = faults + 1
  /\ phase' = "stopped"
  /\ UNCHANGED <<channel, ending, entry, writer, files, now, born, crashes>>

Receive ==
  /\ phase = "receive" /\ queue # << >>
  /\ entry' = Head(queue) /\ queue' = Tail(queue)
  /\ phase' = "text"
  /\ UNCHANGED <<closed, sent, ending, writer, files, world>>

(* Mutants: the thread breaks off without the last sync, or never.         *)
AtEndGoesOn == phase' = "receive" /\ UNCHANGED ending
AtEndUnsynced == phase' = "stopped" /\ ending' = TRUE
AtEnd == phase' = "flush" /\ ending' = TRUE

(* recv() fails once the channel is closed and empty.                      *)
Disconnected ==
  /\ phase = "receive" /\ queue = << >> /\ closed
  /\ AtEnd
  /\ UNCHANGED <<channel, entry, writer, files, world>>

-----------------------------------------------------------------------------
(* append() and sync().                                                    *)

(* Mutant: room is looked for after the pieces are put into the buffer.    *)
FitsNow(n) == Len(buffer) <= BufferSize
Fits(n) == Len(buffer) + n <= BufferSize

WriteText ==
  /\ phase = "text" /\ Fits(2)
  /\ buffer' = buffer \o << <<entry, Beginning>>, <<entry, Rest>> >>
  /\ phase' = "newline"
  /\ UNCHANGED <<channel, ending, entry, entries_since_sync, files, world>>

(* Mutant: write! instead of writeln!.                                     *)
NoEnding(e) == << >>
Ending(e) == << <<e, LineEnd>> >>

(* Mutant: the file is synced one entry late.                              *)
SyncDueLate(n) == n > SyncInterval
SyncDue(n) == n >= SyncInterval

WriteLineEnd ==
  /\ phase = "newline" /\ Fits(1)
  /\ buffer' = buffer \o Ending(entry)
  /\ entries_since_sync' = entries_since_sync + 1
  /\ phase' = IF SyncDue(entries_since_sync') THEN "flush" ELSE "receive"
  /\ UNCHANGED <<channel, ending, entry, files, world>>

(* A full buffer is written before more goes into it, and sync() writes    *)
(* whatever it holds: n pieces at a time, in a loop.                       *)
Draining ==
  \/ phase = "text" /\ ~Fits(2)
  \/ phase = "newline" /\ ~Fits(1)
  \/ phase = "flush" /\ buffer # << >>

Drain(n) ==
  /\ Draining
  /\ files' = [files EXCEPT ![now].pieces = @ \o SubSeq(buffer, 1, n)]
  /\ buffer' = SubSeq(buffer, n + 1, Len(buffer))

(* flush_buf leaves its loop only when the buffer is empty.                *)
Write ==
  /\ Drain(Len(buffer))
  /\ UNCHANGED <<channel, phase, ending, entry, entries_since_sync, world>>

(* An error ends append() or the last sync(); the thread only logs it.     *)
GiveUp == phase' = IF ending THEN "stopped" ELSE "receive"

(* What was not written stays in the buffer.                               *)
WriteFails ==
  /\ faults < MaxFaults
  /\ \E n \in 0 .. Len(buffer) - 1 : Drain(n)
  /\ faults' = faults + 1
  /\ GiveUp
  /\ UNCHANGED <<channel, ending, entry, entries_since_sync, now, born, crashes>>

Flushed ==
  /\ phase = "flush" /\ buffer = << >>
  /\ phase' = "fsync"
  /\ UNCHANGED <<channel, ending, entry, writer, files, world>>

Fsync ==
  /\ phase = "fsync"
  /\ files' = [files EXCEPT ![now].synced = IF files[now].damaged THEN @
                                            ELSE Len(files[now].pieces)]
  /\ entries_since_sync' = 0
  /\ GiveUp
  /\ UNCHANGED <<channel, ending, entry, buffer, world>>

(* The kernel may give up the pages it could not write.                    *)
FsyncFails ==
  /\ phase = "fsync" /\ faults < MaxFaults
  /\ faults' = faults + 1
  /\ \E damage \in {files[now].damaged, TRUE} :
        files' = [files EXCEPT ![now].damaged = damage]
  /\ GiveUp
  /\ UNCHANGED <<channel, ending, entry, writer, now, born, crashes>>

-----------------------------------------------------------------------------
(* Crashes.  The next process may start within the same second.            *)

Restart ==
  /\ crashes < MaxCrashes
  /\ crashes' = crashes + 1
  /\ now' \in {now, now + 1}
  /\ queue' = << >> /\ closed' = FALSE /\ born' = sent
  /\ phase' = "open" /\ ending' = FALSE /\ entry' = 0
  /\ buffer' = << >> /\ entries_since_sync' = 0
  /\ UNCHANGED <<sent, faults>>

(* A process that dies while it drains its buffer may have written a part; *)
(* one that dies elsewhere has not.                                        *)
LeftBehind(n) ==
  [files EXCEPT ![now].pieces = @ \o SubSeq(buffer, 1, n)]

ProcessCrash ==
  /\ Restart
  /\ \E n \in 0 .. Len(buffer) : (n > 0 => Draining) /\ files' = LeftBehind(n)

(* What was not synced may be lost, from some piece on.                    *)
MachineCrash ==
  /\ Restart
  /\ \E kept \in [DOMAIN files -> 0 .. 3 * MaxEntries] :
        /\ \A f \in DOMAIN files : kept[f] \in files[f].synced .. Len(files[f].pieces)
        /\ files' = [f \in DOMAIN files |->
                       [files[f] EXCEPT !.pieces = SubSeq(@, 1, kept[f])]]

-----------------------------------------------------------------------------
Init ==
  /\ queue = << >> /\ closed = FALSE
  /\ phase = "open" /\ ending = FALSE /\ entry = 0
  /\ buffer = << >> /\ entries_since_sync = 0
  /\ files = [second \in 1 .. MaxCrashes + 1 |-> NoFile]
  /\ now = 1
  /\ sent = 0 /\ born = 0
  /\ faults = 0 /\ crashes = 0

AppendEntry == WriteText \/ WriteLineEnd \/ Write \/ WriteFails
Sync == Flushed \/ Fsync \/ FsyncFails

LogThread == \/ Open \/ OpenFails
             \/ Receive \/ AppendEntry \/ Sync
             \/ Disconnected

Next == \/ Send \/ Close
        \/ LogThread
        \/ ProcessCrash \/ MachineCrash

(* The thread is scheduled, and a system call returns.                     *)
Spec == Init /\ [][Next]_vars /\ WF_vars(LogThread)

=============================================================================
