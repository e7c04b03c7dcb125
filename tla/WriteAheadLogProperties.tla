----------------------- MODULE WriteAheadLogProperties -----------------------
(***************************************************************************)
(* What WriteAheadLog guarantees: which entries a file holds, which of     *)
(* them a crash can take, and that the thread ends.                        *)
(***************************************************************************)
EXTENDS WriteAheadLog

TypeOK ==
  /\ queue \in Seq(Entry) /\ Len(queue) <= QueueCapacity
  /\ phase \in {"open", "receive", "text", "newline", "flush", "fsync", "stopped"}
  /\ closed \in BOOLEAN /\ ending \in BOOLEAN
  /\ entry \in 0 .. MaxEntries
  /\ buffer \in Seq(Piece) /\ Len(buffer) <= BufferSize
  /\ entries_since_sync \in 0 .. MaxEntries
  /\ DOMAIN files = 1 .. MaxCrashes + 1
  /\ \A f \in DOMAIN files : files[f] \in File
  /\ now \in DOMAIN files
  /\ sent \in 0 .. MaxEntries /\ born \in 0 .. sent
  /\ faults \in 0 .. MaxFaults /\ crashes \in 0 .. MaxCrashes

-----------------------------------------------------------------------------
(* WalReader::read_all.                                                    *)

(* Each line is an entry's text, and nothing of another one; the last line *)
(* may lack its end.                                                       *)
Readable(pieces) ==
  \A i \in DOMAIN pieces :
     CASE pieces[i][2] = Beginning ->
            /\ i > 1 => pieces[i - 1][2] = LineEnd
            /\ i < Len(pieces)
       [] pieces[i][2] = Rest -> i > 1 /\ pieces[i - 1] = <<pieces[i][1], Beginning>>
       [] pieces[i][2] = LineEnd -> i > 1 /\ pieces[i - 1] = <<pieces[i][1], Rest>>

(* The entries in a file, each at the place where its text ends.           *)
Entries(pieces) ==
  [i \in {i \in DOMAIN pieces : pieces[i][2] = Rest} |-> pieces[i][1]]

(* One line that cannot be parsed makes it fail, and nothing is returned.  *)
ReadAll(pieces) ==
  IF Readable(pieces) THEN [ok |-> TRUE, entries |-> Entries(pieces)]
                      ELSE [ok |-> FALSE, entries |-> << >>]

Torn(pieces) == pieces # << >> /\ Last(pieces)[2] = Beginning

-----------------------------------------------------------------------------
(* A file one process wrote holds entries in the order they were sent, and *)
(* none twice.  If no system call failed, no entry is missing between two  *)
(* others, and reading the file fails just when its last line is torn      *)
(* (append of wal.rs, and read_all, which returns the entries in the order *)
(* of time or fails).                                                      *)
FilesHoldRuns ==
  \A f \in {f \in DOMAIN files : files[f].openings < 2} :
     LET pieces == files[f].pieces
         held == Entries(pieces)
     IN  /\ \A i, j \in DOMAIN held : i < j => held[i] < held[j]
         /\ faults = 0 =>
              /\ ReadAll(pieces).ok <=> ~Torn(pieces)
              /\ \A i, j \in DOMAIN held, e \in Entry :
                   held[i] < e /\ e < held[j] => e \in Range(held)

(* What a crash leaves of a file can be read after the restart, as far as  *)
(* it was written: tests/recovery.rs:112-115 wants an entry whose writing  *)
(* was cut off to be ignored in the recovery, which wal.rs:9 and 211 make  *)
(* the purpose of the log.  read_all fails instead, on the whole file.     *)
CrashLeavesReadable ==
  \A f \in {f \in DOMAIN files : files[f].openings = 1} :
     f # now \/ phase = "open" => ReadAll(files[f].pieces).ok

(* The entries this process received whose text a crash of the machine     *)
(* could take now.                                                         *)
AtRisk ==
  {e \in born + 1 .. entry :
     <<e, Rest>> \notin ToSet(SubSeq(files[now].pieces, 1, files[now].synced))}

(* Without failures a crash takes less than sync_interval of the entries   *)
(* the thread is done with (wal.rs append: fsync every N entries), and     *)
(* none once the thread has ended: then everything that was sent to it is  *)
(* on disk (stop_impl joins it for the last sync).                         *)
BoundedLoss ==
  faults = 0 =>
    /\ Cardinality(AtRisk) <= SyncInterval
    /\ phase = "receive" => Cardinality(AtRisk) < SyncInterval
    /\ phase = "stopped" => sent \in {entry, born} /\ AtRisk = {}

(* What is synced stays as it is, whichever process opens the file later   *)
(* (wal.rs new opens the file to append to it).                            *)
SyncedStays ==
  [][\A f \in DOMAIN files :
       /\ files'[f].synced >= files[f].synced
       /\ SubSeq(files'[f].pieces, 1, files[f].synced)
            = SubSeq(files[f].pieces, 1, files[f].synced)]_vars

(* stop() returns from joining the thread: after the channel is closed the *)
(* thread ends, or a crash starts the next process.                        *)
ThreadEnds == closed ~> phase = "stopped" \/ ~closed

=============================================================================
