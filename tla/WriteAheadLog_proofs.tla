------------------------ MODULE WriteAheadLog_proofs ------------------------
(***************************************************************************)
(* Proofs about WriteAheadLog: what the files hold, what a crash may take  *)
(* and what it may not, for every number of entries, buffer size, sync     *)
(* interval, failure and crash.                                            *)
(***************************************************************************)
EXTENDS WriteAheadLogProperties, SequenceTheorems, FiniteSetTheorems, TLAPS

Working == phase \in {"receive", "text", "newline", "flush", "fsync"}
Appending == phase \in {"text", "newline"}

(* The last entry received by this process, the last one whose text it put *)
(* into the buffer, and the last one it is done with.                      *)
Received == IF entry = 0 THEN born ELSE entry
Written == IF phase = "text" THEN entry - 1 ELSE Received
Finished == IF Appending THEN entry - 1 ELSE Received

(* The file as it will be once the buffer is in it.                        *)
Stream == files[now].pieces \o buffer

(* The entries arrive in the order they were sent, none is missing.        *)
Counts ==
  /\ entry # 0 => born < entry
  /\ Received + Len(queue) = sent
  /\ \A i \in DOMAIN queue : queue[i] = Received + i
  /\ Appending => entry # 0
  /\ phase = "open" => entry = 0
  /\ entries_since_sync + born <= Finished
  /\ now <= crashes + 1
  /\ ending => closed /\ queue = << >> /\ phase \in {"flush", "fsync", "stopped"}

(* Only a process that opened its file writes to it.                       *)
Opens ==
  /\ \A f \in DOMAIN files : /\ files[f].synced <= Len(files[f].pieces)
                             /\ files[f].openings = 0 => files[f].pieces = << >>
  /\ Working => files[now].openings # 0
  /\ phase \in {"open", "fsync"} => buffer = << >>

Increasing(pieces) ==
  \A i, j \in DOMAIN pieces :
    i < j /\ pieces[i][2] = Rest /\ pieces[j][2] = Rest => pieces[i][1] < pieces[j][1]

(* Each text goes behind those of older entries.                           *)
Ordered ==
  /\ \A f \in DOMAIN files : files[f].openings < 2 => Increasing(files[f].pieces)
  /\ Working /\ files[now].openings < 2 =>
       /\ Increasing(Stream)
       /\ \A i \in DOMAIN Stream : Stream[i][2] = Rest => Stream[i][1] <= Written

(* The three pieces of each entry, from some entry on.                     *)
IsRun(pieces, first) ==
  \A i \in DOMAIN pieces : i = 3 * (pieces[i][1] - first) + pieces[i][2]

(* Pieces of the entry being appended that are not in the buffer yet.      *)
Missing == CASE phase = "text" -> 3 [] phase = "newline" -> 1 [] OTHER -> 0

(* As long as no system call fails, a file one process wrote is a run, of  *)
(* all the entries the process received if it is still at work.            *)
Runs ==
  faults = 0 =>
    /\ \A f \in DOMAIN files : files[f].openings < 2 =>
         \E first \in 1 .. MaxEntries + 1 : IsRun(files[f].pieces, first)
    /\ Working /\ files[now].openings < 2 =>
         IsRun(Stream, born + 1) /\ Len(Stream) = 3 * (Received - born) - Missing

Holds(pieces, e) == \E i \in DOMAIN pieces : pieces[i] = <<e, Rest>>
Synced(e) == \E i \in 1 .. files[now].synced : files[now].pieces[i] = <<e, Rest>>

(* As long as no system call fails, whatever was written is in the file or *)
(* the buffer, and on disk but for the entries since the last sync.        *)
OnDisk ==
  faults = 0 =>
    /\ \A f \in DOMAIN files : ~files[f].damaged
    /\ Working => \A e \in born + 1 .. Written : Holds(Stream, e)
    /\ phase # "open" => \A e \in born + 1 .. Finished - entries_since_sync : Synced(e)
    /\ entries_since_sync <= SyncInterval
    /\ phase \in {"receive", "text", "newline"} => entries_since_sync < SyncInterval
    /\ phase = "stopped" => ending /\ entries_since_sync = 0

Whole == TypeOK /\ Counts /\ Opens
IInv == Whole /\ Ordered /\ Runs /\ OnDisk

-----------------------------------------------------------------------------
(* Sequences and pieces.                                                   *)

LEMMA PieceIs ==
  ASSUME NEW p \in Piece
  PROVE  /\ p[1] \in Entry /\ p[1] \in Nat /\ p[1] >= 1 /\ p[1] <= MaxEntries
         /\ p[2] \in 1 .. 3 /\ p = <<p[1], p[2]>>
BY LogAssumption DEF Piece, Entry, Beginning, Rest, LineEnd

LEMMA PiecesAre ==
  ASSUME NEW s \in Seq(Piece)
  PROVE  /\ Len(s) \in Nat /\ DOMAIN s = 1 .. Len(s)
         /\ \A i \in DOMAIN s : /\ s[i] \in Piece /\ s[i][1] \in Entry /\ s[i][1] \in Nat
                                /\ s[i][2] \in 1 .. 3 /\ s[i] = <<s[i][1], s[i][2]>>
<1>1. Len(s) \in Nat /\ DOMAIN s = 1 .. Len(s) /\ \A i \in 1 .. Len(s) : s[i] \in Piece
  BY LenProperties, ElementOfSeq
<1>. QED
  BY <1>1, PieceIs

(* The first pieces of a sequence, and the rest of them.                   *)
LEMMA FirstOnes ==
  ASSUME NEW S, NEW s \in Seq(S), NEW n \in 0 .. Len(s)
  PROVE  /\ SubSeq(s, 1, n) \in Seq(S) /\ Len(SubSeq(s, 1, n)) = n
         /\ DOMAIN SubSeq(s, 1, n) = 1 .. n
         /\ \A i \in 1 .. n : SubSeq(s, 1, n)[i] = s[i]
<1>1. Len(s) \in Nat /\ \A i \in 1 .. n : s[i] \in S
  BY LenProperties, ElementOfSeq
<1>2. PICK t : t = SubSeq(s, 1, n)
  OBVIOUS
<1>3. n \in Nat /\ 1 \in Int
  BY <1>1
<1>4. /\ t \in Seq(S) /\ Len(t) = (IF 1 <= n THEN n - 1 + 1 ELSE 0)
      /\ \A i \in 1 .. n - 1 + 1 : t[i] = s[1 + i - 1]
  BY <1>1, <1>2, <1>3, SubSeqProperties
<1>5. Len(t) = n /\ \A i \in 1 .. n : t[i] = s[i]
  BY <1>3, <1>4
<1>6. DOMAIN t = 1 .. Len(t)
  BY <1>4, LenProperties
<1>. QED
  BY <1>2, <1>4, <1>5, <1>6

LEMMA LastOnes ==
  ASSUME NEW S, NEW s \in Seq(S), NEW n \in 0 .. Len(s)
  PROVE  /\ SubSeq(s, n + 1, Len(s)) \in Seq(S)
         /\ Len(SubSeq(s, n + 1, Len(s))) = Len(s) - n
<1>1. PICK m : m = Len(s)
  OBVIOUS
<1>2. m \in Nat /\ n \in Nat /\ n <= m
  BY <1>1, LenProperties
<1>3. \A i \in n + 1 .. m : s[i] \in S
  BY <1>1, <1>2, ElementOfSeq
<1>4. PICK t : t = SubSeq(s, n + 1, m)
  OBVIOUS
<1>5. t \in Seq(S) /\ Len(t) = IF n + 1 <= m THEN m - (n + 1) + 1 ELSE 0
  BY <1>2, <1>3, <1>4, SubSeqProperties
<1>6. Len(t) = m - n
  BY <1>2, <1>5
<1>. QED
  BY <1>1, <1>4, <1>5, <1>6

(* Pieces that move from the front of one sequence to the end of another.  *)
LEMMA Moved ==
  ASSUME NEW S, NEW s \in Seq(S), NEW t \in Seq(S), NEW n \in 0 .. Len(t)
  PROVE  (s \o SubSeq(t, 1, n)) \o SubSeq(t, n + 1, Len(t)) = s \o t
<1>1. PICK m : m = Len(t)
  OBVIOUS
<1>2. m \in Nat /\ 1 \in 1 .. m + 1 /\ n \in 1 - 1 .. m /\ m \in n .. m
  BY <1>1, LenProperties
<1>3. PICK u \in Seq(S), v \in Seq(S) : u = SubSeq(t, 1, n) /\ v = SubSeq(t, n + 1, m)
  BY <1>1, FirstOnes, LastOnes
<1>4. u \o v = SubSeq(t, 1, m)
  BY <1>1, <1>2, <1>3, ConcatAdjacentSubSeq
<1>5. SubSeq(t, 1, m) = t
  BY <1>1, SubSeqFull
<1>6. (s \o u) \o v = s \o (u \o v)
  BY ConcatAssociative, SMTT(30)
<1>. QED
  BY <1>1, <1>3, <1>4, <1>5, <1>6

(* One sequence begins another.                                            *)
Begins(p, s) == \A i \in DOMAIN p : i \in DOMAIN s /\ s[i] = p[i]

LEMMA BeginsFirst ==
  ASSUME NEW S, NEW s \in Seq(S), NEW n \in 0 .. Len(s)
  PROVE  Begins(SubSeq(s, 1, n), s)
<1>1. n \in Nat /\ n <= Len(s) /\ Len(s) \in Nat /\ DOMAIN s = 1 .. Len(s)
  BY LenProperties
<1>. QED
  BY <1>1, FirstOnes DEF Begins

LEMMA BeginsConcat ==
  ASSUME NEW S, NEW s \in Seq(S), NEW t \in Seq(S)
  PROVE  /\ s \o t \in Seq(S) /\ Len(s \o t) = Len(s) + Len(t) /\ Begins(s, s \o t)
         /\ DOMAIN (s \o t) = 1 .. Len(s) + Len(t)
         /\ \A i \in 1 .. Len(t) : (s \o t)[Len(s) + i] = t[i]
<1>1. PICK r : r = s \o t
  OBVIOUS
<1>2. Len(s) \in Nat /\ Len(t) \in Nat /\ DOMAIN s = 1 .. Len(s)
  BY LenProperties
<1>3. /\ r \in Seq(S) /\ Len(r) = Len(s) + Len(t)
      /\ \A i \in 1 .. Len(s) + Len(t) : r[i] = IF i <= Len(s) THEN s[i] ELSE t[i - Len(s)]
  BY <1>1, ConcatProperties
<1>4. DOMAIN r = 1 .. Len(s) + Len(t)
  BY <1>3, LenProperties
<1>5. \A i \in 1 .. Len(t) : r[Len(s) + i] = t[i]
  <2>1. TAKE i \in 1 .. Len(t)
  <2>2. PICK l, j : l = Len(s) /\ j = l + i
    OBVIOUS
  <2>3. j \in 1 .. l + Len(t) /\ ~(j <= l) /\ j - l = i
    BY <1>2, <2>2
  <2>. QED
    BY <1>3, <2>2, <2>3
<1>6. Begins(s, r)
  BY <1>2, <1>3, <1>4 DEF Begins
<1>. QED
  BY <1>1, <1>3, <1>4, <1>5, <1>6

LEMMA BeginsMore ==
  ASSUME NEW S, NEW s \in Seq(S), NEW t \in Seq(S), NEW n \in 0 .. Len(t)
  PROVE  Begins(s \o SubSeq(t, 1, n), s \o t)
<1>1. PICK u, v : u = SubSeq(t, 1, n) /\ v = SubSeq(t, n + 1, Len(t))
  OBVIOUS
<1>2. u \in Seq(S) /\ v \in Seq(S)
  BY <1>1, FirstOnes, LastOnes
<1>3. s \o u \in Seq(S)
  BY <1>2, BeginsConcat
<1>4. Begins(s \o u, (s \o u) \o v)
  BY <1>2, <1>3, BeginsConcat
<1>5. (s \o u) \o v = s \o t
  BY <1>1, Moved
<1>. QED
  BY <1>1, <1>4, <1>5

(* What begins an ordered sequence or a run is one.                        *)
LEMMA OrderedBeginning ==
  ASSUME NEW p, NEW s, Begins(p, s), Increasing(s)
  PROVE  Increasing(p)
BY DEF Begins, Increasing

LEMMA RunBeginning ==
  ASSUME NEW p, NEW s, Begins(p, s), NEW first, IsRun(s, first)
  PROVE  IsRun(p, first)
BY DEF Begins, IsRun
-----------------------------------------------------------------------------
(* The files and what a step makes of them.                                *)

LEMMA FilesAre ==
  ASSUME TypeOK
  PROVE  /\ now \in DOMAIN files
         /\ \A f \in DOMAIN files :
              /\ files[f] \in File /\ files[f].pieces \in Seq(Piece)
              /\ files[f].synced \in Nat /\ files[f].openings \in Nat
              /\ files[f].damaged \in BOOLEAN /\ Len(files[f].pieces) \in Nat
              /\ DOMAIN files[f].pieces = 1 .. Len(files[f].pieces)
         /\ buffer \in Seq(Piece) /\ Len(buffer) \in Nat
         /\ Stream \in Seq(Piece) /\ Len(Stream) = Len(files[now].pieces) + Len(buffer)
         /\ DOMAIN Stream = 1 .. Len(Stream)
         /\ Begins(files[now].pieces, Stream)
<1>1. /\ now \in DOMAIN files /\ buffer \in Seq(Piece)
      /\ \A f \in DOMAIN files : /\ files[f] \in File /\ files[f].pieces \in Seq(Piece)
                                 /\ files[f].synced \in Nat /\ files[f].openings \in Nat
                                 /\ files[f].damaged \in BOOLEAN
  BY DEF TypeOK, File
<1>2. Len(buffer) \in Nat
  BY <1>1, LenProperties
<1>3. \A f \in DOMAIN files : /\ Len(files[f].pieces) \in Nat
                              /\ DOMAIN files[f].pieces = 1 .. Len(files[f].pieces)
  BY <1>1, PiecesAre
<1>4. PICK p \in Seq(Piece) : p = files[now].pieces
  BY <1>1
<1>5. /\ p \o buffer \in Seq(Piece) /\ Len(p \o buffer) = Len(p) + Len(buffer)
      /\ Begins(p, p \o buffer)
  BY <1>1, BeginsConcat
<1>6. DOMAIN (p \o buffer) = 1 .. Len(p \o buffer)
  BY <1>5, PiecesAre
<1>. QED
  BY <1>1, <1>2, <1>3, <1>4, <1>5, <1>6 DEF Stream

(* What a step on the file of the process leaves of the others.            *)
LEMMA UpdateOf ==
  ASSUME TypeOK, NEW file \in File, files' = [files EXCEPT ![now] = file]
  PROVE  /\ DOMAIN files' = DOMAIN files /\ files'[now] = file
         /\ \A f \in DOMAIN files : f # now => files'[f] = files[f]
         /\ \A f \in DOMAIN files : files'[f] \in File
BY DEF TypeOK

(* Pieces that move from the buffer to the file stay in the stream.        *)
LEMMA DrainOf ==
  ASSUME TypeOK, NEW n \in 0 .. Len(buffer),
         files' = [files EXCEPT ![now].pieces = @ \o SubSeq(buffer, 1, n)]
  PROVE  /\ DOMAIN files' = DOMAIN files
         /\ \A f \in DOMAIN files : f # now => files'[f] = files[f]
         /\ \A f \in DOMAIN files : files'[f] \in File
         /\ files'[now].pieces = files[now].pieces \o SubSeq(buffer, 1, n)
         /\ Begins(files'[now].pieces, Stream) /\ Begins(files[now].pieces, files'[now].pieces)
         /\ Len(files'[now].pieces) = Len(files[now].pieces) + n
         /\ files'[now].synced = files[now].synced
         /\ files'[now].openings = files[now].openings
         /\ files'[now].damaged = files[now].damaged
         /\ SubSeq(buffer, n + 1, Len(buffer)) \in Seq(Piece)
         /\ Len(SubSeq(buffer, n + 1, Len(buffer))) = Len(buffer) - n
         /\ files'[now].pieces \o SubSeq(buffer, n + 1, Len(buffer)) = Stream
<1>1. PICK p \in Seq(Piece) : p = files[now].pieces
  BY FilesAre
<1>2. PICK d \in Seq(Piece) : d = SubSeq(buffer, 1, n) /\ Len(d) = n
  BY FilesAre, FirstOnes
<1>3. /\ p \o d \in Seq(Piece) /\ Len(p \o d) = Len(p) + n /\ Begins(p, p \o d)
  BY <1>2, BeginsConcat
<1>4. PICK file : file = [files[now] EXCEPT !.pieces = p \o d]
  OBVIOUS
<1>5. /\ file \in File /\ file.pieces = p \o d /\ file.synced = files[now].synced
      /\ file.openings = files[now].openings /\ file.damaged = files[now].damaged
  BY <1>3, <1>4, FilesAre DEF File
<1>6. files' = [files EXCEPT ![now] = file]
  BY <1>1, <1>2, <1>4
<1>7. /\ DOMAIN files' = DOMAIN files /\ files'[now] = file
      /\ \A f \in DOMAIN files : f # now => files'[f] = files[f]
      /\ \A f \in DOMAIN files : files'[f] \in File
  BY <1>5, <1>6, UpdateOf
<1>8. /\ SubSeq(buffer, n + 1, Len(buffer)) \in Seq(Piece)
      /\ Len(SubSeq(buffer, n + 1, Len(buffer))) = Len(buffer) - n
  BY FilesAre, LastOnes
<1>9. (p \o SubSeq(buffer, 1, n)) \o SubSeq(buffer, n + 1, Len(buffer)) = p \o buffer
  BY FilesAre, Moved
<1>10. Begins(p \o SubSeq(buffer, 1, n), p \o buffer)
  BY FilesAre, BeginsMore
<1>. QED
  BY <1>1, <1>2, <1>3, <1>5, <1>7, <1>8, <1>9, <1>10 DEF Stream

(* Pieces put into the buffer are at the end of the stream.                *)
LEMMA PutOf ==
  ASSUME TypeOK, NEW t \in Seq(Piece), buffer' = buffer \o t, files' = files, now' = now
  PROVE  /\ buffer' \in Seq(Piece) /\ Len(buffer') = Len(buffer) + Len(t)
         /\ Stream' \in Seq(Piece) /\ Len(Stream') = Len(Stream) + Len(t)
         /\ Begins(Stream, Stream') /\ DOMAIN Stream' = 1 .. Len(Stream) + Len(t)
         /\ \A i \in 1 .. Len(t) : Stream'[Len(Stream) + i] = t[i]
<1>1. PICK p \in Seq(Piece) : p = files[now].pieces
  BY FilesAre
<1>2. buffer \in Seq(Piece) /\ buffer \o t \in Seq(Piece) /\ Len(buffer \o t) = Len(buffer) + Len(t)
  BY FilesAre, BeginsConcat
<1>3. PICK b \in Seq(Piece) : b = buffer
  BY <1>2
<1>4. p \o (b \o t) = (p \o b) \o t
  BY ConcatAssociative, SMTT(30)
<1>5. Stream = p \o b /\ Stream' = Stream \o t
  BY <1>1, <1>3, <1>4 DEF Stream
<1>6. PICK s \in Seq(Piece) : s = Stream
  BY FilesAre
<1>7. /\ s \o t \in Seq(Piece) /\ Len(s \o t) = Len(s) + Len(t) /\ Begins(s, s \o t)
      /\ DOMAIN (s \o t) = 1 .. Len(s) + Len(t)
      /\ \A i \in 1 .. Len(t) : (s \o t)[Len(s) + i] = t[i]
  BY BeginsConcat
<1>. QED
  BY <1>2, <1>5, <1>6, <1>7

LEMMA TextPieces ==
  ASSUME entry \in Entry
  PROVE  /\ << <<entry, Beginning>>, <<entry, Rest>> >> \in Seq(Piece)
         /\ Len(<< <<entry, Beginning>>, <<entry, Rest>> >>) = 2
         /\ Ending(entry) \in Seq(Piece) /\ Len(Ending(entry)) = 1
BY DEF Ending, Piece, Beginning, Rest, LineEnd

-----------------------------------------------------------------------------
(* Types, counts and openings.                                             *)

QueueTypes == queue \in Seq(Entry) /\ Len(queue) <= QueueCapacity
BufferTypes == buffer \in Seq(Piece) /\ Len(buffer) <= BufferSize
PhaseTypes ==
  /\ phase \in {"open", "receive", "text", "newline", "flush", "fsync", "stopped"}
  /\ closed \in BOOLEAN /\ ending \in BOOLEAN
FileTypes ==
  /\ DOMAIN files = 1 .. MaxCrashes + 1
  /\ \A f \in DOMAIN files : files[f] \in File
  /\ now \in DOMAIN files
NumberTypes ==
  /\ entry \in 0 .. MaxEntries /\ entries_since_sync \in 0 .. MaxEntries
  /\ sent \in 0 .. MaxEntries /\ born \in 0 .. sent
  /\ faults \in 0 .. MaxFaults /\ crashes \in 0 .. MaxCrashes

LEMMA TypeParts ==
  TypeOK <=> QueueTypes /\ BufferTypes /\ PhaseTypes /\ FileTypes /\ NumberTypes
BY DEF TypeOK, QueueTypes, BufferTypes, PhaseTypes, FileTypes, NumberTypes

LEMMA TypePartsNext ==
  TypeOK' <=> QueueTypes' /\ BufferTypes' /\ PhaseTypes' /\ FileTypes' /\ NumberTypes'
BY TypeParts, PTL

LEMMA NumbersAre ==
  ASSUME TypeOK
  PROVE  /\ entry \in Nat /\ born \in Nat /\ sent \in Nat /\ entry <= MaxEntries
         /\ born <= sent /\ sent <= MaxEntries /\ MaxEntries \in Nat /\ MaxCrashes \in Nat
         /\ MaxFaults \in Nat /\ entries_since_sync \in Nat /\ SyncInterval \in Nat \ {0}
         /\ faults \in Nat /\ crashes \in Nat /\ now \in Nat
         /\ faults <= MaxFaults /\ crashes <= MaxCrashes
BY LogAssumption, TypeParts DEF NumberTypes, FileTypes

MarkTypes == Received \in Nat /\ Written \in Int /\ Finished \in Int

LEMMA MarksAre == TypeOK => MarkTypes
BY NumbersAre DEF MarkTypes, Received, Written, Finished

LEMMA MarksNext == TypeOK' => MarkTypes'
BY MarksAre, PTL

LEMMA QueueIs ==
  ASSUME TypeOK
  PROVE  queue \in Seq(Entry) /\ Len(queue) \in Nat /\ DOMAIN queue = 1 .. Len(queue)
BY LenProperties, TypeParts DEF QueueTypes

(* Steps that leave the files alone.                                       *)
LEMMA SameFiles ==
  ASSUME Opens, files' = files, now' = now, buffer' = buffer,
         Working' => Working,
         phase' \in {"open", "fsync"} => phase \in {"open", "fsync"} \/ buffer = << >>
  PROVE  Opens'
BY DEF Opens

LEMMA SameCounts ==
  ASSUME Counts, UNCHANGED <<queue, closed, sent, entry, born, entries_since_sync, now, crashes>>,
         Appending' = Appending, phase' = "open" => phase = "open",
         ending' => (ending \/ (closed /\ queue = << >>))
                    /\ phase' \in {"flush", "fsync", "stopped"}
  PROVE  Counts'
BY DEF Counts, Received, Finished

LEMMA ChannelWhole ==
  ASSUME Whole, Send \/ Close
  PROVE  Whole'
<1>0. TypeOK /\ Counts /\ Opens
  BY DEF Whole
<1>1. CASE Send
  <2>1. sent' = sent + 1 /\ sent < MaxEntries /\ queue' = Append(queue, sent + 1)
        /\ Len(queue) < QueueCapacity
        /\ UNCHANGED <<closed, phase, ending, entry, buffer, entries_since_sync, files, now,
                       born, faults, crashes>>
    BY <1>1 DEF Send, writer, world
  <2>2. sent + 1 \in Entry /\ sent' \in 0 .. MaxEntries /\ born' \in 0 .. sent'
    BY <1>0, <2>1, NumbersAre, SMTT(30) DEF Entry
  <2>3. /\ queue' \in Seq(Entry) /\ Len(queue') = Len(queue) + 1
        /\ queue'[Len(queue) + 1] = sent + 1
        /\ \A i \in 1 .. Len(queue) : queue'[i] = queue[i]
    BY <1>0, <2>1, <2>2, NumbersAre, MarksAre, QueueIs, AppendProperties DEF MarkTypes
  <2>4. DOMAIN queue' = 1 .. Len(queue) + 1
    BY <2>3, LenProperties
  <2>5. TypeOK'
    <3>1. QueueTypes'
      BY <1>0, <2>1, <2>3, NumbersAre, MarksAre, QueueIs, LogAssumption DEF MarkTypes, QueueTypes
    <3>2. NumberTypes'
      BY <1>0, <2>1, <2>2, TypeParts DEF NumberTypes
    <3>3. BufferTypes' /\ PhaseTypes' /\ FileTypes'
      BY <1>0, <2>1, TypeParts DEF BufferTypes, PhaseTypes, FileTypes
    <3>. QED
      BY <3>1, <3>2, <3>3, TypePartsNext
  <2>6. Counts'
    <3>1. Received' = Received /\ Finished' = Finished /\ Appending' = Appending
      BY <2>1 DEF Received, Finished, Appending
    <3>2. Received + Len(queue) = sent /\ \A i \in DOMAIN queue : queue[i] = Received + i
      BY <1>0 DEF Counts
    <3>3. Received' + Len(queue') = sent'
      BY <1>0, <2>1, <2>3, <3>1, <3>2, NumbersAre, MarksAre, QueueIs DEF MarkTypes
    <3>4. \A i \in DOMAIN queue' : queue'[i] = Received' + i
      <4>1. TAKE i \in DOMAIN queue'
      <4>2. CASE i = Len(queue) + 1
        BY <1>0, <2>3, <3>1, <3>2, <4>2, NumbersAre, MarksAre, QueueIs, SMTT(30) DEF MarkTypes
      <4>3. CASE i # Len(queue) + 1
        <5>1. i \in 1 .. Len(queue) /\ i \in DOMAIN queue
          BY <1>0, <2>4, <4>3, NumbersAre, MarksAre, QueueIs, SMTT(30) DEF MarkTypes
        <5>. QED
          BY <2>3, <3>1, <3>2, <5>1
      <4>. QED
        BY <4>2, <4>3
    <3>5. ~closed /\ ~ending
      BY <1>0, <1>1 DEF Send, Counts
    <3>. QED
      BY <1>0, <2>1, <3>1, <3>3, <3>4, <3>5 DEF Counts
  <2>7. Opens'
    BY <1>0, <2>1, SameFiles DEF Working
  <2>. QED
    BY <2>5, <2>6, <2>7 DEF Whole
<1>2. CASE Close
  <2>1. closed' /\ UNCHANGED <<queue, sent, phase, ending, entry, buffer, entries_since_sync,
                              files, now, born, faults, crashes>>
    BY <1>2 DEF Close, writer, world
  <2>2. TypeOK'
    BY <1>0, <1>2, <2>1 DEF TypeOK, Close
  <2>3. Counts'
    BY <1>0, <2>1 DEF Counts, Received, Finished, Appending
  <2>4. Opens'
    BY <1>0, <2>1, SameFiles DEF Working
  <2>. QED
    BY <2>2, <2>3, <2>4 DEF Whole
<1>. QED
  BY <1>1, <1>2

LEMMA ReceiveOf ==
  ASSUME Whole, Receive
  PROVE  /\ entry' = Received + 1 /\ entry' \in Entry /\ entry' <= sent
         /\ Received' = Received + 1 /\ Finished' = Received /\ Finished = Received
         /\ Written' = Received /\ Written = Received /\ Appending'
<1>0. TypeOK /\ Counts /\ phase = "receive" /\ phase' = "text"
  BY DEF Whole, Receive
<1>1. entry' = Head(queue) /\ Head(queue) = queue[1] /\ Head(queue) \in Entry
  BY <1>0, NumbersAre, MarksAre, QueueIs, HeadTailProperties DEF MarkTypes, Receive
<1>2. Len(queue) \in Nat \ {0}
  BY <1>0, NumbersAre, MarksAre, QueueIs, EmptySeq DEF MarkTypes, Receive
<1>3. 1 \in DOMAIN queue
  BY <1>0, <1>2, NumbersAre, MarksAre, QueueIs DEF MarkTypes
<1>4. entry' = Received + 1
  BY <1>0, <1>1, <1>3 DEF Counts
<1>5. Received + 1 <= sent
  BY <1>0, <1>2, NumbersAre, MarksAre, QueueIs, SMTT(30) DEF MarkTypes, Counts
<1>6. entry' # 0 /\ entry' - 1 = Received
  BY <1>0, <1>4, MarksAre DEF MarkTypes
<1>. QED
  BY <1>0, <1>1, <1>4, <1>5, <1>6 DEF Received, Finished, Written, Appending

(* Taking from the channel, and the steps between two system calls.        *)
LEMMA ReceiveWhole ==
  ASSUME Whole, Receive
  PROVE  Whole'
<1>0. TypeOK /\ Counts /\ Opens
  BY DEF Whole
<1>1. /\ queue # << >> /\ queue' = Tail(queue) /\ phase = "receive" /\ phase' = "text"
      /\ UNCHANGED <<closed, sent, ending, buffer, entries_since_sync, files, now, born,
                     faults, crashes>>
  BY DEF Receive, writer, world
<1>2. /\ queue' \in Seq(Entry) /\ Len(queue') = Len(queue) - 1
      /\ \A i \in 1 .. Len(queue') : queue'[i] = queue[i + 1]
  BY <1>0, <1>1, NumbersAre, MarksAre, QueueIs, HeadTailProperties DEF MarkTypes
<1>3. DOMAIN queue' = 1 .. Len(queue')
  BY <1>2, LenProperties
<1>4. TypeOK'
  <2>1. QueueTypes'
    <3>1. Len(queue) \in Nat /\ Len(queue) <= QueueCapacity /\ QueueCapacity \in Nat
      BY <1>0, QueueIs, TypeParts, LogAssumption DEF QueueTypes
    <3>. QED
      BY <1>2, <3>1 DEF QueueTypes
  <2>2. NumberTypes'
    BY <1>0, <1>1, ReceiveOf, NumbersAre, MarksAre, QueueIs, TypeParts
    DEF MarkTypes, NumberTypes, Entry
  <2>3. BufferTypes' /\ PhaseTypes' /\ FileTypes'
    BY <1>0, <1>1, TypeParts DEF BufferTypes, PhaseTypes, FileTypes
  <2>. QED
    BY <2>1, <2>2, <2>3, TypePartsNext
<1>5. Counts'
  <2>1. Received + Len(queue) = sent /\ \A i \in DOMAIN queue : queue[i] = Received + i
    BY <1>0 DEF Counts
  <2>2. Received' + Len(queue') = sent'
    BY <1>0, <1>1, <1>2, <2>1, ReceiveOf, NumbersAre, MarksAre, QueueIs DEF MarkTypes
  <2>3. \A i \in DOMAIN queue' : queue'[i] = Received' + i
    <3>1. TAKE i \in DOMAIN queue'
    <3>2. i \in 1 .. Len(queue') /\ i + 1 \in DOMAIN queue
      <4>1. PICK n \in Nat : n = Len(queue)
        BY <1>0, QueueIs
      <4>2. i \in 1 .. n - 1 /\ DOMAIN queue = 1 .. n
        BY <1>0, <1>2, <1>3, <4>1, QueueIs
      <4>3. i + 1 \in 1 .. n
        BY <4>2
      <4>. QED
        BY <1>3, <4>2, <4>3
    <3>3. queue'[i] = Received + (i + 1) /\ i \in Nat
      BY <1>2, <2>1, <3>2
    <3>. QED
      BY <1>0, <3>3, ReceiveOf, NumbersAre, MarksAre, QueueIs DEF MarkTypes
  <2>4. born <= Received
    BY <1>0, NumbersAre, MarksAre, QueueIs, SMTT(30) DEF MarkTypes, Counts, Received
  <2>5. entry' # 0 /\ born' < entry'
    BY <1>0, <1>1, <2>4, ReceiveOf, NumbersAre, MarksAre, QueueIs, SMTT(30) DEF MarkTypes
  <2>6. entries_since_sync' + born' <= Finished'
    BY <1>0, <1>1, ReceiveOf DEF Counts
  <2>7. ~ending'
    BY <1>0, <1>1 DEF Counts
  <2>8. now' <= crashes' + 1
    BY <1>0, <1>1 DEF Counts
  <2>. QED
    BY <1>1, <2>2, <2>3, <2>5, <2>6, <2>7, <2>8 DEF Counts
<1>6. Opens'
  BY <1>0, <1>1, SameFiles DEF Working
<1>. QED
  BY <1>4, <1>5, <1>6 DEF Whole

LEMMA BetweenWhole ==
  ASSUME Whole, Disconnected \/ Flushed \/ OpenFails
  PROVE  Whole'
<1>0. TypeOK /\ Counts /\ Opens
  BY DEF Whole
<1>1. /\ UNCHANGED <<queue, closed, sent, entry, buffer, entries_since_sync, files, now,
                     born, crashes>>
      /\ faults' \in 0 .. MaxFaults
      /\ \/ /\ phase = "receive" /\ phase' = "flush" /\ ending'
            /\ closed /\ queue = << >>
         \/ phase = "flush" /\ phase' = "fsync" /\ buffer = << >> /\ ending' = ending
         \/ phase = "open" /\ phase' = "stopped" /\ ending' = ending
  BY <1>0, NumbersAre, SMTT(30)
     DEF Disconnected, AtEnd, Flushed, OpenFails, channel, writer, world
<1>2. TypeOK'
  BY <1>0, <1>1 DEF TypeOK
<1>3. Counts'
  <2>1. Appending' = Appending /\ phase' # "open"
    BY <1>1 DEF Appending
  <2>2. ending' => (ending \/ (closed /\ queue = << >>))
                   /\ phase' \in {"flush", "fsync", "stopped"}
    BY <1>1
  <2>. QED
    BY <1>0, <1>1, <2>1, <2>2, SameCounts
<1>4. Opens'
  BY <1>0, <1>1, SameFiles DEF Working
<1>. QED
  BY <1>2, <1>3, <1>4 DEF Whole

LEMMA OpenOf ==
  ASSUME TypeOK, Open
  PROVE  /\ DOMAIN files' = DOMAIN files
         /\ \A f \in DOMAIN files : f # now => files'[f] = files[f]
         /\ \A f \in DOMAIN files : files'[f] \in File
         /\ files'[now].pieces = files[now].pieces
         /\ files'[now].synced = files[now].synced
         /\ files'[now].damaged = files[now].damaged
         /\ files'[now].openings = files[now].openings + 1
<1>1. PICK old \in File : old = files[now]
  BY FilesAre
<1>2. PICK file : file = [old EXCEPT !.openings = @ + 1]
  OBVIOUS
<1>3. /\ file \in File /\ file.pieces = old.pieces /\ file.synced = old.synced
      /\ file.openings = old.openings + 1 /\ file.damaged = old.damaged
  BY <1>2 DEF File
<1>4. files' = [files EXCEPT ![now] = file]
  BY <1>1, <1>2, FilesAre DEF Open, Opened
<1>. QED
  BY <1>1, <1>3, <1>4, UpdateOf

LEMMA OpenWhole ==
  ASSUME Whole, Open
  PROVE  Whole'
<1>0. TypeOK /\ Counts /\ Opens
  BY DEF Whole
<1>1. /\ phase = "open" /\ phase' = "receive"
      /\ UNCHANGED <<queue, closed, sent, ending, entry, buffer, entries_since_sync, now, born,
                     faults, crashes>>
  BY DEF Open, channel, writer, world
<1>2. TypeOK'
  <2>1. FileTypes'
    BY <1>0, <1>1, OpenOf, TypeParts DEF FileTypes
  <2>2. QueueTypes' /\ BufferTypes' /\ PhaseTypes' /\ NumberTypes'
    BY <1>0, <1>1, TypeParts DEF QueueTypes, BufferTypes, PhaseTypes, NumberTypes
  <2>. QED
    BY <2>1, <2>2, TypePartsNext
<1>3. Counts'
  <2>1. ~ending /\ Appending' = Appending
    BY <1>0, <1>1 DEF Counts, Appending
  <2>. QED
    BY <1>0, <1>1, <2>1, SameCounts
<1>4. Opens'
  BY <1>0, <1>1, OpenOf, FilesAre DEF Opens, Working
<1>. QED
  BY <1>2, <1>3, <1>4 DEF Whole

LEMMA TextOf ==
  ASSUME Whole, WriteText
  PROVE  /\ buffer' \in Seq(Piece) /\ Len(buffer') = Len(buffer) + 2
         /\ Stream' \in Seq(Piece) /\ Len(Stream') = Len(Stream) + 2
         /\ Begins(Stream, Stream') /\ DOMAIN Stream' = 1 .. Len(Stream) + 2
         /\ Stream'[Len(Stream) + 1] = <<entry, Beginning>>
         /\ Stream'[Len(Stream) + 2] = <<entry, Rest>>
         /\ entry \in Entry /\ born < entry
<1>1. entry # 0 /\ born < entry /\ TypeOK
  BY DEF Whole, Counts, WriteText, Appending
<1>2. entry \in Entry
  BY <1>1, NumbersAre DEF Entry
<1>3. PICK t : t = << <<entry, Beginning>>, <<entry, Rest>> >>
  OBVIOUS
<1>4. t \in Seq(Piece) /\ Len(t) = 2 /\ t[1] = <<entry, Beginning>> /\ t[2] = <<entry, Rest>>
  BY <1>2, <1>3, TextPieces
<1>5. buffer' = buffer \o t /\ files' = files /\ now' = now
  BY <1>3 DEF WriteText, world
<1>6. /\ buffer' \in Seq(Piece) /\ Len(buffer') = Len(buffer) + Len(t)
      /\ Stream' \in Seq(Piece) /\ Len(Stream') = Len(Stream) + Len(t)
      /\ Begins(Stream, Stream') /\ DOMAIN Stream' = 1 .. Len(Stream) + Len(t)
      /\ \A i \in 1 .. Len(t) : Stream'[Len(Stream) + i] = t[i]
  BY <1>1, <1>4, <1>5, PutOf
<1>7. 1 \in 1 .. Len(t) /\ 2 \in 1 .. Len(t)
  BY <1>4
<1>8. Stream'[Len(Stream) + 1] = t[1] /\ Stream'[Len(Stream) + 2] = t[2]
  BY <1>6, <1>7
<1>. QED
  BY <1>1, <1>2, <1>4, <1>6, <1>8

LEMMA LineEndOf ==
  ASSUME Whole, WriteLineEnd
  PROVE  /\ buffer' \in Seq(Piece) /\ Len(buffer') = Len(buffer) + 1
         /\ Stream' \in Seq(Piece) /\ Len(Stream') = Len(Stream) + 1
         /\ Begins(Stream, Stream') /\ DOMAIN Stream' = 1 .. Len(Stream) + 1
         /\ Stream'[Len(Stream) + 1] = <<entry, LineEnd>>
         /\ entry \in Entry /\ born < entry
<1>1. entry # 0 /\ born < entry /\ TypeOK
  BY DEF Whole, Counts, WriteLineEnd, Appending
<1>2. entry \in Entry
  BY <1>1, NumbersAre DEF Entry
<1>3. PICK t : t = Ending(entry)
  OBVIOUS
<1>4. t \in Seq(Piece) /\ Len(t) = 1 /\ t[1] = <<entry, LineEnd>>
  BY <1>2, <1>3, TextPieces DEF Ending
<1>5. buffer' = buffer \o t /\ files' = files /\ now' = now
  BY <1>3 DEF WriteLineEnd, world
<1>6. /\ buffer' \in Seq(Piece) /\ Len(buffer') = Len(buffer) + Len(t)
      /\ Stream' \in Seq(Piece) /\ Len(Stream') = Len(Stream) + Len(t)
      /\ Begins(Stream, Stream') /\ DOMAIN Stream' = 1 .. Len(Stream) + Len(t)
      /\ \A i \in 1 .. Len(t) : Stream'[Len(Stream) + i] = t[i]
  BY <1>1, <1>4, <1>5, PutOf
<1>7. 1 \in 1 .. Len(t)
  BY <1>4
<1>8. Stream'[Len(Stream) + 1] = t[1]
  BY <1>6, <1>7
<1>. QED
  BY <1>1, <1>2, <1>4, <1>6, <1>8

LEMMA TextWhole ==
  ASSUME Whole, WriteText
  PROVE  Whole'
<1>0. TypeOK /\ Counts /\ Opens
  BY DEF Whole
<1>1. /\ phase = "text" /\ phase' = "newline"
      /\ UNCHANGED <<queue, closed, sent, ending, entry, entries_since_sync, files, now, born,
                     faults, crashes>>
  BY DEF WriteText, channel, world
<1>2. BufferTypes'
  BY <1>0, TextOf, FilesAre DEF WriteText, Fits, BufferTypes
<1>3. QueueTypes' /\ PhaseTypes' /\ FileTypes' /\ NumberTypes'
  BY <1>0, <1>1, TypeParts DEF QueueTypes, PhaseTypes, FileTypes, NumberTypes
<1>4. Counts'
  <2>1. Appending' = Appending /\ ~ending
    BY <1>0, <1>1 DEF Counts, Appending
  <2>. QED
    BY <1>0, <1>1, <2>1, SameCounts
<1>5. Opens'
  BY <1>0, <1>1 DEF Opens, Working
<1>. QED
  BY <1>2, <1>3, <1>4, <1>5, TypePartsNext DEF Whole

LEMMA LineEndWhole ==
  ASSUME Whole, WriteLineEnd
  PROVE  Whole'
<1>0. TypeOK /\ Counts /\ Opens
  BY DEF Whole
<1>1. /\ phase = "newline" /\ phase' \in {"flush", "receive"}
      /\ entries_since_sync' = entries_since_sync + 1
      /\ UNCHANGED <<queue, closed, sent, ending, entry, files, now, born, faults, crashes>>
  BY DEF WriteLineEnd, channel, world
<1>2. BufferTypes'
  BY <1>0, LineEndOf, FilesAre DEF WriteLineEnd, Fits, BufferTypes
<1>3. entries_since_sync + born <= entry - 1 /\ entry # 0 /\ ~ending
  BY <1>0, <1>1 DEF Counts, Finished, Appending
<1>4. NumberTypes'
  <2>1. entries_since_sync' \in 0 .. MaxEntries
    BY <1>0, <1>1, <1>3, NumbersAre
  <2>. QED
    BY <1>0, <1>1, <2>1, TypeParts DEF NumberTypes
<1>5. QueueTypes' /\ PhaseTypes' /\ FileTypes'
  BY <1>0, <1>1, TypeParts DEF QueueTypes, PhaseTypes, FileTypes
<1>6. Counts'
  <2>1. Received' = Received /\ Received = entry /\ Finished' = entry /\ ~Appending'
    BY <1>1, <1>3 DEF Received, Finished, Appending
  <2>2. entries_since_sync' + born' <= Finished'
    BY <1>0, <1>1, <1>3, <2>1, NumbersAre
  <2>. QED
    BY <1>0, <1>1, <1>3, <2>1, <2>2 DEF Counts
<1>7. Opens'
  BY <1>0, <1>1 DEF Opens, Working
<1>. QED
  BY <1>2, <1>4, <1>5, <1>6, <1>7, TypePartsNext DEF Whole

(* What a write of n pieces does; of all of them if nothing fails.         *)
LEMMA WriteOf ==
  ASSUME Whole, Write \/ WriteFails
  PROVE  /\ \E n \in 0 .. Len(buffer) :
              /\ files' = [files EXCEPT ![now].pieces = @ \o SubSeq(buffer, 1, n)]
              /\ buffer' = SubSeq(buffer, n + 1, Len(buffer))
         /\ phase \in {"text", "newline", "flush"}
         /\ UNCHANGED <<queue, closed, sent, entry, ending, entries_since_sync, now, born,
                        crashes>>
         /\ \/ phase' = phase /\ faults' = faults
            \/ /\ phase' \in {"receive", "stopped"} /\ faults' = faults + 1
               /\ faults < MaxFaults
               /\ phase' = "stopped" <=> ending
<1>1. Len(buffer) \in Nat
  BY FilesAre DEF Whole
<1>2. CASE Write
  <2>1. Len(buffer) \in 0 .. Len(buffer)
    BY <1>1
  <2>. QED
    BY <1>2, <2>1 DEF Write, Drain, Draining, channel, world
<1>3. CASE WriteFails
  <2>1. PICK n \in 0 .. Len(buffer) - 1 : Drain(n)
    BY <1>3 DEF WriteFails
  <2>2. n \in 0 .. Len(buffer)
    BY <1>1
  <2>. QED
    BY <1>3, <2>1, <2>2 DEF WriteFails, Drain, Draining, GiveUp, channel
<1>. QED
  BY <1>2, <1>3

LEMMA WriteWhole ==
  ASSUME Whole, Write \/ WriteFails
  PROVE  Whole'
<1>0. TypeOK /\ Counts /\ Opens
  BY DEF Whole
<1>1. PICK n \in 0 .. Len(buffer) :
        /\ files' = [files EXCEPT ![now].pieces = @ \o SubSeq(buffer, 1, n)]
        /\ buffer' = SubSeq(buffer, n + 1, Len(buffer))
  BY WriteOf
<1>2. FileTypes'
  BY <1>0, <1>1, WriteOf, DrainOf, TypeParts DEF FileTypes
<1>3. BufferTypes'
  <2>1. Len(buffer) <= BufferSize /\ BufferSize \in Nat
    BY <1>0, TypeParts, LogAssumption DEF BufferTypes
  <2>2. buffer' \in Seq(Piece) /\ Len(buffer') = Len(buffer) - n
    BY <1>0, <1>1, DrainOf
  <2>3. n \in Nat /\ Len(buffer) \in Nat
    <3>1. Len(buffer) \in Nat
      BY <1>0, FilesAre
    <3>. QED
      BY <3>1
  <2>4. Len(buffer) - n <= BufferSize
    BY <2>1, <2>3
  <2>. QED
    BY <2>2, <2>4 DEF BufferTypes
<1>4. NumberTypes'
  <2>1. faults' \in 0 .. MaxFaults
    BY <1>0, WriteOf, NumbersAre, SMTT(30)
  <2>. QED
    BY <1>0, <2>1, WriteOf, TypeParts DEF NumberTypes
<1>5. QueueTypes' /\ PhaseTypes'
  BY <1>0, WriteOf, TypeParts DEF QueueTypes, PhaseTypes
<1>6. Counts'
  <2>1. CASE phase' = phase
    <3>1. Appending' = Appending
      BY <2>1 DEF Appending
    <3>2. /\ phase' # "open"
          /\ ending' => ending /\ phase' \in {"flush", "fsync", "stopped"}
      BY <1>0, <2>1, WriteOf DEF Counts
    <3>3. UNCHANGED <<queue, closed, sent, entry, born, entries_since_sync, now, crashes>>
      BY WriteOf
    <3>. QED
      BY <1>0, <3>1, <3>2, <3>3, SameCounts
  <2>2. CASE phase' \in {"receive", "stopped"} /\ (phase' = "stopped" <=> ending)
    <3>1. Received' = Received /\ Finished' = Received
      BY <2>2, WriteOf DEF Received, Finished, Appending
    <3>2. entries_since_sync + born <= Received
      BY <1>0, NumbersAre, SMTT(30) DEF Counts, Received, Finished, Appending
    <3>. QED
      BY <1>0, <2>2, <3>1, <3>2, WriteOf DEF Counts, Appending
  <2>. QED
    BY <2>1, <2>2, WriteOf
<1>7. Opens'
  <2>1. Working /\ files[now].openings # 0
    BY <1>0, WriteOf DEF Opens, Working
  <2>2. \A f \in DOMAIN files : /\ files[f].synced <= Len(files[f].pieces)
                                /\ files[f].openings = 0 => files[f].pieces = << >>
    BY <1>0 DEF Opens
  <2>3. /\ files'[now].synced = files[now].synced /\ files'[now].openings = files[now].openings
        /\ Len(files'[now].pieces) = Len(files[now].pieces) + n
        /\ DOMAIN files' = DOMAIN files
        /\ \A f \in DOMAIN files : f # now => files'[f] = files[f]
    BY <1>0, <1>1, DrainOf
  <2>4. files'[now].synced <= Len(files'[now].pieces)
    <3>1. files[now].synced <= Len(files[now].pieces) /\ n \in Nat
          /\ Len(files[now].pieces) \in Nat /\ files[now].synced \in Nat
      <4>1. now \in DOMAIN files /\ Len(buffer) \in Nat
        BY <1>0, FilesAre
      <4>2. Len(files[now].pieces) \in Nat /\ files[now].synced \in Nat
        BY <1>0, FilesAre
      <4>. QED
        BY <2>2, <4>1, <4>2
    <3>2. PICK a, s, b : a = Len(files[now].pieces) /\ s = files[now].synced
                         /\ b = Len(files'[now].pieces)
      OBVIOUS
    <3>3. s <= a /\ n \in Nat /\ a \in Nat /\ s \in Nat /\ b = a + n
      BY <2>3, <3>1, <3>2
    <3>4. s <= b
      BY <3>3
    <3>. QED
      BY <2>3, <3>2, <3>4
  <2>5. \A f \in DOMAIN files' : /\ files'[f].synced <= Len(files'[f].pieces)
                                 /\ files'[f].openings = 0 => files'[f].pieces = << >>
    BY <2>1, <2>2, <2>3, <2>4
  <2>. QED
    BY <1>0, <2>1, <2>3, <2>5, WriteOf DEF Opens
<1>. QED
  BY <1>2, <1>3, <1>4, <1>5, <1>6, <1>7, TypePartsNext DEF Whole

(* What fsync does, successful or not.                                     *)
LEMMA SyncOf ==
  ASSUME Whole, Fsync \/ FsyncFails
  PROVE  /\ DOMAIN files' = DOMAIN files
         /\ \A f \in DOMAIN files : f # now => files'[f] = files[f]
         /\ \A f \in DOMAIN files : files'[f] \in File
         /\ files'[now].pieces = files[now].pieces /\ files'[now].openings = files[now].openings
         /\ files'[now].synced \in {files[now].synced, Len(files[now].pieces)}
         /\ Fsync => /\ files'[now].damaged = files[now].damaged
                     /\ ~files[now].damaged => files'[now].synced = Len(files[now].pieces)
         /\ phase = "fsync" /\ buffer = << >>
         /\ phase' \in {"stopped", "receive"} /\ (phase' = "stopped" <=> ending)
         /\ UNCHANGED <<queue, closed, sent, entry, ending, buffer, now, born, crashes>>
         /\ \/ Fsync /\ faults' = faults /\ entries_since_sync' = 0
            \/ faults < MaxFaults /\ faults' = faults + 1
               /\ entries_since_sync' = entries_since_sync
<1>1. PICK old \in File : old = files[now] /\ old.damaged \in BOOLEAN /\ Len(old.pieces) \in Nat
  BY FilesAre DEF Whole
<1>2. phase = "fsync" /\ buffer = << >>
  BY DEF Whole, Opens, Fsync, FsyncFails
<1>3. CASE Fsync
  <2>1. PICK n : n = IF old.damaged THEN old.synced ELSE Len(old.pieces)
    OBVIOUS
  <2>2. PICK file : file = [old EXCEPT !.synced = n]
    OBVIOUS
  <2>3. n \in Nat /\ n \in {old.synced, Len(old.pieces)}
    BY <1>1, <2>1 DEF File
  <2>4. /\ file \in File /\ file.pieces = old.pieces /\ file.synced = n
        /\ file.openings = old.openings /\ file.damaged = old.damaged
    BY <2>2, <2>3 DEF File
  <2>5. files' = [files EXCEPT ![now] = file]
    BY <1>1, <1>3, <2>1, <2>2 DEF Fsync
  <2>6. /\ DOMAIN files' = DOMAIN files /\ files'[now] = file
        /\ \A f \in DOMAIN files : f # now => files'[f] = files[f]
        /\ \A f \in DOMAIN files : files'[f] \in File
    BY <2>4, <2>5, UpdateOf DEF Whole
  <2>7. ~old.damaged => file.synced = Len(old.pieces)
    BY <2>1, <2>4
  <2>8. /\ phase' \in {"stopped", "receive"} /\ (phase' = "stopped" <=> ending)
        /\ UNCHANGED <<queue, closed, sent, entry, ending, buffer, now, born, crashes>>
        /\ faults' = faults /\ entries_since_sync' = 0
    BY <1>3 DEF Fsync, GiveUp, channel, world
  <2>. QED
    BY <1>1, <1>2, <1>3, <2>3, <2>4, <2>6, <2>7, <2>8
<1>4. CASE FsyncFails
  <2>1. PICK damage \in {files[now].damaged, TRUE} :
          files' = [files EXCEPT ![now].damaged = damage]
    BY <1>4 DEF FsyncFails
  <2>2. PICK file : file = [old EXCEPT !.damaged = damage]
    OBVIOUS
  <2>3. damage \in BOOLEAN
    BY <1>1
  <2>4. /\ file \in File /\ file.pieces = old.pieces /\ file.synced = old.synced
        /\ file.openings = old.openings
    BY <2>2, <2>3 DEF File
  <2>5. files' = [files EXCEPT ![now] = file]
    BY <1>1, <2>1, <2>2
  <2>6. /\ DOMAIN files' = DOMAIN files /\ files'[now] = file
        /\ \A f \in DOMAIN files : f # now => files'[f] = files[f]
        /\ \A f \in DOMAIN files : files'[f] \in File
    BY <2>4, <2>5, UpdateOf DEF Whole
  <2>7. /\ phase' \in {"stopped", "receive"} /\ (phase' = "stopped" <=> ending)
        /\ UNCHANGED <<queue, closed, sent, entry, ending, buffer, now, born, crashes>>
        /\ faults < MaxFaults /\ faults' = faults + 1
        /\ entries_since_sync' = entries_since_sync
    BY <1>4 DEF FsyncFails, GiveUp, channel, writer
  <2>8. ~Fsync
    BY <2>7, NumbersAre DEF Whole, Fsync, world
  <2>. QED
    BY <1>1, <1>2, <2>4, <2>6, <2>7, <2>8
<1>. QED
  BY <1>3, <1>4

LEMMA SyncWhole ==
  ASSUME Whole, Fsync \/ FsyncFails
  PROVE  Whole'
<1>0. TypeOK /\ Counts /\ Opens
  BY DEF Whole
<1>1. /\ phase = "fsync" /\ buffer = << >>
      /\ phase' \in {"stopped", "receive"} /\ (phase' = "stopped" <=> ending)
      /\ UNCHANGED <<queue, closed, sent, entry, ending, buffer, now, born, crashes>>
      /\ faults' \in {faults, faults + 1} /\ (faults' # faults => faults < MaxFaults)
      /\ entries_since_sync' \in {0, entries_since_sync}
  BY SyncOf
<1>2. TypeOK'
  <2>1. FileTypes'
    BY <1>0, <1>1, SyncOf, TypeParts DEF FileTypes
  <2>2. faults' \in 0 .. MaxFaults /\ entries_since_sync' \in 0 .. MaxEntries
    BY <1>0, <1>1, NumbersAre, TypeParts DEF NumberTypes
  <2>3. NumberTypes'
    BY <1>0, <1>1, <2>2, TypeParts DEF NumberTypes
  <2>4. QueueTypes' /\ BufferTypes' /\ PhaseTypes'
    BY <1>0, <1>1, TypeParts DEF QueueTypes, BufferTypes, PhaseTypes
  <2>. QED
    BY <2>1, <2>3, <2>4, TypePartsNext
<1>3. Counts'
  <2>1. /\ Received' = Received /\ Finished' = Received /\ Finished = Received
        /\ ~Appending'
    BY <1>1 DEF Received, Finished, Appending
  <2>2. entries_since_sync' + born' <= Finished'
    <3>1. entries_since_sync + born <= Received
      BY <1>0, <2>1 DEF Counts
    <3>2. born <= Received
      BY <1>0, <3>1, NumbersAre, MarksAre DEF MarkTypes
    <3>. QED
      BY <1>0, <1>1, <2>1, <3>1, <3>2, NumbersAre
  <2>. QED
    BY <1>0, <1>1, <2>1, <2>2 DEF Counts
<1>4. Opens'
  <2>1. Working /\ files[now].openings # 0
    BY <1>0, <1>1 DEF Opens, Working
  <2>2. \A f \in DOMAIN files' : /\ files'[f].synced <= Len(files'[f].pieces)
                                 /\ files'[f].openings = 0 => files'[f].pieces = << >>
    <3>1. SUFFICES ASSUME NEW f \in DOMAIN files
                   PROVE  /\ files'[f].synced <= Len(files'[f].pieces)
                          /\ files'[f].openings = 0 => files'[f].pieces = << >>
      BY SyncOf
    <3>2. /\ files[f].synced <= Len(files[f].pieces) /\ Len(files[f].pieces) \in Nat
          /\ files[f].openings = 0 => files[f].pieces = << >>
      BY <1>0, FilesAre DEF Opens
    <3>3. /\ files'[f].pieces = files[f].pieces /\ files'[f].openings = files[f].openings
          /\ files'[f].synced \in {files[f].synced, Len(files[f].pieces)}
      BY SyncOf
    <3>. QED
      BY <3>2, <3>3
  <2>3. files'[now].openings # 0
    BY <2>1, SyncOf
  <2>. QED
    BY <1>1, <2>2, <2>3 DEF Opens
<1>. QED
  BY <1>2, <1>3, <1>4 DEF Whole

(* What a crash leaves: of each file some beginning; of the file being     *)
(* drained perhaps more than was in it.                                    *)
LEMMA CrashOf ==
  ASSUME Whole, ProcessCrash \/ MachineCrash
  PROVE  /\ DOMAIN files' = DOMAIN files
         /\ \A f \in DOMAIN files :
              /\ files'[f] \in File
              /\ files'[f].openings = files[f].openings
              /\ files'[f].damaged = files[f].damaged
              /\ files'[f].synced = files[f].synced
              /\ files'[f].synced <= Len(files'[f].pieces)
              /\ files[f].openings = 0 => files'[f].pieces = << >>
              /\ \/ Begins(files'[f].pieces, files[f].pieces)
                 \/ /\ f = now /\ Working
                    /\ Begins(files'[f].pieces, Stream)
                    /\ Begins(files[f].pieces, files'[f].pieces)
<1>0. TypeOK /\ Counts /\ Opens
  BY DEF Whole
<1>1. \A f \in DOMAIN files : /\ files[f].synced <= Len(files[f].pieces)
                              /\ files[f].openings = 0 => files[f].pieces = << >>
                              /\ Len(files[f].pieces) \in Nat /\ files[f].synced \in Nat
  BY <1>0, FilesAre DEF Opens
<1>2. CASE ProcessCrash
  <2>1. PICK n \in 0 .. Len(buffer) : (n > 0 => Draining) /\ files' = LeftBehind(n)
    BY <1>2 DEF ProcessCrash
  <2>2. files' = [files EXCEPT ![now].pieces = @ \o SubSeq(buffer, 1, n)]
    BY <2>1 DEF LeftBehind
  <2>3. /\ DOMAIN files' = DOMAIN files
        /\ \A f \in DOMAIN files : f # now => files'[f] = files[f]
        /\ \A f \in DOMAIN files : files'[f] \in File
        /\ files'[now].pieces = files[now].pieces \o SubSeq(buffer, 1, n)
        /\ Begins(files'[now].pieces, Stream)
        /\ Begins(files[now].pieces, files'[now].pieces)
        /\ Len(files'[now].pieces) = Len(files[now].pieces) + n
        /\ files'[now].synced = files[now].synced
        /\ files'[now].openings = files[now].openings
        /\ files'[now].damaged = files[now].damaged
    BY <1>0, <2>2, DrainOf
  <2>4. now \in DOMAIN files /\ n \in Nat
    <3>1. now \in DOMAIN files /\ Len(buffer) \in Nat
      BY <1>0, FilesAre
    <3>. QED
      BY <3>1
  <2>5. \A p : Begins(p, p)
    BY DEF Begins
  <2>6. files'[now].synced <= Len(files'[now].pieces)
    <3>1. PICK a, s, b : a = Len(files[now].pieces) /\ s = files[now].synced
                         /\ b = Len(files'[now].pieces)
      OBVIOUS
    <3>2. s <= a /\ n \in Nat /\ a \in Nat /\ s \in Nat /\ b = a + n
      BY <1>1, <2>3, <2>4, <3>1
    <3>3. s <= b
      BY <3>2
    <3>. QED
      BY <2>3, <3>1, <3>3
  <2>7. n = 0 => files'[now].pieces = files[now].pieces
    <3>1. SUFFICES ASSUME n = 0
                   PROVE  files'[now].pieces = files[now].pieces
      OBVIOUS
    <3>2. SubSeq(buffer, 1, n) = << >>
      BY <3>1, SubSeqEmpty
    <3>3. files[now].pieces \in Seq(Piece)
      BY <1>0, FilesAre
    <3>. QED
      BY <2>3, <3>2, <3>3, ConcatEmptySeq
  <2>8. n # 0 => Working
    BY <2>1, <2>4 DEF Draining, Working
  <2>9. Working => files[now].openings # 0
    BY <1>0 DEF Opens
  <2>10. /\ files'[now].openings = files[now].openings
         /\ files[now].openings = 0 => files'[now].pieces = << >>
         /\ \/ Begins(files'[now].pieces, files[now].pieces)
            \/ Working
    BY <1>1, <2>3, <2>4, <2>5, <2>7, <2>8, <2>9
  <2>. QED
    BY <1>1, <2>3, <2>4, <2>5, <2>6, <2>10
<1>3. CASE MachineCrash
  <2>1. PICK kept \in [DOMAIN files -> 0 .. 3 * MaxEntries] :
          /\ \A f \in DOMAIN files : kept[f] \in files[f].synced .. Len(files[f].pieces)
          /\ files' = [f \in DOMAIN files |->
                         [files[f] EXCEPT !.pieces = SubSeq(@, 1, kept[f])]]
    BY <1>3 DEF MachineCrash
  <2>2. DOMAIN files' = DOMAIN files
    BY <2>1
  <2>3. ASSUME NEW f \in DOMAIN files
        PROVE  /\ files'[f] \in File
               /\ files'[f].openings = files[f].openings
               /\ files'[f].damaged = files[f].damaged
               /\ files'[f].synced = files[f].synced
               /\ files'[f].synced <= Len(files'[f].pieces)
               /\ files[f].openings = 0 => files'[f].pieces = << >>
               /\ Begins(files'[f].pieces, files[f].pieces)
    <3>1. PICK k : k = kept[f]
      OBVIOUS
    <3>2. k \in Nat /\ files[f].synced <= k /\ k <= Len(files[f].pieces)
      BY <1>1, <2>1, <3>1
    <3>3. k \in 0 .. Len(files[f].pieces)
      BY <1>1, <3>2
    <3>4. PICK old \in File : old = files[f] /\ old.pieces \in Seq(Piece)
      BY <1>0, FilesAre
    <3>5. PICK p \in Seq(Piece) :
            p = SubSeq(old.pieces, 1, k) /\ Len(p) = k /\ Begins(p, old.pieces)
      <4>1. k \in 0 .. Len(old.pieces)
        BY <3>3, <3>4
      <4>2. SubSeq(old.pieces, 1, k) \in Seq(Piece) /\ Len(SubSeq(old.pieces, 1, k)) = k
        BY <3>4, <4>1, FirstOnes
      <4>3. Begins(SubSeq(old.pieces, 1, k), old.pieces)
        BY <3>4, <4>1, BeginsFirst
      <4>. QED
        BY <4>2, <4>3
    <3>6. files'[f] = [old EXCEPT !.pieces = p]
      BY <2>1, <3>1, <3>4, <3>5
    <3>7. /\ files'[f] \in File /\ files'[f].pieces = p
          /\ files'[f].openings = old.openings /\ files'[f].damaged = old.damaged
          /\ files'[f].synced = old.synced
      BY <3>6 DEF File
    <3>8. files[f].openings = 0 => p = << >>
      <4>1. SUFFICES ASSUME files[f].openings = 0
                     PROVE  p = << >>
        OBVIOUS
      <4>2. Len(old.pieces) = 0
        BY <1>1, <3>4, <4>1, EmptySeq
      <4>3. Len(p) = 0
        BY <3>2, <3>4, <3>5, <4>2
      <4>. QED
        BY <4>3, EmptySeq
    <3>. QED
      BY <3>2, <3>4, <3>5, <3>7, <3>8
  <2>. QED
    BY <2>2, <2>3
<1>. QED
  BY <1>2, <1>3

LEMMA CrashWhole ==
  ASSUME Whole, ProcessCrash \/ MachineCrash
  PROVE  Whole'
<1>0. TypeOK /\ Counts /\ Opens
  BY DEF Whole
<1>1. /\ crashes < MaxCrashes /\ crashes' = crashes + 1 /\ now' \in {now, now + 1}
      /\ queue' = << >> /\ closed' = FALSE /\ born' = sent
      /\ phase' = "open" /\ ending' = FALSE /\ entry' = 0
      /\ buffer' = << >> /\ entries_since_sync' = 0
      /\ sent' = sent /\ faults' = faults
  BY DEF ProcessCrash, MachineCrash, Restart
<1>2. now <= crashes + 1 /\ now \in Nat /\ crashes \in Nat /\ MaxCrashes \in Nat /\ now >= 1
  BY <1>0, NumbersAre, TypeParts DEF Counts, FileTypes
<1>3. now' <= crashes' + 1 /\ now' \in 1 .. MaxCrashes + 1 /\ crashes' \in 0 .. MaxCrashes
  BY <1>1, <1>2
<1>4. TypeOK'
  <2>1. QueueTypes' /\ BufferTypes' /\ PhaseTypes'
    <3>1. 0 <= QueueCapacity /\ 0 <= BufferSize
      BY LogAssumption
    <3>. QED
      BY <1>1, <3>1, EmptySeq DEF QueueTypes, BufferTypes, PhaseTypes
  <2>2. FileTypes'
    BY <1>0, <1>3, CrashOf, TypeParts DEF FileTypes
  <2>3. NumberTypes'
    BY <1>0, <1>1, <1>3, NumbersAre, TypeParts DEF NumberTypes
  <2>. QED
    BY <2>1, <2>2, <2>3, TypePartsNext
<1>5. Counts'
  <2>1. Received' = born' /\ Finished' = born' /\ ~Appending'
    BY <1>1 DEF Received, Finished, Appending
  <2>2. Len(queue') = 0 /\ DOMAIN queue' = {}
    BY <1>1, EmptySeq
  <2>3. born' \in Nat /\ born' = sent'
    BY <1>0, <1>1, NumbersAre
  <2>. QED
    BY <1>1, <1>3, <2>1, <2>2, <2>3 DEF Counts
<1>6. Opens'
  BY <1>1, CrashOf DEF Opens, Working
<1>. QED
  BY <1>4, <1>5, <1>6 DEF Whole

-----------------------------------------------------------------------------
(* Steps after which the stream is the same.                               *)

Kept ==
  /\ now' = now /\ born' = born
  /\ DOMAIN files' = DOMAIN files
  /\ \A f \in DOMAIN files :
       /\ files'[f].openings = files[f].openings
       /\ f # now \/ ~Working => files'[f].pieces = files[f].pieces
  /\ Stream' = Stream
  /\ Begins(files'[now].pieces, Stream) /\ Begins(files[now].pieces, files'[now].pieces)
  /\ Working' => Working

LEMMA KeptUnchanged ==
  ASSUME TypeOK, files' = files, now' = now, born' = born, buffer' = buffer, Working' => Working
  PROVE  Kept
<1>1. Stream' = Stream /\ Begins(files[now].pieces, files[now].pieces)
  BY DEF Stream, Begins
<1>. QED
  BY <1>1, FilesAre DEF Kept

LEMMA KeptWrite ==
  ASSUME Whole, Write \/ WriteFails
  PROVE  Kept /\ (\A f \in DOMAIN files : files'[f].damaged = files[f].damaged)
         /\ files'[now].synced = files[now].synced
<1>0. TypeOK
  BY DEF Whole
<1>1. PICK n \in 0 .. Len(buffer) :
        /\ files' = [files EXCEPT ![now].pieces = @ \o SubSeq(buffer, 1, n)]
        /\ buffer' = SubSeq(buffer, n + 1, Len(buffer))
  BY WriteOf
<1>2. phase \in {"text", "newline", "flush"} /\ now' = now /\ born' = born
  BY WriteOf
<1>3. Working
  BY <1>2 DEF Working
<1>4. /\ DOMAIN files' = DOMAIN files
      /\ \A f \in DOMAIN files : f # now => files'[f] = files[f]
      /\ Begins(files'[now].pieces, Stream) /\ Begins(files[now].pieces, files'[now].pieces)
      /\ files'[now].synced = files[now].synced
      /\ files'[now].openings = files[now].openings
      /\ files'[now].damaged = files[now].damaged
      /\ files'[now].pieces \o SubSeq(buffer, n + 1, Len(buffer)) = Stream
  BY <1>0, <1>1, DrainOf
<1>5. Stream' = Stream
  BY <1>1, <1>2, <1>4 DEF Stream
<1>. QED
  BY <1>2, <1>3, <1>4, <1>5 DEF Kept

LEMMA KeptSync ==
  ASSUME Whole, Fsync \/ FsyncFails
  PROVE  Kept
<1>1. /\ DOMAIN files' = DOMAIN files /\ now' = now /\ born' = born /\ buffer' = buffer
      /\ \A f \in DOMAIN files : f # now => files'[f] = files[f]
      /\ files'[now].pieces = files[now].pieces /\ files'[now].openings = files[now].openings
      /\ phase = "fsync"
  BY SyncOf
<1>2. Stream' = Stream
  BY <1>1 DEF Stream
<1>3. Begins(files[now].pieces, Stream) /\ Begins(files[now].pieces, files[now].pieces)
  BY FilesAre DEF Whole, Begins
<1>. QED
  BY <1>1, <1>2, <1>3 DEF Kept, Working

LEMMA KeptOrdered ==
  ASSUME TypeOK, Ordered, Kept, TypeOK', Working' => Written <= Written'
  PROVE  Ordered'
<1>1. ASSUME NEW f \in DOMAIN files', files'[f].openings < 2
      PROVE  Increasing(files'[f].pieces)
  <2>1. f \in DOMAIN files /\ files[f].openings < 2
    BY <1>1 DEF Kept
  <2>2. CASE f = now /\ Working
    <3>1. Increasing(Stream)
      BY <2>1, <2>2 DEF Ordered
    <3>. QED
      BY <2>2, <3>1, OrderedBeginning DEF Kept
  <2>3. CASE f # now \/ ~Working
    <3>1. files'[f].pieces = files[f].pieces
      BY <2>1, <2>3 DEF Kept
    <3>. QED
      BY <2>1, <3>1 DEF Ordered
  <2>. QED
    BY <2>2, <2>3
<1>2. ASSUME Working', files'[now'].openings < 2
      PROVE  /\ Increasing(Stream')
             /\ \A i \in DOMAIN Stream' : Stream'[i][2] = Rest => Stream'[i][1] <= Written'
  <2>1. /\ Working /\ files[now].openings < 2 /\ Stream' = Stream
    BY <1>2, FilesAre DEF Kept
  <2>2. /\ Increasing(Stream)
        /\ \A i \in DOMAIN Stream : Stream[i][2] = Rest => Stream[i][1] <= Written
    BY <2>1 DEF Ordered
  <2>3. \A i \in DOMAIN Stream : Stream[i][1] \in Nat
    BY FilesAre, PiecesAre
  <2>4. Written \in Int /\ Written' \in Int /\ Written <= Written'
    <3>1. Written' \in Int
      BY MarksNext DEF MarkTypes
    <3>. QED
      BY <1>2, <3>1, MarksAre DEF MarkTypes
  <2>. QED
    BY <2>1, <2>2, <2>3, <2>4
<1>. QED
  BY <1>1, <1>2 DEF Ordered

LEMMA KeptRuns ==
  ASSUME TypeOK, Runs, Kept, faults' = 0 => faults = 0,
         faults' = 0 /\ Working' =>
           3 * (Received' - born') - Missing' = 3 * (Received - born) - Missing
  PROVE  Runs'
<1>0. SUFFICES ASSUME faults' = 0, faults = 0
               PROVE  /\ \A f \in DOMAIN files' : files'[f].openings < 2 =>
                           \E first \in 1 .. MaxEntries + 1 : IsRun(files'[f].pieces, first)
                      /\ Working' /\ files'[now'].openings < 2 =>
                           /\ IsRun(Stream', born' + 1)
                           /\ Len(Stream') = 3 * (Received' - born') - Missing'
  BY DEF Runs
<1>1. ASSUME NEW f \in DOMAIN files', files'[f].openings < 2
      PROVE  \E first \in 1 .. MaxEntries + 1 : IsRun(files'[f].pieces, first)
  <2>1. f \in DOMAIN files /\ files[f].openings < 2
    BY <1>1 DEF Kept
  <2>2. CASE f = now /\ Working
    <3>1. IsRun(Stream, born + 1)
      BY <1>0, <2>1, <2>2 DEF Runs
    <3>2. IsRun(files'[f].pieces, born + 1)
      BY <2>2, <3>1, RunBeginning DEF Kept
    <3>3. born + 1 \in 1 .. MaxEntries + 1
      BY NumbersAre
    <3>. QED
      BY <3>2, <3>3
  <2>3. CASE f # now \/ ~Working
    <3>1. files'[f].pieces = files[f].pieces
      BY <2>1, <2>3 DEF Kept
    <3>. QED
      BY <1>0, <2>1, <3>1 DEF Runs
  <2>. QED
    BY <2>2, <2>3
<1>2. ASSUME Working', files'[now'].openings < 2
      PROVE  IsRun(Stream', born' + 1) /\ Len(Stream') = 3 * (Received' - born') - Missing'
  <2>1. /\ Working /\ files[now].openings < 2 /\ Stream' = Stream /\ born' = born
    BY <1>2, FilesAre DEF Kept
  <2>2. IsRun(Stream, born + 1) /\ Len(Stream) = 3 * (Received - born) - Missing
    BY <1>0, <2>1 DEF Runs
  <2>. QED
    BY <1>0, <1>2, <2>1, <2>2
<1>. QED
  BY <1>1, <1>2

LEMMA KeptOnDisk ==
  ASSUME TypeOK, Opens, OnDisk, Kept, faults' = 0 => faults = 0,
         \A f \in DOMAIN files : files'[f].damaged = files[f].damaged,
         files'[now].synced = files[now].synced,
         faults' = 0 =>
           /\ Working' => Written' = Written
           /\ phase' # "open" =>
                phase # "open" /\ Finished' - entries_since_sync' = Finished - entries_since_sync
           /\ entries_since_sync' <= SyncInterval
           /\ phase' \in {"receive", "text", "newline"} => entries_since_sync' < SyncInterval
           /\ phase' = "stopped" => ending' /\ entries_since_sync' = 0
  PROVE  OnDisk'
<1>0. SUFFICES ASSUME faults' = 0, faults = 0
               PROVE  /\ \A f \in DOMAIN files' : ~files'[f].damaged
                      /\ Working' => \A e \in born' + 1 .. Written' : Holds(Stream', e)
                      /\ phase' # "open" =>
                           \A e \in born' + 1 .. Finished' - entries_since_sync' : Synced(e)'
  BY DEF OnDisk
<1>1. \A f \in DOMAIN files' : ~files'[f].damaged
  BY <1>0 DEF OnDisk, Kept
<1>2. Working' => \A e \in born' + 1 .. Written' : Holds(Stream', e)
  BY <1>0 DEF OnDisk, Kept
<1>3. ASSUME phase' # "open", NEW e \in born' + 1 .. Finished' - entries_since_sync'
      PROVE  Synced(e)'
  <2>1. /\ e \in born + 1 .. Finished - entries_since_sync /\ phase # "open"
    BY <1>0, <1>3 DEF Kept
  <2>2. PICK i \in 1 .. files[now].synced : files[now].pieces[i] = <<e, Rest>>
    BY <1>0, <2>1 DEF OnDisk, Synced
  <2>3. i \in DOMAIN files[now].pieces
    <3>1. /\ files[now].synced \in Nat /\ Len(files[now].pieces) \in Nat
          /\ DOMAIN files[now].pieces = 1 .. Len(files[now].pieces)
      BY FilesAre
    <3>2. files[now].synced <= Len(files[now].pieces)
      BY FilesAre DEF Opens
    <3>. QED
      BY <3>1, <3>2
  <2>4. files'[now].pieces[i] = <<e, Rest>>
    BY <2>2, <2>3 DEF Kept, Begins
  <2>5. i \in 1 .. files'[now'].synced /\ files'[now'].pieces[i] = <<e, Rest>>
    BY <2>2, <2>4 DEF Kept
  <2>. QED
    BY <2>5 DEF Synced
<1>. QED
  BY <1>1, <1>2, <1>3

-----------------------------------------------------------------------------
(* The contents of the files, step by step.                                *)

Contents == Ordered /\ Runs /\ OnDisk

LEMMA QuietContents ==
  ASSUME IInv, Whole', Send \/ Close \/ Disconnected \/ Flushed \/ OpenFails
  PROVE  Contents'
<1>0. TypeOK /\ TypeOK' /\ Opens /\ Ordered /\ Runs /\ OnDisk /\ Counts
  BY DEF IInv, Whole
<1>1. /\ UNCHANGED <<entry, buffer, entries_since_sync, files, now, born>>
      /\ \/ phase' = phase /\ faults' = faults /\ ending' = ending
         \/ phase = "receive" /\ phase' = "flush" /\ faults' = faults
         \/ phase = "flush" /\ phase' = "fsync" /\ faults' = faults
         \/ phase = "open" /\ phase' = "stopped" /\ faults' = faults + 1
  BY DEF Send, Close, Disconnected, AtEnd, Flushed, OpenFails, channel, writer, world
<1>2. (Working' => Working) /\ (faults' = 0 => faults = 0)
  BY <1>0, <1>1, NumbersAre DEF Working
<1>3. Kept
  BY <1>0, <1>1, <1>2, KeptUnchanged
<1>4. /\ Received' = Received
      /\ Working' => Written' = Written /\ Missing' = Missing
      /\ faults' = 0 => Finished' = Finished
  BY <1>0, <1>1, NumbersAre DEF Received, Working, Written, Missing, Finished, Appending
<1>5. Ordered'
  <2>1. Working' => Written <= Written'
    BY <1>0, <1>4, MarksAre DEF MarkTypes
  <2>. QED
    BY <1>0, <1>3, <2>1, KeptOrdered
<1>6. Runs'
  BY <1>0, <1>1, <1>2, <1>3, <1>4, KeptRuns
<1>7. OnDisk'
  <2>1. ASSUME faults' = 0
        PROVE  /\ Working' => Written' = Written
               /\ phase' # "open" =>
                    phase # "open"
                    /\ Finished' - entries_since_sync' = Finished - entries_since_sync
               /\ entries_since_sync' <= SyncInterval
               /\ phase' \in {"receive", "text", "newline"} =>
                    entries_since_sync' < SyncInterval
               /\ phase' = "stopped" => ending' /\ entries_since_sync' = 0
    BY <1>0, <1>1, <1>2, <1>4, <2>1, NumbersAre DEF OnDisk
  <2>. QED
    BY <1>0, <1>1, <1>2, <1>3, <2>1, KeptOnDisk
<1>. QED
  BY <1>5, <1>6, <1>7 DEF Contents

LEMMA ReceiveContents ==
  ASSUME IInv, Whole', Receive
  PROVE  Contents'
<1>0. TypeOK /\ TypeOK' /\ Opens /\ Ordered /\ Runs /\ OnDisk /\ Counts /\ Whole
  BY DEF IInv, Whole
<1>1. /\ UNCHANGED <<ending, buffer, entries_since_sync, files, now, born, faults>>
      /\ phase = "receive" /\ phase' = "text"
  BY DEF Receive, writer, world
<1>2. Working /\ Working' /\ Missing = 0 /\ Missing' = 3
  BY <1>1 DEF Working, Missing
<1>3. Kept
  BY <1>0, <1>1, <1>2, KeptUnchanged
<1>4. Ordered'
  <2>1. Written <= Written'
    BY <1>0, ReceiveOf, MarksAre DEF MarkTypes
  <2>. QED
    BY <1>0, <1>3, <2>1, KeptOrdered
<1>5. Runs'
  <2>1. 3 * (Received' - born') - Missing' = 3 * (Received - born) - Missing
    BY <1>0, <1>1, <1>2, ReceiveOf, MarksAre, NumbersAre DEF MarkTypes
  <2>. QED
    BY <1>0, <1>1, <1>3, <2>1, KeptRuns
<1>6. OnDisk'
  <2>1. Written' = Written /\ Finished' = Finished
    BY <1>0, ReceiveOf
  <2>2. ASSUME faults' = 0
        PROVE  entries_since_sync' <= SyncInterval /\ entries_since_sync' < SyncInterval
    BY <1>0, <1>1, <2>2 DEF OnDisk
  <2>. QED
    BY <1>0, <1>1, <1>3, <2>1, <2>2, KeptOnDisk
<1>. QED
  BY <1>4, <1>5, <1>6 DEF Contents

LEMMA WriteContents ==
  ASSUME IInv, Whole', Write \/ WriteFails
  PROVE  Contents'
<1>0. TypeOK /\ TypeOK' /\ Opens /\ Ordered /\ Runs /\ OnDisk /\ Counts /\ Whole
  BY DEF IInv, Whole
<1>1. /\ phase \in {"text", "newline", "flush"}
      /\ UNCHANGED <<entry, ending, entries_since_sync, now, born>>
      /\ \/ phase' = phase /\ faults' = faults
         \/ phase' \in {"receive", "stopped"} /\ faults' = faults + 1
  BY <1>0, WriteOf
<1>2. faults' = 0 => phase' = phase /\ faults = 0
  BY <1>0, <1>1, NumbersAre
<1>3. Kept
  BY <1>0, KeptWrite
<1>4. Ordered'
  <2>1. phase = "text" => entry # 0
    BY <1>0 DEF Counts, Appending
  <2>2. Written <= Written'
    BY <1>0, <1>1, <2>1, NumbersAre DEF Written, Received
  <2>. QED
    BY <1>0, <1>3, <2>2, KeptOrdered
<1>5. Received' = Received /\ (phase' = phase => /\ Written' = Written /\ Missing' = Missing
                                                /\ Finished' = Finished)
  BY <1>1 DEF Written, Received, Missing, Finished, Appending
<1>6. Runs'
  BY <1>0, <1>1, <1>2, <1>3, <1>5, KeptRuns
<1>7. OnDisk'
  <2>1. ASSUME faults' = 0
        PROVE  /\ Written' = Written /\ phase # "open"
               /\ Finished' - entries_since_sync' = Finished - entries_since_sync
               /\ entries_since_sync' <= SyncInterval
               /\ phase' \in {"receive", "text", "newline"} =>
                    entries_since_sync' < SyncInterval
               /\ phase' # "stopped"
    BY <1>0, <1>1, <1>2, <1>5, <2>1 DEF OnDisk
  <2>. QED
    BY <1>0, <1>2, <1>3, <2>1, KeptWrite, KeptOnDisk
<1>. QED
  BY <1>4, <1>6, <1>7 DEF Contents

LEMMA SyncContents ==
  ASSUME IInv, Whole', Fsync \/ FsyncFails
  PROVE  Contents'
<1>0. TypeOK /\ TypeOK' /\ Opens /\ Ordered /\ Runs /\ OnDisk /\ Counts /\ Whole
  BY DEF IInv, Whole
<1>1. /\ phase = "fsync" /\ buffer = << >>
      /\ phase' \in {"stopped", "receive"} /\ (phase' = "stopped" <=> ending)
      /\ UNCHANGED <<entry, ending, buffer, now, born>>
      /\ \/ Fsync /\ faults' = faults /\ entries_since_sync' = 0
         \/ faults' = faults + 1
  BY <1>0, SyncOf
<1>2. /\ Received' = Received /\ Written' = Received /\ Written = Received
      /\ Finished' = Received /\ Missing' = 0 /\ Missing = 0
  BY <1>1 DEF Received, Written, Finished, Missing, Appending
<1>3. faults' = 0 => Fsync /\ faults = 0 /\ entries_since_sync' = 0
  BY <1>0, <1>1, NumbersAre
<1>4. Kept
  BY <1>0, KeptSync
<1>5. Ordered'
  <2>1. Written <= Written'
    BY <1>0, <1>2, MarksAre DEF MarkTypes
  <2>. QED
    BY <1>0, <1>4, <2>1, KeptOrdered
<1>6. Runs'
  BY <1>0, <1>1, <1>2, <1>3, <1>4, KeptRuns
<1>7. OnDisk'
  <2>0. SUFFICES ASSUME faults' = 0
                 PROVE  OnDisk'
    BY DEF OnDisk
  <2>1. Fsync /\ faults = 0 /\ entries_since_sync' = 0
    BY <1>3, <2>0
  <2>2. now \in DOMAIN files /\ \A f \in DOMAIN files : ~files[f].damaged
    BY <1>0, <2>1, FilesAre DEF OnDisk
  <2>3. /\ DOMAIN files' = DOMAIN files
        /\ \A f \in DOMAIN files : f # now => files'[f] = files[f]
        /\ files'[now].pieces = files[now].pieces
        /\ files'[now].damaged = files[now].damaged
        /\ files'[now].synced = Len(files[now].pieces)
    BY <1>0, <2>1, <2>2, SyncOf
  <2>4. Stream = files[now].pieces /\ Stream' = Stream
    <3>1. files[now].pieces \in Seq(Piece)
      BY <1>0, FilesAre
    <3>2. files[now].pieces \o << >> = files[now].pieces
      BY <3>1, ConcatEmptySeq
    <3>. QED
      BY <1>1, <3>2, <1>4 DEF Stream, Kept
  <2>5. \A e \in born + 1 .. Written : Holds(Stream, e)
    BY <1>0, <1>1, <2>1 DEF OnDisk, Working
  <2>6. \A e \in born' + 1 .. Written' : Holds(Stream', e)
    BY <1>1, <1>2, <2>4, <2>5
  <2>7. ASSUME NEW e \in born' + 1 .. Finished' - entries_since_sync'
        PROVE  Synced(e)'
    <3>1. e \in born + 1 .. Written
      BY <1>0, <1>1, <1>2, <2>1, MarksAre DEF MarkTypes
    <3>2. PICK i \in DOMAIN files[now].pieces : files[now].pieces[i] = <<e, Rest>>
      BY <2>4, <2>5, <3>1 DEF Holds
    <3>3. i \in 1 .. Len(files[now].pieces)
      BY <1>0, FilesAre
    <3>. QED
      BY <1>1, <2>3, <3>2, <3>3 DEF Synced
  <2>8. /\ entries_since_sync' < SyncInterval /\ entries_since_sync' <= SyncInterval
    BY <1>0, <2>1, NumbersAre
  <2>. QED
    BY <1>1, <2>1, <2>2, <2>3, <2>6, <2>7, <2>8 DEF OnDisk
<1>. QED
  BY <1>5, <1>6, <1>7 DEF Contents

LEMMA EmptyContents ==
  ASSUME NEW s, s = << >>
  PROVE  Increasing(s) /\ (\A first : IsRun(s, first)) /\ Len(s) = 0 /\ DOMAIN s = {}
<1>1. Len(s) = 0 /\ DOMAIN s = {}
  BY EmptySeq
<1>. QED
  BY <1>1 DEF Increasing, IsRun

LEMMA OpenContents ==
  ASSUME IInv, Whole', Open
  PROVE  Contents'
<1>0. TypeOK /\ Opens /\ Ordered /\ Runs /\ OnDisk /\ Counts
  BY DEF IInv, Whole
<1>1. /\ phase = "open" /\ phase' = "receive" /\ entry = 0 /\ buffer = << >>
      /\ UNCHANGED <<entry, buffer, entries_since_sync, now, born, faults>>
  BY <1>0 DEF Open, channel, writer, world, Opens, Counts
<1>2. /\ DOMAIN files' = DOMAIN files /\ now \in DOMAIN files
      /\ \A f \in DOMAIN files : f # now => files'[f] = files[f]
      /\ files'[now].pieces = files[now].pieces
      /\ files'[now].damaged = files[now].damaged
      /\ files'[now].openings = files[now].openings + 1
      /\ files[now].openings \in Nat
  BY <1>0, OpenOf, FilesAre
<1>3. \A f \in DOMAIN files' : /\ files'[f].pieces = files[f].pieces
                               /\ files'[f].openings < 2 => files[f].openings < 2
  BY <1>2
<1>4. /\ Received = born /\ Received' = born /\ Written' = born /\ Finished' = born
      /\ Finished = born /\ Missing' = 0
  BY <1>1 DEF Received, Written, Finished, Missing, Appending
<1>5. files'[now'].openings < 2 => Stream' = << >>
  <2>1. SUFFICES ASSUME files'[now'].openings < 2
                 PROVE  Stream' = << >>
    OBVIOUS
  <2>2. files[now].openings = 0
    BY <1>1, <1>2, <2>1
  <2>3. files'[now'].pieces = << >> /\ buffer' = << >>
    BY <1>0, <1>1, <1>2, <2>2 DEF Opens
  <2>4. << >> \o << >> = << >>
    BY EmptySeq, ConcatEmptySeq
  <2>. QED
    BY <2>3, <2>4 DEF Stream
<1>6. Ordered'
  <2>1. ASSUME NEW f \in DOMAIN files', files'[f].openings < 2
        PROVE  Increasing(files'[f].pieces)
    BY <1>0, <1>2, <1>3, <2>1 DEF Ordered
  <2>2. ASSUME files'[now'].openings < 2
        PROVE  /\ Increasing(Stream')
               /\ \A i \in DOMAIN Stream' : Stream'[i][2] = Rest => Stream'[i][1] <= Written'
    BY <1>5, <2>2, EmptyContents
  <2>. QED
    BY <2>1, <2>2 DEF Ordered
<1>7. Runs'
  <2>1. SUFFICES ASSUME faults = 0
                 PROVE  Runs'
    BY <1>1 DEF Runs
  <2>2. ASSUME NEW f \in DOMAIN files', files'[f].openings < 2
        PROVE  \E first \in 1 .. MaxEntries + 1 : IsRun(files'[f].pieces, first)
    BY <1>0, <1>2, <1>3, <2>1, <2>2 DEF Runs
  <2>3. ASSUME files'[now'].openings < 2
        PROVE  /\ IsRun(Stream', born' + 1)
               /\ Len(Stream') = 3 * (Received' - born') - Missing'
    <3>1. born \in Nat /\ 3 * (born - born) - 0 = 0
      BY <1>0, NumbersAre
    <3>. QED
      BY <1>1, <1>4, <1>5, <2>3, <3>1, EmptyContents
  <2>. QED
    BY <2>2, <2>3 DEF Runs
<1>8. OnDisk'
  <2>1. SUFFICES ASSUME faults = 0
                 PROVE  OnDisk'
    BY <1>1 DEF OnDisk
  <2>2. entries_since_sync = 0 /\ born \in Nat /\ SyncInterval \in Nat \ {0}
    BY <1>0, <1>4, NumbersAre DEF Counts
  <2>3. \A f \in DOMAIN files' : ~files'[f].damaged
    BY <1>0, <1>2, <2>1 DEF OnDisk
  <2>4. born' + 1 .. Written' = {} /\ born' + 1 .. Finished' - entries_since_sync' = {}
    BY <1>1, <1>4, <2>2
  <2>5. entries_since_sync' < SyncInterval /\ entries_since_sync' <= SyncInterval
    BY <1>1, <2>2
  <2>. QED
    BY <1>1, <2>3, <2>4, <2>5 DEF OnDisk
<1>. QED
  BY <1>6, <1>7, <1>8 DEF Contents

(* What was on disk stays there as long as the files stay the same.        *)
LEMMA SyncedStill ==
  ASSUME files' = files, now' = now, NEW e, Synced(e)
  PROVE  Synced(e)'
BY DEF Synced

LEMMA TextContents ==
  ASSUME IInv, Whole', WriteText
  PROVE  Contents'
<1>0. TypeOK /\ Opens /\ Ordered /\ Runs /\ OnDisk /\ Counts /\ Whole
  BY DEF IInv, Whole
<1>1. /\ phase = "text" /\ phase' = "newline"
      /\ UNCHANGED <<entry, ending, entries_since_sync, files, now, born, faults>>
  BY DEF WriteText, channel, world
<1>2. entry \in Nat /\ entry # 0 /\ born \in Nat /\ born < entry
  BY <1>0, <1>1, NumbersAre DEF Counts, Appending
<1>3. /\ Received = entry /\ Received' = entry /\ Written = entry - 1 /\ Written' = entry
      /\ Finished' = Finished /\ Missing = 3 /\ Missing' = 1 /\ Working
  BY <1>1, <1>2 DEF Received, Written, Finished, Missing, Appending, Working
<1>4. PICK l \in Nat : l = Len(Stream) /\ DOMAIN Stream = 1 .. l
  BY <1>0, FilesAre, PiecesAre
<1>5. /\ Len(Stream') = l + 2 /\ DOMAIN Stream' = 1 .. l + 2
      /\ \A i \in 1 .. l : Stream'[i] = Stream[i]
      /\ Stream'[l + 1] = <<entry, Beginning>> /\ Stream'[l + 2] = <<entry, Rest>>
  BY <1>0, <1>4, TextOf DEF Begins
<1>6. \A i \in 1 .. l : Stream[i][1] \in Nat /\ Stream[i][2] \in 1 .. 3
  BY <1>0, <1>4, FilesAre, PiecesAre
<1>7. /\ Stream'[l + 1][1] = entry /\ Stream'[l + 1][2] = 1
      /\ Stream'[l + 2][1] = entry /\ Stream'[l + 2][2] = 2
  BY <1>5 DEF Beginning, Rest
<1>8. \A i \in 1 .. l + 2 : i \in 1 .. l \/ i = l + 1 \/ i = l + 2
  BY <1>4
<1>9. Ordered'
  <2>1. ASSUME files[now].openings < 2
        PROVE  /\ Increasing(Stream')
               /\ \A i \in DOMAIN Stream' : Stream'[i][2] = Rest => Stream'[i][1] <= entry
    <3>1. /\ \A i, j \in 1 .. l : i < j /\ Stream[i][2] = Rest /\ Stream[j][2] = Rest
                                    => Stream[i][1] < Stream[j][1]
          /\ \A i \in 1 .. l : Stream[i][2] = Rest => Stream[i][1] <= entry - 1
      BY <1>0, <1>3, <1>4, <2>1 DEF Ordered, Increasing
    <3>2. ASSUME NEW i \in 1 .. l + 2, Stream'[i][2] = Rest
          PROVE  i # l + 1 /\ (i \in 1 .. l => Stream'[i][1] <= entry - 1)
                 /\ Stream'[i][1] <= entry
      BY <1>2, <1>5, <1>6, <1>7, <1>8, <3>1, <3>2, SMTT(30) DEF Rest
    <3>3. ASSUME NEW i \in 1 .. l + 2, NEW j \in 1 .. l + 2, i < j,
                 Stream'[i][2] = Rest, Stream'[j][2] = Rest
          PROVE  Stream'[i][1] < Stream'[j][1]
      <4>1. i \in 1 .. l
        BY <1>4, <1>8, <3>2, <3>3
      <4>2. CASE j \in 1 .. l
        BY <1>5, <3>1, <3>3, <4>1, <4>2
      <4>3. CASE j = l + 2
        <5>1. Stream'[i][1] <= entry - 1 /\ Stream'[i][1] \in Nat
          BY <1>5, <1>6, <3>2, <3>3, <4>1
        <5>. QED
          BY <1>2, <1>7, <4>3, <5>1
      <4>. QED
        BY <1>8, <3>2, <3>3, <4>2, <4>3
    <3>. QED
      BY <1>5, <3>2, <3>3 DEF Increasing
  <2>. QED
    BY <1>0, <1>1, <1>3, <2>1 DEF Ordered
<1>10. Runs'
  <2>1. ASSUME faults = 0, files[now].openings < 2
        PROVE  IsRun(Stream', born + 1) /\ Len(Stream') = 3 * (entry - born) - 1
    <3>1. /\ \A i \in 1 .. l : i = 3 * (Stream[i][1] - (born + 1)) + Stream[i][2]
          /\ l = 3 * (entry - born) - 3
      BY <1>0, <1>3, <1>4, <2>1 DEF Runs, IsRun
    <3>2. /\ l + 1 = 3 * (entry - (born + 1)) + 1 /\ l + 2 = 3 * (entry - (born + 1)) + 2
          /\ l + 2 = 3 * (entry - born) - 1
      BY <1>2, <3>1
    <3>3. \A i \in 1 .. l + 2 : i = 3 * (Stream'[i][1] - (born + 1)) + Stream'[i][2]
      <4>1. TAKE i \in 1 .. l + 2
      <4>2. CASE i \in 1 .. l
        BY <1>5, <3>1, <4>2
      <4>3. CASE i = l + 1
        BY <1>7, <3>2, <4>3
      <4>4. CASE i = l + 2
        BY <1>7, <3>2, <4>4
      <4>. QED
        BY <1>8, <4>2, <4>3, <4>4
    <3>. QED
      BY <1>5, <3>2, <3>3 DEF IsRun
  <2>. QED
    BY <1>0, <1>1, <1>3, <2>1 DEF Runs
<1>11. OnDisk'
  <2>1. SUFFICES ASSUME faults = 0
                 PROVE  OnDisk'
    BY <1>1 DEF OnDisk
  <2>2. ASSUME NEW e \in born + 1 .. entry
        PROVE  Holds(Stream', e)
    <3>1. CASE e = entry
      <4>1. l + 2 \in DOMAIN Stream'
        BY <1>5
      <4>. QED
        BY <1>5, <3>1, <4>1 DEF Holds
    <3>2. CASE e # entry
      <4>1. e \in born + 1 .. Written
        BY <1>2, <1>3, <3>2
      <4>2. PICK i \in DOMAIN Stream : Stream[i] = <<e, Rest>>
        BY <1>0, <1>3, <2>1, <4>1 DEF OnDisk, Holds
      <4>3. i \in DOMAIN Stream' /\ Stream'[i] = <<e, Rest>>
        BY <1>4, <1>5, <4>2
      <4>. QED
        BY <4>3 DEF Holds
    <3>. QED
      BY <3>1, <3>2
  <2>3. \A e \in born' + 1 .. Finished' - entries_since_sync' : Synced(e)'
    BY <1>0, <1>1, <1>3, <2>1, SyncedStill DEF OnDisk
  <2>. QED
    BY <1>0, <1>1, <1>3, <2>1, <2>2, <2>3 DEF OnDisk
<1>. QED
  BY <1>9, <1>10, <1>11 DEF Contents

LEMMA LineEndContents ==
  ASSUME IInv, Whole', WriteLineEnd
  PROVE  Contents'
<1>0. TypeOK /\ Opens /\ Ordered /\ Runs /\ OnDisk /\ Counts /\ Whole
  BY DEF IInv, Whole
<1>1. /\ phase = "newline"
      /\ entries_since_sync' = entries_since_sync + 1
      /\ phase' = (IF entries_since_sync' >= SyncInterval THEN "flush" ELSE "receive")
      /\ UNCHANGED <<entry, ending, files, now, born, faults>>
  BY DEF WriteLineEnd, SyncDue, channel, world
<1>2. /\ entry \in Nat /\ entry # 0 /\ born \in Nat /\ born < entry
      /\ entries_since_sync \in Nat /\ SyncInterval \in Nat
  BY <1>0, <1>1, NumbersAre DEF Counts, Appending
<1>3. /\ Received = entry /\ Received' = entry /\ Written = entry /\ Written' = entry
      /\ Finished = entry - 1 /\ Finished' = entry /\ Missing = 1 /\ Missing' = 0 /\ Working
      /\ phase' # "open" /\ phase' # "stopped"
  BY <1>1, <1>2 DEF Received, Written, Finished, Missing, Appending, Working
<1>4. PICK l \in Nat : l = Len(Stream) /\ DOMAIN Stream = 1 .. l
  BY <1>0, FilesAre, PiecesAre
<1>5. /\ Len(Stream') = l + 1 /\ DOMAIN Stream' = 1 .. l + 1
      /\ \A i \in 1 .. l : Stream'[i] = Stream[i]
      /\ Stream'[l + 1] = <<entry, LineEnd>>
  BY <1>0, <1>4, LineEndOf DEF Begins
<1>6. Stream'[l + 1][1] = entry /\ Stream'[l + 1][2] = 3
  BY <1>5 DEF LineEnd
<1>7. \A i \in 1 .. l + 1 : i \in 1 .. l \/ i = l + 1
  BY <1>4
<1>8. Ordered'
  <2>1. ASSUME files[now].openings < 2
        PROVE  /\ Increasing(Stream')
               /\ \A i \in DOMAIN Stream' : Stream'[i][2] = Rest => Stream'[i][1] <= entry
    <3>1. /\ \A i, j \in 1 .. l : i < j /\ Stream[i][2] = Rest /\ Stream[j][2] = Rest
                                    => Stream[i][1] < Stream[j][1]
          /\ \A i \in 1 .. l : Stream[i][2] = Rest => Stream[i][1] <= entry
      BY <1>0, <1>3, <1>4, <2>1 DEF Ordered, Increasing
    <3>2. \A i \in 1 .. l + 1 : Stream'[i][2] = Rest => i \in 1 .. l
      BY <1>6, <1>7 DEF Rest
    <3>. QED
      BY <1>5, <3>1, <3>2 DEF Increasing
  <2>. QED
    BY <1>0, <1>1, <1>3, <2>1 DEF Ordered
<1>9. Runs'
  <2>1. ASSUME faults = 0, files[now].openings < 2
        PROVE  IsRun(Stream', born + 1) /\ Len(Stream') = 3 * (entry - born) - 0
    <3>1. /\ \A i \in 1 .. l : i = 3 * (Stream[i][1] - (born + 1)) + Stream[i][2]
          /\ l = 3 * (entry - born) - 1
      BY <1>0, <1>3, <1>4, <2>1 DEF Runs, IsRun
    <3>2. l + 1 = 3 * (entry - (born + 1)) + 3 /\ l + 1 = 3 * (entry - born) - 0
      BY <1>2, <3>1
    <3>3. \A i \in 1 .. l + 1 : i = 3 * (Stream'[i][1] - (born + 1)) + Stream'[i][2]
      <4>1. TAKE i \in 1 .. l + 1
      <4>2. CASE i \in 1 .. l
        BY <1>5, <3>1, <4>2
      <4>3. CASE i = l + 1
        BY <1>6, <3>2, <4>3
      <4>. QED
        BY <1>7, <4>2, <4>3
    <3>. QED
      BY <1>5, <3>2, <3>3 DEF IsRun
  <2>. QED
    BY <1>0, <1>1, <1>3, <2>1 DEF Runs
<1>10. OnDisk'
  <2>1. SUFFICES ASSUME faults = 0
                 PROVE  OnDisk'
    BY <1>1 DEF OnDisk
  <2>2. ASSUME NEW e \in born + 1 .. entry
        PROVE  Holds(Stream', e)
    <3>1. PICK i \in DOMAIN Stream : Stream[i] = <<e, Rest>>
      BY <1>0, <1>3, <2>1 DEF OnDisk, Holds
    <3>2. i \in DOMAIN Stream' /\ Stream'[i] = <<e, Rest>>
      BY <1>4, <1>5, <3>1
    <3>. QED
      BY <3>2 DEF Holds
  <2>3. Finished' - entries_since_sync' = Finished - entries_since_sync
    BY <1>1, <1>2, <1>3
  <2>4. \A e \in born' + 1 .. Finished' - entries_since_sync' : Synced(e)'
    <3>1. \A e \in born + 1 .. Finished - entries_since_sync : Synced(e)
      BY <1>0, <1>1, <2>1 DEF OnDisk
    <3>. QED
      BY <1>1, <2>3, <3>1, SyncedStill
  <2>5. /\ entries_since_sync' <= SyncInterval
        /\ phase' \in {"receive", "text", "newline"} => entries_since_sync' < SyncInterval
    <3>1. entries_since_sync < SyncInterval
      BY <1>0, <1>1, <2>1 DEF OnDisk
    <3>. QED
      BY <1>1, <1>2, <3>1
  <2>6. \A f \in DOMAIN files' : ~files'[f].damaged
    BY <1>0, <1>1, <2>1 DEF OnDisk
  <2>. QED
    BY <1>1, <1>3, <2>2, <2>4, <2>5, <2>6 DEF OnDisk
<1>. QED
  BY <1>8, <1>9, <1>10 DEF Contents

LEMMA CrashContents ==
  ASSUME IInv, Whole', ProcessCrash \/ MachineCrash
  PROVE  Contents'
<1>0. TypeOK /\ Opens /\ Ordered /\ Runs /\ OnDisk /\ Counts /\ Whole
  BY DEF IInv, Whole
<1>1. /\ phase' = "open" /\ entries_since_sync' = 0 /\ faults' = faults
  BY DEF ProcessCrash, MachineCrash, Restart
<1>2. ~Working'
  BY <1>1 DEF Working
<1>3. /\ DOMAIN files' = DOMAIN files
      /\ \A f \in DOMAIN files :
           /\ files'[f].openings = files[f].openings
           /\ files'[f].damaged = files[f].damaged
           /\ \/ Begins(files'[f].pieces, files[f].pieces)
              \/ f = now /\ Working /\ Begins(files'[f].pieces, Stream)
  BY <1>0, CrashOf
<1>4. ASSUME NEW f \in DOMAIN files', files'[f].openings < 2
      PROVE  Increasing(files'[f].pieces)
  <2>1. f \in DOMAIN files /\ files[f].openings < 2
    BY <1>3, <1>4
  <2>2. CASE Begins(files'[f].pieces, files[f].pieces)
    BY <1>0, <2>1, <2>2, OrderedBeginning DEF Ordered
  <2>3. CASE f = now /\ Working /\ Begins(files'[f].pieces, Stream)
    BY <1>0, <2>1, <2>3, OrderedBeginning DEF Ordered
  <2>. QED
    BY <1>3, <2>1, <2>2, <2>3
<1>5. ASSUME faults = 0, NEW f \in DOMAIN files', files'[f].openings < 2
      PROVE  \E first \in 1 .. MaxEntries + 1 : IsRun(files'[f].pieces, first)
  <2>1. f \in DOMAIN files /\ files[f].openings < 2
    BY <1>3, <1>5
  <2>2. CASE Begins(files'[f].pieces, files[f].pieces)
    <3>1. PICK first \in 1 .. MaxEntries + 1 : IsRun(files[f].pieces, first)
      BY <1>0, <1>5, <2>1 DEF Runs
    <3>2. IsRun(files'[f].pieces, first)
      BY <2>2, <3>1, RunBeginning
    <3>. QED
      BY <3>2
  <2>3. CASE f = now /\ Working /\ Begins(files'[f].pieces, Stream)
    <3>1. IsRun(Stream, born + 1)
      BY <1>0, <1>5, <2>1, <2>3 DEF Runs
    <3>2. IsRun(files'[f].pieces, born + 1)
      BY <2>3, <3>1, RunBeginning
    <3>3. born + 1 \in 1 .. MaxEntries + 1
      BY <1>0, NumbersAre
    <3>. QED
      BY <3>2, <3>3
  <2>. QED
    BY <1>3, <2>1, <2>2, <2>3
<1>6. OnDisk'
  <2>1. ASSUME faults = 0
        PROVE  \A f \in DOMAIN files' : ~files'[f].damaged
    BY <1>0, <1>3, <2>1 DEF OnDisk
  <2>2. 0 <= SyncInterval
    BY <1>0, NumbersAre
  <2>. QED
    BY <1>1, <1>2, <2>1, <2>2 DEF OnDisk
<1>7. Ordered'
  BY <1>2, <1>4 DEF Ordered
<1>8. Runs'
  BY <1>1, <1>2, <1>5 DEF Runs
<1>. QED
  BY <1>6, <1>7, <1>8 DEF Contents

-----------------------------------------------------------------------------
(* The invariant.                                                          *)

LEMMA InitInvariant == Init => IInv
<1>. SUFFICES ASSUME Init
              PROVE  IInv
  OBVIOUS
<1>1. /\ queue = << >> /\ closed = FALSE /\ phase = "open" /\ ending = FALSE /\ entry = 0
      /\ buffer = << >> /\ entries_since_sync = 0 /\ now = 1 /\ sent = 0 /\ born = 0
      /\ faults = 0 /\ crashes = 0
      /\ DOMAIN files = 1 .. MaxCrashes + 1 /\ \A f \in DOMAIN files : files[f] = NoFile
  BY DEF Init
<1>2. /\ {QueueCapacity, BufferSize, MaxEntries, MaxFaults, MaxCrashes} \subseteq Nat
      /\ SyncInterval \in Nat \ {0}
  BY LogAssumption
<1>3. << >> \in Seq(Entry) /\ << >> \in Seq(Piece) /\ Len(<< >>) = 0 /\ DOMAIN << >> = {}
  BY EmptySeq
<1>4. /\ NoFile \in File /\ NoFile.pieces = << >> /\ NoFile.synced = 0 /\ ~NoFile.damaged
      /\ NoFile.openings = 0
  <2>1. PICK none \in Seq(Piece) : none = << >>
    BY <1>3
  <2>2. [pieces |-> none, synced |-> 0, damaged |-> FALSE, openings |-> 0] \in File
    BY DEF File
  <2>. QED
    BY <2>1, <2>2 DEF NoFile
<1>5. ~Working /\ ~Appending /\ Received = 0 /\ Finished = 0
  BY <1>1 DEF Working, Appending, Received, Finished
<1>6. TypeOK
  <2>1. QueueTypes /\ BufferTypes
    BY <1>1, <1>2, <1>3 DEF QueueTypes, BufferTypes
  <2>2. PhaseTypes
    BY <1>1 DEF PhaseTypes
  <2>3. FileTypes
    BY <1>1, <1>2, <1>4 DEF FileTypes
  <2>4. NumberTypes
    BY <1>1, <1>2 DEF NumberTypes
  <2>. QED
    BY <2>1, <2>2, <2>3, <2>4, TypeParts
<1>7. Counts
  BY <1>1, <1>3, <1>5 DEF Counts
<1>8. Opens
  BY <1>1, <1>3, <1>4, <1>5 DEF Opens
<1>9. Ordered
  BY <1>1, <1>3, <1>4, <1>5 DEF Ordered, Increasing
<1>10. Runs
  <2>1. 1 \in 1 .. MaxEntries + 1 /\ IsRun(<< >>, 1)
    BY <1>2, <1>3 DEF IsRun
  <2>. QED
    BY <1>1, <1>4, <1>5, <2>1 DEF Runs
<1>11. OnDisk
  BY <1>1, <1>2, <1>4, <1>5 DEF OnDisk
<1>. QED
  BY <1>6, <1>7, <1>8, <1>9, <1>10, <1>11 DEF IInv, Whole

LEMMA StutterInvariant == IInv /\ UNCHANGED vars => IInv'
<1>. SUFFICES ASSUME IInv, UNCHANGED vars
              PROVE  IInv'
  OBVIOUS
<1>1. UNCHANGED <<queue, closed, sent, phase, ending, entry, buffer, entries_since_sync, files,
                  now, born, faults, crashes>>
  BY DEF vars, channel, writer, world
<1>2. /\ Working' = Working /\ Appending' = Appending /\ Received' = Received
      /\ Stream' = Stream /\ Missing' = Missing
  BY <1>1 DEF Working, Appending, Received, Stream, Missing
<1>3. Written' = Written /\ Finished' = Finished
  BY <1>1, <1>2 DEF Written, Finished
<1>4. TypeOK' /\ Counts' /\ Opens'
  BY <1>1, <1>2, <1>3 DEF IInv, Whole, TypeOK, Counts, Opens
<1>5. Ordered' /\ Runs'
  BY <1>1, <1>2, <1>3 DEF IInv, Ordered, Runs
<1>6. OnDisk'
  BY <1>1, <1>2, <1>3 DEF IInv, OnDisk, Synced
<1>. QED
  BY <1>4, <1>5, <1>6 DEF IInv, Whole

LEMMA StepInvariant == IInv /\ [Next]_vars => IInv'
<1>. SUFFICES ASSUME IInv, [Next]_vars
              PROVE  IInv'
  OBVIOUS
<1>0. Whole
  BY DEF IInv
<1>1. CASE Send \/ Close \/ Disconnected \/ Flushed \/ OpenFails
  BY <1>0, <1>1, ChannelWhole, BetweenWhole, QuietContents DEF IInv, Contents
<1>2. CASE Open
  BY <1>0, <1>2, OpenWhole, OpenContents DEF IInv, Contents
<1>3. CASE Receive
  BY <1>0, <1>3, ReceiveWhole, ReceiveContents DEF IInv, Contents
<1>4. CASE WriteText
  BY <1>0, <1>4, TextWhole, TextContents DEF IInv, Contents
<1>5. CASE WriteLineEnd
  BY <1>0, <1>5, LineEndWhole, LineEndContents DEF IInv, Contents
<1>6. CASE Write \/ WriteFails
  BY <1>0, <1>6, WriteWhole, WriteContents DEF IInv, Contents
<1>7. CASE Fsync \/ FsyncFails
  BY <1>0, <1>7, SyncWhole, SyncContents DEF IInv, Contents
<1>8. CASE ProcessCrash \/ MachineCrash
  BY <1>0, <1>8, CrashWhole, CrashContents DEF IInv, Contents
<1>9. CASE UNCHANGED vars
  BY <1>9, StutterInvariant
<1>. QED
  BY <1>1, <1>2, <1>3, <1>4, <1>5, <1>6, <1>7, <1>8, <1>9
  DEF Next, LogThread, AppendEntry, Sync

(* Whatever fails, and wherever the process or the machine crashes: texts  *)
(* stand in the order the entries were sent, and without failures a file   *)
(* of one process is a run of whole lines, of which all but the last ones  *)
(* are on disk (WalWriter of wal.rs, wal_thread_loop).                     *)
THEOREM Invariant == Spec => []IInv
<1>1. Init => IInv
  BY InitInvariant
<1>2. IInv /\ [Next]_vars => IInv'
  BY StepInvariant
<1>. QED
  BY <1>1, <1>2, PTL DEF Spec

-----------------------------------------------------------------------------
(* What it implies.                                                        *)

(* The buffer never holds more than its size and no count runs away: the   *)
(* BufWriter is written out before what would not fit (append of wal.rs).  *)
THEOREM LogTypesCorrect == Spec => []TypeOK
<1>1. IInv => TypeOK
  BY DEF IInv, Whole
<1>. QED
  BY <1>1, Invariant, PTL

LEMMA AtRiskFew ==
  ASSUME IInv, faults = 0, phase # "open"
  PROVE  AtRisk \subseteq Finished - entries_since_sync + 1 .. entry
<1>0. TypeOK /\ Counts /\ Opens /\ OnDisk
  BY DEF IInv, Whole
<1>1. Finished \in Int /\ entries_since_sync \in Nat /\ born \in Nat /\ entry \in Nat
  BY <1>0, NumbersAre, MarksAre DEF MarkTypes
<1>2. PICK p \in Seq(Piece), n \in Nat :
         p = files[now].pieces /\ n = files[now].synced /\ n \in 0 .. Len(p)
  <2>1. /\ now \in DOMAIN files /\ files[now].pieces \in Seq(Piece)
        /\ files[now].synced \in Nat /\ Len(files[now].pieces) \in Nat
    BY <1>0, FilesAre
  <2>2. files[now].synced <= Len(files[now].pieces)
    BY <1>0, <2>1 DEF Opens
  <2>. QED
    BY <2>1, <2>2
<1>3. ASSUME NEW e \in AtRisk, e \in born + 1 .. Finished - entries_since_sync
      PROVE  FALSE
  <2>1. PICK i \in 1 .. n : p[i] = <<e, Rest>>
    BY <1>0, <1>2, <1>3 DEF OnDisk, Synced
  <2>2. PICK q : q = SubSeq(p, 1, n)
    OBVIOUS
  <2>3. DOMAIN q = 1 .. n /\ q[i] = p[i]
    BY <2>2, FirstOnes
  <2>4. <<e, Rest>> \in ToSet(q)
    BY <2>1, <2>3 DEF ToSet
  <2>. QED
    BY <1>2, <1>3, <2>2, <2>4 DEF AtRisk
<1>4. AtRisk \subseteq born + 1 .. entry
  BY DEF AtRisk
<1>5. PICK a \in Int : a = Finished - entries_since_sync
  BY <1>1
<1>6. \A e \in AtRisk : e \in born + 1 .. entry /\ ~(e \in born + 1 .. a)
  BY <1>3, <1>4, <1>5
<1>7. \A e \in AtRisk : e \in a + 1 .. entry
  BY <1>1, <1>5, <1>6
<1>. QED
  BY <1>5, <1>7

LEMMA FewAre ==
  ASSUME NEW S, NEW a \in Int, NEW b \in Int, S \subseteq a + 1 .. b
  PROVE  Cardinality(S) \in Nat /\ (a <= b => Cardinality(S) <= b - a) /\ (b <= a => S = {})
<1>0. a + 1 \in Int /\ IsFiniteSet(a + 1 .. b)
  BY FS_Interval
<1>1. IsFiniteSet(S) /\ Cardinality(S) <= Cardinality(a + 1 .. b)
  BY <1>0, FS_Subset
<1>2. Cardinality(a + 1 .. b) = IF a + 1 > b THEN 0 ELSE b - (a + 1) + 1
  BY <1>0, FS_Interval
<1>3. Cardinality(S) \in Nat
  BY <1>1, FS_CardinalityType
<1>4. a <= b => Cardinality(S) <= b - a
  BY <1>1, <1>2, <1>3
<1>5. b <= a => S = {}
  <2>1. b <= a => a + 1 .. b = {}
    OBVIOUS
  <2>. QED
    BY <2>1
<1>. QED
  BY <1>3, <1>4, <1>5

(* Without failed system calls a crash takes less than sync_interval of    *)
(* the entries the thread is done with, and none after the last sync, by   *)
(* which time it has everything it was sent (append of wal.rs and the end  *)
(* of wal_thread_loop).                                                    *)
THEOREM LossIsBounded == Spec => []BoundedLoss
<1>1. IInv => BoundedLoss
  <2>. SUFFICES ASSUME IInv, faults = 0
                PROVE  /\ Cardinality(AtRisk) <= SyncInterval
                       /\ phase = "receive" => Cardinality(AtRisk) < SyncInterval
                       /\ phase = "stopped" => sent \in {entry, born} /\ AtRisk = {}
    BY DEF BoundedLoss
  <2>0. TypeOK /\ Counts /\ OnDisk
    BY DEF IInv, Whole
  <2>1. /\ Finished \in Int /\ entries_since_sync \in Nat /\ born \in Nat /\ entry \in Nat
        /\ SyncInterval \in Nat \ {0} /\ sent \in Nat
    BY <2>0, NumbersAre, MarksAre DEF MarkTypes
  <2>2. AtRisk \subseteq born + 1 .. entry
    BY DEF AtRisk
  <2>3. CASE entry = 0
    <3>1. AtRisk = {}
      BY <2>1, <2>2, <2>3
    <3>2. phase = "stopped" => sent = born
      BY <2>0, <2>1, <2>3, EmptySeq DEF Counts, Received, OnDisk
    <3>. QED
      BY <2>1, <3>1, <3>2, FS_EmptySet
  <2>4. CASE entry # 0
    <3>1. phase # "open" /\ Received = entry
      BY <2>0, <2>4 DEF Counts, Received
    <3>2. PICK a \in Int : a = Finished - entries_since_sync
      BY <2>1
    <3>3. AtRisk \subseteq a + 1 .. entry
      BY <2>0, <3>1, <3>2, AtRiskFew
    <3>4. PICK few : few = Cardinality(AtRisk)
      OBVIOUS
    <3>5. few \in Nat /\ (a <= entry => few <= entry - a) /\ (entry <= a => AtRisk = {})
      <4>1. entry \in Int
        BY <2>1
      <4>2. /\ Cardinality(AtRisk) \in Nat /\ (a <= entry => Cardinality(AtRisk) <= entry - a)
            /\ (entry <= a => AtRisk = {})
        BY <3>3, <4>1, FewAre
      <4>. QED
        BY <3>4, <4>2
    <3>6. CASE Appending
      <4>1. Finished = entry - 1 /\ entries_since_sync < SyncInterval
        BY <2>0, <3>6 DEF Finished, Appending, OnDisk
      <4>2. a <= entry /\ entry - a <= SyncInterval
        BY <2>1, <3>2, <4>1
      <4>. QED
        BY <2>1, <3>6, <3>4, <3>5, <4>1, <4>2 DEF Appending
    <3>7. CASE ~Appending
      <4>1. Finished = entry
        BY <3>1, <3>7 DEF Finished
      <4>2. a <= entry /\ entry - a = entries_since_sync
        BY <2>1, <3>2, <4>1
      <4>3. /\ entries_since_sync <= SyncInterval
            /\ phase = "receive" => entries_since_sync < SyncInterval
            /\ phase = "stopped" => entries_since_sync = 0 /\ ending
        BY <2>0 DEF OnDisk
      <4>4. few <= entries_since_sync
        BY <3>5, <4>2
      <4>5. phase = "stopped" => AtRisk = {}
        BY <2>1, <3>2, <3>5, <4>1, <4>3
      <4>6. phase = "stopped" => sent = entry
        BY <2>0, <2>1, <3>1, <4>3, EmptySeq DEF Counts
      <4>. QED
        BY <2>1, <3>4, <3>5, <4>3, <4>4, <4>5, <4>6
    <3>. QED
      BY <3>6, <3>7
  <2>. QED
    BY <2>3, <2>4
<1>. QED
  BY <1>1, Invariant, PTL

(* Sequences that agree up to some place.                                  *)
LEMMA SameFirst ==
  ASSUME NEW S, NEW s \in Seq(S), NEW t \in Seq(S), NEW n \in Nat, n <= Len(s), n <= Len(t),
         \A i \in 1 .. n : t[i] = s[i]
  PROVE  SubSeq(t, 1, n) = SubSeq(s, 1, n)
<1>1. n \in 0 .. Len(s) /\ n \in 0 .. Len(t)
  BY LenProperties
<1>2. PICK u, v : u = SubSeq(s, 1, n) /\ v = SubSeq(t, 1, n)
  OBVIOUS
<1>3. /\ u \in Seq(S) /\ Len(u) = n /\ \A i \in 1 .. n : u[i] = s[i]
      /\ v \in Seq(S) /\ Len(v) = n /\ \A i \in 1 .. n : v[i] = t[i]
  BY <1>1, <1>2, FirstOnes
<1>4. Len(u) = Len(v) /\ \A i \in 1 .. Len(u) : u[i] = v[i]
  BY <1>3
<1>5. u = v
  BY <1>3, <1>4, SeqEqual
<1>. QED
  BY <1>2, <1>3, <1>5

LEMMA BeginningIsSame ==
  ASSUME NEW S, NEW s \in Seq(S), NEW t \in Seq(S), NEW n \in Nat, n <= Len(s), n <= Len(t),
         Begins(s, t) \/ Begins(t, s)
  PROVE  SubSeq(t, 1, n) = SubSeq(s, 1, n)
<1>1. /\ Len(s) \in Nat /\ DOMAIN s = 1 .. Len(s)
      /\ Len(t) \in Nat /\ DOMAIN t = 1 .. Len(t)
  BY LenProperties
<1>2. \A i \in 1 .. n : t[i] = s[i]
  BY <1>1 DEF Begins
<1>. QED
  BY <1>2, SameFirst

(* No step takes a synced piece from a file or changes one, nor does a     *)
(* crash or the process that opens the file next (WalWriter::new of wal.rs *)
(* opens it with append(true)).                                            *)
THEOREM SyncedPiecesStay == Spec => SyncedStays
<1>. DEFINE Stays == \A f \in DOMAIN files :
                       /\ files'[f].synced >= files[f].synced
                       /\ SubSeq(files'[f].pieces, 1, files[f].synced)
                            = SubSeq(files[f].pieces, 1, files[f].synced)
<1>1. IInv /\ IInv' /\ [Next]_vars => Stays
  <2>. SUFFICES ASSUME IInv, IInv', [Next]_vars, NEW f \in DOMAIN files
                PROVE  /\ files'[f].synced >= files[f].synced
                       /\ SubSeq(files'[f].pieces, 1, files[f].synced)
                            = SubSeq(files[f].pieces, 1, files[f].synced)
    OBVIOUS
  <2>0. TypeOK /\ TypeOK' /\ Opens /\ Opens' /\ Whole
    BY DEF IInv, Whole
  <2>1. DOMAIN files' = DOMAIN files
    BY <2>0 DEF TypeOK
  <2>2. PICK p \in Seq(Piece), q \in Seq(Piece), n \in Nat, m \in Nat :
           p = files[f].pieces /\ q = files'[f].pieces /\ n = files[f].synced
           /\ m = files'[f].synced
    BY <2>0, <2>1 DEF TypeOK, File
  <2>3. n <= Len(p) /\ m <= Len(q) /\ Len(p) \in Nat /\ Len(q) \in Nat
    BY <2>0, <2>1, <2>2, LenProperties DEF Opens
  <2>4. m >= n /\ (Begins(p, q) \/ Begins(q, p))
    <3>0. Begins(p, p)
      BY DEF Begins
    <3>1. CASE Send \/ Close \/ Disconnected \/ Flushed \/ OpenFails \/ Receive \/ WriteText
               \/ WriteLineEnd \/ UNCHANGED vars
      <4>1. files' = files
        BY <3>1 DEF Send, Close, Disconnected, Flushed, OpenFails, Receive, WriteText,
                    WriteLineEnd, vars
      <4>. QED
        BY <2>2, <3>0, <4>1
    <3>2. CASE Open
      BY <2>0, <2>2, <3>0, <3>2, OpenOf
    <3>3. CASE Write \/ WriteFails
      <4>1. PICK k \in 0 .. Len(buffer) :
              files' = [files EXCEPT ![now].pieces = @ \o SubSeq(buffer, 1, k)]
        BY <2>0, <3>3, WriteOf
      <4>2. /\ f # now => files'[f] = files[f]
            /\ Begins(files[now].pieces, files'[now].pieces)
            /\ files'[now].synced = files[now].synced
        BY <2>0, <4>1, DrainOf
      <4>. QED
        BY <2>2, <3>0, <4>2
    <3>4. CASE Fsync \/ FsyncFails
      <4>1. /\ f # now => files'[f] = files[f]
            /\ files'[now].pieces = files[now].pieces
            /\ files'[now].synced \in {files[now].synced, Len(files[now].pieces)}
        BY <2>0, <3>4, SyncOf
      <4>2. q = p /\ m \in {n, Len(p)}
        BY <2>2, <4>1
      <4>. QED
        BY <2>3, <3>0, <4>2
    <3>5. CASE ProcessCrash \/ MachineCrash
      BY <2>0, <2>2, <3>5, CrashOf
    <3>. QED
      BY <3>1, <3>2, <3>3, <3>4, <3>5 DEF Next, LogThread, AppendEntry, Sync
  <2>5. n <= Len(q)
    BY <2>3, <2>4
  <2>. QED
    BY <2>2, <2>3, <2>4, <2>5, BeginningIsSame
<1>2. Spec => [][Stays]_vars
  BY <1>1, Invariant, PTL DEF Spec
<1>. QED
  BY <1>2 DEF SyncedStays

-----------------------------------------------------------------------------
(* What can be read from a file.                                           *)

(* A line that was begun and not finished cannot be read.                  *)
LEMMA TornFails ==
  ASSUME NEW w \in Seq(Piece), Torn(w)
  PROVE  ~Readable(w)
<1>1. PICK n : n = Len(w)
  OBVIOUS
<1>2. n \in Nat /\ DOMAIN w = 1 .. n /\ w # << >> /\ w[n][2] = Beginning
  BY <1>1, LenProperties DEF Torn, Last
<1>3. n \in DOMAIN w
  BY <1>1, <1>2, EmptySeq
<1>4. ~(n < n)
  BY <1>2
<1>5. SUFFICES ASSUME Readable(w) PROVE FALSE
  OBVIOUS
<1>6. (CASE w[n][2] = Beginning ->
             /\ n > 1 => w[n - 1][2] = LineEnd
             /\ n < Len(w)
        [] w[n][2] = Rest -> n > 1 /\ w[n - 1] = <<w[n][1], Beginning>>
        [] w[n][2] = LineEnd -> n > 1 /\ w[n - 1] = <<w[n][1], Rest>>)
  BY <1>3, <1>5, Zenon DEF Readable
<1>7. n < Len(w)
  BY <1>2, <1>6, SMTT(30) DEF Beginning, Rest, LineEnd
<1>. QED
  BY <1>1, <1>4, <1>7

(* The place of a piece tells which one it is.                             *)
LEMMA RunIs ==
  ASSUME NEW w \in Seq(Piece), NEW first \in Nat, IsRun(w, first)
  PROVE  \A i \in DOMAIN w, e \in Nat, k \in 1 .. 3 :
           i = 3 * (e - first) + k => w[i] = <<e, k>>
<1>. SUFFICES ASSUME NEW i \in DOMAIN w, NEW e \in Nat, NEW k \in 1 .. 3,
                     i = 3 * (e - first) + k
              PROVE  w[i] = <<e, k>>
  OBVIOUS
<1>1. i = 3 * (w[i][1] - first) + w[i][2]
  BY DEF IsRun
<1>2. PICK a \in Nat, b \in 1 .. 3 : a = w[i][1] /\ b = w[i][2] /\ w[i] = <<a, b>>
  BY PiecesAre
<1>3. 3 * (a - first) + b = 3 * (e - first) + k
  BY <1>1, <1>2
<1>4. a = e /\ b = k
  BY <1>3
<1>. QED
  BY <1>2, <1>4

(* Every other run can.                                                    *)
LEMMA RunReadable ==
  ASSUME NEW w \in Seq(Piece), NEW first \in Nat, IsRun(w, first), ~Torn(w)
  PROVE  Readable(w)
<1>1. w # << >> => w[Len(w)][2] # 1
  BY DEF Torn, Last, Beginning
<1>2. PICK n \in Nat : n = Len(w) /\ DOMAIN w = 1 .. n
  BY LenProperties
<1>3. \A i \in DOMAIN w, a \in Nat, b \in 1 .. 3 :
        i = 3 * (a - first) + b => w[i] = <<a, b>>
  BY RunIs
<1>4. ASSUME NEW i \in 1 .. n, NEW e \in Nat, NEW k \in 1 .. 3, w[i] = <<e, k>>
      PROVE  /\ k = 1 => (i > 1 => w[i - 1][2] = 3) /\ i < n
             /\ k = 2 => i > 1 /\ w[i - 1] = <<e, 1>>
             /\ k = 3 => i > 1 /\ w[i - 1] = <<e, 2>>
  <2>1. i \in DOMAIN w /\ i = 3 * (e - first) + k
    <3>1. i \in DOMAIN w
      BY <1>2
    <3>2. i = 3 * (w[i][1] - first) + w[i][2]
      BY <3>1 DEF IsRun
    <3>. QED
      BY <1>4, <3>1, <3>2
  <2>2. CASE k = 1
    <3>1. ASSUME i > 1
          PROVE  w[i - 1] = <<e - 1, 3>>
      <4>1. PICK j \in 1 .. n : j = i - 1
        BY <3>1
      <4>2. e - 1 \in Nat /\ j = 3 * ((e - 1) - first) + 3
        <5>1. PICK d \in Int : d = e - first /\ i = 3 * d + 1
          BY <2>1, <2>2
        <5>2. d > 0
          BY <3>1, <5>1
        <5>3. e - 1 \in Nat /\ (e - 1) - first = d - 1
          BY <5>1, <5>2
        <5>4. j = 3 * (d - 1) + 3
          BY <4>1, <5>1
        <5>. QED
          BY <5>3, <5>4
      <4>3. w[j] = <<e - 1, 3>>
        <5>1. PICK d \in Nat, l \in 1 .. 3 : d = e - 1 /\ l = 3 /\ j = 3 * (d - first) + l
          BY <4>2
        <5>2. j \in DOMAIN w
          BY <1>2
        <5>. QED
          BY <1>3, <5>1, <5>2
      <4>. QED
        BY <4>1, <4>3
    <3>2. i # n
      BY <1>1, <1>2, <1>4, <2>1, <2>2, EmptySeq
    <3>3. i < n
      BY <3>2
    <3>. QED
      BY <2>2, <3>1, <3>3
  <2>3. CASE k # 1
    <3>1. PICK l \in 1 .. 3 : l = k - 1
      BY <2>3
    <3>2. i > 1
      BY <2>1, <2>3
    <3>3. PICK j \in 1 .. n : j = i - 1
      BY <3>2
    <3>4. j = 3 * (e - first) + l
      <4>1. PICK d \in Int : d = 3 * (e - first) /\ i = d + k
        BY <2>1
      <4>. QED
        BY <3>1, <3>3, <4>1
    <3>5. w[j] = <<e, l>>
      <4>1. j \in DOMAIN w
        BY <1>2
      <4>. QED
        BY <1>3, <3>4, <4>1
    <3>. QED
      BY <2>3, <3>1, <3>2, <3>3, <3>5
  <2>. QED
    BY <2>2, <2>3
<1>5. ASSUME NEW i \in DOMAIN w
      PROVE  /\ w[i][2] = 1 => (i > 1 => w[i - 1][2] = 3) /\ i < Len(w)
             /\ w[i][2] = 2 => i > 1 /\ w[i - 1] = <<w[i][1], 1>>
             /\ w[i][2] = 3 => i > 1 /\ w[i - 1] = <<w[i][1], 2>>
             /\ w[i][2] \in 1 .. 3
  <2>1. PICK e \in Nat, k \in 1 .. 3 : w[i] = <<e, k>> /\ e = w[i][1] /\ k = w[i][2]
    BY PiecesAre
  <2>2. i \in 1 .. n
    BY <1>2
  <2>3. /\ k = 1 => (i > 1 => w[i - 1][2] = 3) /\ i < n
        /\ k = 2 => i > 1 /\ w[i - 1] = <<e, 1>>
        /\ k = 3 => i > 1 /\ w[i - 1] = <<e, 2>>
    BY <1>4, <2>1, <2>2
  <2>. QED
    BY <1>2, <2>1, <2>3
<1>6. ASSUME NEW i \in DOMAIN w
      PROVE  CASE w[i][2] = 1 -> /\ i > 1 => w[i - 1][2] = 3
                                 /\ i < Len(w)
               [] w[i][2] = 2 -> i > 1 /\ w[i - 1] = <<w[i][1], 1>>
               [] w[i][2] = 3 -> i > 1 /\ w[i - 1] = <<w[i][1], 2>>
  <2>1. CASE w[i][2] = 1
    BY <1>5, <2>1
  <2>2. CASE w[i][2] = 2
    BY <1>5, <2>2
  <2>3. CASE w[i][2] = 3
    BY <1>5, <2>3
  <2>4. w[i][2] = 1 \/ w[i][2] = 2 \/ w[i][2] = 3
    BY <1>5
  <2>. QED
    BY <2>1, <2>2, <2>3, <2>4
<1>. QED
  BY <1>6 DEF Readable, Beginning, Rest, LineEnd

LEMMA PlacesGrow ==
  ASSUME NEW first \in Nat, NEW a \in Nat, NEW b \in Nat, a < b
  PROVE  3 * (a - first) + 2 < 3 * (b - first) + 2
OBVIOUS

LEMMA RunHoldsAll ==
  ASSUME NEW w \in Seq(Piece), NEW first \in Nat, IsRun(w, first),
         NEW i \in DOMAIN Entries(w), NEW j \in DOMAIN Entries(w), NEW e \in Entry,
         Entries(w)[i] < e, e < Entries(w)[j]
  PROVE  e \in Range(Entries(w))
<1>1. /\ i \in DOMAIN w /\ w[i][2] = 2 /\ j \in DOMAIN w /\ w[j][2] = 2
      /\ w[i][1] < e /\ e < w[j][1]
  BY DEF Entries, Rest
<1>2. PICK a \in Nat, b \in Nat :
        a = w[i][1] /\ i = 3 * (a - first) + 2 /\ b = w[j][1] /\ j = 3 * (b - first) + 2
  BY <1>1, PiecesAre DEF IsRun
<1>3. e \in Nat /\ Len(w) \in Nat /\ DOMAIN w = 1 .. Len(w)
  BY LenProperties DEF Entry
<1>4. PICK k \in Int : k = 3 * (e - first) + 2
  BY <1>3
<1>5. i < k /\ k < j
  BY <1>1, <1>2, <1>3, <1>4, PlacesGrow
<1>6. k \in DOMAIN w
  BY <1>1, <1>3, <1>4, <1>5
<1>7. w[k] = <<e, 2>>
  BY <1>3, <1>4, <1>6, RunIs
<1>8. k \in DOMAIN Entries(w) /\ Entries(w)[k] = e
  BY <1>6, <1>7 DEF Entries, Rest
<1>. QED
  BY <1>8 DEF Range

(* Whatever a crash leaves of a file that one process wrote, the entries   *)
(* in it stand in the order they were sent; without failed system calls    *)
(* none is missing between two others, and read_all fails just when the    *)
(* last line is torn (append and read_all of wal.rs).                      *)
THEOREM FilesAreRuns == Spec => []FilesHoldRuns
<1>1. IInv => FilesHoldRuns
  <2>. SUFFICES ASSUME IInv, NEW f \in DOMAIN files, files[f].openings < 2,
                       NEW p, p = files[f].pieces
                PROVE  /\ \A i, j \in DOMAIN Entries(p) : i < j => Entries(p)[i] < Entries(p)[j]
                       /\ faults = 0 =>
                            /\ ReadAll(p).ok <=> ~Torn(p)
                            /\ \A i, j \in DOMAIN Entries(p), e \in Entry :
                                 Entries(p)[i] < e /\ e < Entries(p)[j] => e \in Range(Entries(p))
    BY DEF FilesHoldRuns
  <2>1. p \in Seq(Piece)
    BY FilesAre DEF IInv, Whole
  <2>2. Increasing(p)
    BY DEF IInv, Ordered
  <2>3. ReadAll(p).ok <=> Readable(p)
    BY DEF ReadAll
  <2>4. ASSUME faults = 0
        PROVE  /\ Readable(p) <=> ~Torn(p)
               /\ \A i, j \in DOMAIN Entries(p), e \in Entry :
                    Entries(p)[i] < e /\ e < Entries(p)[j] => e \in Range(Entries(p))
    <3>1. PICK first \in 1 .. MaxEntries + 1 : IsRun(p, first)
      BY <2>4 DEF IInv, Runs
    <3>2. first \in Nat
      BY LogAssumption
    <3>. QED
      BY <2>1, <3>1, <3>2, TornFails, RunReadable, RunHoldsAll
  <2>. QED
    BY <2>2, <2>3, <2>4 DEF Increasing, Entries
<1>. QED
  BY <1>1, Invariant, PTL

===============================================================================
