----------------------------- MODULE StableRead -----------------------------
(***************************************************************************)
(* Reading a whole file while others replace it, rewrite it in place or let*)
(* it grow: apps/server/src/stable-read.ts, readStableBoundedFile, with    *)
(* which the stores read their records, and readBoundedHireFile of         *)
(* apps/server/bin/qoder-engine.mjs, which looks at the path once more,    *)
(* before it opens it.  Neither takes a lock; both compare what stat says  *)
(* of the open file and of the path before and after.                      *)
(*                                                                         *)
(* A file is a sequence of pieces, the unit of one read or write.  Every   *)
(* write is taken to change the times of its inode: two writes within one  *)
(* tick of the file system's clock are outside the model.                  *)
(***************************************************************************)
EXTENDS Integers, Sequences

CONSTANTS
  Pieces,       \* what a piece may hold
  MaxPieces,    \* the bound of the caller: MAX_TURN_BYTES, HIRE_REQUEST_MAX_BYTES
  MaxWrites,    \* bound of the model: writes by others
  LooksFirst    \* readBoundedHireFile: the path is looked at before it is opened

VARIABLES
  named,        \* the inode the path names, 0 if there is none
  disk,         \* what each inode holds, and when it was written last
  writes,       \* number of writes by others, which is also the clock
  reader        \* the read: where it is, its handle, the stats it keeps and the buffer

readVars == <<named, disk, writes, reader>>

Inodes == 1 .. 3

NoStat == [inode |-> 0, size |-> 0, time |-> 0]
StatOf(i) == IF i = 0 THEN NoStat
             ELSE [inode |-> i, size |-> Len(disk[i].pieces), time |-> disk[i].time]

ReadInit ==
  /\ named = 1
  /\ disk = [i \in Inodes |-> [pieces |-> [n \in 1 .. MaxPieces |-> CHOOSE x \in Pieces : TRUE],
                             time |-> 0]]
  /\ writes = 0
  /\ reader = [at |-> IF LooksFirst THEN "look" ELSE "open", handle |-> 0,
               first |-> NoStat, opened |-> NoStat, after |-> NoStat, buffer |-> <<>>]

-----------------------------------------------------------------------------
(* The others *)

Write(i, content) ==
  /\ writes < MaxWrites
  /\ writes' = writes + 1
  /\ disk' = [disk EXCEPT ![i] = [pieces |-> content, time |-> writes + 1]]
  /\ UNCHANGED reader

\* A new file is renamed to the path; an inode nobody has open may be used again.
Replace ==
  /\ \E i \in Inodes \ {named, reader.handle}, c \in [1 .. MaxPieces -> Pieces] :
       Write(i, c) /\ named' = i

\* One piece is overwritten, the file grows by one, or it is emptied.
Rewrite ==
  /\ named # 0
  /\ LET held == disk[named].pieces IN
     \/ \E n \in 1 .. Len(held), x \in Pieces : Write(named, [held EXCEPT ![n] = x])
     \/ \E x \in Pieces : Len(held) <= MaxPieces /\ Write(named, Append(held, x))
     \/ Write(named, <<>>)
  /\ UNCHANGED named

Unlink ==
  /\ named # 0
  /\ named' = 0
  /\ UNCHANGED <<disk, writes, reader>>

-----------------------------------------------------------------------------
(* The read *)

Goes(at) == reader' = [reader EXCEPT !.at = at]
Others == UNCHANGED <<named, disk, writes>>

Bounded(stat) == stat.inode # 0 /\ stat.size <= MaxPieces

Look ==
  /\ reader.at = "look"
  /\ reader' = [reader EXCEPT !.at = IF Bounded(StatOf(named)) THEN "open" ELSE "thrown",
                              !.first = StatOf(named)]
  /\ Others

Open ==
  /\ reader.at = "open"
  /\ reader' = [reader EXCEPT !.at = IF named = 0 THEN "thrown" ELSE "stat", !.handle = named]
  /\ Others

Stat ==
  /\ reader.at = "stat"
  /\ reader' = [reader EXCEPT !.at = "compare", !.opened = StatOf(reader.handle)]
  /\ Others

Compare ==
  /\ reader.at = "compare"
  /\ Goes(IF /\ Bounded(reader.opened) /\ StatOf(named) = reader.opened
             /\ LooksFirst => reader.first = reader.opened
          THEN "read" ELSE "thrown")
  /\ Others

\* One positional read; the buffer has room for one piece more than the bound.
ReadPiece ==
  /\ reader.at = "read"
  /\ LET held == disk[reader.handle].pieces
         next == Len(reader.buffer) + 1
     IN  IF next > Len(held) \/ next > MaxPieces + 1
         THEN Goes(IF Len(reader.buffer) > MaxPieces THEN "thrown" ELSE "restat")
         ELSE reader' = [reader EXCEPT !.buffer = Append(@, held[next])]
  /\ Others

StatAgain ==
  /\ reader.at = "restat"
  /\ reader' = [reader EXCEPT !.at = "recompare", !.after = StatOf(reader.handle)]
  /\ Others

\* Variant: only identity and size are compared (refuted by ReadIsCurrent).
SameSize(stat) == stat.inode = reader.opened.inode /\ stat.size = reader.opened.size

\* sameSnapshot with the stat of the open file: identity, size and times.
Same(stat) == stat = reader.opened

CompareAgain ==
  /\ reader.at = "recompare"
  /\ Goes(IF Same(reader.after) /\ Same(StatOf(named)) /\ Len(reader.buffer) = reader.opened.size
          THEN "closing" ELSE "thrown")
  /\ Others

\* The content is returned when close has been awaited: the file may be another by then.
Close ==
  /\ reader.at = "closing"
  /\ Goes("returned")
  /\ Others

ReadStep ==
  Look \/ Open \/ Stat \/ Compare \/ ReadPiece \/ StatAgain \/ CompareAgain \/ Close

ReadNext == ReadStep \/ Replace \/ Rewrite \/ Unlink
=============================================================================
