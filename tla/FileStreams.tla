---------------------------- MODULE FileStreams ----------------------------
(* A buffered file write stream from create: to the end of the program.  A   *)
(* ByteStream may be handed on to a StringStream, wrapped in a codec whose   *)
(* trailer close must write, flushed, closed, left open or abandoned by an   *)
(* error inside a scoped block.  Streams never closed are flushed when the   *)
(* program ends.                                                             *)
EXTENDS Naturals, Sequences

CONSTANTS MaxChunks,      \* writes of one chunk each
          WCap            \* wcap, in chunks

VARIABLES
    hs,       \* handle ("byte", "string") -> NativeStream
    tracked,  \* open_write_streams, by handle
    fd,       \* "open" in the registry, or "closed"
    finish,   \* the id is in finish_pending
    parked,   \* what the task is parked on
    disk,     \* the chunks, and the trailer, in the file or its encoder
    sent,     \* chunks whose write: was called, in order
    lost,     \* chunks, or the trailer, that went down with an error raised to
              \* the program, or in flight when it ended
    over      \* "no", "ending", "running down", "yes": the program has ended
fileVars == <<hs, tracked, fd, finish, parked, disk, sent, lost, over>>

Trailer == 0
Handles == {"byte", "string"}
Absent == [st |-> "absent", wbuf |-> <<>>, wrote |-> FALSE, needs |-> FALSE]
NotParked == [at |-> "no", h |-> "-", bytes |-> <<>>]

\* [IO]File.create: opens, makes the handle and tracks it
FileInit ==
    /\ hs = [h \in Handles |-> IF h = "byte" THEN [Absent EXCEPT !.st = "open"] ELSE Absent]
    /\ tracked = {"byte"}
    /\ fd = "open" /\ finish = FALSE
    /\ parked = NotParked
    /\ disk = <<>> /\ sent = <<>> /\ lost = {}
    /\ over = "no"

Runs(h) == over = "no" /\ parked = NotParked /\ hs[h].st = "open"
Bytes(s) == {s[i] : i \in 1..Len(s)}
Park(at, h, b) == parked' = [at |-> at, h |-> h, bytes |-> b]

\* writeAll:, write:, writeln:
stream_write(h) ==
    LET buf == Append(hs[h].wbuf, Len(sent) + 1)
        full == Len(buf) >= WCap
    IN
    /\ Runs(h) /\ Len(sent) < MaxChunks
    /\ sent' = Append(sent, Len(sent) + 1)
    /\ hs' = [hs EXCEPT ![h].wrote = TRUE, ![h].wbuf = IF full THEN <<>> ELSE buf]
    /\ IF full THEN Park("write", h, buf) ELSE UNCHANGED parked
    /\ UNCHANGED <<tracked, fd, finish, disk, lost, over>>

\* flush! , and the flush that begins close
FlushThen(h, at) ==
    /\ Runs(h)
    /\ hs' = [hs EXCEPT ![h].wbuf = <<>>]
    /\ Park(at, h, hs[h].wbuf)
    /\ UNCHANGED <<tracked, fd, finish, disk, sent, lost, over>>
stream_flush(h) == hs[h].wbuf # <<>> /\ FlushThen(h, "write")
close_stream(h) == FlushThen(h, "close")

\* write_through returns; close goes on to untrack and to reap or finish
Wrote ==
    /\ parked.at \in {"write", "close"}
    /\ disk' = disk \o parked.bytes
    /\ IF parked.at = "write"
       THEN parked' = NotParked /\ UNCHANGED <<hs, tracked, fd>>
       ELSE /\ tracked' = {}
            /\ hs' = [hs EXCEPT ![parked.h].st = "closed"]
            /\ IF hs[parked.h].needs
               THEN Park("finish", parked.h, <<>>) /\ UNCHANGED fd
               ELSE parked' = NotParked /\ fd' = "closed"
    /\ UNCHANGED <<finish, sent, lost, over>>

\* A write that is aborted leaves a prefix of its bytes.  The rest of the
\* drained buffer is gone, with chunks earlier writes had accepted.
Cut(n) == disk' = disk \o SubSeq(parked.bytes, 1, n) /\ lost' = lost \union Bytes(parked.bytes)
InWrite == parked.at \in {"write", "close"} /\ parked.bytes # <<>>
\* the cancel is raised in the task
WriteCancelled ==
    /\ InWrite
    /\ \E n \in 0..(Len(parked.bytes) - 1) : Cut(n)
    /\ parked' = NotParked
    /\ UNCHANGED <<hs, tracked, fd, finish, sent, over>>

\* FinishStream takes the stream and its id when it is first polled; then the
\* encoder's poll_close ends, fails or is aborted
FinishBegins ==
    /\ parked.at = "finish" /\ over = "no"
    /\ finish' = FALSE /\ parked' = [parked EXCEPT !.at = "finishing"]
    /\ UNCHANGED <<hs, tracked, fd, disk, sent, lost, over>>
FinishStream ==
    /\ parked.at = "finishing" /\ over = "no"
    /\ \/ disk' = Append(disk, Trailer) /\ UNCHANGED lost
       \/ lost' = lost \union {Trailer} /\ UNCHANGED disk
    /\ fd' = "closed" /\ parked' = NotParked
    /\ UNCHANGED <<hs, tracked, finish, sent, over>>
\* cancelled before that, the close leaves the stream to the backend's drop
FinishCancelled ==
    /\ parked.at = "finish" /\ over = "no"
    /\ parked' = NotParked
    /\ UNCHANGED <<hs, tracked, fd, finish, disk, sent, lost, over>>

\* codecWrap: on the write side, before the first write
CanWrapAnytime(h) == TRUE
CanWrap(h) == ~hs[h].wrote
codec_wrap(h) ==
    /\ Runs(h) /\ CanWrap(h) /\ ~hs[h].needs
    /\ finish' = TRUE
    /\ hs' = [hs EXCEPT ![h].needs = TRUE]
    /\ UNCHANGED <<tracked, fd, parked, disk, sent, lost, over>>

\* stringStream / over:, consuming the byte stream; the new handle is tracked instead
RetrackNone == {}
Retracked == {"string"}
make_string_stream_from ==
    /\ Runs("byte") /\ hs["string"].st = "absent"
    /\ hs' = [byte |-> [hs["byte"] EXCEPT !.st = "closed", !.wbuf = <<>>], string |-> hs["byte"]]
    /\ tracked' = Retracked
    /\ UNCHANGED <<fd, finish, parked, disk, sent, lost, over>>

\* An error leaves over:do: ; the driver's drain finishes a wrapped stream.
scope_stream_error(h) ==
    /\ Runs(h)
    /\ lost' = lost \union Bytes(hs[h].wbuf)
    /\ hs' = [hs EXCEPT ![h].st = "closed"]
    /\ tracked' = {}
    /\ disk' = IF finish THEN Append(disk, Trailer) ELSE disk
    /\ fd' = "closed" /\ finish' = FALSE
    /\ UNCHANGED <<parked, sent, over>>

\* The main task ends whatever another is parked on: the operations in flight
\* are dropped with the driver's futures.
ProgramEnds ==
    /\ over = "no" /\ over' = "ending"
    /\ parked.at = "close" => InWrite   \* a close with nothing to flush does not park
    /\ IF InWrite THEN \E n \in 0..Len(parked.bytes) : Cut(n) ELSE UNCHANGED disk
    /\ ~InWrite => lost' = IF parked.at = "finishing" THEN lost \union {Trailer} ELSE lost
    /\ fd' = IF parked.at = "finishing" THEN "closed" ELSE fd
    /\ parked' = NotParked
    /\ UNCHANGED <<hs, tracked, finish, sent>>
\* flush_open_write_streams writes what tracked handles still hold; then the
\* backend is dropped and finishes what is still pending.
take_pending_writes ==
    /\ over = "ending"
    /\ LET h == CHOOSE x \in tracked : TRUE IN
       IF tracked # {} /\ fd = "open" THEN disk' = disk \o hs[h].wbuf ELSE UNCHANGED disk
    /\ hs' = [h \in Handles |-> IF h \in tracked THEN [hs[h] EXCEPT !.wbuf = <<>>] ELSE hs[h]]
    /\ over' = "running down"
    /\ UNCHANGED <<tracked, fd, finish, parked, sent, lost>>

FinishForgotten == disk
FinishOnDrop == IF finish THEN Append(disk, Trailer) ELSE disk
SmolInnerDrop ==
    /\ over = "running down"
    /\ over' = "yes"
    /\ disk' = FinishOnDrop
    /\ fd' = "closed" /\ finish' = FALSE
    /\ UNCHANGED <<hs, tracked, parked, sent, lost>>

FileNext ==
    \/ \E h \in Handles : stream_write(h) \/ stream_flush(h) \/ close_stream(h)
                          \/ codec_wrap(h) \/ scope_stream_error(h)
    \/ Wrote \/ WriteCancelled \/ FinishBegins \/ FinishStream \/ FinishCancelled
    \/ make_string_stream_from \/ ProgramEnds \/ take_pending_writes \/ SmolInnerDrop
FileSpec == FileInit /\ [][FileNext]_fileVars

Wrapped == \E h \in Handles : hs[h].needs
Kept(s) == SelectSeq(s, LAMBDA c : c # Trailer /\ c \notin lost)

(* When the program has ended, the file holds, in order, every chunk a write *)
(* accepted, other than those of a buffer whose drain was cancelled, was in  *)
(* flight at the end or raised an error; and a compressed file ends with its *)
(* trailer, unless the close that was writing it met the same, and holds     *)
(* nothing after it: this however the stream was handed on, wrapped,         *)
(* flushed, closed or left open.                                             *)
FileComplete == over = "yes" =>
    /\ Kept(disk) = Kept(sent)
    /\ Wrapped /\ Trailer \notin lost => disk # <<>> /\ disk[Len(disk)] = Trailer
    /\ \A i \in 1..Len(disk) : disk[i] = Trailer => Wrapped /\ i = Len(disk)
=============================================================================
