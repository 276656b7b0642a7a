------------------------------ MODULE RamDisk -------------------------------
(***************************************************************************)
(* The block devices in memory: ch03-20 and ch03-33/no_queue/ram_disk.c,    *)
(* whose submit_bio copies a bio one segment at a time, and ch03-20 and     *)
(* ch03-33/queue/ram_disk_queue.c, whose queue_rq copies a whole request.   *)
(* Both copy through the one cursor of the device, under its spin lock: the *)
(* first takes the lock for a segment, the second for the request.          *)
(* Requests come from several processors at once.                           *)
(***************************************************************************)
EXTENDS Integers, Sequences

CONSTANTS
  Cpus,          \* where requests are served
  Sectors,       \* the capacity, in sectors
  Values,        \* what a request may write into its sectors
  Shapes         \* how requests are cut: sequences of segment lengths, in sectors

VARIABLES
  queued,        \* the device serves requests of the queue (TRUE) or bios (FALSE)
  ram,           \* ram_blk_addr
  cursor,        \* ram_blk_sursor, as a sector
  lock,          \* who holds ram_blk_lock
  req,           \* the request of each processor
  pc,            \* "idle", "start", "copy", "ended"
  seg, copied,   \* the segment being copied, sectors of it copied so far
  sector,        \* the first sector of that segment (bios only)
  got,           \* what a read has copied out so far
  seen           \* ghost: the contents when the lock was taken
vars == <<queued, ram, cursor, lock, req, pc, seg, copied, sector, got, seen>>

Free == "free"
Total(shape) == LET sum[i \in 0..Len(shape)] == IF i = 0 THEN 0 ELSE sum[i - 1] + shape[i]
                IN sum[Len(shape)]
\* The block layer sends no request beyond the capacity that set_capacity announced, so
\* that the test of ram_queue_rq against ram_size (line 85) never refuses one.
Requests == { r \in [write : BOOLEAN, start : 0..(Sectors - 1), shape : Shapes, value : Values \cup {0}] :
                r.start + Total(r.shape) <= Sectors /\ (~r.write => r.value = 0) }
Idle == [write |-> FALSE, start |-> 0, shape |-> <<1>>, value |-> 0]

Init ==
  /\ queued \in BOOLEAN
  /\ ram = [s \in 0..(Sectors - 1) |-> 0] /\ cursor = 0 /\ lock = Free
  /\ req = [c \in Cpus |-> Idle] /\ pc = [c \in Cpus |-> "idle"]
  /\ seg = [c \in Cpus |-> 1] /\ copied = [c \in Cpus |-> 0] /\ sector = [c \in Cpus |-> 0]
  /\ got = [c \in Cpus |-> <<>>] /\ seen = [c \in Cpus |-> <<>>]

Submit(c, r) ==
  /\ pc[c] = "idle" /\ req' = [req EXCEPT ![c] = r]
  /\ pc' = [pc EXCEPT ![c] = "start"] /\ sector' = [sector EXCEPT ![c] = r.start]
  /\ seg' = [seg EXCEPT ![c] = 1] /\ copied' = [copied EXCEPT ![c] = 0]
  /\ got' = [got EXCEPT ![c] = <<>>] /\ seen' = [seen EXCEPT ![c] = <<>>]
  /\ UNCHANGED <<queued, ram, cursor, lock>>

(* Mutant: the cursor is moved before the lock is taken. *)
Begin_Early(c) ==
  /\ pc[c] = "start"
  /\ lock' = c /\ cursor' = IF queued THEN req[c].start ELSE sector[c]
  /\ pc' = [pc EXCEPT ![c] = "copy"] /\ seen' = [seen EXCEPT ![c] = ram]
  /\ UNCHANGED <<queued, ram, req, seg, copied, sector, got>>

\* The lock is taken and the cursor moved to the request, or to the segment.
Begin(c) ==
  /\ pc[c] = "start" /\ lock = Free
  /\ lock' = c /\ cursor' = IF queued THEN req[c].start ELSE sector[c]
  /\ pc' = [pc EXCEPT ![c] = "copy"] /\ seen' = [seen EXCEPT ![c] = ram]
  /\ UNCHANGED <<queued, ram, req, seg, copied, sector, got>>

\* One sector of the segment; in a request the cursor runs on with the copy.
Copy(c) ==
  LET at == IF queued THEN cursor ELSE cursor + copied[c]
  IN /\ pc[c] = "copy" /\ copied[c] < req[c].shape[seg[c]]
     /\ IF req[c].write THEN ram' = [ram EXCEPT ![at] = req[c].value] /\ UNCHANGED got
        ELSE got' = [got EXCEPT ![c] = Append(@, ram[at])] /\ UNCHANGED ram
     /\ copied' = [copied EXCEPT ![c] = @ + 1]
     /\ cursor' = IF queued THEN cursor + 1 ELSE cursor
     /\ UNCHANGED <<queued, lock, req, pc, seg, sector, seen>>

\* The segment is done: the request goes on with the next, the bio gives up the lock first.
Advance(c) ==
  /\ pc[c] = "copy" /\ copied[c] = req[c].shape[seg[c]]
  /\ LET more == seg[c] < Len(req[c].shape)
     IN /\ lock' = IF queued /\ more THEN lock ELSE Free
        /\ pc' = [pc EXCEPT ![c] = IF ~more THEN "ended" ELSE IF queued THEN "copy" ELSE "start"]
        /\ seg' = [seg EXCEPT ![c] = IF more THEN @ + 1 ELSE @]
        /\ copied' = [copied EXCEPT ![c] = 0]
        /\ sector' = [sector EXCEPT ![c] = @ + req[c].shape[seg[c]]]
        /\ got' = [got EXCEPT ![c] = IF queued \/ ~more THEN @ ELSE <<>>]
  /\ UNCHANGED <<queued, ram, cursor, req, seen>>

\* bio_endio, blk_mq_end_request.
End(c) ==
  /\ pc[c] = "ended" /\ pc' = [pc EXCEPT ![c] = "idle"]
  /\ req' = [req EXCEPT ![c] = Idle] /\ seg' = [seg EXCEPT ![c] = 1]
  /\ copied' = [copied EXCEPT ![c] = 0] /\ sector' = [sector EXCEPT ![c] = 0]
  /\ got' = [got EXCEPT ![c] = <<>>] /\ seen' = [seen EXCEPT ![c] = <<>>]
  /\ UNCHANGED <<queued, ram, cursor, lock>>

Serve(c) == Begin(c) \/ Copy(c) \/ Advance(c) \/ End(c)
Next == \E c \in Cpus : Serve(c) \/ \E r \in Requests : Submit(c, r)
Spec == Init /\ [][Next]_vars
-----------------------------------------------------------------------------
\* The sectors copied since the lock was taken.
First(c) == IF queued THEN req[c].start ELSE sector[c]
Covered(c) == IF queued THEN Total(SubSeq(req[c].shape, 1, seg[c] - 1)) + copied[c] ELSE copied[c]

TypeOK ==
  /\ queued \in BOOLEAN /\ cursor \in 0..Sectors /\ lock \in Cpus \cup {Free}
  /\ ram \in [0..(Sectors - 1) -> Values \cup {0}]
  /\ \A c \in Cpus : /\ req[c] \in Requests \cup {Idle} /\ pc[c] \in {"idle", "start", "copy", "ended"}
                    /\ seg[c] \in 1..Len(req[c].shape) /\ sector[c] \in 0..Sectors
                    /\ copied[c] \in 0..req[c].shape[seg[c]]

(* What a request of the queue reads, or a segment of a bio, was in the     *)
(* sectors it asked for at one moment, and what it writes is in all of them *)
(* when it gives up the lock: the one cursor of the device is never moved   *)
(* by another processor in between.                                         *)
UnitAtomic ==
  \A c \in Cpus : pc[c] = "copy" =>
    /\ lock = c
    /\ \A i \in 1..Covered(c) :
         IF req[c].write THEN ram[First(c) + i - 1] = req[c].value
         ELSE Len(got[c]) = Covered(c) /\ got[c][i] = seen[c][First(c) + i - 1]
=============================================================================
