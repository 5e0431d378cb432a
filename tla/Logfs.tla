------------------------------- MODULE Logfs -------------------------------
(***************************************************************************)
(* p4/logfs.c: an append-only log over a block device.  Two threads share  *)
(* a `struct logfs': the client, which calls logfs_append, logfs_read and  *)
(* logfs_close one at a time, and the consumer, which logfs_open starts    *)
(* and which moves whole blocks from the write cache to the device.        *)
(*                                                                         *)
(* Bytes carry no content of their own: the byte appended at log offset o  *)
(* is the number o, wherever it is stored, and Junk is what a freshly      *)
(* allocated cache or an unwritten part of the device holds.  A read of    *)
(* [off, off+len) is right exactly when it returns off, ..., off+len-1.    *)
(***************************************************************************)
EXTENDS Integers

CONSTANTS
  Block,       \* device_block(): bytes in a device block
  WBlocks,     \* WCACHE_BLOCKS: blocks in the write cache
  RBlocks,     \* RCACHE_BLOCKS: blocks in the read cache
  DevBlocks,   \* device_size() in blocks
  AppendLens,  \* lengths the client appends
  ReadLens,    \* lengths the client reads
  MaxLog,      \* bound: the client appends no more bytes than this
  Faults       \* system calls that may fail: a subset of {"read", "write"}

Cap == WBlocks * Block
DevSize == DevBlocks * Block
Junk == -1

ASSUME GeometryAssumption ==
  /\ Block \in Nat \ {0}
  /\ WBlocks \in Nat \ {0}
  /\ RBlocks \in Nat \ {0}
  /\ DevBlocks \in Nat \ {0}

\* No call is longer than the cache it goes through.
ASSUME LengthAssumption ==
  /\ AppendLens \subseteq 0 .. Cap
  /\ ReadLens \subseteq 0 .. Block * (RBlocks - 1) - 1

ASSUME BoundAssumption == MaxLog \in Nat /\ Faults \subseteq {"read", "write"}

VARIABLES
  device,             \* the bytes on the device
  write_cache,        \* struct circular_buffer: buffer, size, head, tail
  read_cache,         \* struct circular_buffer used as a window of the device
  next_write_offset,  \* device offset the next block goes to
  mutex,              \* who holds logfs->mutex
  done,               \* set by logfs_close
  pc,                 \* where the client is
  sleeping,           \* the client is inside pthread_cond_wait(space_avail)
  req,                \* [off, len] of the call in progress or the last one
  out,                \* what the last logfs_read copied into buf
  ret,                \* what the last call returned
  consumer,           \* where the consumer thread is
  appended,           \* bytes appended so far (kvraw keeps this number)
  overrun,            \* history: an append overwrote bytes not yet written
  crash,              \* the process was stopped by a failed assert
  failed              \* history: the device calls that have failed

caches == <<write_cache, read_cache, next_write_offset>>
client == <<pc, sleeping, req, out, ret, appended, overrun>>
vars == <<device, caches, mutex, done, client, consumer, crash, failed>>

Nothing == [i \in {} |-> Junk]
Bytes(off, len) == [i \in 0 .. len - 1 |-> off + i]

\* memcpy(dst + at, src + from, len) over buffers modelled as functions.
Memcpy(dst, at, src, from, len) ==
  [i \in DOMAIN dst |-> IF at <= i /\ i < at + len THEN src[from + (i - at)]
                                                   ELSE dst[i]]

circular_buffer(blocks) ==
  [buffer |-> [i \in 0 .. blocks * Block - 1 |-> Junk],
   size |-> 0, head |-> 0, tail |-> 0]

Init ==
  /\ device = [o \in 0 .. DevSize - 1 |-> Junk]
  /\ write_cache = circular_buffer(WBlocks)
  /\ read_cache = circular_buffer(RBlocks)
  /\ next_write_offset = 0
  /\ mutex = "none" /\ done = FALSE
  /\ pc = "idle" /\ sleeping = FALSE
  /\ req = [off |-> 0, len |-> 0] /\ out = Nothing /\ ret = "none"
  /\ consumer = "test"
  /\ appended = 0 /\ overrun = FALSE /\ crash = FALSE /\ failed = {}

(***************************************************************************)
(* The device.  Both calls assert that the transfer ends within it; a      *)
(* failed assert stops the process.                                        *)
(***************************************************************************)
\* Slip: the last block of the device is refused.
WithinDeviceStrict(off, len) == off + len < DevSize

WithinDevice(off, len) == off + len <= DevSize

Abort ==
  /\ crash' = TRUE
  /\ UNCHANGED <<device, caches, mutex, done, client, consumer, failed>>

\* A device call that fails.
Fails(call) == call \in Faults /\ failed' = failed \cup {call}

\* What a flush or the consumer writes: the bytes at the ring's tail.
WriteBytes(n) ==
  device' = Memcpy(device, next_write_offset, write_cache.buffer,
                   write_cache.tail, n)
WriteBlock == WriteBytes(Block)

\* A pwrite that fails may have written a part of the block.
WritesPart == Fails("write") /\ \E n \in 0 .. Block - 1 : WriteBytes(n)

(***************************************************************************)
(* Calls of the client.  logfs_append of no bytes returns at once.         *)
(***************************************************************************)
Call(where, off, len) ==
  /\ pc = "idle"
  /\ pc' = where
  /\ req' = [off |-> off, len |-> len]
  /\ out' = Nothing
  /\ ret' = IF pc' = "idle" THEN "ok" ELSE "none"
  /\ UNCHANGED <<device, caches, mutex, done, sleeping, appended, overrun,
                 consumer, crash, failed>>

CallAppend ==
  \E n \in AppendLens :
    /\ appended + n <= MaxLog
    /\ Call(IF n = 0 THEN "idle" ELSE "append_lock", appended, n)

CallRead ==
  \E n \in ReadLens, o \in 0 .. appended :
    o + n <= appended /\ Call("read_try", o, n)

CallClose == Call("close_lock", 0, 0)

(***************************************************************************)
(* pthread_mutex_lock, and the return of pthread_cond_wait, which takes    *)
(* the mutex again.  A sleeping client is woken by a signal or for no      *)
(* reason at all.                                                          *)
(***************************************************************************)
Lock(from, to) ==
  /\ pc = from /\ ~sleeping
  /\ mutex = "none"
  /\ mutex' = "client"
  /\ pc' = to
  /\ UNCHANGED <<device, caches, done, sleeping, req, out, ret, appended,
                 overrun, consumer, crash, failed>>

CondWait(from, to) ==
  /\ pc = from
  /\ mutex' = "none"
  /\ sleeping' = TRUE
  /\ pc' = to
  /\ UNCHANGED <<device, caches, done, req, out, ret, appended, overrun,
                 consumer, crash, failed>>

SpuriousWakeup ==
  /\ sleeping
  /\ sleeping' = FALSE
  /\ UNCHANGED <<device, caches, mutex, done, pc, req, out, ret, appended,
                 overrun, consumer, crash, failed>>

(***************************************************************************)
(* logfs_append: circular_buffer_write.  The test looks at what is stored, *)
(* not at what is about to be stored.                                      *)
(***************************************************************************)
AppendLock == Lock("append_lock", "append")

Full == write_cache.size >= Cap
AppendWait == Full /\ CondWait("append", "append_lock")

\* Slip: one memcpy, cut off at the end of the buffer, nothing at its start.
RingWriteNoWrap(cache, first, len) ==
  [cache EXCEPT !.buffer = [i \in 0 .. Cap - 1 |->
                              IF cache.head <= i /\ i < cache.head + len
                                THEN first + (i - cache.head) ELSE @[i]],
                !.head = (cache.head + len) % Cap,
                !.size = @ + len]

\* The bytes go in at head and wrap around to the start of the buffer.
RingWrite(cache, first, len) ==
  LET ahead(i) == IF i >= cache.head THEN i - cache.head
                                     ELSE i - cache.head + Cap
  IN  [buffer |-> [i \in 0 .. Cap - 1 |-> IF ahead(i) < len
                                            THEN first + ahead(i)
                                            ELSE cache.buffer[i]],
       size |-> cache.size + len,
       head |-> (cache.head + len) % Cap,
       tail |-> cache.tail]

AppendCopy ==
  /\ pc = "append"
  /\ ~Full
  /\ write_cache' = RingWrite(write_cache, appended, req.len)
  /\ appended' = appended + req.len
  /\ overrun' = (overrun \/ write_cache.size + req.len > Cap)
  /\ mutex' = "none"
  /\ pc' = "idle" /\ ret' = "ok"
  /\ UNCHANGED <<device, read_cache, next_write_offset, done, sleeping, req,
                 out, consumer, crash, failed>>

(***************************************************************************)
(* logfs_read.  A request inside the cached window is served without the   *)
(* mutex.  Otherwise the client waits until at most one block is pending,  *)
(* writes that block out and loads the window that starts at off_read.     *)
(***************************************************************************)
Floor(n) == (n \div Block) * Block
off_read == Floor(req.off)
read_len == Floor(req.len) + 2 * Block

\* Slip: the whole loaded window counts as log, with what lies behind its end.
WindowEndLoaded == read_cache.tail + read_cache.size

WindowEnd == LET end == read_cache.tail + read_cache.size
             IN  IF read_cache.head < end THEN read_cache.head ELSE end

Hit == req.off >= read_cache.tail /\ req.off + req.len <= WindowEnd

\* Slip: the place of the request inside the window is forgotten.
CopyOutFromStart(buffer, from) == out' = [i \in 0 .. req.len - 1 |-> buffer[i]]

CopyOut(buffer, from) == out' = [i \in 0 .. req.len - 1 |-> buffer[from + i]]

ReadHit ==
  /\ pc = "read_try" /\ Hit
  /\ CopyOut(read_cache.buffer, req.off - read_cache.tail)
  /\ pc' = "idle" /\ ret' = "ok"
  /\ UNCHANGED <<device, caches, mutex, done, sleeping, req, appended, overrun,
                 consumer, crash, failed>>

ReadMiss ==
  /\ pc = "read_try" /\ ~Hit
  /\ pc' = "read_lock"
  /\ UNCHANGED <<device, caches, mutex, done, sleeping, req, out, ret,
                 appended, overrun, consumer, crash, failed>>

ReadLock == Lock("read_lock", "read")

Pending == write_cache.size > Block
ReadWait == Pending /\ CondWait("read", "read_lock")

\* An error return of logfs_read leaves the mutex locked.
ReadFails ==
  /\ pc' = "idle" /\ ret' = "err"
  /\ UNCHANGED <<write_cache, next_write_offset, mutex, done, sleeping, req,
                 out, appended, overrun, consumer, crash>>

\* Slip: head counts the whole block although only part of it is log.
MoveHeadByBlock == read_cache' = [read_cache EXCEPT
                                    !.head = next_write_offset + Block]

\* circular_buffer_flush; write_cache keeps the block.
MoveHead == read_cache' = [read_cache EXCEPT
                             !.head = next_write_offset + write_cache.size]

ReadFlush ==
  /\ pc = "read" /\ ~Pending
  /\ \/ /\ ~WithinDevice(next_write_offset, Block)
        /\ Abort
     \/ /\ WithinDevice(next_write_offset, Block)
        /\ WriteBlock
        /\ MoveHead
        /\ pc' = "read_load"
        /\ UNCHANGED <<write_cache, next_write_offset, mutex, done, sleeping,
                       req, out, ret, appended, overrun, consumer, crash, failed>>
     \/ /\ WithinDevice(next_write_offset, Block)
        /\ WritesPart
        /\ ReadFails
        /\ UNCHANGED read_cache

Loaded(len) == Memcpy(read_cache.buffer, 0, device, off_read, len)

ReadLoad ==
  /\ pc = "read_load"
  /\ \/ /\ ~WithinDevice(off_read, read_len)
        /\ Abort
     \/ /\ WithinDevice(off_read, read_len)
        /\ read_cache' = [read_cache EXCEPT !.buffer = Loaded(read_len),
                                            !.tail = off_read,
                                            !.size = read_len]
        /\ CopyOut(read_cache'.buffer, req.off - off_read)
        /\ mutex' = "none"
        /\ pc' = "idle" /\ ret' = "ok"
        /\ UNCHANGED <<device, write_cache, next_write_offset, done, sleeping,
                       req, appended, overrun, consumer, crash, failed>>
     \/ /\ WithinDevice(off_read, read_len)
        /\ Fails("read")
        /\ \E blocks \in 0 .. read_len \div Block - 1 :
             read_cache' = [read_cache EXCEPT
                              !.buffer = Loaded(blocks * Block)]
        /\ ReadFails
        /\ UNCHANGED device

(***************************************************************************)
(* logfs_close sets done under the mutex and joins the consumer.           *)
(***************************************************************************)
CloseSet ==
  /\ pc = "close_lock" /\ mutex = "none"
  /\ done' = TRUE
  /\ pc' = "close_join"
  /\ UNCHANGED <<device, caches, mutex, sleeping, req, out, ret, appended,
                 overrun, consumer, crash, failed>>

CloseJoin ==
  /\ pc = "close_join" /\ consumer = "exit"
  /\ pc' = "closed"
  /\ UNCHANGED <<device, caches, mutex, done, sleeping, req, out, ret,
                 appended, overrun, consumer, crash, failed>>

(***************************************************************************)
(* The consumer thread.  It polls done without the mutex, and after done   *)
(* it writes one block, also without the mutex.                            *)
(***************************************************************************)

\* Slip: the thread ends on done without the last flush.
ConsumerTestNoFlush ==
  /\ consumer = "test"
  /\ consumer' = IF done THEN "exit" ELSE "lock"
  /\ UNCHANGED <<device, caches, mutex, done, client, crash, failed>>

ConsumerTest ==
  /\ consumer = "test"
  /\ consumer' = IF done THEN "flush" ELSE "lock"
  /\ UNCHANGED <<device, caches, mutex, done, client, crash, failed>>

ConsumerLock ==
  /\ consumer = "lock" /\ mutex = "none"
  /\ mutex' = "consumer"
  /\ consumer' = "held"
  /\ UNCHANGED <<device, caches, done, client, crash, failed>>

ConsumerSkip ==
  /\ consumer = "held" /\ write_cache.size < Block
  /\ mutex' = "none"
  /\ consumer' = "test"
  /\ UNCHANGED <<device, caches, done, client, crash, failed>>

\* circular_buffer_read up to device_write: a failed write ends the thread
\* with the mutex still locked.
ConsumerWrite ==
  /\ consumer = "held" /\ write_cache.size >= Block
  /\ \/ /\ ~WithinDevice(next_write_offset, Block)
        /\ Abort
     \/ /\ WithinDevice(next_write_offset, Block)
        /\ WriteBlock
        /\ consumer' = "advance"
        /\ UNCHANGED <<caches, mutex, done, client, crash, failed>>
     \/ /\ WithinDevice(next_write_offset, Block)
        /\ WritesPart
        /\ consumer' = "exit"
        /\ UNCHANGED <<caches, mutex, done, client, crash>>

\* Slip: space_avail is signalled only when the cache was full.
SignalWhenFull == sleeping' = (sleeping /\ ~Full)

\* The rest of circular_buffer_read: move the cursors, signal space_avail.
Advanced(cache) == [cache EXCEPT !.tail = (@ + Block) % Cap, !.size = @ - Block]
Signal == sleeping' = FALSE

ConsumerAdvance ==
  /\ consumer = "advance"
  /\ write_cache' = Advanced(write_cache)
  /\ next_write_offset' = next_write_offset + Block
  /\ Signal
  /\ mutex' = "none"
  /\ consumer' = "test"
  /\ UNCHANGED <<device, read_cache, done, pc, req, out, ret, appended,
                 overrun, crash, failed>>

ConsumerFlush ==
  /\ consumer = "flush"
  /\ \/ /\ ~WithinDevice(next_write_offset, Block)
        /\ Abort
     \/ /\ WithinDevice(next_write_offset, Block)
        /\ WriteBlock
        /\ MoveHead
        /\ consumer' = "exit"
        /\ UNCHANGED <<write_cache, next_write_offset, mutex, done, client, crash, failed>>
     \/ /\ WithinDevice(next_write_offset, Block)
        /\ WritesPart
        /\ consumer' = "exit"
        /\ UNCHANGED <<caches, mutex, done, client, crash>>

-----------------------------------------------------------------------------
ClientCall == CallAppend \/ CallRead \/ CallClose
ClientLock == AppendLock \/ ReadLock \/ CloseSet
ClientStep == \/ AppendWait \/ AppendCopy
              \/ ReadHit \/ ReadMiss \/ ReadWait \/ ReadFlush \/ ReadLoad
              \/ CloseJoin
ConsumerStep == \/ ConsumerTest \/ ConsumerSkip \/ ConsumerWrite
                \/ ConsumerAdvance \/ ConsumerFlush

\* A failed call has left the mutex locked, and the client asks for it.
Hung ==
  /\ failed # {}
  /\ pc \in {"append_lock", "read_lock", "close_lock"} /\ ~sleeping
  /\ mutex = "client" \/ (mutex = "consumer" /\ consumer = "exit")

\* The program has ended: the log is closed, an assert has failed, or it hangs.
Ended == (pc = "closed" \/ crash \/ Hung) /\ UNCHANGED vars

Running ==
  /\ ~crash
  /\ \/ ClientCall \/ ClientLock \/ ClientStep \/ SpuriousWakeup
     \/ ConsumerLock \/ ConsumerStep

Next == Running \/ Ended

(***************************************************************************)
(* Both threads keep running, and a thread that asks for the mutex again   *)
(* and again while it is released again and again gets it some time.       *)
(***************************************************************************)
Fairness ==
  /\ WF_vars(~crash /\ ClientStep)
  /\ SF_vars(~crash /\ ClientLock)
  /\ WF_vars(~crash /\ ConsumerStep)
  /\ SF_vars(~crash /\ ConsumerLock)

Spec == Init /\ [][Next]_vars
FairSpec == Spec /\ Fairness

-----------------------------------------------------------------------------
(***************************************************************************)
(*                               Properties                                *)
(***************************************************************************)

Buffers(blocks) ==
  [buffer : [0 .. blocks * Block - 1 -> Int], size : Nat, head : Nat, tail : Nat]

\* Every variable stays in its type, and no cursor leaves its buffer.
TypeOK ==
  /\ device \in [0 .. DevSize - 1 -> Int]
  /\ write_cache \in Buffers(WBlocks)
  /\ write_cache.head < Cap /\ write_cache.tail < Cap
  /\ read_cache \in Buffers(RBlocks)
  /\ next_write_offset \in Nat
  /\ mutex \in {"none", "client", "consumer"}
  /\ done \in BOOLEAN /\ sleeping \in BOOLEAN
  /\ overrun \in BOOLEAN /\ crash \in BOOLEAN
  /\ pc \in {"idle", "append_lock", "append", "read_try", "read_lock", "read",
             "read_load", "close_lock", "close_join", "closed"}
  /\ consumer \in {"test", "lock", "held", "advance", "flush", "exit"}
  /\ req \in [off : Nat, len : Nat]
  /\ ret \in {"none", "ok", "err"} /\ failed \subseteq {"read", "write"}
  /\ appended \in Nat
  /\ DOMAIN out \subseteq Nat

\* Until a device call fails, each thread holds the mutex exactly in its
\* critical section: no path returns with it locked, none runs without it.
MutexDiscipline ==
  failed = {} =>
    /\ mutex = "client" <=> pc \in {"append", "read", "read_load"}
    /\ mutex = "consumer" <=> consumer \in {"held", "advance"}

\* A client asleep on space_avail has a reason to be: the consumer cannot have
\* made the room it waits for (logfs.c:78, 285) without signalling it.
NoLostWakeup ==
  sleeping => \/ pc = "append_lock" /\ Full
              \/ pc = "read_lock" /\ Pending

\* The three ways the code counts agree: the ring cursors, the number of
\* pending bytes and the device offset all describe one log position.
CursorsAgree ==
  /\ next_write_offset + write_cache.size = appended
  /\ write_cache.tail = next_write_offset % Cap
  /\ write_cache.head = appended % Cap

\* Until an append overruns the ring, every byte below next_write_offset is on
\* the device and every later one is in its slot of the ring.
NoByteLost ==
  ~overrun =>
    \A o \in 0 .. appended - 1 :
      IF o < next_write_offset THEN device[o] = o
                               ELSE write_cache.buffer[o % Cap] = o

\* read_cache->head is a promise about the device: everything below it is
\* there, also after the consumer rewrites the block a flush left partial.
\* (The flush of logfs_close breaks the promise: see CloseFlushes.)
FlushedStays ==
  ~overrun /\ ~done => \A o \in 0 .. read_cache.head - 1 : device[o] = o

\* What the lock-free path may serve is what was appended.  Between moving
\* head and loading the window the cache is not coherent, and after a failed
\* load it stays so.
CacheCoherent ==
  ~overrun /\ pc # "read_load" /\ ~done /\ "read" \notin failed =>
    \A o \in read_cache.tail .. WindowEnd - 1 :
      read_cache.buffer[o - read_cache.tail] = o

\* A logfs_read that returns 0 has returned the bytes appended at its offset
\* (logfs.h:39).
ReadsCorrect == ret = "ok" /\ out # Nothing => out = Bytes(req.off, req.len)

\* The same as long as the ring was not overrun and no device_read failed.
ReadsExact == ~overrun /\ "read" \notin failed => ReadsCorrect

\* logfs_close leaves on the device all that had been written there and one
\* more block; what was pending behind that block is gone.
CloseFlushes ==
  pc = "closed" /\ ~overrun /\ "write" \notin failed =>
    \A o \in 0 .. appended - 1 :
      o < next_write_offset + Block => device[o] = o

\* The device holds a log: what lies below next_write_offset is never written
\* again, whoever writes and whatever fails.
DeviceAppendOnly ==
  [][\A o \in 0 .. next_write_offset - 1 : device'[o] = device[o]]_vars

\* An assert on the end of a transfer fails only when the log has come within
\* two blocks of the end of the device: reads load that much behind their end.
AbortsNearEnd == crash => appended + 2 * Block > DevSize

(***************************************************************************)
(* The log of AppendLog: an append takes effect when its bytes are copied, *)
(* a read when they are copied out, a close when the consumer is joined.   *)
(***************************************************************************)
Operation ==
  CASE pc \in {"append_lock", "append"} -> "append"
    [] pc \in {"read_try", "read_lock", "read", "read_load"} -> "read"
    [] pc \in {"close_lock", "close_join"} -> "close"
    [] OTHER -> "none"
Request ==
  IF pc = "closed" THEN [op |-> "closed", off |-> 0, len |-> 0]
  ELSE [op |-> Operation,
        off |-> IF Operation = "read" THEN req.off ELSE 0,
        len |-> IF Operation \in {"read", "append"} THEN req.len ELSE 0]

Log == INSTANCE AppendLog WITH length <- appended, request <- Request,
                               reply <- out
ImplementsLog == Log!Spec
=============================================================================
