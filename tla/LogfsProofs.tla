---------------------------- MODULE LogfsProofs ----------------------------
(***************************************************************************)
(* Theorems about Logfs, for every block size, cache size, device size and *)
(* set of lengths.  The invariants are proved in layers, each resting on   *)
(* the ones before it: types and alignment, the mutex, the condition       *)
(* variable, the cursors; then the bytes.                                  *)
(***************************************************************************)
EXTENDS Logfs, ModArith

LEMMA CapPositive == Cap \in Nat \ {0} /\ Block <= Cap /\ DevSize \in Nat
  BY GeometryAssumption DEF Cap, DevSize

LEMMA FloorBounds ==
  ASSUME NEW n \in Nat
  PROVE  Floor(n) \in Nat /\ Floor(n) <= n /\ n < Floor(n) + Block
<1> DEFINE q == n \div Block
           r == n % Block
<1>1. r \in 0 .. Block - 1 /\ q \in Int /\ n = Block * q + r
  BY GeometryAssumption, ModDef
<1>2. q \in Nat
  BY GeometryAssumption
<1>3. Floor(n) = q * Block
  BY DEF Floor
<1> HIDE DEF q, r
<1> QED BY <1>1, <1>2, <1>3, GeometryAssumption

\* memcpy within bounds keeps the destination a buffer of the same size.
LEMMA MemcpyType ==
  ASSUME NEW d \in Nat, NEW dst \in [0 .. d - 1 -> Int],
         NEW s \in Nat, NEW src \in [0 .. s - 1 -> Int],
         NEW at \in Nat, NEW from \in Nat, NEW len \in Nat, from + len <= s
  PROVE  Memcpy(dst, at, src, from, len) \in [0 .. d - 1 -> Int]
  BY DEF Memcpy

-----------------------------------------------------------------------------
(***************************************************************************)
(* Layer 1: types.  The device write at the ring's tail stays inside the   *)
(* buffer only because the tail is always at a block boundary.             *)
(***************************************************************************)
TailAligned == \E k \in 0 .. WBlocks - 1 : write_cache.tail = k * Block
BlockPending == consumer = "advance" => write_cache.size >= Block
ReqFits == pc \in {"read_try", "read_lock", "read", "read_load"} =>
             /\ req.len \in ReadLens
             /\ req.off + req.len <= appended
AppendFits == pc \in {"append_lock", "append"} => req.len \in AppendLens

TypeInv == TypeOK /\ TailAligned /\ BlockPending /\ ReqFits /\ AppendFits

LEMMA AlignedFits ==
  ASSUME NEW k \in 0 .. WBlocks - 1
  PROVE  k * Block \in Nat /\ k * Block + Block <= Cap
<1>1. k * Block + Block = (k + 1) * Block
  BY GeometryAssumption
<1>2. (k + 1) * Block <= WBlocks * Block
  BY GeometryAssumption
<1> QED BY <1>1, <1>2, GeometryAssumption DEF Cap

LEMMA AlignedNext ==
  ASSUME NEW k \in 0 .. WBlocks - 1
  PROVE  \E j \in 0 .. WBlocks - 1 : (k * Block + Block) % Cap = j * Block
<1>1. CASE k = WBlocks - 1
  <2>1. k * Block + Block = Cap * 1 + 0
    BY <1>1, GeometryAssumption DEF Cap
  <2>2. (k * Block + Block) % Cap = 0
    BY <2>1, CapPositive, AlignedFits, ModIs
  <2> QED BY <2>2, GeometryAssumption
<1>2. CASE k # WBlocks - 1
  <2>1. k + 1 \in 0 .. WBlocks - 1
    BY <1>2, GeometryAssumption
  <2>2. k * Block + Block = (k + 1) * Block
    BY GeometryAssumption
  <2>3. (k + 1) * Block \in 0 .. Cap - 1
    BY <2>1, AlignedFits, GeometryAssumption, CapPositive
  <2>4. ((k + 1) * Block) % Cap = (k + 1) * Block
    BY <2>3, CapPositive, ModSmall
  <2> QED BY <2>1, <2>2, <2>4
<1> QED BY <1>1, <1>2

LEMMA WriteBytesType ==
  ASSUME TypeInv, NEW n \in 0 .. Block, WriteBytes(n),
         WithinDevice(next_write_offset, Block)
  PROVE  device' \in [0 .. DevSize - 1 -> Int]
<1>1. write_cache.tail \in Nat /\ write_cache.tail + Block <= Cap
  BY AlignedFits DEF TypeInv, TypeOK, TailAligned
<1>2. write_cache.buffer \in [0 .. Cap - 1 -> Int]
  BY DEF TypeInv, TypeOK, Buffers, Cap
<1>3. device \in [0 .. DevSize - 1 -> Int] /\ next_write_offset \in Nat
  BY DEF TypeInv, TypeOK
<1>4. n \in Nat /\ Cap \in Nat /\ write_cache.tail + n <= Cap
  BY <1>1, CapPositive, GeometryAssumption
<1>5. DevSize \in Nat
  BY CapPositive
<1>6. Memcpy(device, next_write_offset, write_cache.buffer,
             write_cache.tail, n) \in [0 .. DevSize - 1 -> Int]
  BY <1>1, <1>2, <1>3, <1>4, <1>5, MemcpyType
<1> QED BY <1>6 DEF WriteBytes

LEMMA WriteBlockType ==
  ASSUME TypeInv, WithinDevice(next_write_offset, Block),
         WriteBlock \/ WritesPart
  PROVE  device' \in [0 .. DevSize - 1 -> Int]
<1>1. \E n \in 0 .. Block : WriteBytes(n)
  BY GeometryAssumption DEF WriteBlock, WritesPart
<1> QED BY <1>1, WriteBytesType

LEMMA LoadedType ==
  ASSUME TypeInv, NEW len \in Nat, off_read \in Nat, off_read + len <= DevSize
  PROVE  Loaded(len) \in [0 .. RBlocks * Block - 1 -> Int]
<1>1. read_cache.buffer \in [0 .. RBlocks * Block - 1 -> Int]
  BY DEF TypeInv, TypeOK, Buffers
<1>2. device \in [0 .. DevSize - 1 -> Int]
  BY DEF TypeInv, TypeOK
<1>3. RBlocks * Block \in Nat
  BY GeometryAssumption
<1> QED BY <1>1, <1>2, <1>3, CapPositive, MemcpyType DEF Loaded

LEMMA RingWriteType ==
  ASSUME NEW c \in Buffers(WBlocks), c.head < Cap,
         NEW first \in Nat, NEW len \in Nat
  PROVE  /\ RingWrite(c, first, len) \in Buffers(WBlocks)
         /\ RingWrite(c, first, len).head < Cap
         /\ RingWrite(c, first, len).tail = c.tail
         /\ RingWrite(c, first, len).size = c.size + len
<1> DEFINE w == RingWrite(c, first, len)
           h == c.head + len
<1>1. h \in Int /\ c.size + len \in Nat /\ c.tail \in Nat
  BY DEF Buffers
<1> HIDE DEF h
<1>2. h % Cap \in 0 .. Cap - 1
  BY <1>1, CapPositive, ModDef
<1>3. w.buffer \in [0 .. Cap - 1 -> Int]
  BY CapPositive DEF RingWrite, Buffers, Cap
<1>4. w = [buffer |-> w.buffer, size |-> c.size + len,
           head |-> h % Cap, tail |-> c.tail]
  BY DEF RingWrite, h
<1> HIDE DEF w
<1>5. w \in Buffers(WBlocks) /\ w.head < Cap /\ w.tail = c.tail
      /\ w.size = c.size + len
  BY <1>1, <1>2, <1>3, <1>4, CapPositive DEF Buffers, Cap
<1> QED BY <1>5 DEF w

\* A partial load ends before the whole one.
LEMMA PartialLoad ==
  ASSUME NEW len \in Nat, NEW blocks \in 0 .. (Floor(len) + 2 * Block) \div Block - 1
  PROVE  /\ blocks * Block \in Nat
         /\ blocks * Block <= Floor(len) + 2 * Block
<1> DEFINE n == Floor(len) + 2 * Block
           q == n \div Block
<1>0. Floor(len) \in Nat
  BY FloorBounds
<1>1. n \in Nat
  BY <1>0, GeometryAssumption
<1> HIDE DEF n
<1>2. q \in Nat /\ Block * q <= n
  <2>1. n \in Int /\ Block \in Nat \ {0}
    BY <1>1, GeometryAssumption
  <2>2. n % Block \in 0 .. Block - 1 /\ q \in Int /\ n = Block * q + (n % Block)
    BY <2>1, ModDef
  <2>3. q \in Nat
    BY <1>1, <2>1
  <2> HIDE DEF q
  <2> QED BY <2>1, <2>2, <2>3
<1>3. blocks \in 0 .. q - 1
  BY DEF n
<1> HIDE DEF q
<1>4. Block * blocks <= Block * q /\ Block * blocks \in Nat
  BY <1>2, <1>3, GeometryAssumption
<1>5. blocks * Block <= n
  BY <1>1, <1>2, <1>3, <1>4, GeometryAssumption
<1> QED BY <1>3, <1>4, <1>5, GeometryAssumption DEF n

\* A device call that has failed stays on the record.
LEMMA FailedGrows ==
  ASSUME [Next]_vars
  PROVE  failed \subseteq failed'
<1>1. ASSUME ClientCall PROVE failed' = failed
  <2>1. \E where, off, len : Call(where, off, len)
    BY <1>1 DEF ClientCall, CallAppend, CallRead, CallClose
  <2> QED BY <2>1 DEF Call
<1>2. ASSUME \/ ClientLock \/ SpuriousWakeup \/ CloseJoin \/ AppendWait
             \/ ReadWait \/ ReadHit \/ ReadMiss \/ AppendCopy
      PROVE  failed' = failed
  BY <1>2 DEF ClientLock, AppendLock, ReadLock, CloseSet, CloseJoin, Lock,
              SpuriousWakeup, AppendWait, ReadWait, CondWait, ReadHit,
              ReadMiss, AppendCopy
<1>3. ASSUME \/ ConsumerTest \/ ConsumerLock \/ ConsumerSkip
             \/ ConsumerAdvance \/ UNCHANGED vars
      PROVE  failed' = failed
  BY <1>3 DEF ConsumerTest, ConsumerLock, ConsumerSkip, ConsumerAdvance, vars
<1>4. ASSUME ReadFlush \/ ReadLoad \/ ConsumerWrite \/ ConsumerFlush
      PROVE  failed' = failed \/ \E call : Fails(call)
  BY <1>4 DEF ReadFlush, ReadLoad, ConsumerWrite, ConsumerFlush, Abort, WritesPart
<1> QED
  BY <1>1, <1>2, <1>3, <1>4
  DEF Next, Running, Ended, ClientStep, ConsumerStep, Fails

LEMMA TypeInit == Init => TypeInv
<1> SUFFICES ASSUME Init PROVE TypeInv
  OBVIOUS
<1>1. Cap \in Nat \ {0} /\ DevSize \in Nat /\ WBlocks * Block = Cap
  BY CapPositive DEF Cap
<1>2. /\ circular_buffer(WBlocks) \in Buffers(WBlocks)
      /\ circular_buffer(RBlocks) \in Buffers(RBlocks)
      /\ circular_buffer(WBlocks).head = 0 /\ circular_buffer(WBlocks).tail = 0
  BY GeometryAssumption DEF circular_buffer, Buffers, Junk
<1>3. DOMAIN Nothing \subseteq Nat
  BY DEF Nothing
<1>6. device \in [0 .. DevSize - 1 -> Int]
  BY <1>1 DEF Init, Junk
<1>8. /\ write_cache \in Buffers(WBlocks) /\ read_cache \in Buffers(RBlocks)
      /\ write_cache.head < Cap /\ write_cache.tail < Cap
  BY <1>1, <1>2 DEF Init
<1>9. DOMAIN out \subseteq Nat
  BY <1>3 DEF Init
<1>7. TypeOK
  BY <1>6, <1>8, <1>9 DEF Init, TypeOK
<1>4. TailAligned
  <2>1. write_cache.tail = 0 * Block /\ 0 \in 0 .. WBlocks - 1
    BY GeometryAssumption DEF Init, circular_buffer
  <2> QED BY <2>1 DEF TailAligned
<1>5. BlockPending /\ ReqFits /\ AppendFits
  BY DEF Init, BlockPending, ReqFits, AppendFits
<1> QED BY <1>4, <1>5, <1>7 DEF TypeInv

LEMMA TypeStep == TypeInv /\ [Next]_vars => TypeInv'
<1> SUFFICES ASSUME TypeInv, [Next]_vars PROVE TypeInv'
  OBVIOUS
<1> USE DEF TypeInv, TypeOK, TailAligned, BlockPending, ReqFits, AppendFits
<1>0. /\ Block \in Nat \ {0} /\ Cap \in Nat \ {0} /\ DevSize \in Nat
      /\ AppendLens \subseteq Nat /\ ReadLens \subseteq Nat
      /\ write_cache.size \in Nat /\ write_cache.head \in Nat
      /\ write_cache.tail \in Nat
      /\ read_cache.size \in Nat /\ read_cache.head \in Nat
      /\ read_cache.tail \in Nat
  BY CapPositive, GeometryAssumption, LengthAssumption DEF Buffers
<1>1. ASSUME NEW where \in {"idle", "append_lock", "read_try", "close_lock"},
             NEW off \in Nat, NEW len \in Nat, Call(where, off, len),
             where = "append_lock" => len \in AppendLens,
             where = "read_try" => len \in ReadLens /\ off + len <= appended
      PROVE  TypeInv'
  BY <1>1 DEF Call, caches, Nothing
<1>2. ASSUME CallAppend PROVE TypeInv'
  <2>1. PICK n \in AppendLens :
          Call(IF n = 0 THEN "idle" ELSE "append_lock", appended, n)
    BY <1>2 DEF CallAppend
  <2> QED BY <1>0, <1>1, <2>1
<1>3. ASSUME CallRead PROVE TypeInv'
  <2>1. PICK n \in ReadLens, o \in 0 .. appended :
          o + n <= appended /\ Call("read_try", o, n)
    BY <1>3 DEF CallRead
  <2>2. n \in Nat /\ o \in Nat
    BY <1>0
  <2> QED BY <1>1, <2>1, <2>2
<1>4. ASSUME CallClose PROVE TypeInv'
  BY <1>4, <1>1 DEF CallClose
<1>5. ASSUME AppendLock \/ ReadLock \/ AppendWait \/ ReadWait PROVE TypeInv'
  <2>1. CASE AppendLock
    BY <2>1 DEF AppendLock, Lock, caches
  <2>2. CASE ReadLock
    BY <2>2 DEF ReadLock, Lock, caches
  <2>3. CASE AppendWait
    BY <2>3 DEF AppendWait, CondWait, caches
  <2>4. CASE ReadWait
    BY <2>4 DEF ReadWait, CondWait, caches
  <2> QED BY <1>5, <2>1, <2>2, <2>3, <2>4
<1>6. ASSUME SpuriousWakeup \/ CloseSet \/ CloseJoin PROVE TypeInv'
  <2>1. CASE SpuriousWakeup
    <3>1. sleeping' \in BOOLEAN
      BY <2>1 DEF SpuriousWakeup
    <3>2. UNCHANGED <<device, write_cache, read_cache, next_write_offset, mutex,
                      done, pc, req, out, ret, appended, overrun, consumer, crash, failed>>
      BY <2>1 DEF SpuriousWakeup, caches
    <3> QED BY <3>1, <3>2
  <2>2. CASE CloseSet
    BY <2>2 DEF CloseSet, caches
  <2>3. CASE CloseJoin
    BY <2>3 DEF CloseJoin, caches
  <2> QED BY <1>6, <2>1, <2>2, <2>3
<1>7. ASSUME AppendCopy PROVE TypeInv'
  <2>1. /\ write_cache \in Buffers(WBlocks) /\ write_cache.head < Cap
        /\ appended \in Nat /\ req.len \in Nat
    BY <1>0, <1>7 DEF AppendCopy
  <2>2. write_cache' = RingWrite(write_cache, appended, req.len)
    BY <1>7 DEF AppendCopy
  <2>3. /\ write_cache' \in Buffers(WBlocks)
        /\ write_cache'.head < Cap
        /\ write_cache'.tail = write_cache.tail
        /\ write_cache'.size = write_cache.size + req.len
    BY ONLY <2>1, <2>2, RingWriteType
  <2>4. appended' \in Nat /\ overrun' \in BOOLEAN
    BY <1>7, <2>1 DEF AppendCopy
  <2>5. /\ pc' = "idle" /\ ret' = "ok" /\ mutex' = "none"
        /\ UNCHANGED <<device, read_cache, next_write_offset, done, sleeping,
                       req, out, consumer, crash, failed>>
    BY <1>7 DEF AppendCopy
  <2>6. TypeOK'
    BY <2>3, <2>4, <2>5
  <2>7. TailAligned' /\ BlockPending' /\ ReqFits' /\ AppendFits'
    <3>1. TailAligned'
      BY ONLY TailAligned, <2>3 DEF TailAligned
    <3>2. BlockPending'
      <4>1. consumer = "advance" => write_cache.size >= Block
        OBVIOUS
      <4> QED BY ONLY <4>1, <1>0, <2>1, <2>3, <2>5 DEF BlockPending
    <3>3. ReqFits' /\ AppendFits'
      BY ONLY <2>5 DEF ReqFits, AppendFits
    <3> QED BY ONLY <3>1, <3>2, <3>3
  <2> QED BY <2>6, <2>7
<1>8. ASSUME ReadHit \/ ReadMiss PROVE TypeInv'
  <2>1. CASE ReadHit
    <3>1. DOMAIN out' \subseteq Nat
      BY <1>0, <2>1 DEF ReadHit, CopyOut
    <3> QED BY <2>1, <3>1 DEF ReadHit, caches
  <2>2. CASE ReadMiss
    BY <2>2 DEF ReadMiss, caches
  <2> QED BY <1>8, <2>1, <2>2
<1>9. ASSUME Abort PROVE TypeInv'
  BY <1>9 DEF Abort, caches, client
<1>10. ASSUME MoveHead, read_cache \in Buffers(RBlocks)
       PROVE  read_cache' \in Buffers(RBlocks)
  <2>1. next_write_offset + write_cache.size \in Nat
    BY <1>0
  <2> QED BY <1>10, <2>1 DEF MoveHead, Buffers
<1>11. ASSUME ReadFlush PROVE TypeInv'
  <2>1. CASE Abort
    BY <2>1, <1>9
  <2>2. CASE ReadFails /\ WritesPart /\ UNCHANGED read_cache
             /\ WithinDevice(next_write_offset, Block)
    <3>1. device' \in [0 .. DevSize - 1 -> Int]
      BY <2>2, WriteBlockType
    <3> QED BY <2>2, <3>1, BoundAssumption DEF ReadFails, WritesPart, Fails
  <2>3. CASE WithinDevice(next_write_offset, Block) /\ WriteBlock /\ MoveHead
             /\ pc = "read" /\ pc' = "read_load"
             /\ UNCHANGED <<write_cache, next_write_offset, mutex, done,
                  sleeping, req, out, ret, appended, overrun, consumer, crash, failed>>
    <3>1. device' \in [0 .. DevSize - 1 -> Int]
      BY <2>3, WriteBlockType
    <3> QED BY <2>3, <3>1, <1>10
  <2> QED BY <1>11, <2>1, <2>2, <2>3 DEF ReadFlush
<1>12. ASSUME ReadLoad PROVE TypeInv'
  <2>0. pc = "read_load" /\ off_read \in Nat /\ read_len \in Nat
    <3>1. Floor(req.off) \in Nat /\ Floor(req.len) \in Nat
      BY FloorBounds
    <3>2. pc = "read_load"
      BY <1>12 DEF ReadLoad
    <3>3. Floor(req.len) + 2 * Block \in Nat
      BY <1>0, <3>1
    <3> QED BY <3>1, <3>2, <3>3 DEF off_read, read_len
  <2>1. CASE Abort
    BY <2>1, <1>9
  <2>2. CASE /\ WithinDevice(off_read, read_len)
             /\ read_cache' = [read_cache EXCEPT !.buffer = Loaded(read_len),
                                                 !.tail = off_read,
                                                 !.size = read_len]
             /\ CopyOut(read_cache'.buffer, req.off - off_read)
             /\ mutex' = "none"
             /\ pc' = "idle" /\ ret' = "ok"
             /\ UNCHANGED <<device, write_cache, next_write_offset, done,
                            sleeping, req, appended, overrun, consumer, crash, failed>>
    <3>1. Loaded(read_len) \in [0 .. RBlocks * Block - 1 -> Int]
      BY <2>0, <2>2, LoadedType DEF WithinDevice
    <3>2. read_cache' \in Buffers(RBlocks)
      BY <2>0, <2>2, <3>1 DEF Buffers
    <3>3. DOMAIN out' \subseteq Nat
      BY <2>2 DEF CopyOut
    <3> QED BY <2>2, <3>2, <3>3
  <2>3. CASE /\ WithinDevice(off_read, read_len)
             /\ \E blocks \in 0 .. read_len \div Block - 1 :
                  read_cache' = [read_cache EXCEPT
                                   !.buffer = Loaded(blocks * Block)]
             /\ ReadFails /\ Fails("read")
             /\ UNCHANGED device
    <3>1. PICK blocks \in 0 .. read_len \div Block - 1 :
            read_cache' = [read_cache EXCEPT !.buffer = Loaded(blocks * Block)]
      BY <2>3
    <3>2. blocks * Block \in Nat /\ blocks * Block <= read_len
      BY PartialLoad DEF read_len
    <3>3. Loaded(blocks * Block) \in [0 .. RBlocks * Block - 1 -> Int]
      <4>1. off_read + blocks * Block <= DevSize
        <5>1. off_read + read_len <= DevSize
          BY <2>3 DEF WithinDevice
        <5> DEFINE some == blocks * Block
                   all == read_len
                   base == off_read
        <5>2. /\ base \in Nat /\ all \in Nat /\ some \in Nat /\ some <= all
              /\ base + all <= DevSize
          BY <2>0, <3>2, <5>1
        <5> HIDE DEF some, all, base
        <5>3. base + some <= DevSize
          BY <5>2, <1>0
        <5> QED BY <5>3 DEF base, some
      <4> QED BY <2>0, <3>2, <4>1, LoadedType
    <3>4. read_cache' \in Buffers(RBlocks)
      BY <3>1, <3>3 DEF Buffers
    <3> QED BY <2>3, <3>4, BoundAssumption DEF ReadFails, Fails
  <2> QED BY <1>12, <2>1, <2>2, <2>3 DEF ReadLoad
<1>13. ASSUME ConsumerTest \/ ConsumerLock \/ ConsumerSkip PROVE TypeInv'
  <2>1. /\ consumer' \in {"flush", "exit", "lock", "held", "test"}
        /\ mutex' \in {"none", "client", "consumer"}
        /\ UNCHANGED <<device, caches, done, client, crash, failed>>
    BY <1>13 DEF ConsumerTest, ConsumerLock, ConsumerSkip
  <2> QED BY <2>1 DEF caches, client
<1>14. ASSUME ConsumerWrite PROVE TypeInv'
  <2>1. CASE WithinDevice(next_write_offset, Block) /\ WriteBlock
             /\ consumer' = "advance"
             /\ UNCHANGED <<caches, mutex, done, client, crash, failed>>
    <3>1. device' \in [0 .. DevSize - 1 -> Int]
      BY <2>1, WriteBlockType
    <3>2. write_cache.size >= Block
      BY <1>14 DEF ConsumerWrite
    <3> QED BY <2>1, <3>1, <3>2 DEF caches, client
  <2>2. CASE consumer' = "exit" /\ WritesPart
             /\ WithinDevice(next_write_offset, Block)
             /\ UNCHANGED <<caches, mutex, done, client, crash>>
    <3>1. device' \in [0 .. DevSize - 1 -> Int]
      BY <2>2, WriteBlockType
    <3> QED BY SMTT(30), <2>2, <3>1, <1>0, BoundAssumption
            DEF WritesPart, Fails, caches, client
  <2> QED BY <1>14, <1>9, <2>1, <2>2 DEF ConsumerWrite
<1>15. ASSUME ConsumerAdvance PROVE TypeInv'
  <2>1. write_cache.size - Block \in Nat /\ next_write_offset' \in Nat
    BY <1>15, <1>0 DEF ConsumerAdvance, Buffers
  <2>2. PICK k \in 0 .. WBlocks - 1 : write_cache.tail = k * Block
    OBVIOUS
  <2>3. PICK j \in 0 .. WBlocks - 1 :
          (write_cache.tail + Block) % Cap = j * Block
    BY <2>2, AlignedNext
  <2>4. j * Block \in Nat /\ j * Block < Cap
    BY <1>0, AlignedFits
  <2>5. write_cache' = [write_cache EXCEPT !.tail = j * Block,
                                           !.size = write_cache.size - Block]
    BY <1>15, <2>3 DEF ConsumerAdvance, Advanced, Buffers
  <2>6. /\ write_cache' \in Buffers(WBlocks)
        /\ write_cache'.head < Cap
        /\ write_cache'.tail = j * Block
    BY <2>1, <2>4, <2>5 DEF Buffers
  <2> QED BY ZenonT(30), <1>15, <2>1, <2>4, <2>6 DEF ConsumerAdvance, Signal
<1>16. ASSUME ConsumerFlush PROVE TypeInv'
  <2>1. CASE WithinDevice(next_write_offset, Block) /\ WriteBlock /\ MoveHead
             /\ consumer' = "exit"
             /\ UNCHANGED <<write_cache, next_write_offset, mutex, done, client, crash, failed>>
    <3>1. device' \in [0 .. DevSize - 1 -> Int]
      BY <2>1, WriteBlockType
    <3> QED BY <2>1, <3>1, <1>10 DEF client
  <2>2. CASE consumer' = "exit" /\ WritesPart
             /\ WithinDevice(next_write_offset, Block)
             /\ UNCHANGED <<caches, mutex, done, client, crash>>
    <3>1. device' \in [0 .. DevSize - 1 -> Int]
      BY <2>2, WriteBlockType
    <3> QED BY SMTT(30), <2>2, <3>1, <1>0, BoundAssumption
            DEF WritesPart, Fails, caches, client
  <2> QED BY <1>16, <1>9, <2>1, <2>2 DEF ConsumerFlush
<1>17. ASSUME UNCHANGED vars PROVE TypeInv'
  BY <1>17 DEF vars, caches, client
<1> QED
  BY <1>2, <1>3, <1>4, <1>5, <1>6, <1>7, <1>8, <1>11, <1>12, <1>13, <1>14,
     <1>15, <1>16, <1>17
  DEF Next, Running, Ended, ClientCall, ClientLock, ClientStep, ConsumerStep

LEMMA TypeInvariant == Spec => []TypeInv
  BY TypeInit, TypeStep, PTL DEF Spec

\* Every reachable state is of its type, and every cursor inside its buffer.
THEOREM TypeCorrect == Spec => []TypeOK
<1>1. TypeInv => TypeOK
  BY DEF TypeInv
<1> QED BY <1>1, TypeInvariant, PTL

-----------------------------------------------------------------------------
(***************************************************************************)
(* Layer 2: the mutex.  A thread in a critical section holds it, whatever  *)
(* fails; while nothing fails no thread keeps it longer than that.         *)
(***************************************************************************)
MutexInv ==
  /\ pc \in {"append", "read", "read_load"} => mutex = "client"
  /\ consumer \in {"held", "advance"} => mutex = "consumer"
  /\ MutexDiscipline

LEMMA MutexInit == Init => MutexInv
  BY DEF Init, MutexInv, MutexDiscipline

LEMMA MutexStep == TypeInv /\ MutexInv /\ [Next]_vars => MutexInv'
<1> SUFFICES ASSUME TypeInv, MutexInv, [Next]_vars PROVE MutexInv'
  OBVIOUS
<1> USE DEF MutexInv, MutexDiscipline
<1>1. ASSUME ClientCall PROVE MutexInv'
  <2>1. PICK where \in {"idle", "append_lock", "read_try", "close_lock"} :
          \E off, len : Call(where, off, len)
    BY <1>1 DEF ClientCall, CallAppend, CallRead, CallClose
  <2>2. pc = "idle" /\ pc' = where /\ UNCHANGED <<mutex, consumer, failed>>
    BY <2>1 DEF Call
  <2> QED BY <2>1, <2>2
<1>2. ASSUME ClientLock \/ SpuriousWakeup \/ CloseJoin PROVE MutexInv'
  BY <1>2 DEF ClientLock, AppendLock, ReadLock, CloseSet, CloseJoin, Lock,
              SpuriousWakeup
<1>3. ASSUME AppendWait \/ ReadWait PROVE MutexInv'
  BY <1>3 DEF AppendWait, ReadWait, CondWait
<1>4. ASSUME AppendCopy \/ ReadHit \/ ReadMiss PROVE MutexInv'
  BY <1>4 DEF AppendCopy, ReadHit, ReadMiss
<1>5. ASSUME Abort \/ UNCHANGED vars PROVE MutexInv'
  BY <1>5 DEF Abort, vars, client
<1>6. ASSUME ReadFlush PROVE MutexInv'
  BY <1>5, <1>6 DEF ReadFlush, ReadFails, WritesPart, Fails
<1>7. ASSUME ReadLoad PROVE MutexInv'
  BY <1>5, <1>7 DEF ReadLoad, ReadFails, Fails
<1>8. ASSUME ConsumerTest \/ ConsumerLock \/ ConsumerSkip PROVE MutexInv'
  BY <1>8 DEF ConsumerTest, ConsumerLock, ConsumerSkip, client
<1>9. ASSUME ConsumerWrite \/ ConsumerAdvance \/ ConsumerFlush PROVE MutexInv'
  BY <1>5, <1>9 DEF ConsumerWrite, ConsumerAdvance, ConsumerFlush, WritesPart, Fails, client
<1> QED
  BY <1>1, <1>2, <1>3, <1>4, <1>5, <1>6, <1>7, <1>8, <1>9
  DEF Next, Running, Ended, ClientStep, ConsumerStep

LEMMA MutexInvariant == Spec => []MutexInv
  BY TypeInvariant, MutexInit, MutexStep, PTL DEF Spec

\* No call returns with the mutex and no thread runs its critical section
\* without it, as long as the device does not fail.
THEOREM MutexCorrect == Spec => []MutexDiscipline
<1>1. MutexInv => MutexDiscipline
  BY DEF MutexInv
<1> QED BY <1>1, MutexInvariant, PTL

-----------------------------------------------------------------------------
(***************************************************************************)
(* Layer 3: the condition variable.  Only the consumer makes room, and it  *)
(* signals in the same critical section.                                   *)
(***************************************************************************)
LEMMA WakeupInit == Init => NoLostWakeup
  BY DEF Init, NoLostWakeup

LEMMA WakeupStep == TypeInv /\ NoLostWakeup /\ [Next]_vars => NoLostWakeup'
<1> SUFFICES ASSUME TypeInv, NoLostWakeup, [Next]_vars PROVE NoLostWakeup'
  OBVIOUS
<1> USE DEF NoLostWakeup, Full, Pending
<1>1. ASSUME ClientCall PROVE NoLostWakeup'
  <2>1. \E where, off, len : Call(where, off, len)
    BY <1>1 DEF ClientCall, CallAppend, CallRead, CallClose
  <2>2. pc = "idle" /\ sleeping' = sleeping
    BY <2>1 DEF Call
  <2> QED BY <2>2
<1>2. ASSUME ClientLock \/ SpuriousWakeup \/ CloseJoin PROVE NoLostWakeup'
  BY <1>2 DEF ClientLock, AppendLock, ReadLock, CloseSet, CloseJoin, Lock,
              SpuriousWakeup, caches
<1>3. ASSUME AppendWait \/ ReadWait PROVE NoLostWakeup'
  BY <1>3 DEF AppendWait, ReadWait, CondWait, caches
<1>4. ASSUME AppendCopy \/ ReadHit \/ ReadMiss PROVE NoLostWakeup'
  BY <1>4 DEF AppendCopy, ReadHit, ReadMiss, caches
<1>5. ASSUME Abort \/ UNCHANGED vars PROVE NoLostWakeup'
  BY <1>5 DEF Abort, vars, client, caches
<1>6. ASSUME ReadFlush PROVE NoLostWakeup'
  BY <1>5, <1>6 DEF ReadFlush, ReadFails
<1>7. ASSUME ReadLoad PROVE NoLostWakeup'
  BY <1>5, <1>7 DEF ReadLoad, ReadFails
<1>8. ASSUME ConsumerTest \/ ConsumerLock \/ ConsumerSkip PROVE NoLostWakeup'
  BY <1>8 DEF ConsumerTest, ConsumerLock, ConsumerSkip, client, caches
<1>9. ASSUME ConsumerWrite \/ ConsumerAdvance \/ ConsumerFlush
      PROVE  NoLostWakeup'
  BY <1>5, <1>9 DEF ConsumerWrite, ConsumerAdvance, ConsumerFlush, Signal,
                    client, caches
<1> QED
  BY <1>1, <1>2, <1>3, <1>4, <1>5, <1>6, <1>7, <1>8, <1>9
  DEF Next, Running, Ended, ClientStep, ConsumerStep

\* A client asleep on space_avail still has to wait: no signal is lost.
THEOREM WakeupCorrect == Spec => []NoLostWakeup
  BY TypeInvariant, WakeupInit, WakeupStep, PTL DEF Spec

-----------------------------------------------------------------------------
(***************************************************************************)
(* Layer 4: the cursors.  Only the append and the consumer's advance move  *)
(* them, and both keep the ring, the pending size and the device offset in *)
(* step; read_cache->head never passes the end of the log.                 *)
(***************************************************************************)
LEMMA CursorSteps ==
  ASSUME [Next]_vars
  PROVE  \/ AppendCopy \/ ConsumerAdvance
         \/ UNCHANGED <<write_cache, next_write_offset, appended>>
<1>1. ASSUME ClientCall
      PROVE  UNCHANGED <<write_cache, next_write_offset, appended>>
  <2>1. \E where, off, len : Call(where, off, len)
    BY <1>1 DEF ClientCall, CallAppend, CallRead, CallClose
  <2> QED BY <2>1 DEF Call, caches
<1>2. ASSUME \/ ClientLock \/ SpuriousWakeup \/ CloseJoin \/ AppendWait
             \/ ReadWait \/ ReadHit \/ ReadMiss
      PROVE  UNCHANGED <<write_cache, next_write_offset, appended>>
  BY <1>2 DEF ClientLock, AppendLock, ReadLock, CloseSet, CloseJoin, Lock,
              SpuriousWakeup, AppendWait, ReadWait, CondWait, ReadHit,
              ReadMiss, caches
<1>3. ASSUME Abort \/ UNCHANGED vars
      PROVE  UNCHANGED <<write_cache, next_write_offset, appended>>
  BY <1>3 DEF Abort, vars, client, caches
<1>4. ASSUME ReadFlush \/ ReadLoad
      PROVE  UNCHANGED <<write_cache, next_write_offset, appended>>
  BY <1>3, <1>4 DEF ReadFlush, ReadLoad, ReadFails
<1>5. ASSUME \/ ConsumerTest \/ ConsumerLock \/ ConsumerSkip
             \/ ConsumerWrite \/ ConsumerFlush
      PROVE  UNCHANGED <<write_cache, next_write_offset, appended>>
  BY <1>3, <1>5 DEF ConsumerTest, ConsumerLock, ConsumerSkip, ConsumerWrite,
                    ConsumerFlush, client, caches
<1> QED
  BY <1>1, <1>2, <1>3, <1>4, <1>5
  DEF Next, Running, Ended, ClientStep, ConsumerStep

LEMMA CursorsInit == Init => CursorsAgree
<1>1. 0 % Cap = 0
  BY CapPositive, ModSmall
<1> QED BY <1>1 DEF Init, CursorsAgree, circular_buffer

LEMMA CursorsStep == TypeInv /\ CursorsAgree /\ [Next]_vars => CursorsAgree'
<1> SUFFICES ASSUME TypeInv, CursorsAgree, [Next]_vars PROVE CursorsAgree'
  OBVIOUS
<1>0. /\ Block \in Nat \ {0} /\ Cap \in Nat \ {0}
      /\ write_cache \in Buffers(WBlocks) /\ write_cache.head < Cap
      /\ write_cache.size \in Nat /\ write_cache.head \in Nat
      /\ write_cache.tail \in Nat
      /\ next_write_offset \in Nat /\ appended \in Nat /\ req.len \in Nat
  BY CapPositive, GeometryAssumption DEF TypeInv, TypeOK, Buffers
<1>1. CASE AppendCopy
  <2> DEFINE len == req.len
  <2>1. /\ write_cache' = RingWrite(write_cache, appended, len)
        /\ appended' = appended + len
        /\ next_write_offset' = next_write_offset
    BY <1>1 DEF AppendCopy
  <2>2. /\ write_cache'.size = write_cache.size + len
        /\ write_cache'.tail = write_cache.tail
        /\ write_cache'.head = (write_cache.head + len) % Cap
    BY <2>1 DEF RingWrite
  <2>6. Cap \in Nat \ {0} /\ appended \in Int /\ len \in Int
    BY <1>0
  <2> HIDE DEF len
  <2>5. ((appended % Cap) + len) % Cap = (appended + len) % Cap
    BY <2>6, ModAdd
  <2>3. write_cache'.head = appended' % Cap
    BY <2>1, <2>2, <2>5 DEF CursorsAgree
  <2>4. next_write_offset' + write_cache'.size = appended'
    BY SMTT(30), <1>0, <2>6, <2>1, <2>2 DEF CursorsAgree
  <2> QED BY <2>1, <2>2, <2>3, <2>4 DEF CursorsAgree
<1>2. CASE ConsumerAdvance
  <2>1. /\ write_cache'.size = write_cache.size - Block
        /\ write_cache'.tail = (write_cache.tail + Block) % Cap
        /\ write_cache'.head = write_cache.head
        /\ next_write_offset' = next_write_offset + Block
        /\ appended' = appended
    BY <1>0, <1>2 DEF ConsumerAdvance, Advanced, Buffers
  <2>6. Cap \in Nat \ {0} /\ next_write_offset \in Int /\ Block \in Int
    BY <1>0
  <2>5. ((next_write_offset % Cap) + Block) % Cap = (next_write_offset + Block) % Cap
    BY <2>6, ModAdd
  <2>2. write_cache'.tail = next_write_offset' % Cap
    BY <2>1, <2>5 DEF CursorsAgree
  <2>3. next_write_offset' + write_cache'.size = appended'
    BY <1>0, <2>1 DEF CursorsAgree
  <2> QED BY <2>1, <2>2, <2>3 DEF CursorsAgree
<1>3. CASE UNCHANGED <<write_cache, next_write_offset, appended>>
  BY <1>3 DEF CursorsAgree
<1> QED BY <1>1, <1>2, <1>3, CursorSteps

\* tail, head, size and next_write_offset describe the same log position,
\* although they are kept by two threads, also after an overrun.
THEOREM CursorsCorrect == Spec => []CursorsAgree
  BY TypeInvariant, CursorsInit, CursorsStep, PTL DEF Spec

\* The device is written only in the block at next_write_offset.
LEMMA DeviceSteps ==
  ASSUME [Next]_vars
  PROVE  \/ device' = device
         \/ /\ WithinDevice(next_write_offset, Block)
            /\ \E n \in 0 .. Block : WriteBytes(n)
<1>1. ASSUME ClientCall PROVE device' = device
  <2>1. \E where, off, len : Call(where, off, len)
    BY <1>1 DEF ClientCall, CallAppend, CallRead, CallClose
  <2> QED BY <2>1 DEF Call
<1>2. ASSUME \/ ClientLock \/ SpuriousWakeup \/ CloseJoin \/ AppendWait
             \/ ReadWait \/ ReadHit \/ ReadMiss \/ AppendCopy
      PROVE  device' = device
  BY <1>2 DEF ClientLock, AppendLock, ReadLock, CloseSet, CloseJoin, Lock,
              SpuriousWakeup, AppendWait, ReadWait, CondWait, ReadHit,
              ReadMiss, AppendCopy
<1>3. ASSUME Abort \/ UNCHANGED vars PROVE device' = device
  BY <1>3 DEF Abort, vars
<1>4. ASSUME ReadLoad PROVE device' = device
  BY <1>3, <1>4 DEF ReadLoad
<1>5. ASSUME \/ ConsumerTest \/ ConsumerLock \/ ConsumerSkip \/ ConsumerAdvance
      PROVE  device' = device
  BY <1>5 DEF ConsumerTest, ConsumerLock, ConsumerSkip, ConsumerAdvance
<1>6. ASSUME ReadFlush \/ ConsumerWrite \/ ConsumerFlush
      PROVE  \/ device' = device
             \/ /\ WithinDevice(next_write_offset, Block)
                /\ \E n \in 0 .. Block : WriteBytes(n)
  <2>1. WriteBlock \/ WritesPart => \E n \in 0 .. Block : WriteBytes(n)
    BY GeometryAssumption DEF WriteBlock, WritesPart
  <2> QED BY <1>3, <1>6, <2>1 DEF ReadFlush, ConsumerWrite, ConsumerFlush
<1> QED
  BY <1>1, <1>2, <1>3, <1>4, <1>5, <1>6
  DEF Next, Running, Ended, ClientStep, ConsumerStep

LEMMA AppendOnlyStep ==
  TypeInv /\ [Next]_vars =>
    \A o \in 0 .. next_write_offset - 1 : device'[o] = device[o]
<1> SUFFICES ASSUME TypeInv, [Next]_vars,
                    NEW o \in 0 .. next_write_offset - 1
             PROVE  device'[o] = device[o]
  OBVIOUS
<1>1. CASE /\ WithinDevice(next_write_offset, Block)
           /\ \E n \in 0 .. Block : WriteBytes(n)
  <2>1. /\ device \in [0 .. DevSize - 1 -> Int] /\ next_write_offset \in Nat
        /\ Block \in Nat \ {0} /\ DevSize \in Nat
    BY CapPositive, GeometryAssumption DEF TypeInv, TypeOK
  <2>2. o \in DOMAIN device /\ ~(next_write_offset <= o)
    BY <1>1, <2>1 DEF WithinDevice
  <2> QED BY <1>1, <2>2 DEF WriteBytes, Memcpy
<1> QED BY <1>1, DeviceSteps

\* Both threads write the device, one of them partial blocks, and none ever
\* changes a byte below next_write_offset.
THEOREM AppendOnlyCorrect == Spec => DeviceAppendOnly
<1>1. TypeInv /\ [Next]_vars =>
        [\A o \in 0 .. next_write_offset - 1 : device'[o] = device[o]]_vars
  BY AppendOnlyStep
<1> QED BY <1>1, TypeInvariant, PTL DEF Spec, DeviceAppendOnly

LEMMA HeadSteps ==
  ASSUME TypeInv, [Next]_vars
  PROVE  \/ read_cache'.head = read_cache.head
         \/ read_cache'.head = next_write_offset + write_cache.size
<1>0. read_cache \in Buffers(RBlocks) /\ DOMAIN read_cache = {"buffer", "size", "head", "tail"}
  BY DEF TypeInv, TypeOK, Buffers
<1>1. ASSUME ClientCall PROVE read_cache' = read_cache
  <2>1. \E where, off, len : Call(where, off, len)
    BY <1>1 DEF ClientCall, CallAppend, CallRead, CallClose
  <2> QED BY <2>1 DEF Call, caches
<1>2. ASSUME \/ ClientLock \/ SpuriousWakeup \/ CloseJoin \/ AppendWait
             \/ ReadWait \/ ReadHit \/ ReadMiss \/ AppendCopy
      PROVE  read_cache' = read_cache
  BY <1>2 DEF ClientLock, AppendLock, ReadLock, CloseSet, CloseJoin, Lock,
              SpuriousWakeup, AppendWait, ReadWait, CondWait, ReadHit,
              ReadMiss, AppendCopy, caches
<1>3. ASSUME Abort \/ UNCHANGED vars PROVE read_cache' = read_cache
  BY <1>3 DEF Abort, vars, caches
<1>4. ASSUME \/ ConsumerTest \/ ConsumerLock \/ ConsumerSkip
             \/ ConsumerWrite \/ ConsumerAdvance
      PROVE  read_cache' = read_cache
  BY <1>3, <1>4 DEF ConsumerTest, ConsumerLock, ConsumerSkip, ConsumerWrite,
                    ConsumerAdvance, caches
<1>5. ASSUME MoveHead
      PROVE  read_cache'.head = next_write_offset + write_cache.size
  BY <1>0, <1>5 DEF MoveHead
<1>6. ASSUME ReadFlush \/ ConsumerFlush
      PROVE  read_cache' = read_cache \/ MoveHead
  BY <1>3, <1>6 DEF ReadFlush, ConsumerFlush, caches
<1>7. ASSUME ReadLoad PROVE read_cache'.head = read_cache.head
  BY <1>0, <1>3, <1>7 DEF ReadLoad
<1> QED
  BY <1>1, <1>2, <1>3, <1>4, <1>5, <1>6, <1>7
  DEF Next, Running, Ended, ClientStep, ConsumerStep

HeadInv == read_cache.head <= next_write_offset + write_cache.size

LEMMA HeadStep ==
  TypeInv /\ CursorsAgree /\ CursorsAgree' /\ HeadInv /\ [Next]_vars =>
    HeadInv' /\ appended' >= appended
<1> SUFFICES ASSUME TypeInv, CursorsAgree, CursorsAgree', HeadInv, [Next]_vars
             PROVE  HeadInv' /\ appended' >= appended
  OBVIOUS
<1>1. appended \in Nat /\ read_cache.head \in Nat /\ req.len \in Nat
  BY DEF TypeInv, TypeOK, Buffers
<1>2. appended' \in Nat /\ appended' >= appended
  BY <1>1, CursorSteps DEF AppendCopy, ConsumerAdvance
<1> QED BY <1>1, <1>2, HeadSteps DEF HeadInv, CursorsAgree

LEMMA HeadInvariant == Spec => []HeadInv
<1>1. Init => HeadInv
  BY DEF Init, HeadInv, circular_buffer
<1> QED BY <1>1, TypeInvariant, CursorsCorrect, HeadStep, PTL DEF Spec

\* Why an assert can fail: a block past the end, or a window past the end.
LEMMA CrashSteps ==
  ASSUME [Next]_vars
  PROVE  \/ crash' = crash
         \/ ~WithinDevice(next_write_offset, Block)
         \/ pc = "read_load" /\ ~WithinDevice(off_read, read_len)
<1>1. ASSUME ClientCall PROVE crash' = crash
  <2>1. \E where, off, len : Call(where, off, len)
    BY <1>1 DEF ClientCall, CallAppend, CallRead, CallClose
  <2> QED BY <2>1 DEF Call
<1>2. ASSUME \/ ClientLock \/ SpuriousWakeup \/ CloseJoin \/ AppendWait
             \/ ReadWait \/ ReadHit \/ ReadMiss \/ AppendCopy
      PROVE  crash' = crash
  BY <1>2 DEF ClientLock, AppendLock, ReadLock, CloseSet, CloseJoin, Lock,
              SpuriousWakeup, AppendWait, ReadWait, CondWait, ReadHit,
              ReadMiss, AppendCopy
<1>3. ASSUME \/ ConsumerTest \/ ConsumerLock \/ ConsumerSkip
             \/ ConsumerAdvance \/ UNCHANGED vars
      PROVE  crash' = crash
  BY <1>3 DEF ConsumerTest, ConsumerLock, ConsumerSkip, ConsumerAdvance, vars
<1>4. ASSUME ReadFlush \/ ConsumerWrite \/ ConsumerFlush
      PROVE  crash' = crash \/ ~WithinDevice(next_write_offset, Block)
  BY <1>4 DEF ReadFlush, ReadFails, ConsumerWrite, ConsumerFlush
<1>5. ASSUME ReadLoad
      PROVE  \/ crash' = crash
             \/ pc = "read_load" /\ ~WithinDevice(off_read, read_len)
  BY <1>5 DEF ReadLoad, ReadFails
<1> QED
  BY <1>1, <1>2, <1>3, <1>4, <1>5
  DEF Next, Running, Ended, ClientStep, ConsumerStep

LEMMA AbortStep ==
  TypeInv /\ CursorsAgree /\ AbortsNearEnd /\ [Next]_vars => AbortsNearEnd'
<1> SUFFICES ASSUME TypeInv, CursorsAgree, AbortsNearEnd, [Next]_vars
             PROVE  AbortsNearEnd'
  OBVIOUS
<1> DEFINE d == DevSize
           w == 2 * Block
           later == appended'
<1>1. /\ appended \in Nat /\ next_write_offset \in Nat /\ req.len \in Nat
      /\ req.off \in Nat /\ write_cache.size \in Nat
      /\ Block \in Nat \ {0} /\ d \in Nat /\ w \in Nat /\ w >= Block
  BY CapPositive, GeometryAssumption DEF TypeInv, TypeOK, Buffers
<1>2. later \in Nat /\ later >= appended
  BY <1>1, CursorSteps DEF AppendCopy, ConsumerAdvance
<1>6. /\ AbortsNearEnd <=> (crash => appended + w > d)
      /\ AbortsNearEnd' <=> (crash' => later + w > d)
  BY DEF AbortsNearEnd
<1>7. \A off, len : WithinDevice(off, len) <=> off + len <= d
  BY DEF WithinDevice
<1> HIDE DEF d, w, later
<1>8. appended + w > d => later + w > d
  BY <1>1, <1>2
<1>3. CASE crash' = crash
  BY <1>3, <1>6, <1>8
<1>4. CASE ~WithinDevice(next_write_offset, Block)
  <2>1. next_write_offset + Block > d
    BY <1>1, <1>4, <1>7
  <2>2. next_write_offset <= appended
    BY <1>1 DEF CursorsAgree
  <2>3. later + w > d
    BY <1>1, <1>2, <2>1, <2>2
  <2> QED BY <1>6, <2>3
<1>5. CASE pc = "read_load" /\ ~WithinDevice(off_read, read_len)
  <2>1. req.off + req.len <= appended
    BY <1>5 DEF TypeInv, ReqFits
  <2>2. /\ Floor(req.off) \in Nat /\ Floor(req.off) <= req.off
        /\ Floor(req.len) \in Nat /\ Floor(req.len) <= req.len
    BY <1>1, FloorBounds
  <2>3. Floor(req.off) + (Floor(req.len) + w) > d
    BY <1>1, <1>5, <1>7, <2>2 DEF off_read, read_len, w
  <2>4. later + w > d
    BY <1>1, <1>2, <2>1, <2>2, <2>3
  <2> QED BY <1>6, <2>4
<1> QED BY <1>3, <1>4, <1>5, CrashSteps

\* The program is stopped by an assert only when fewer than two blocks are
\* left behind the end of the log.
THEOREM AbortsCorrect == Spec => []AbortsNearEnd
<1>1. Init => AbortsNearEnd
  BY DEF Init, AbortsNearEnd
<1> QED BY <1>1, TypeInvariant, CursorsCorrect, AbortStep, PTL DEF Spec

-----------------------------------------------------------------------------
(***************************************************************************)
(* From here on the bytes of Logfs: until an append overruns the ring no   *)
(* byte is lost, and every read returns what was appended.  The layers go  *)
(* on: the phases of the two threads, the ring and the device, the read    *)
(* cache, the answers.                                                     *)
(***************************************************************************)
-----------------------------------------------------------------------------
(***************************************************************************)
(* Layer 5: phases.  After done the client only waits to be joined; the    *)
(* consumer works without the mutex only after done; between the two       *)
(* transfers of a read the log does not grow.                              *)
(***************************************************************************)
PhaseInv ==
  /\ done => pc \in {"close_join", "closed"}
  /\ consumer = "flush" => done
  /\ pc = "read_load" =>
       read_cache.head = next_write_offset + write_cache.size
  /\ pc # "idle" => out = Nothing
  /\ ~done => read_cache.head <= DevSize
  /\ next_write_offset <= DevSize
  /\ consumer = "advance" => next_write_offset + Block <= DevSize

LEMMA Numbers ==
  ASSUME TypeInv
  PROVE  /\ Block \in Nat \ {0} /\ Cap \in Nat \ {0} /\ DevSize \in Nat
         /\ Block <= Cap
         /\ next_write_offset \in Nat /\ appended \in Nat
         /\ write_cache.size \in Nat /\ write_cache.head \in 0 .. Cap - 1
         /\ write_cache.tail \in 0 .. Cap - 1
         /\ write_cache.buffer \in [0 .. Cap - 1 -> Int]
         /\ read_cache.head \in Nat /\ read_cache.tail \in Nat
         /\ read_cache.size \in Nat
         /\ device \in [0 .. DevSize - 1 -> Int]
         /\ req.off \in Nat /\ req.len \in Nat
<1>1. Block \in Nat \ {0} /\ Cap \in Nat \ {0} /\ DevSize \in Nat /\ Block <= Cap
  BY CapPositive, GeometryAssumption
<1> QED BY <1>1 DEF TypeInv, TypeOK, Buffers, Cap

LEMMA HeadMoved ==
  ASSUME TypeInv, MoveHead
  PROVE  /\ read_cache'.head = next_write_offset + write_cache.size
         /\ read_cache'.tail = read_cache.tail
         /\ read_cache'.size = read_cache.size
         /\ read_cache'.buffer = read_cache.buffer
  BY DEF TypeInv, TypeOK, Buffers, MoveHead

LEMMA PhaseInit == Init => PhaseInv
<1>1. DevSize \in Nat
  BY CapPositive
<1> QED BY <1>1 DEF Init, PhaseInv, circular_buffer

LEMMA PhaseStep == TypeInv /\ MutexInv /\ PhaseInv /\ [Next]_vars => PhaseInv'
<1> SUFFICES ASSUME TypeInv, MutexInv, PhaseInv, [Next]_vars PROVE PhaseInv'
  OBVIOUS
<1> USE DEF PhaseInv
<1>0. /\ Block \in Nat \ {0} /\ DevSize \in Nat /\ next_write_offset \in Nat
      /\ write_cache.size \in Nat /\ read_cache.head \in Nat
  BY Numbers
<1>1. ASSUME ClientCall PROVE PhaseInv'
  <2>1. PICK where \in {"idle", "append_lock", "read_try", "close_lock"} :
          \E off, len : Call(where, off, len)
    BY <1>1 DEF ClientCall, CallAppend, CallRead, CallClose
  <2> QED BY <2>1 DEF Call, caches
<1>2. ASSUME ClientLock \/ SpuriousWakeup \/ CloseJoin PROVE PhaseInv'
  <2>1. CASE AppendLock
    BY <2>1 DEF AppendLock, Lock, caches
  <2>2. CASE ReadLock
    BY <2>2 DEF ReadLock, Lock, caches
  <2>3. CASE CloseSet
    BY <2>3 DEF CloseSet, caches
  <2>4. CASE SpuriousWakeup
    BY <2>4 DEF SpuriousWakeup, caches
  <2>5. CASE CloseJoin
    BY <2>5 DEF CloseJoin, caches
  <2> QED BY <1>2, <2>1, <2>2, <2>3, <2>4, <2>5 DEF ClientLock
<1>3. ASSUME AppendWait \/ ReadWait PROVE PhaseInv'
  BY <1>3 DEF AppendWait, ReadWait, CondWait, caches
<1>4. ASSUME AppendCopy \/ ReadHit \/ ReadMiss PROVE PhaseInv'
  BY <1>4 DEF AppendCopy, ReadHit, ReadMiss, caches
<1>5. ASSUME Abort \/ UNCHANGED vars PROVE PhaseInv'
  BY <1>5 DEF Abort, vars, client, caches
<1>6. ASSUME ReadFlush PROVE PhaseInv'
  <2>1. CASE Abort
    BY <1>5, <2>1
  <2>2. CASE ReadFails /\ UNCHANGED read_cache
    BY <1>6, <2>2 DEF ReadFails, ReadFlush
  <2>3. CASE WithinDevice(next_write_offset, Block) /\ MoveHead
             /\ pc' = "read_load"
             /\ UNCHANGED <<write_cache, next_write_offset, mutex, done,
                  sleeping, req, out, ret, appended, overrun, consumer, crash, failed>>
    <3>1. pc = "read" /\ write_cache.size <= Block
      BY <1>0, <1>6 DEF ReadFlush, Pending
    <3>2. next_write_offset + Block <= DevSize
      BY <2>3 DEF WithinDevice
    <3>3. read_cache'.head = next_write_offset + write_cache.size
      BY <2>3, HeadMoved
    <3>4. next_write_offset + write_cache.size <= DevSize
      BY <1>0, <3>1, <3>2
    <3> QED BY <2>3, <3>1, <3>2, <3>3, <3>4
  <2> QED BY <1>6, <2>1, <2>2, <2>3 DEF ReadFlush
<1>7. ASSUME ReadLoad PROVE PhaseInv'
  <2>1. CASE Abort
    BY <1>5, <2>1
  <2>2. CASE pc' = "idle" /\ UNCHANGED <<write_cache, next_write_offset,
                                         done, consumer>>
    <3>1. read_cache'.head = read_cache.head
      BY <1>7, <2>2 DEF ReadLoad, Abort, caches, TypeInv, TypeOK, Buffers
    <3> QED BY <2>2, <3>1, <1>7 DEF ReadLoad
  <2> QED BY <1>7, <2>1, <2>2 DEF ReadLoad, ReadFails
<1>8. ASSUME ConsumerTest \/ ConsumerLock \/ ConsumerSkip PROVE PhaseInv'
  BY <1>8 DEF ConsumerTest, ConsumerLock, ConsumerSkip, client, caches
<1>9. ASSUME ConsumerWrite PROVE PhaseInv'
  BY <1>5, <1>9 DEF ConsumerWrite, WithinDevice, client, caches
<1>10. ASSUME ConsumerAdvance PROVE PhaseInv'
  <2>1. pc # "read_load"
    BY <1>10 DEF ConsumerAdvance, MutexInv
  <2>2. next_write_offset + Block <= DevSize
    BY <1>10 DEF ConsumerAdvance
  <2> QED BY <1>10, <2>1, <2>2 DEF ConsumerAdvance
<1>11. ASSUME ConsumerFlush PROVE PhaseInv'
  <2>1. done /\ pc \notin {"read_load", "idle"}
    BY <1>11 DEF ConsumerFlush
  <2> QED BY <1>5, <1>11, <2>1 DEF ConsumerFlush, client, caches
<1> QED
  BY <1>1, <1>2, <1>3, <1>4, <1>5, <1>6, <1>7, <1>8, <1>9, <1>10, <1>11
  DEF Next, Running, Ended, ClientStep, ConsumerStep

LEMMA PhaseInvariant == Spec => []PhaseInv
  BY TypeInvariant, MutexInvariant, PhaseInit, PhaseStep, PTL DEF Spec

-----------------------------------------------------------------------------
(***************************************************************************)
(* Layer 6: the ring holds what the device does not hold yet.              *)
(***************************************************************************)
Frontier == IF consumer = "advance" THEN next_write_offset + Block
                                    ELSE next_write_offset
RingInv ==
  ~overrun =>
    /\ write_cache.size <= Cap
    /\ \A o \in next_write_offset .. appended - 1 :
         write_cache.buffer[o % Cap] = o
    /\ \A o \in 0 .. Frontier - 1 : device[o] = o

\* Where the ring keeps a pending byte, and where an append puts a new one.
LEMMA RingKeeps ==
  ASSUME TypeInv, CursorsAgree, RingInv, ~overrun,
         NEW len \in Nat, write_cache.size + len <= Cap,
         NEW o \in next_write_offset .. appended + len - 1
  PROVE  RingWrite(write_cache, appended, len).buffer[o % Cap] = o
<1> DEFINE h == write_cache.head
           i == o % Cap
           k == IF o >= appended THEN o - appended ELSE o - appended + Cap
<1>0. /\ Cap \in Nat \ {0} /\ appended \in Nat /\ next_write_offset \in Nat
      /\ write_cache.size \in Nat
      /\ next_write_offset + write_cache.size = appended
      /\ h = appended % Cap
  BY Numbers DEF CursorsAgree
<1>1. /\ Cap \in Nat \ {0} /\ appended \in Nat /\ next_write_offset \in Nat
      /\ write_cache.size \in Nat
      /\ next_write_offset + write_cache.size = appended
      /\ h = appended % Cap
      /\ o \in Nat /\ next_write_offset <= o /\ o < appended + len
  BY <1>0
<1>2. k \in 0 .. Cap - 1 /\ (o = appended + k \/ o = appended + k - Cap)
  BY <1>1
<1>3. o >= appended => k < len /\ appended + k = o
  BY <1>1
<1>4. o < appended => ~(k < len)
  BY <1>1
<1>5. i \in 0 .. Cap - 1
  <2>1. o \in Int /\ Cap \in Nat \ {0}
    BY <1>1
  <2> QED BY <2>1, ModDef
<1> HIDE DEF k
<1>6. (IF (o % Cap) >= (appended % Cap) THEN (o % Cap) - (appended % Cap)
                                        ELSE (o % Cap) - (appended % Cap) + Cap) = k
  BY <1>1, <1>2, RingAhead
<1>7. (IF i >= h THEN i - h ELSE i - h + Cap) = k
  BY <1>1, <1>6
<1> HIDE DEF i
<1>8. RingWrite(write_cache, appended, len).buffer[i]
        = IF k < len THEN appended + k ELSE write_cache.buffer[i]
  BY <1>5, <1>7 DEF RingWrite
<1>9. CASE o >= appended
  BY <1>3, <1>8, <1>9 DEF i
<1>10. CASE o < appended
  <2>1. o \in next_write_offset .. appended - 1
    BY <1>1, <1>10
  <2>2. write_cache.buffer[i] = o
    BY <2>1 DEF RingInv, i
  <2> QED BY <1>4, <1>8, <1>10, <2>2 DEF i
<1> QED BY <1>1, <1>9, <1>10

\* A block written at the frontier adds real bytes behind real bytes.
LEMMA BytesHold ==
  ASSUME TypeInv, CursorsAgree, RingInv, ~overrun,
         NEW n \in 0 .. Block, WriteBytes(n),
         WithinDevice(next_write_offset, Block),
         NEW o \in 0 .. next_write_offset + n - 1, o < appended
  PROVE  device'[o] = o
<1>1. /\ Cap \in Nat \ {0} /\ Block \in Nat \ {0} /\ DevSize \in Nat
      /\ appended \in Nat /\ next_write_offset \in Nat
      /\ write_cache.tail \in Nat
      /\ write_cache.tail = next_write_offset % Cap
      /\ device \in [0 .. DevSize - 1 -> Int]
      /\ next_write_offset + Block <= DevSize
      /\ o \in Nat /\ o < next_write_offset + n /\ n \in Nat /\ n <= Block
  <2>1. /\ Cap \in Nat \ {0} /\ Block \in Nat \ {0} /\ DevSize \in Nat
        /\ appended \in Nat /\ next_write_offset \in Nat
        /\ write_cache.tail \in Nat
        /\ device \in [0 .. DevSize - 1 -> Int]
    BY Numbers
  <2>2. o \in Nat /\ o < next_write_offset + n /\ n \in Nat /\ n <= Block
    BY <2>1
  <2> QED BY <2>1, <2>2 DEF CursorsAgree, WithinDevice
<1>2. o \in DOMAIN device
  BY <1>1
<1>3. device'[o] = IF next_write_offset <= o
                     THEN write_cache.buffer[write_cache.tail + (o - next_write_offset)]
                     ELSE device[o]
  BY <1>1, <1>2 DEF WriteBytes, Memcpy
<1>4. CASE o < next_write_offset
  <2>1. o \in 0 .. Frontier - 1
    BY <1>1, <1>4 DEF Frontier
  <2> QED BY <1>1, <1>3, <1>4, <2>1 DEF RingInv
<1>5. CASE next_write_offset <= o
  <2> DEFINE k == o - next_write_offset
  <2>1. k \in Nat /\ k < Block /\ next_write_offset + k = o
    BY <1>1, <1>5
  <2>2. PICK b \in 0 .. WBlocks - 1 : write_cache.tail = b * Block
    BY DEF TypeInv, TailAligned
  <2>3. write_cache.tail + Block <= Cap
    BY <2>2, AlignedFits
  <2> HIDE DEF k
  <2>4. (next_write_offset % Cap) + k < Cap
    BY <1>1, <2>1, <2>3
  <2>5. (next_write_offset + k) % Cap = (next_write_offset % Cap) + k
    BY <1>1, <2>1, <2>4, RingRun
  <2>6. o % Cap = write_cache.tail + k
    BY <1>1, <2>1, <2>5
  <2>7. write_cache.buffer[o % Cap] = o
    <3>1. o \in next_write_offset .. appended - 1
      BY <1>1, <1>5
    <3> QED BY <3>1 DEF RingInv
  <2> QED BY <1>3, <1>5, <2>6, <2>7 DEF k
<1> QED BY <1>1, <1>4, <1>5

LEMMA BlockHolds ==
  ASSUME TypeInv, CursorsAgree, RingInv, ~overrun,
         WriteBlock, WithinDevice(next_write_offset, Block),
         NEW o \in 0 .. next_write_offset + Block - 1, o < appended
  PROVE  device'[o] = o
<1>1. Block \in 0 .. Block
  BY GeometryAssumption
<1> QED BY <1>1, BytesHold DEF WriteBlock

LEMMA RingInit == Init => RingInv
<1>1. Cap \in Nat
  BY CapPositive
<1> QED BY <1>1 DEF Init, RingInv, Frontier, circular_buffer

(***************************************************************************)
(* The steps as they look to the bytes.                                    *)
(***************************************************************************)
LogUnchanged == UNCHANGED <<write_cache, next_write_offset, appended, overrun>>
BlockWritten ==
  /\ WriteBlock /\ WithinDevice(next_write_offset, Block)
  /\ consumer = "held" /\ consumer' = "advance"
  /\ write_cache.size >= Block
  /\ LogUnchanged /\ UNCHANGED <<read_cache, done, pc>>
Flushed ==
  /\ WriteBlock /\ WithinDevice(next_write_offset, Block)
  /\ MoveHead
  /\ consumer # "advance" /\ consumer' # "advance"
  /\ (pc' = "read_load" /\ write_cache.size <= Block) \/ done'
  /\ LogUnchanged
PartWritten ==
  /\ WithinDevice(next_write_offset, Block)
  /\ \E n \in 0 .. Block : WriteBytes(n)
  /\ consumer # "advance" /\ Frontier' = Frontier
  /\ done => done'
  /\ pc = "read_load" => pc' = "read_load"
  /\ LogUnchanged /\ UNCHANGED read_cache
WindowMoved ==
  /\ pc = "read_load" /\ pc' = "idle"
  /\ device' = device /\ Frontier' = Frontier /\ done' = done
  /\ LogUnchanged
Quiet ==
  /\ LogUnchanged
  /\ UNCHANGED <<device, read_cache>>
  /\ Frontier' = Frontier
  /\ done => done'
  /\ pc = "read_load" => pc' = "read_load"

LEMMA StepKinds ==
  ASSUME TypeInv, MutexInv, PhaseInv, [Next]_vars
  PROVE  \/ AppendCopy \/ ConsumerAdvance \/ BlockWritten \/ Flushed
         \/ (WindowMoved /\ ReadLoad) \/ PartWritten \/ Quiet
<1> USE DEF LogUnchanged, Frontier
<1>1. ASSUME ClientCall PROVE Quiet
  <2>1. \E where, off, len : Call(where, off, len)
    BY <1>1 DEF ClientCall, CallAppend, CallRead, CallClose
  <2> QED BY <2>1 DEF Call, caches, Quiet
<1>2. ASSUME ClientLock \/ SpuriousWakeup \/ CloseJoin PROVE Quiet
  BY <1>2 DEF ClientLock, AppendLock, ReadLock, CloseSet, CloseJoin, Lock,
              SpuriousWakeup, caches, Quiet
<1>3. ASSUME AppendWait \/ ReadWait \/ ReadHit \/ ReadMiss PROVE Quiet
  BY <1>3 DEF AppendWait, ReadWait, CondWait, ReadHit, ReadMiss, caches, Quiet
<1>4. ASSUME Abort \/ UNCHANGED vars PROVE Quiet
  BY <1>4 DEF Abort, vars, client, caches, Quiet
<1>10. WritesPart => \E n \in 0 .. Block : WriteBytes(n)
  BY GeometryAssumption DEF WritesPart
<1>5. ASSUME ReadFlush PROVE Flushed \/ PartWritten \/ Quiet
  <2>1. CASE Abort
    BY <1>4, <2>1
  <2>2. CASE ReadFails /\ UNCHANGED read_cache /\ WritesPart
             /\ WithinDevice(next_write_offset, Block)
    <3>1. pc = "read" /\ pc' = "idle" /\ consumer # "advance"
      BY <1>5, <2>2 DEF ReadFlush, ReadFails, MutexInv
    <3> QED BY <1>10, <2>2, <3>1 DEF ReadFails, PartWritten
  <2>3. CASE WithinDevice(next_write_offset, Block) /\ WriteBlock /\ MoveHead
             /\ pc' = "read_load"
             /\ UNCHANGED <<write_cache, next_write_offset, mutex, done,
                  sleeping, req, out, ret, appended, overrun, consumer, crash, failed>>
    <3>1. pc = "read" /\ write_cache.size <= Block
      BY SMTT(30), <1>5, Numbers DEF ReadFlush, Pending
    <3>2. consumer # "advance"
      BY <3>1 DEF MutexInv
    <3> QED BY <2>3, <3>1, <3>2 DEF Flushed
  <2> QED BY <1>5, <2>1, <2>2, <2>3 DEF ReadFlush
<1>6. ASSUME ReadLoad PROVE WindowMoved \/ Quiet
  <2>1. CASE Abort
    BY <1>4, <2>1
  <2>2. CASE ~Abort
    BY <1>6, <2>2 DEF ReadLoad, ReadFails, WindowMoved
  <2> QED BY <2>1, <2>2
<1>7. ASSUME ConsumerTest \/ ConsumerLock \/ ConsumerSkip PROVE Quiet
  BY <1>7 DEF ConsumerTest, ConsumerLock, ConsumerSkip, client, caches, Quiet
<1>8. ASSUME ConsumerWrite PROVE BlockWritten \/ PartWritten \/ Quiet
  BY <1>4, <1>8, <1>10
     DEF ConsumerWrite, client, caches, BlockWritten, PartWritten
<1>9. ASSUME ConsumerFlush PROVE Flushed \/ PartWritten \/ Quiet
  <2>1. done
    BY <1>9 DEF ConsumerFlush, PhaseInv
  <2> QED BY <1>4, <1>9, <1>10, <2>1
          DEF ConsumerFlush, client, caches, Flushed, PartWritten
<1> QED
  BY <1>1, <1>2, <1>3, <1>4, <1>5, <1>6, <1>7, <1>8, <1>9
  DEF Next, Running, Ended, ClientStep, ConsumerStep

LEMMA RingStep ==
  TypeInv /\ MutexInv /\ PhaseInv /\ CursorsAgree /\ RingInv /\ [Next]_vars =>
    RingInv'
<1> SUFFICES ASSUME TypeInv, MutexInv, PhaseInv, CursorsAgree, RingInv,
                    [Next]_vars, ~overrun'
             PROVE  /\ write_cache'.size <= Cap
                    /\ \A o \in next_write_offset' .. appended' - 1 :
                         write_cache'.buffer[o % Cap] = o
                    /\ \A o \in 0 .. Frontier' - 1 : device'[o] = o
  BY DEF RingInv
<1>0. /\ Block \in Nat \ {0} /\ Cap \in Nat \ {0} /\ appended \in Nat
      /\ next_write_offset \in Nat /\ write_cache.size \in Nat
      /\ req.len \in Nat
      /\ next_write_offset + write_cache.size = appended
  BY Numbers DEF CursorsAgree
<1>1. CASE AppendCopy
  <2>1. /\ ~overrun /\ write_cache.size + req.len <= Cap
        /\ write_cache' = RingWrite(write_cache, appended, req.len)
        /\ appended' = appended + req.len
        /\ UNCHANGED <<next_write_offset, device, consumer>>
    <3>1. /\ ~overrun /\ ~(write_cache.size + req.len > Cap)
          /\ write_cache' = RingWrite(write_cache, appended, req.len)
          /\ appended' = appended + req.len
          /\ UNCHANGED <<next_write_offset, device, consumer>>
      BY <1>1 DEF AppendCopy
    <3>2. write_cache.size + req.len <= Cap
      BY <1>0, <3>1
    <3> QED BY <3>1, <3>2
  <2>2. write_cache'.size = write_cache.size + req.len
    BY <2>1 DEF RingWrite
  <2>3. ASSUME NEW o \in next_write_offset .. appended + req.len - 1
        PROVE  write_cache'.buffer[o % Cap] = o
    BY <1>0, <2>1, <2>3, RingKeeps
  <2>4. Frontier' = Frontier
    BY <2>1 DEF Frontier
  <2>5. \A o \in next_write_offset' .. appended' - 1 :
          write_cache'.buffer[o % Cap] = o
    <3> DEFINE from == next_write_offset'
               to == appended'
    <3>1. from = next_write_offset /\ to = appended + req.len
      BY <2>1
    <3> HIDE DEF from, to
    <3>2. \A o \in from .. to - 1 : write_cache'.buffer[o % Cap] = o
      BY <1>0, <2>3, <3>1
    <3> QED BY <3>2 DEF from, to
  <2> QED BY <2>1, <2>2, <2>4, <2>5 DEF RingInv
<1>2. CASE ConsumerAdvance
  <2>1. /\ ~overrun
        /\ write_cache'.size = write_cache.size - Block
        /\ write_cache'.buffer = write_cache.buffer
        /\ next_write_offset' = next_write_offset + Block
        /\ appended' = appended /\ device' = device
        /\ consumer = "advance" /\ consumer' = "test"
    BY <1>2 DEF ConsumerAdvance, Advanced, TypeInv, TypeOK, Buffers
  <2>2. Frontier' = Frontier
    BY <2>1 DEF Frontier
  <2>3. write_cache'.size <= Cap
    BY <1>0, <2>1 DEF RingInv
  <2>4. \A o \in next_write_offset' .. appended' - 1 :
          o \in next_write_offset .. appended - 1
    BY <1>0, <2>1
  <2> QED BY <2>1, <2>2, <2>3, <2>4 DEF RingInv
<1>3. CASE BlockWritten
  <2>1. Frontier' = next_write_offset + Block /\ ~overrun
    BY <1>3 DEF BlockWritten, LogUnchanged, Frontier
  <2>2. ASSUME NEW o \in 0 .. next_write_offset + Block - 1
        PROVE  device'[o] = o
    <3>1. write_cache.size >= Block /\ WriteBlock
          /\ WithinDevice(next_write_offset, Block)
      BY <1>3 DEF BlockWritten
    <3>2. o < appended
      BY <1>0, <3>1
    <3> QED BY <2>1, <3>1, <3>2, BlockHolds
  <2>3. \A o \in 0 .. Frontier' - 1 : device'[o] = o
    <3> DEFINE f == Frontier'
    <3>1. f = next_write_offset + Block
      BY <2>1
    <3> HIDE DEF f
    <3>2. \A o \in 0 .. f - 1 : device'[o] = o
      BY <1>0, <2>2, <3>1
    <3> QED BY <3>2 DEF f
  <2>4. /\ write_cache' = write_cache /\ appended' = appended
        /\ next_write_offset' = next_write_offset
    BY <1>3 DEF BlockWritten, LogUnchanged
  <2> QED BY <2>1, <2>3, <2>4 DEF RingInv
<1>4. CASE Flushed
  <2>1. Frontier' = next_write_offset /\ Frontier = next_write_offset /\ ~overrun
    BY <1>4 DEF Flushed, LogUnchanged, Frontier
  <2>2. ASSUME NEW o \in 0 .. next_write_offset - 1
        PROVE  device'[o] = o
    <3>1. device'[o] = device[o]
      BY AppendOnlyStep
    <3> QED BY <2>1, <3>1 DEF RingInv
  <2> QED BY <1>4, <2>1, <2>2 DEF Flushed, LogUnchanged, RingInv
<1>5. CASE WindowMoved
  BY <1>5 DEF WindowMoved, LogUnchanged, RingInv
<1>6. CASE Quiet
  BY <1>6 DEF Quiet, LogUnchanged, RingInv
<1>7. CASE PartWritten
  <2>1. Frontier' = next_write_offset /\ Frontier = next_write_offset /\ ~overrun
    BY <1>7 DEF PartWritten, LogUnchanged, Frontier
  <2>2. ASSUME NEW o \in 0 .. next_write_offset - 1
        PROVE  device'[o] = o
    <3>1. device'[o] = device[o]
      BY AppendOnlyStep
    <3> QED BY <2>1, <3>1 DEF RingInv
  <2> QED BY <1>7, <2>1, <2>2 DEF PartWritten, LogUnchanged, RingInv
<1> QED BY <1>1, <1>2, <1>3, <1>4, <1>5, <1>6, <1>7, StepKinds

LEMMA RingInvariant == Spec => []RingInv
  BY TypeInvariant, MutexInvariant, PhaseInvariant, CursorsCorrect, RingInit,
     RingStep, PTL DEF Spec

\* Until an append overruns the ring every byte is on the device or in its slot.
THEOREM NoByteLostCorrect == Spec => []NoByteLost
<1>1. TypeInv /\ RingInv => NoByteLost
  <2> SUFFICES ASSUME TypeInv, RingInv, ~overrun, NEW o \in 0 .. appended - 1
               PROVE  IF o < next_write_offset
                        THEN device[o] = o
                        ELSE write_cache.buffer[o % Cap] = o
    BY DEF NoByteLost
  <2>1. next_write_offset \in Nat /\ appended \in Nat /\ Block \in Nat
    BY Numbers
  <2>2. CASE o < next_write_offset
    <3>1. o \in 0 .. Frontier - 1
      BY <2>1, <2>2 DEF Frontier
    <3> QED BY <2>2, <3>1 DEF RingInv
  <2>3. CASE ~(o < next_write_offset)
    <3>1. o \in next_write_offset .. appended - 1
      BY <2>1, <2>3
    <3> QED BY <2>3, <3>1 DEF RingInv
  <2> QED BY <2>2, <2>3
<1> QED BY <1>1, TypeInvariant, RingInvariant, PTL

-----------------------------------------------------------------------------
(***************************************************************************)
(* Layer 7: what read_cache->head promises is on the device.               *)
(***************************************************************************)
LEMMA FlushedStep ==
  TypeInv /\ MutexInv /\ PhaseInv /\ CursorsAgree /\ RingInv /\ HeadInv
    /\ FlushedStays /\ [Next]_vars => FlushedStays'
<1> SUFFICES ASSUME TypeInv, MutexInv, PhaseInv, CursorsAgree, RingInv, HeadInv,
                    FlushedStays, [Next]_vars, ~overrun', ~done',
                    NEW o \in 0 .. read_cache'.head - 1
             PROVE  device'[o] = o
  BY DEF FlushedStays
<1>0. /\ Block \in Nat \ {0} /\ appended \in Nat /\ DevSize \in Nat
      /\ next_write_offset \in Nat /\ write_cache.size \in Nat
      /\ read_cache.head \in Nat
      /\ device \in [0 .. DevSize - 1 -> Int]
      /\ next_write_offset + write_cache.size = appended
      /\ read_cache.head <= appended
  BY Numbers DEF CursorsAgree, HeadInv
<1>1. CASE device' = device /\ read_cache'.head = read_cache.head /\ ~overrun /\ ~done
  BY <1>1 DEF FlushedStays
<1>2. CASE AppendCopy \/ ConsumerAdvance
  BY <1>1, <1>2 DEF AppendCopy, ConsumerAdvance
<1>3. CASE BlockWritten
  <2>1. /\ WriteBlock /\ WithinDevice(next_write_offset, Block)
        /\ ~overrun /\ ~done /\ read_cache' = read_cache
        /\ write_cache.size >= Block
    BY <1>3 DEF BlockWritten, LogUnchanged
  <2>2. o \in 0 .. read_cache.head - 1
    BY <2>1
  <2>3. o \in Nat /\ o < DevSize /\ o < appended
    BY <1>0, <2>1, <2>2 DEF PhaseInv
  <2>4. CASE o < next_write_offset + Block
    <3>1. o \in 0 .. next_write_offset + Block - 1
      BY <1>0, <2>3, <2>4
    <3> QED BY <2>1, <2>3, <3>1, BlockHolds
  <2>5. CASE ~(o < next_write_offset + Block)
    <3>1. device'[o] = device[o]
      BY <1>0, <2>1, <2>3, <2>5 DEF WriteBlock, WriteBytes, Memcpy
    <3> QED BY <2>1, <2>2, <3>1 DEF FlushedStays
  <2> QED BY <2>4, <2>5
<1>4. CASE Flushed
  <2>1. /\ WriteBlock /\ WithinDevice(next_write_offset, Block)
        /\ MoveHead /\ write_cache.size <= Block /\ ~overrun
    BY <1>4 DEF Flushed, LogUnchanged
  <2>2. read_cache'.head = next_write_offset + write_cache.size
    BY <2>1, HeadMoved
  <2> DEFINE h == read_cache'.head
  <2>3. h = appended
    BY <1>0, <2>2
  <2> HIDE DEF h
  <2>4. o \in 0 .. h - 1
    BY DEF h
  <2>5. o \in 0 .. next_write_offset + Block - 1 /\ o < appended
    BY <1>0, <2>1, <2>3, <2>4
  <2> QED BY <2>1, <2>5, BlockHolds
<1>5. CASE WindowMoved /\ ReadLoad
  <2>1. read_cache'.head = read_cache.head
    BY <1>5, HeadSteps DEF WindowMoved, PhaseInv
  <2> QED BY <1>1, <1>5, <2>1 DEF WindowMoved, LogUnchanged
<1>6. CASE Quiet
  BY <1>1, <1>6 DEF Quiet, LogUnchanged
<1>7. CASE PartWritten
  <2>1. /\ WithinDevice(next_write_offset, Block)
        /\ ~overrun /\ ~done /\ read_cache' = read_cache
    BY <1>7 DEF PartWritten, LogUnchanged
  <2>2. o \in 0 .. read_cache.head - 1
    BY <2>1
  <2>3. o \in Nat /\ o < DevSize /\ o < appended
    BY <1>0, <2>1, <2>2 DEF PhaseInv
  <2>4. PICK n \in 0 .. Block : WriteBytes(n)
    BY <1>7 DEF PartWritten
  <2>5. CASE o < next_write_offset + n
    <3>1. o \in 0 .. next_write_offset + n - 1
      BY <1>0, <2>3, <2>4, <2>5
    <3> QED BY <2>1, <2>3, <2>4, <3>1, BytesHold
  <2>6. CASE ~(o < next_write_offset + n)
    <3>1. device'[o] = device[o]
      BY <1>0, <2>1, <2>3, <2>4, <2>6 DEF WriteBytes, Memcpy
    <3> QED BY <2>1, <2>2, <3>1 DEF FlushedStays
  <2> QED BY <2>5, <2>6
<1> QED BY <1>2, <1>3, <1>4, <1>5, <1>6, <1>7, StepKinds

\* No later write, whole block or partial, takes back what a flush has put on
\* the device and read_cache->head has announced.
THEOREM FlushedCorrect == Spec => []FlushedStays
<1>1. Init => FlushedStays
  BY DEF Init, FlushedStays, circular_buffer
<1> QED BY <1>1, TypeInvariant, MutexInvariant, PhaseInvariant, CursorsCorrect,
           RingInvariant, HeadInvariant, FlushedStep, PTL DEF Spec

-----------------------------------------------------------------------------
(***************************************************************************)
(* Layer 8: the read cache and the answers.                                *)
(***************************************************************************)
LEMMA ReadFits ==
  ASSUME NEW len \in ReadLens
  PROVE  /\ Floor(len) + 2 * Block \in Nat
         /\ len + Block < Floor(len) + 2 * Block + 1
         /\ Floor(len) + 2 * Block <= RBlocks * Block
<1> DEFINE q == len \div Block
<1>1. len \in Nat /\ len < Block * (RBlocks - 1)
  BY LengthAssumption, GeometryAssumption
<1>2. /\ Floor(len) \in Nat /\ Floor(len) <= len /\ len < Floor(len) + Block
  BY <1>1, FloorBounds
<1>3. q \in Nat /\ Floor(len) = q * Block
  BY <1>1, GeometryAssumption DEF Floor
<1> HIDE DEF q
<1>4. q <= RBlocks - 2
  <2>1. SUFFICES ASSUME q >= RBlocks - 1 PROVE FALSE
    BY <1>3, GeometryAssumption
  <2>2. Block * q >= Block * (RBlocks - 1)
    BY <1>3, <2>1, GeometryAssumption
  <2> QED BY <1>1, <1>2, <1>3, <2>2, GeometryAssumption
<1>5. (q + 2) * Block <= RBlocks * Block
  BY <1>3, <1>4, GeometryAssumption
<1>6. q * Block + 2 * Block = (q + 2) * Block
  BY <1>3, GeometryAssumption
<1> QED BY <1>1, <1>2, <1>3, <1>5, <1>6, GeometryAssumption

\* A window loaded while the device holds all that head announces.
LEMMA LoadedHolds ==
  ASSUME TypeInv, FlushedStays, ~overrun, ~done, pc = "read_load",
         NEW j \in Nat, j < read_len, off_read + j < read_cache.head
  PROVE  off_read \in Nat /\ Loaded(read_len)[j] = off_read + j
<1>1. /\ read_cache.head \in Nat /\ req.off \in Nat /\ req.len \in ReadLens
      /\ req.len \in Nat /\ RBlocks * Block \in Nat
      /\ read_cache.buffer \in [0 .. RBlocks * Block - 1 -> Int]
  BY Numbers, GeometryAssumption DEF TypeInv, TypeOK, ReqFits, Buffers
<1>2. off_read \in Nat
  BY <1>1, FloorBounds DEF off_read
<1>3. read_len \in Nat /\ read_len <= RBlocks * Block
  BY <1>1, ReadFits DEF read_len
<1> DEFINE o == off_read + j
           n == RBlocks * Block
<1>4. o \in 0 .. read_cache.head - 1
  BY <1>1, <1>2
<1>5. device[o] = o
  BY <1>4 DEF FlushedStays
<1>6. j \in 0 .. n - 1
  <2> HIDE DEF n
  <2>1. n \in Nat /\ read_len <= n
    BY <1>1, <1>3 DEF n
  <2> QED BY <1>3, <2>1
<1>7. j \in DOMAIN read_cache.buffer
  BY <1>1, <1>6
<1>8. Loaded(read_len)[j] = device[off_read + (j - 0)]
  BY <1>3, <1>7 DEF Loaded, Memcpy
<1>9. off_read + (j - 0) = o
  BY <1>2
<1> QED BY <1>2, <1>5, <1>8, <1>9

LoadSucceeds ==
  /\ pc = "read_load"
  /\ read_cache' = [read_cache EXCEPT !.buffer = Loaded(read_len),
                                      !.tail = off_read,
                                      !.size = read_len]
  /\ CopyOut(read_cache'.buffer, req.off - off_read)
  /\ pc' = "idle" /\ ret' = "ok" /\ UNCHANGED <<req, overrun, appended>>

LEMMA LoadKinds ==
  ASSUME TypeInv, ReadLoad, "read" \notin failed'
  PROVE  LoadSucceeds \/ Abort
  BY DEF ReadLoad, LoadSucceeds, Fails

LEMMA LoadedCache ==
  ASSUME TypeInv, LoadSucceeds
  PROVE  /\ read_cache'.buffer = Loaded(read_len)
         /\ read_cache'.tail = off_read
         /\ read_cache'.size = read_len
         /\ read_cache'.head = read_cache.head
  BY DEF LoadSucceeds, TypeInv, TypeOK, Buffers

LEMMA CoherentStep ==
  TypeInv /\ MutexInv /\ PhaseInv /\ FlushedStays /\ CacheCoherent
    /\ [Next]_vars => CacheCoherent'
<1> SUFFICES ASSUME TypeInv, MutexInv, PhaseInv, FlushedStays, CacheCoherent,
                    [Next]_vars, ~overrun', pc' # "read_load", ~done',
                    "read" \notin failed', "read" \notin failed,
                    NEW o \in read_cache'.tail .. WindowEnd' - 1
             PROVE  read_cache'.buffer[o - read_cache'.tail] = o
  BY FailedGrows DEF CacheCoherent
<1>0. /\ read_cache.head \in Nat /\ req.off \in Nat /\ req.len \in Nat
      /\ Block \in Nat \ {0}
  BY Numbers
<1>1. CASE /\ read_cache' = read_cache /\ ~overrun /\ ~done
           /\ pc # "read_load"
  <2>1. WindowEnd' = WindowEnd
    BY <1>1 DEF WindowEnd
  <2> QED BY <1>1, <2>1 DEF CacheCoherent
<1>2. CASE AppendCopy
  BY <1>1, <1>2 DEF AppendCopy
<1>3. CASE ConsumerAdvance
  BY <1>1, <1>3 DEF ConsumerAdvance
<1>4. CASE BlockWritten
  BY <1>1, <1>4 DEF BlockWritten, LogUnchanged
<1>5. CASE Flushed
  BY <1>5 DEF Flushed
<1>6. CASE WindowMoved /\ ReadLoad
  <2>0. ~overrun /\ ~done /\ pc = "read_load"
    BY <1>6 DEF WindowMoved, LogUnchanged
  <2>1. CASE LoadSucceeds
    <3>1. off_read \in Nat /\ read_len \in Nat
      BY <1>0, FloorBounds DEF off_read, read_len
    <3> DEFINE e == WindowEnd'
               t == read_cache'.tail
    <3>2. t = off_read /\ e \in Int /\ e <= read_cache.head
          /\ e <= off_read + read_len
      BY <1>0, <2>1, <3>1, LoadedCache DEF WindowEnd
    <3> HIDE DEF e, t
    <3>3. o \in t .. e - 1
      BY DEF e, t
    <3> DEFINE j == o - off_read
    <3>4. /\ j \in Nat /\ j < read_len /\ off_read + j < read_cache.head
          /\ off_read + j = o
      BY <1>0, <3>1, <3>2, <3>3
    <3> HIDE DEF j
    <3>5. Loaded(read_len)[j] = off_read + j
      BY <2>0, <3>4, LoadedHolds
    <3>6. read_cache'.buffer = Loaded(read_len)
      BY <2>1, LoadedCache
    <3> QED BY <3>2, <3>4, <3>5, <3>6 DEF j, t
  <2>2. CASE Abort
    BY <1>6, <2>2 DEF Abort, WindowMoved, client
  <2> QED BY <1>6, <2>1, <2>2, LoadKinds
<1>7. CASE Quiet
  BY <1>1, <1>7 DEF Quiet, LogUnchanged
<1>8. CASE PartWritten
  BY <1>1, <1>8 DEF PartWritten, LogUnchanged
<1> QED BY <1>2, <1>3, <1>4, <1>5, <1>6, <1>7, <1>8, StepKinds

\* What the path without the mutex may serve is what was appended.
THEOREM CoherentCorrect == Spec => []CacheCoherent
<1>1. Init => CacheCoherent
  BY DEF Init, CacheCoherent, WindowEnd, circular_buffer
<1> QED BY <1>1, TypeInvariant, MutexInvariant, PhaseInvariant, FlushedCorrect,
           CoherentStep, PTL DEF Spec

\* The steps as they look to the caller.
LEMMA AnswerKinds ==
  ASSUME TypeInv, PhaseInv, [Next]_vars
  PROVE  \/ ReadHit /\ UNCHANGED <<overrun, req>>
         \/ ReadLoad
         \/ out' = Nothing
         \/ UNCHANGED <<out, ret, req, overrun>>
<1>1. ASSUME ClientCall PROVE out' = Nothing
  <2>1. \E where, off, len : Call(where, off, len)
    BY <1>1 DEF ClientCall, CallAppend, CallRead, CallClose
  <2> QED BY <2>1 DEF Call
<1>2. ASSUME \/ ClientLock \/ SpuriousWakeup \/ CloseJoin \/ AppendWait
             \/ ReadWait \/ ReadMiss
      PROVE  UNCHANGED <<out, ret, req, overrun>>
  BY <1>2 DEF ClientLock, AppendLock, ReadLock, CloseSet, CloseJoin, Lock,
              SpuriousWakeup, AppendWait, ReadWait, CondWait, ReadMiss
<1>3. ASSUME Abort \/ UNCHANGED vars PROVE UNCHANGED <<out, ret, req, overrun>>
  BY <1>3 DEF Abort, vars, client
<1>4. ASSUME AppendCopy \/ (ReadFlush /\ ReadFails) PROVE out' = Nothing
  BY <1>4 DEF AppendCopy, ReadFlush, ReadFails, PhaseInv
<1>5. ASSUME ReadFlush /\ ~ReadFails PROVE UNCHANGED <<out, ret, req, overrun>>
  BY <1>3, <1>5 DEF ReadFlush
<1>6. ASSUME \/ ConsumerTest \/ ConsumerLock \/ ConsumerSkip
             \/ ConsumerWrite \/ ConsumerAdvance \/ ConsumerFlush
      PROVE  UNCHANGED <<out, ret, req, overrun>>
  BY <1>3, <1>6 DEF ConsumerTest, ConsumerLock, ConsumerSkip, ConsumerWrite,
                    ConsumerAdvance, ConsumerFlush, client
<1>7. ASSUME ReadHit PROVE UNCHANGED <<overrun, req>>
  BY <1>7 DEF ReadHit
<1>8. ASSUME ReadFlush
      PROVE  out' = Nothing \/ UNCHANGED <<out, ret, req, overrun>>
  BY <1>4, <1>5, <1>8
<1>9. ASSUME Next
      PROVE  \/ ClientCall \/ ClientLock \/ SpuriousWakeup \/ CloseJoin
             \/ AppendWait \/ ReadWait \/ ReadMiss \/ UNCHANGED vars
             \/ AppendCopy \/ ReadFlush \/ ReadHit \/ ReadLoad
             \/ ConsumerTest \/ ConsumerLock \/ ConsumerSkip
             \/ ConsumerWrite \/ ConsumerAdvance \/ ConsumerFlush
  BY <1>9 DEF Next, Running, Ended, ClientStep, ConsumerStep
<1> QED BY <1>1, <1>2, <1>3, <1>4, <1>6, <1>7, <1>8, <1>9

LEMMA AnswerStep ==
  TypeInv /\ PhaseInv /\ CursorsAgree /\ FlushedStays /\ CacheCoherent
    /\ ReadsExact /\ [Next]_vars => ReadsExact'
<1> SUFFICES ASSUME TypeInv, PhaseInv, CursorsAgree, FlushedStays,
                    CacheCoherent, ReadsExact, [Next]_vars, ~overrun',
                    "read" \notin failed', "read" \notin failed,
                    ret' = "ok", out' # Nothing
             PROVE  out' = Bytes(req'.off, req'.len)
  BY FailedGrows DEF ReadsExact, ReadsCorrect
<1>0. /\ read_cache.head \in Nat /\ read_cache.tail \in Nat
      /\ read_cache.size \in Nat /\ req.off \in Nat /\ req.len \in Nat
      /\ Block \in Nat \ {0} /\ appended \in Nat
      /\ next_write_offset + write_cache.size = appended
  BY Numbers DEF CursorsAgree
<1>1. CASE ReadHit /\ UNCHANGED <<overrun, req>>
  <2>1. /\ ~overrun /\ ~done /\ pc = "read_try" /\ Hit /\ req' = req
        /\ CopyOut(read_cache.buffer, req.off - read_cache.tail)
    BY <1>1 DEF ReadHit, PhaseInv
  <2>2. ASSUME NEW i \in 0 .. req.len - 1
        PROVE  read_cache.buffer[(req.off - read_cache.tail) + i] = req.off + i
    <3> DEFINE o == req.off + i
    <3>1. WindowEnd \in Int
      BY <1>0 DEF WindowEnd
    <3>2. o \in read_cache.tail .. WindowEnd - 1
      BY <1>0, <2>1, <3>1 DEF Hit
    <3>3. read_cache.buffer[o - read_cache.tail] = o
      BY <2>1, <3>2 DEF CacheCoherent
    <3>4. o - read_cache.tail = (req.off - read_cache.tail) + i
      BY <1>0
    <3> QED BY <3>3, <3>4
  <2> QED BY <2>1, <2>2 DEF CopyOut, Bytes
<1>2. CASE ReadLoad
  <2>1. CASE LoadSucceeds
    <3>1. /\ ~overrun /\ ~done /\ pc = "read_load" /\ req' = req
          /\ CopyOut(read_cache'.buffer, req.off - off_read)
          /\ read_cache'.buffer = Loaded(read_len)
          /\ read_cache.head = appended
          /\ req.off + req.len <= appended
      BY <1>0, <1>2, <2>1, LoadedCache
      DEF LoadSucceeds, PhaseInv, TypeInv, ReqFits, ReadLoad, Abort, client,
          ReadFails
    <3>2. /\ off_read \in Nat /\ off_read <= req.off
          /\ req.off < off_read + Block
          /\ read_len \in Nat /\ req.len + Block < read_len + 1
      <4>1. req.len \in ReadLens
        BY <3>1 DEF TypeInv, ReqFits
      <4> QED BY <1>0, <4>1, FloorBounds, ReadFits DEF off_read, read_len
    <3>3. ASSUME NEW i \in 0 .. req.len - 1
          PROVE  Loaded(read_len)[(req.off - off_read) + i] = req.off + i
      <4> DEFINE j == (req.off - off_read) + i
      <4>1. /\ j \in Nat /\ j < read_len /\ off_read + j < read_cache.head
            /\ off_read + j = req.off + i
        BY <1>0, <3>1, <3>2
      <4> HIDE DEF j
      <4>2. Loaded(read_len)[j] = off_read + j
        BY <3>1, <4>1, LoadedHolds
      <4> QED BY <4>1, <4>2 DEF j
    <3> QED BY <3>1, <3>3 DEF CopyOut, Bytes
  <2>2. CASE Abort
    BY <2>2 DEF Abort, client, ReadsExact, ReadsCorrect
  <2> QED BY <1>2, <2>1, <2>2, LoadKinds
<1>3. CASE UNCHANGED <<out, ret, req, overrun>>
  BY <1>3 DEF ReadsExact, ReadsCorrect
<1> QED BY <1>1, <1>2, <1>3, AnswerKinds

\* Every successful logfs_read returns exactly the bytes appended at its offset,
\* whichever of the two paths served it and wherever the consumer was, as long
\* as no append has overrun the ring and device_read does not fail.
THEOREM ReadsCorrectUntilOverrun == Spec => []ReadsExact
<1>1. Init => ReadsExact
  BY DEF Init, ReadsExact, ReadsCorrect
<1> QED BY <1>1, TypeInvariant, PhaseInvariant, CursorsCorrect, FlushedCorrect,
           CoherentCorrect, AnswerStep, PTL DEF Spec
-----------------------------------------------------------------------------
(***************************************************************************)
(* Layer 9: what logfs_close leaves.  The consumer ends with one write of  *)
(* its own after done, when the client only waits for it.                  *)
(***************************************************************************)
Kept == ~overrun => \A o \in 0 .. appended - 1 :
                      o < next_write_offset + Block => device[o] = o
FlushInv ==
  /\ pc = "closed" => consumer = "exit"
  /\ "write" \notin failed /\ consumer = "exit" => done /\ Kept

\* Once the consumer has ended nobody touches the log or the device.
LEMMA AfterExit ==
  ASSUME PhaseInv, consumer = "exit", done, [Next]_vars
  PROVE  UNCHANGED <<device, next_write_offset, appended, overrun, done, consumer>>
<1>1. pc \in {"close_join", "closed"}
  BY DEF PhaseInv
<1>2. ASSUME ClientCall PROVE FALSE
  BY <1>1, <1>2 DEF ClientCall, CallAppend, CallRead, CallClose, Call
<1>3. ASSUME ClientLock \/ ClientStep PROVE CloseJoin
  BY <1>1, <1>3 DEF ClientLock, AppendLock, ReadLock, CloseSet, Lock,
                    ClientStep, AppendWait, ReadWait, CondWait, AppendCopy,
                    ReadHit, ReadMiss, ReadFlush, ReadLoad
<1>4. ASSUME ConsumerLock \/ ConsumerStep PROVE FALSE
  BY <1>4 DEF ConsumerLock, ConsumerStep, ConsumerTest, ConsumerSkip,
              ConsumerWrite, ConsumerAdvance, ConsumerFlush
<1>5. ASSUME CloseJoin \/ SpuriousWakeup \/ UNCHANGED vars
      PROVE  UNCHANGED <<device, next_write_offset, appended, overrun, done, consumer>>
  BY <1>5 DEF CloseJoin, SpuriousWakeup, vars, caches, client
<1> QED BY <1>2, <1>3, <1>4, <1>5 DEF Next, Running, Ended

\* While device_write does not fail the consumer ends only with its last block.
LEMMA ExitKinds ==
  ASSUME "write" \notin failed', consumer # "exit", consumer' = "exit",
         [Next]_vars
  PROVE  /\ ConsumerFlush
         /\ WriteBlock /\ WithinDevice(next_write_offset, Block)
         /\ UNCHANGED <<write_cache, next_write_offset, done, client>>
<1>1. ASSUME ClientCall PROVE consumer' = consumer
  <2>1. \E where, off, len : Call(where, off, len)
    BY <1>1 DEF ClientCall, CallAppend, CallRead, CallClose
  <2> QED BY <2>1 DEF Call
<1>2. ASSUME Abort \/ UNCHANGED vars PROVE consumer' = consumer
  BY <1>2 DEF Abort, vars
<1>3. ASSUME ClientLock \/ ClientStep \/ SpuriousWakeup
      PROVE  consumer' = consumer
  BY <1>2, <1>3 DEF ClientLock, AppendLock, ReadLock, CloseSet, Lock,
              ClientStep, AppendWait, ReadWait, CondWait, AppendCopy,
              ReadHit, ReadMiss, ReadFlush, ReadFails, ReadLoad, CloseJoin,
              SpuriousWakeup
<1>4. ASSUME \/ ConsumerTest \/ ConsumerLock \/ ConsumerSkip
             \/ ConsumerWrite \/ ConsumerAdvance
      PROVE  FALSE
  BY <1>2, <1>4 DEF ConsumerTest, ConsumerLock, ConsumerSkip, ConsumerWrite,
                    ConsumerAdvance, WritesPart, Fails
<1>5. ConsumerFlush
  BY <1>1, <1>2, <1>3, <1>4 DEF Next, Running, Ended, ConsumerStep
<1> QED BY <1>2, <1>5 DEF ConsumerFlush, WritesPart, Fails

LEMMA ClosedKinds ==
  ASSUME pc # "closed", pc' = "closed", [Next]_vars
  PROVE  consumer' = "exit"
<1>1. ASSUME ClientCall PROVE pc' # "closed"
  BY <1>1 DEF ClientCall, CallAppend, CallRead, CallClose, Call
<1>2. ASSUME Abort \/ UNCHANGED vars PROVE pc' = pc
  BY <1>2 DEF Abort, vars, client
<1>3. ASSUME \/ ClientLock \/ AppendWait \/ AppendCopy \/ ReadHit \/ ReadMiss
             \/ ReadWait \/ ReadFlush \/ ReadLoad
      PROVE  pc' # "closed"
  BY <1>2, <1>3 DEF ClientLock, AppendLock, ReadLock, CloseSet, Lock,
              AppendWait, ReadWait, CondWait, AppendCopy,
              ReadHit, ReadMiss, ReadFlush, ReadFails, ReadLoad
<1>4. ASSUME \/ SpuriousWakeup \/ ConsumerTest \/ ConsumerLock
             \/ ConsumerSkip \/ ConsumerWrite \/ ConsumerAdvance
             \/ ConsumerFlush
      PROVE  pc' = pc
  BY <1>2, <1>4 DEF SpuriousWakeup, ConsumerTest, ConsumerLock, ConsumerSkip,
                    ConsumerWrite, ConsumerAdvance, ConsumerFlush, client
<1>5. CloseJoin
  BY <1>1, <1>2, <1>3, <1>4 DEF Next, Running, Ended, ClientStep, ConsumerStep
<1> QED BY <1>5 DEF CloseJoin

LEMMA ExitStays ==
  ASSUME consumer = "exit", [Next]_vars
  PROVE  consumer' = "exit"
<1>1. ASSUME ClientCall PROVE consumer' = consumer
  <2>1. \E where, off, len : Call(where, off, len)
    BY <1>1 DEF ClientCall, CallAppend, CallRead, CallClose
  <2> QED BY <2>1 DEF Call
<1>2. ASSUME Abort \/ UNCHANGED vars PROVE consumer' = consumer
  BY <1>2 DEF Abort, vars
<1>3. ASSUME ClientLock \/ ClientStep \/ SpuriousWakeup
      PROVE  consumer' = consumer
  BY <1>2, <1>3 DEF ClientLock, AppendLock, ReadLock, CloseSet, Lock,
              ClientStep, AppendWait, ReadWait, CondWait, AppendCopy,
              ReadHit, ReadMiss, ReadFlush, ReadFails, ReadLoad, CloseJoin,
              SpuriousWakeup
<1>4. ASSUME ConsumerLock \/ ConsumerStep PROVE FALSE
  BY <1>4 DEF ConsumerLock, ConsumerStep, ConsumerTest, ConsumerSkip,
              ConsumerWrite, ConsumerAdvance, ConsumerFlush
<1> QED BY <1>1, <1>2, <1>3, <1>4 DEF Next, Running, Ended

LEMMA FlushStep ==
  TypeInv /\ PhaseInv /\ CursorsAgree /\ RingInv /\ FlushInv /\ [Next]_vars =>
    FlushInv'
<1> SUFFICES ASSUME TypeInv, PhaseInv, CursorsAgree, RingInv, FlushInv,
                    [Next]_vars
             PROVE  FlushInv'
  OBVIOUS
<1>0. "write" \notin failed' => "write" \notin failed
  BY FailedGrows
<1>1. ASSUME "write" \notin failed', consumer' = "exit" PROVE done' /\ Kept'
  <2>1. CASE consumer = "exit"
    <3>1. done /\ Kept
      BY <1>0, <1>1, <2>1 DEF FlushInv
    <3> QED BY <2>1, <3>1, AfterExit DEF Kept
  <2>2. CASE consumer # "exit"
    <3>1. /\ ConsumerFlush
          /\ WriteBlock /\ WithinDevice(next_write_offset, Block)
          /\ UNCHANGED <<write_cache, next_write_offset, done, client>>
      BY <1>1, <2>2, ExitKinds
    <3>2. done
      BY <3>1 DEF ConsumerFlush, PhaseInv
    <3>3. Block \in Nat /\ next_write_offset \in Nat /\ appended \in Nat
      BY Numbers
    <3>4. ASSUME ~overrun, NEW o \in 0 .. appended - 1,
                 o < next_write_offset + Block
          PROVE  device'[o] = o
      <4>1. o \in 0 .. next_write_offset + Block - 1 /\ o < appended
        BY <3>3, <3>4
      <4> QED BY <3>1, <3>4, <4>1, BlockHolds
    <3> QED BY <3>1, <3>2, <3>4 DEF Kept, client
  <2> QED BY <2>1, <2>2
<1>2. ASSUME pc' = "closed" PROVE consumer' = "exit"
  <2>1. CASE pc = "closed"
    <3>1. consumer = "exit"
      BY <2>1 DEF FlushInv
    <3> QED BY <2>1, <3>1, ExitStays
  <2>2. CASE pc # "closed"
    BY <1>2, <2>2, ClosedKinds
  <2> QED BY <2>1, <2>2
<1> QED BY <1>1, <1>2 DEF FlushInv

\* logfs_close leaves on the device what had been written and one more block,
\* whatever was pending and wherever the consumer was when done was set.
THEOREM CloseCorrect == Spec => []CloseFlushes
<1>1. Init => FlushInv
  BY DEF Init, FlushInv
<1>2. FlushInv => CloseFlushes
  BY DEF FlushInv, Kept, CloseFlushes
<1> QED BY <1>1, <1>2, TypeInvariant, PhaseInvariant, CursorsCorrect,
           RingInvariant, FlushStep, PTL DEF Spec

-----------------------------------------------------------------------------
(***************************************************************************)
(* Layer 9: the log of AppendLog.  As long as no append has overrun the    *)
(* ring and no device call has failed, a step is one of that log, or the   *)
(* caller sees nothing of it.                                              *)
(***************************************************************************)
LEMMA RequestIs ==
  /\ pc \in {"append_lock", "append"} =>
       Request = [op |-> "append", off |-> 0, len |-> req.len]
  /\ pc \in {"read_try", "read_lock", "read", "read_load"} =>
       Request = [op |-> "read", off |-> req.off, len |-> req.len]
  /\ pc \in {"close_lock", "close_join"} =>
       Request = [op |-> "close", off |-> 0, len |-> 0]
  /\ pc = "closed" => Request = Log!Closed
  /\ pc = "idle" => Request = Log!NoRequest
<1>1. pc \in {"append_lock", "append"} => Operation = "append"
  BY DEF Operation
<1>2. pc \in {"read_try", "read_lock", "read", "read_load"} => Operation = "read"
  BY DEF Operation
<1>3. pc \in {"close_lock", "close_join"} => Operation = "close"
  BY DEF Operation
<1>4. pc = "idle" => Operation = "none"
  BY DEF Operation
<1> QED BY <1>1, <1>2, <1>3, <1>4 DEF Request, Log!Closed, Log!NoRequest

\* The same in the next state.
LEMMA RequestNext ==
  /\ pc' \in {"append_lock", "append"} =>
       Request' = [op |-> "append", off |-> 0, len |-> req'.len]
  /\ pc' \in {"read_try", "read_lock", "read", "read_load"} =>
       Request' = [op |-> "read", off |-> req'.off, len |-> req'.len]
  /\ pc' \in {"close_lock", "close_join"} =>
       Request' = [op |-> "close", off |-> 0, len |-> 0]
  /\ pc' = "closed" => Request' = Log!Closed
  /\ pc' = "idle" => Request' = Log!NoRequest
<1>1. pc' \in {"append_lock", "append"} => Operation' = "append"
  BY DEF Operation
<1>2. pc' \in {"read_try", "read_lock", "read", "read_load"} => Operation' = "read"
  BY DEF Operation
<1>3. pc' \in {"close_lock", "close_join"} => Operation' = "close"
  BY DEF Operation
<1>4. pc' = "idle" => Operation' = "none"
  BY DEF Operation
<1> QED BY <1>1, <1>2, <1>3, <1>4 DEF Request, Log!Closed, Log!NoRequest

LEMMA RequestStays ==
  ASSUME UNCHANGED <<pc, req>>
  PROVE  UNCHANGED Request
BY DEF Request, Operation

LEMMA EmptyReply == Log!Nothing = Nothing
BY DEF Log!Nothing, Nothing

\* A read that succeeds answers with the bytes appended at its offset, also
\* one of no bytes.
LEMMA ReadAnswers ==
  ASSUME TypeInv, PhaseInv, CursorsAgree, FlushedStays, CacheCoherent, ReadsExact,
         [Next]_vars, ~overrun, "read" \notin failed',
         ReadHit \/ (ReadLoad /\ LoadSucceeds)
  PROVE  /\ out' = Log!Bytes(req.off, req.len) /\ pc' = "idle"
         /\ UNCHANGED appended
<1>1. /\ ret' = "ok" /\ pc' = "idle" /\ UNCHANGED <<req, overrun, appended>>
      /\ \E buffer, from : CopyOut(buffer, from)
  <2>1. CASE ReadHit
    <3>1. CopyOut(read_cache.buffer, req.off - read_cache.tail)
      BY <2>1 DEF ReadHit
    <3>2. ret' = "ok" /\ pc' = "idle" /\ UNCHANGED <<req, overrun, appended>>
      BY <2>1 DEF ReadHit
    <3> QED BY <3>1, <3>2
  <2>2. CASE ReadLoad /\ LoadSucceeds
    <3>1. LoadSucceeds
      BY <2>2
    <3>2. CopyOut(read_cache'.buffer, req.off - off_read)
      BY <3>1 DEF LoadSucceeds
    <3>3. ret' = "ok" /\ pc' = "idle" /\ UNCHANGED <<req, overrun, appended>>
      BY <3>1 DEF LoadSucceeds
    <3> QED BY <3>2, <3>3
  <2> QED BY <2>1, <2>2
<1>2. DOMAIN out' = 0 .. req.len - 1 /\ \E f : out' = [i \in 0 .. req.len - 1 |-> f[i]]
  <2>1. PICK buffer, from : out' = [i \in 0 .. req.len - 1 |-> buffer[from + i]]
    BY <1>1 DEF CopyOut
  <2>2. DOMAIN out' = 0 .. req.len - 1
    BY <2>1
  <2>3. out' = [i \in 0 .. req.len - 1 |-> out'[i]]
    BY <2>1
  <2> QED BY <2>2, <2>3
<1>3. out' # Nothing => out' = Bytes(req.off, req.len)
  <2>1. ReadsExact'
    BY AnswerStep
  <2> QED BY <1>1, <2>1 DEF ReadsExact, ReadsCorrect
<1>4. out' = Nothing => out' = Bytes(req.off, req.len)
  <2> SUFFICES ASSUME out' = Nothing PROVE out' = Bytes(req.off, req.len)
    OBVIOUS
  <2>1. DOMAIN out' = {}
    BY DEF Nothing
  <2>2. 0 .. req.len - 1 = {}
    BY <1>2, <2>1
  <2>3. Bytes(req.off, req.len) = [i \in {} |-> req.off + i]
    BY <2>2 DEF Bytes
  <2> QED BY <2>3 DEF Nothing
<1>5. Bytes(req.off, req.len) = Log!Bytes(req.off, req.len)
  BY DEF Bytes, Log!Bytes
<1> QED BY <1>1, <1>3, <1>4, <1>5

LEMMA CallRefines ==
  ASSUME TypeInv, ClientCall
  PROVE  Log!Next
<1>0. /\ pc = "idle" /\ out' = Log!Nothing /\ appended' = appended
      /\ Request = Log!NoRequest
  <2>1. \E where, off, len : Call(where, off, len)
    BY DEF ClientCall, CallAppend, CallRead, CallClose
  <2>2. pc = "idle" /\ out' = Nothing /\ appended' = appended
    BY <2>1 DEF Call
  <2> QED BY <2>2, EmptyReply, RequestIs
<1>1. CASE CallAppend
  <2>1. PICK m \in AppendLens : Call(IF m = 0 THEN "idle" ELSE "append_lock", appended, m)
    BY <1>1 DEF CallAppend
  <2>2. m \in Nat
    BY LengthAssumption, CapPositive
  <2>3. CASE m = 0
    <3>1. Request' = Log!NoRequest
      BY <2>1, <2>3, RequestNext DEF Call
    <3> QED BY <1>0, <3>1 DEF Log!Next, Log!AppendNothing
  <2>4. CASE m # 0
    <3>1. pc' = "append_lock" /\ req'.len = m
      BY <2>1, <2>4 DEF Call
    <3>2. Request' = [op |-> "append", off |-> 0, len |-> m]
      BY <3>1, RequestNext
    <3> QED BY <1>0, <2>2, <3>2 DEF Log!Next, Log!Request
  <2> QED BY <2>3, <2>4
<1>2. CASE CallRead
  <2>1. PICK m \in ReadLens, o \in 0 .. appended : o + m <= appended /\ Call("read_try", o, m)
    BY <1>2 DEF CallRead
  <2>2. m \in Nat /\ o \in Nat
    <3>1. Block * (RBlocks - 1) - 1 \in Int
      BY GeometryAssumption
    <3>2. appended \in Nat
      BY DEF TypeInv, TypeOK
    <3> QED BY <3>1, <3>2, LengthAssumption
  <2>3. pc' = "read_try" /\ req' = [off |-> o, len |-> m]
    BY <2>1 DEF Call
  <2>4. Request' = [op |-> "read", off |-> o, len |-> m]
    BY <2>3, RequestNext
  <2>5. Request'.off + Request'.len <= appended
    BY <2>1, <2>4
  <2> QED BY <1>0, <2>2, <2>4, <2>5 DEF Log!Next, Log!Request
<1>3. CASE CallClose
  <2>1. pc' = "close_lock"
    BY <1>3 DEF CallClose, Call
  <2>2. Request' = [op |-> "close", off |-> 0, len |-> 0]
    BY <2>1, RequestNext
  <2> QED BY <1>0, <2>2 DEF Log!Next, Log!Request
<1> QED BY <1>1, <1>2, <1>3 DEF ClientCall

LEMMA LogStep ==
  ASSUME TypeInv, PhaseInv, CursorsAgree, FlushedStays, CacheCoherent, ReadsExact,
         [Next]_vars, ~overrun, failed' = {}
  PROVE  Log!Next \/ UNCHANGED <<appended, Request, out>>
<1>1. CASE ClientCall
  BY <1>1, CallRefines
<1>2. CASE ClientLock \/ AppendWait \/ ReadWait \/ ReadMiss
  <2>1. ClientLock => /\ UNCHANGED <<appended, req, out>>
                      /\ \/ pc = "append_lock" /\ pc' = "append"
                         \/ pc = "read_lock" /\ pc' = "read"
                         \/ pc = "close_lock" /\ pc' = "close_join"
    BY DEF ClientLock, AppendLock, ReadLock, CloseSet, Lock
  <2>2. AppendWait => /\ UNCHANGED <<appended, req, out>>
                      /\ pc = "append" /\ pc' = "append_lock"
    BY DEF AppendWait, CondWait
  <2>3. ReadWait \/ ReadMiss => /\ UNCHANGED <<appended, req, out>>
                               /\ pc \in {"read_try", "read"} /\ pc' = "read_lock"
    BY DEF ReadWait, CondWait, ReadMiss
  <2>4. CASE ClientLock
    <3>1. Request' = Request
      BY <2>1, <2>4, RequestIs, RequestNext
    <3> QED BY <2>1, <2>4, <3>1
  <2>5. CASE AppendWait
    <3>1. Request' = Request
      BY <2>2, <2>5, RequestIs, RequestNext
    <3> QED BY <2>2, <2>5, <3>1
  <2>6. CASE ReadWait \/ ReadMiss
    <3>1. Request' = Request
      BY <2>3, <2>6, RequestIs, RequestNext
    <3> QED BY <2>3, <2>6, <3>1
  <2> QED BY <1>2, <2>4, <2>5, <2>6
<1>3. CASE AppendCopy
  <2>1. /\ pc = "append" /\ pc' = "idle" /\ appended' = appended + req.len /\ out' = out
    BY <1>3 DEF AppendCopy
  <2>2. /\ Request = [op |-> "append", off |-> 0, len |-> req.len]
        /\ Request' = Log!NoRequest
    BY <2>1, RequestIs, RequestNext
  <2> QED BY <2>1, <2>2 DEF Log!Next, Log!Answer, Log!Append
<1>4. CASE ReadHit \/ (ReadLoad /\ LoadSucceeds)
  <2>1. out' = Log!Bytes(req.off, req.len) /\ pc' = "idle" /\ UNCHANGED appended
    BY <1>4, ReadAnswers
  <2>2. pc \in {"read_try", "read_load"}
    BY <1>4 DEF ReadHit, ReadLoad
  <2>3. /\ Request = [op |-> "read", off |-> req.off, len |-> req.len]
        /\ Request' = Log!NoRequest
    BY <2>1, <2>2, RequestIs, RequestNext
  <2> QED BY <2>1, <2>3 DEF Log!Next, Log!Answer, Log!Read
<1>5. CASE CloseJoin
  <2>1. pc = "close_join" /\ pc' = "closed" /\ UNCHANGED <<appended, out>>
    BY <1>5 DEF CloseJoin
  <2>2. /\ Request = [op |-> "close", off |-> 0, len |-> 0]
        /\ Request' = Log!Closed
    BY <2>1, RequestIs, RequestNext
  <2> QED BY <2>1, <2>2 DEF Log!Next, Log!Answer, Log!Close
<1>6. CASE UNCHANGED <<appended, pc, req, out>>
  BY <1>6, RequestStays
<1>7. CASE ReadFlush
  <2>1. \/ UNCHANGED <<appended, pc, req, out>>
        \/ UNCHANGED <<appended, req, out>> /\ pc = "read" /\ pc' = "read_load"
    BY <1>7 DEF ReadFlush, Abort, client, WritesPart, Fails
  <2>2. CASE UNCHANGED <<appended, req, out>> /\ pc = "read" /\ pc' = "read_load"
    BY <2>2, RequestIs, RequestNext
  <2> QED BY <1>6, <2>1, <2>2
<1>8. CASE ReadLoad
  <2>1. LoadSucceeds \/ Abort
    BY <1>8, LoadKinds DEF Fails
  <2>2. Abort => UNCHANGED <<appended, pc, req, out>>
    BY DEF Abort, client
  <2> QED BY <1>4, <1>6, <1>8, <2>1, <2>2
<1>9. CASE SpuriousWakeup \/ ConsumerLock \/ ConsumerStep \/ UNCHANGED vars
  <2>1. UNCHANGED <<appended, pc, req, out>>
    BY <1>9 DEF SpuriousWakeup, ConsumerLock, ConsumerStep, ConsumerTest, ConsumerSkip,
                ConsumerWrite, ConsumerAdvance, ConsumerFlush, Abort, client, vars
  <2> QED BY <1>6, <2>1
<1> QED BY <1>1, <1>2, <1>3, <1>4, <1>5, <1>7, <1>8, <1>9
        DEF Next, Running, Ended, ClientStep

\* Logfs is the log of logfs.h: what the caller sees starts as it does, and
\* each step, until an append overruns the ring or a device call fails, is a
\* step of it; whatever the consumer does in between.
THEOREM RefinesLog ==
  Spec => Log!Init /\ [][~overrun /\ failed' = {} => [Log!Next]_<<appended, Request, out>>]_vars
<1>1. Init => Log!Init
  <2> SUFFICES ASSUME Init PROVE Log!Init
    OBVIOUS
  <2>1. pc = "idle" /\ appended = 0 /\ out = Nothing
    BY DEF Init
  <2> QED BY <2>1, RequestIs, EmptyReply DEF Log!Init
<1>2. TypeInv /\ PhaseInv /\ CursorsAgree /\ FlushedStays /\ CacheCoherent /\ ReadsExact
        /\ [Next]_vars =>
        [~overrun /\ failed' = {} => [Log!Next]_<<appended, Request, out>>]_vars
  BY LogStep
<1> QED BY <1>1, <1>2, TypeInvariant, PhaseInvariant, CursorsCorrect, FlushedCorrect,
           CoherentCorrect, ReadsCorrectUntilOverrun, PTL DEF Spec
=============================================================================
