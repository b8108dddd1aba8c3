-------------------------------- MODULE MD5 ---------------------------------
(***************************************************************************)
(* MD5Update and MD5Final (md5.c, the same file in client and server): how *)
(* a message that comes in pieces is cut into blocks, padded and closed    *)
(* with its length.  MD5Transform is an unknown function of the state and  *)
(* a block, so that the state is the sequence of blocks it was made from.  *)
(*                                                                         *)
(* A block has BlockSize bytes (64), of which the length takes LengthSize  *)
(* (8); the number of bits is kept in two words of Word values (2^32), and *)
(* a byte has Bits (8): the constants scale all of them down.              *)
(***************************************************************************)
EXTENDS Integers, Sequences

CONSTANTS
    BlockSize,
    LengthSize,     \* less than BlockSize
    Word,           \* a multiple of the bits of a block
    Bits

Pad == "80"
Zero == "00"
Stale == "?"
Fill(c, n) == [i \in 1 .. n |-> c]

MD5Init == [state |-> <<>>, in |-> Fill(Stale, BlockSize), lo |-> 0, hi |-> 0]

MD5Transform(ctx) == [ctx EXCEPT !.state = Append(@, ctx.in)]

\* memcpy(ctx->in + at, buf, Len(buf))
Copy(ctx, at, buf) ==
    [ctx EXCEPT !.in = [i \in 1 .. BlockSize |->
        IF i > at /\ i <= at + Len(buf) THEN buf[i - at] ELSE @[i]]]

Count(ctx) == (ctx.lo \div Bits) % BlockSize

CountBits(ctx, len) ==
    LET lo == (ctx.lo + len * Bits) % Word
        carry == IF lo < ctx.lo THEN 1 ELSE 0
    IN [ctx EXCEPT !.lo = lo, !.hi = (@ + carry + (len * Bits) \div Word) % Word]

\* Whole blocks of buf, and the rest at the beginning of ctx->in.
Blocks(ctx0, buf) ==
    LET After[k \in 0 .. Len(buf) \div BlockSize] ==
            IF k = 0 THEN ctx0
            ELSE MD5Transform(Copy(After[k - 1], 0,
                     SubSeq(buf, (k - 1) * BlockSize + 1, k * BlockSize)))
        whole == Len(buf) \div BlockSize
    IN Copy(After[whole], 0, SubSeq(buf, whole * BlockSize + 1, Len(buf)))

\* As MD5Update, where a piece that just fills the block is only copied.
MD5UpdateFull(ctx, buf) ==
    LET t == Count(ctx)
        room == BlockSize - t
        counted == CountBits(ctx, Len(buf))
    IN IF t = 0 THEN Blocks(counted, buf)
       ELSE IF Len(buf) <= room THEN Copy(counted, t, buf)
       ELSE Blocks(MD5Transform(Copy(counted, t, SubSeq(buf, 1, room))),
                   SubSeq(buf, room + 1, Len(buf)))

MD5Update(ctx, buf) ==
    LET t == Count(ctx)
        room == BlockSize - t
        counted == CountBits(ctx, Len(buf))
    IN IF t = 0 THEN Blocks(counted, buf)
       ELSE IF Len(buf) < room THEN Copy(counted, t, buf)
       ELSE Blocks(MD5Transform(Copy(counted, t, SubSeq(buf, 1, room))),
                   SubSeq(buf, room + 1, Len(buf)))

\* The length of the message, low word first, in the last LengthSize bytes.
LengthBytes(ctx) == Fill(<<ctx.lo, ctx.hi>>, LengthSize)

MD5Final(ctx) ==
    LET count == Count(ctx)
        padded == Copy(ctx, count, <<Pad>>)
        left == BlockSize - 1 - count
        zeroed ==
            IF left < LengthSize
            THEN Copy(MD5Transform(Copy(padded, count + 1, Fill(Zero, left))),
                      0, Fill(Zero, BlockSize - LengthSize))
            ELSE Copy(padded, count + 1, Fill(Zero, left - LengthSize))
    IN MD5Transform(Copy(zeroed, BlockSize - LengthSize, LengthBytes(ctx))).state

\* The digest of a message that is given in pieces.
Digest(pieces) ==
    LET After[k \in 0 .. Len(pieces)] ==
            IF k = 0 THEN MD5Init ELSE MD5Update(After[k - 1], pieces[k])
    IN MD5Final(After[Len(pieces)])

\* The same by definition: the message, a mark, zeros up to the last bytes of
\* a block, and the length; cut into blocks.
DigestOf(message) ==
    LET n == Len(message)
        total == ((n + 1 + LengthSize + BlockSize - 1) \div BlockSize) * BlockSize
        bits == n * Bits
        whole == message \o <<Pad>> \o Fill(Zero, total - n - 1 - LengthSize)
                 \o Fill(<<bits % Word, (bits \div Word) % Word>>, LengthSize)
    IN [k \in 1 .. total \div BlockSize |->
            SubSeq(whole, (k - 1) * BlockSize + 1, k * BlockSize)]
=============================================================================
