------------------------------ MODULE SampleLayout ------------------------------
(***************************************************************************)
(* Where the samples of the channels lie in a buffer (device.c, buffer.c)  *)
(* and what reading and writing a channel does to them (channel.c).        *)
(* chns is the device's sequence of channels, a mask a set of positions in *)
(* it, addresses are counted from the buffer's first byte as 0, and the    *)
(* host is little endian.                                                  *)
(***************************************************************************)
EXTENDS ContextXml

Bytes(chn) == chn.format.length \div 8
Storage(chn) == Bytes(chn) * chn.format.repeat

Aligned(n, len) == IF n % len = 0 THEN n ELSE n + (len - (n % len))

\* The positions before the first channel without an index, in order.
Indexed(chns) ==
    LET n == Cardinality({i \in 1..Len(chns) : \A j \in 1..i : chns[j].index >= 0})
    IN  [i \in 1..n |-> i]

In(chns, mask) == SelectSeq(Indexed(chns), LAMBDA i : i \in mask)

\* One channel of the walk: it shares the place of the previous one of its
\* index, or takes the next place its storage is aligned to.
Place(chns, w, i) ==
    LET len == Storage(chns[i]) IN
    IF w.prev # 0 /\ chns[i].index = chns[w.prev].index THEN [w EXCEPT !.prev = i]
    ELSE [size |-> Aligned(w.size, len) + len, prev |-> i,
          largest |-> IF len > w.largest THEN len ELSE w.largest]

Placed(chns, s) ==
    FoldLeft(LAMBDA w, i : Place(chns, w, i), [size |-> 0, prev |-> 0, largest |-> 1], s)

iio_device_get_sample_size_mask(chns, mask) ==
    LET w == Placed(chns, In(chns, mask)) IN Aligned(w.size, w.largest)

iio_channel_enable(chns, mask, i) ==
    IF chns[i].scan /\ chns[i].index >= 0 THEN mask \cup {i} ELSE mask

iio_channel_disable(chns, mask, i) ==
    IF chns[i].index >= 0 THEN mask \ {i} ELSE mask

\* Mutant: channels the buffer has no samples of are passed over like the others.
iio_buffer_first_NoMask(chns, mask, c) ==
    LET before == SelectSeq(Indexed(chns), LAMBDA i :
            /\ \A j \in 1..i : chns[j].index # chns[c].index
            /\ i = 1 \/ chns[i].index # chns[i - 1].index)
    IN  Aligned(FoldLeft(LAMBDA p, i : Aligned(p, Storage(chns[i])) + Storage(chns[i]),
                         0, before),
                Bytes(chns[c]))

\* The place of an enabled channel's first sample: behind those of the
\* channels in the buffer up to the first one of the same index.
iio_buffer_first(chns, mask, c) ==
    LET before == SelectSeq(In(chns, mask), LAMBDA i :
            /\ \A j \in 1..i : chns[j].index # chns[c].index
            /\ i = 1 \/ chns[i].index # chns[i - 1].index)
    IN  Aligned(FoldLeft(LAMBDA p, i : Aligned(p, Storage(chns[i])) + Storage(chns[i]),
                         0, before),
                Bytes(chns[c]))

\* One round of iio_buffer_foreach_sample() through the channels.
Round(chns, mask, wanted, w) ==
    FoldLeft(LAMBDA v, i :
                LET p == Aligned(v.ptr, Bytes(chns[i]))
                    last == i = Len(chns) \/ chns[i + 1].index # chns[i].index
                IN  [ptr |-> IF last THEN p + Storage(chns[i]) ELSE p,
                     seen |-> IF i \in wanted THEN Append(v.seen, <<i, p>>) ELSE v.seen],
             w, In(chns, mask))

\* The rounds go on while a whole sample is left, at most `rounds` of them
\* (in the code without end, when a round does not get any further).
iio_buffer_foreach_sample(chns, mask, wanted, length, rounds) ==
    LET size == iio_device_get_sample_size_mask(chns, mask)
        walk[n \in 0..rounds] ==
            IF n = 0 THEN [ptr |-> 0, seen |-> <<>>]
            ELSE IF length - walk[n - 1].ptr >= size
                 THEN Round(chns, mask, wanted, walk[n - 1]) ELSE walk[n - 1]
    IN  IF size = 0 THEN <<>> ELSE walk[rounds].seen

-----------------------------------------------------------------------------

ToBytes(v, len) == [i \in 1..len |-> (v \div 256^(i - 1)) % 256]

FromBytes(b) == FoldLeftDomain(LAMBDA v, i : v + b[i] * 256^(i - 1), 0, b)

byte_swap(b) == Reverse(b)

mask_upper_bits(v, bits) == v % 2^bits

sign_extend(v, bits, len) ==
    LET u == v % 2^bits IN IF u >= 2^(bits - 1) THEN u + 256^len - 2^bits ELSE u

shift_bits(v, shift, len, left) ==
    IF left THEN (v * 2^shift) % 256^len ELSE v \div 2^shift

\* One element of a sample, from the device's form to the host's ...
convert(f, b) ==
    LET v == shift_bits(FromBytes(IF f.be THEN byte_swap(b) ELSE b), f.shift, Len(b), FALSE)
    IN  CASE f.full -> v
          [] f.signed /\ ~f.full -> sign_extend(v, f.bits, Len(b))
          [] OTHER -> mask_upper_bits(v, f.bits)

\* ... and back.
convert_inverse(f, v, len) ==
    LET b == ToBytes(shift_bits(mask_upper_bits(v, f.bits), f.shift, len, TRUE), len)
    IN  IF f.be THEN byte_swap(b) ELSE b

iio_channel_convert(chn, b) ==
    [r \in 1..chn.format.repeat |->
        convert(chn.format, SubSeq(b, (r - 1) * Bytes(chn) + 1, r * Bytes(chn)))]

iio_channel_convert_inverse(chn, vs) ==
    FlattenSeq([r \in 1..chn.format.repeat |->
                    convert_inverse(chn.format, vs[r], Bytes(chn))])

\* The bytes b stored from address p on.
Stored(buf, p, b) ==
    [a \in 1..Len(buf) |-> IF a \in p + 1..p + Len(b) THEN b[a - p] ELSE buf[a]]

Addresses(chns, mask, c, length) ==
    LET step == iio_device_get_sample_size_mask(chns, mask)
        first == iio_buffer_first(chns, mask, c)
    IN  [k \in 1..Cardinality({k \in 0..length : first + k * step < length}) |->
            first + (k - 1) * step]

\* The samples vs, from the buffer's first on; those that do not fit are left.
iio_channel_write(chns, mask, c, buf, vs) ==
    LET at == Addresses(chns, mask, c, Len(buf))
    IN  FoldLeftDomain(LAMBDA b, k : IF k > Len(at) THEN b
            ELSE Stored(b, at[k], iio_channel_convert_inverse(chns[c], vs[k])), buf, vs)

iio_channel_read(chns, mask, c, buf) ==
    LET at == Addresses(chns, mask, c, Len(buf))
    IN  [k \in 1..Len(at) |->
            iio_channel_convert(chns[c], SubSeq(buf, at[k] + 1, at[k] + Storage(chns[c])))]
=============================================================================
