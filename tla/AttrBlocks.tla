------------------------------ MODULE AttrBlocks ------------------------------
(***************************************************************************)
(* All attributes of a device or of a channel in one call: the block the   *)
(* local backend fills or takes apart (local.c) and the block a client     *)
(* makes or reads (device.c, channel.c).  A block is a sequence of cells of*)
(* four bytes: per attribute one with the length (or the error, negative), *)
(* then the text, filled up to whole cells.  A value is stood for by the   *)
(* number of its bytes.                                                    *)
(***************************************************************************)
EXTENDS ContextXml

EIO == -5
EINVAL == -22
EFBIG == -27
EPROTO == -71
Garbage == -1000

Cells(len) == (len + 3) \div 4

Header(ret) == <<[len |-> ret, text |-> Garbage, part |-> 0]>>

\* What a cell of text is when it is taken for a length does not matter.
Text(v) == [j \in 1..Cells(v) |-> [len |-> 0, text |-> v, part |-> j]]

\* One file read into room bytes: empty files and those as long as the room fail.
local_read_dev_attr(v, room) == IF v = 0 THEN EIO ELSE IF v >= room THEN EFBIG ELSE v

\* The blocks of one attribute after the other while four bytes are left.
\* len is unsigned: a text whose last cell is cut off leaves it enormous.
local_read_all(vs, len) ==
    LET One(w, v) ==
            LET ret == local_read_dev_attr(v, w.left - 4)
                used == 4 + 4 * (IF ret < 0 THEN 0 ELSE Cells(ret))
            IN  IF w.left < 4 THEN w
                ELSE [cells |-> w.cells \o Header(ret) \o (IF ret < 0 THEN <<>> ELSE Text(ret)),
                      left |-> IF used > w.left THEN 2^30 ELSE w.left - used]
    IN  FoldLeft(One, [cells |-> <<>>, left |-> len], vs).cells

TextAt(cells, pos, len) ==
    IF /\ pos + Cells(len) - 1 <= Len(cells)
       /\ SubSeq(cells, pos, pos + Cells(len) - 1) = Text(len)
    THEN len ELSE Garbage

\* Mutant: the text is not rounded up to whole cells.
read_each_attr_Unaligned(names, cells) ==
    LET One(w, name) ==
            LET len == cells[w.pos].len IN
            IF w.err # 0 THEN w
            ELSE IF w.size < 4 THEN [w EXCEPT !.err = EPROTO]
            ELSE IF len > w.size - 4 THEN [w EXCEPT !.err = EPROTO]
            ELSE IF len <= 0 THEN [w EXCEPT !.pos = @ + 1, !.size = @ - 4]
            ELSE [w EXCEPT !.pos = @ + 1 + len \div 4,
                           !.size = @ - 4 - 4 * (len \div 4),
                           !.told = Append(@, <<name, TextAt(cells, w.pos + 1, len)>>)]
    IN  FoldLeft(One, [pos |-> 1, size |-> 4 * Len(cells), told |-> <<>>, err |-> 0], names)

\* The callback hears of each attribute that could be read, by its position.
read_each_attr(names, cells) ==
    LET One(w, name) ==
            LET len == cells[w.pos].len IN
            IF w.err # 0 THEN w
            ELSE IF w.size < 4 THEN [w EXCEPT !.err = EPROTO]
            ELSE IF len > w.size - 4 THEN [w EXCEPT !.err = EPROTO]
            ELSE IF len <= 0 THEN [w EXCEPT !.pos = @ + 1, !.size = @ - 4]
            ELSE [w EXCEPT !.pos = @ + 1 + Cells(len),
                           !.size = @ - 4 - 4 * Cells(len),
                           !.told = Append(@, <<name, TextAt(cells, w.pos + 1, len)>>)]
    IN  FoldLeft(One, [pos |-> 1, size |-> 4 * Len(cells), told |-> <<>>, err |-> 0], names)

\* The callback's answers: a text, 0 to leave the attribute alone, or an
\* error, which ends the call before anything is sent.
write_each_attr(vs) ==
    IF \E i \in 1..Len(vs) : vs[i] < 0 THEN <<>>
    ELSE FlattenSeq([i \in 1..Len(vs) |-> Header(vs[i]) \o Text(vs[i])])

\* The block must be made of nb attributes, no more and no less.
local_buffer_analyze(nb, cells) ==
    LET One(w, i) ==
            IF w.bad \/ w.pos > Len(cells) THEN [w EXCEPT !.bad = TRUE]
            ELSE LET len == cells[w.pos].len IN
                 IF len <= 0 THEN [w EXCEPT !.pos = @ + 1]
                 ELSE [pos |-> w.pos + 1 + Cells(len),
                       bad |-> len > 4 * (Len(cells) - w.pos)]
        end == FoldLeft(One, [pos |-> 1, bad |-> FALSE], [i \in 1..nb |-> i])
    IN  IF end.bad \/ end.pos # Len(cells) + 1 THEN EINVAL ELSE 0

\* What the files hold afterwards; errors of single attributes are not told.
local_write_all(files, cells, values, readonly) ==
    LET One(w, f) ==
            LET len == cells[w.pos].len IN
            IF len <= 0 THEN [w EXCEPT !.pos = @ + 1]
            ELSE [pos |-> w.pos + 1 + Cells(len),
                  values |-> IF f \in readonly THEN w.values
                             ELSE [w.values EXCEPT ![f] = TextAt(cells, w.pos + 1, len)]]
    IN  IF local_buffer_analyze(Len(files), cells) < 0 THEN values
        ELSE FoldLeft(One, [pos |-> 1, values |-> values], files).values
-----------------------------------------------------------------------------

\* The calls for a device and for a channel: the server's end ...
local_read_all_dev_attrs(dev, values, len) ==
    local_read_all([i \in 1..Len(dev.attrs) |-> values[dev.attrs[i]]], len)

local_read_all_chn_attrs(chn, values, len) ==
    local_read_all([i \in 1..Len(chn.attrs) |->
        values[get_filename(chn, chn.attrs[i].name)]], len)

local_write_all_dev_attrs(dev, cells, values, readonly) ==
    local_write_all(dev.attrs, cells, values, readonly)

local_write_all_chn_attrs(chn, cells, values, readonly) ==
    local_write_all([i \in 1..Len(chn.attrs) |-> get_filename(chn, chn.attrs[i].name)],
                    cells, values, readonly)

\* ... and the client's.
iio_device_attr_read_all(dev, cells) == read_each_attr(dev.attrs, cells)

iio_channel_attr_read_all(chn, cells) ==
    read_each_attr([i \in 1..Len(chn.attrs) |-> chn.attrs[i].name], cells)
=============================================================================
