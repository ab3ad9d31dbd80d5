------------------------------ MODULE DataModel ------------------------------
(***************************************************************************)
(* A device from the files sysfs shows to the samples and attributes a     *)
(* remote client handles.  The local backend reads the directories in the  *)
(* order readdir() gives, completes the device, puts the context in order  *)
(* and describes it; a client builds its own device from the description.  *)
(* From then on the two talk in masks (bits are channel numbers), in       *)
(* samples (bytes at places both compute) and in attribute blocks (values  *)
(* without names), so everything rests on both ends having made the same   *)
(* of what they saw.                                                       *)
(*                                                                         *)
(* One device per context; the transport between client and server is      *)
(* NetworkClient's and IiodServer's subject.                               *)
(***************************************************************************)
EXTENDS SampleLayout, AttrBlocks

CONSTANTS
    Devices,      \* what sysfs may hold: [attrs, buffer, scan, debug, content, readonly, ini]
    SampleValues, \* what an element of a sample may be
    Texts,        \* answers of a write callback: 0, lengths of a text, an error
    Samples,      \* samples per buffer
    BlockLen      \* bytes of the block attributes are read into (1 MiB in the code)

VARIABLES
    phase,    \* directory being read, or how far the context is
    fs,       \* the files of this behaviour's device
    unread,   \* files of the directory readdir() has not given yet
    dev,      \* the server's device
    server,   \* the description the server gives its clients
    client,   \* the client's device and context attributes
    mask,     \* the client's enabled channels
    buffer,   \* the client's buffer: mask and bytes, or NoBuffer
    samples,  \* per channel, the samples last put into the buffer
    values,   \* what each attribute file holds
    given     \* what it was last given

vars == <<phase, fs, unread, dev, server, client, mask, buffer, samples, values, given>>

NoBuffer == [mask |-> {}, bytes |-> <<>>]
NoClient == [device |-> NewDevice, attrs |-> <<>>]
NoServer == iio_snprintf_context_xml(NewDevice, <<>>)

Chns == client.device.channels
Files == fs.attrs \cup fs.buffer \cup fs.scan \cup fs.debug

Init ==
    /\ fs \in Devices
    /\ phase = "attrs" /\ unread = fs.attrs /\ dev = NewDevice
    /\ server = NoServer /\ client = NoClient
    /\ mask = {} /\ buffer = NoBuffer /\ samples = <<>>
    /\ values = [f \in Files |-> 1] /\ given = values

-----------------------------------------------------------------------------

\* foreach_in_dir(): the entries come in any order.
ReadEntry ==
    /\ ~dev.err
    /\ \E f \in unread :
        /\ unread' = unread \ {f}
        /\ dev' = CASE phase = "attrs"  -> add_attr_or_channel(dev, f, fs.content)
                    [] phase = "buffer" -> add_buffer_attr(dev, f)
                    [] phase = "scan"   -> add_scan_element(dev, f)
                    [] phase = "debug"  -> add_debug_attr(dev, f)
    /\ UNCHANGED <<phase, fs, server, client, mask, buffer, samples, values, given>>

\* create_device(): the device's files, its buffer attributes, its scan elements.
NextDirectory ==
    /\ phase \in {"attrs", "buffer"} /\ unread = {} /\ ~dev.err
    /\ phase' = IF phase = "attrs" THEN "buffer" ELSE "scan"
    /\ unread' = IF phase = "attrs" THEN fs.buffer ELSE fs.scan
    /\ UNCHANGED <<fs, dev, server, client, mask, buffer, samples, values, given>>

CreateDevice ==
    /\ phase = "scan" /\ unread = {} /\ ~dev.err
    /\ dev' = Completed(dev, fs.content)
    /\ phase' = "debug" /\ unread' = fs.debug
    /\ UNCHANGED <<fs, server, client, mask, buffer, samples, values, given>>

\* One device that cannot be created ends local_create_context().
ScanFails ==
    /\ dev.err /\ phase' = "failed" /\ unread' = {} /\ dev' = NewDevice
    /\ UNCHANGED <<fs, server, client, mask, buffer, samples, values, given>>

\* The rest of local_create_context(): scales, context attributes, order, text.
CreateContext ==
    /\ phase = "debug" /\ unread = {} /\ ~dev.err
    /\ dev' = iio_context_init(init_scan_elements(dev, fs.content))
    /\ server' = iio_snprintf_context_xml(dev', ContextAttrs(fs.ini))
    /\ phase' = "described"
    /\ UNCHANGED <<fs, unread, client, mask, buffer, samples, values, given>>

\* A client gets the text and builds its context.
CreateClient ==
    /\ phase = "described"
    /\ IF Refused(server) THEN phase' = "refused" /\ UNCHANGED client
       ELSE /\ phase' = "linked"
            /\ client' = iio_populate_xml_context_helper(server)
    /\ UNCHANGED <<fs, unread, dev, server, mask, buffer, samples, values, given>>

-----------------------------------------------------------------------------

Enable(c) ==
    /\ phase = "linked" /\ mask' = iio_channel_enable(Chns, mask, c)
    /\ UNCHANGED <<phase, fs, unread, dev, server, client, buffer, samples, values, given>>

\* Also when a buffer is there: its mask stays what it was.
Disable(c) ==
    /\ phase \in {"linked", "open"} /\ mask' = iio_channel_disable(Chns, mask, c)
    /\ UNCHANGED <<phase, fs, unread, dev, server, client, buffer, samples, values, given>>

Unknown == [c \in 1..Len(Chns) |-> <<>>]

\* iio_device_create_buffer().
CreateBuffer ==
    /\ phase = "linked" /\ iio_device_get_sample_size_mask(Chns, mask) > 0
    /\ phase' = "open"
    /\ buffer' = [mask |-> mask,
                  bytes |-> [a \in 1..Samples * iio_device_get_sample_size_mask(Chns, mask) |-> 0]]
    /\ samples' = Unknown
    /\ UNCHANGED <<fs, unread, dev, server, client, mask, values, given>>

\* Values an element of channel c can have: those its bits hold.
ElementsOf(c) ==
    {IF Chns[c].format.signed /\ ~Chns[c].format.full
        THEN sign_extend(v, Chns[c].format.bits, Bytes(Chns[c]))
        ELSE v % 2^Chns[c].format.bits : v \in SampleValues}

Tx == \E c \in buffer.mask : Chns[c].out

\* The client writes the first samples of one channel.
WriteChannel(c) ==
    /\ phase = "open" /\ c \in mask /\ Tx
    /\ \E n \in 1..Samples : \E vs \in [1..n -> [1..Chns[c].format.repeat -> ElementsOf(c)]] :
        /\ buffer' = [buffer EXCEPT !.bytes = iio_channel_write(Chns, buffer.mask, c, @, vs)]
        /\ samples' = [samples EXCEPT ![c] = vs \o Cut(@, n)]
    /\ UNCHANGED <<phase, fs, unread, dev, server, client, mask, values, given>>

\* The device's samples of the channels in m: it puts each channel where the
\* sample size counts it (the server computes that from the same mask).
Captured(m, taken, bytes) ==
    LET step == iio_device_get_sample_size_mask(dev.channels, m)
        at(c) == LET upto == SelectSeq(In(dev.channels, m), LAMBDA i : i <= c)
                 IN  Placed(dev.channels, upto).size - Storage(dev.channels[c])
        \* Channels of one index have their own bits in the bytes they share.
        Added(b, p, s) == [a \in DOMAIN b |-> IF a \in p + 1..p + Len(s) THEN b[a] + s[a - p]
                                                                       ELSE b[a]]
        Put(b, c) == FoldLeftDomain(LAMBDA d, k :
                        Added(d, (k - 1) * step + at(c),
                              iio_channel_convert_inverse(dev.channels[c], taken[c][k])),
                        b, taken[c])
    IN  FoldLeft(Put, bytes, In(dev.channels, m))

\* iio_buffer_refill(): the answer's mask m may hold channels other clients
\* enabled, and replaces the buffer's.
Refill(m) ==
    LET size == iio_device_get_sample_size_mask(Chns, m)
        n == (Samples * iio_device_get_sample_size_mask(Chns, mask)) \div size
    IN  /\ phase = "open" /\ ~Tx /\ mask # {} /\ mask \subseteq m /\ n > 0
        /\ \E v \in [m -> SampleValues] :
            /\ samples' = [c \in 1..Len(Chns) |-> IF c \notin m THEN <<>> ELSE
                    [k \in 1..n |-> [r \in 1..Chns[c].format.repeat |->
                        IF (k + r) % 2 = 0
                        THEN convert(Chns[c].format, convert_inverse(Chns[c].format, v[c],
                                                                     Bytes(Chns[c])))
                        ELSE 0]]]
            /\ buffer' = [mask |-> m,
                          bytes |-> Captured(m, samples', [a \in 1..n * size |-> 0])]
        /\ UNCHANGED <<phase, fs, unread, dev, server, client, mask, values, given>>

-----------------------------------------------------------------------------

Wanted(files, vs, written) ==
    [f \in DOMAIN given |->
        IF \E i \in 1..Len(files) : files[i] = f /\ vs[i] > 0 /\ f \notin fs.readonly /\ written
        THEN vs[CHOOSE i \in 1..Len(files) : files[i] = f] ELSE given[f]]

\* iio_device_attr_write_all(), through to the server's files.
iio_device_attr_write_all ==
    /\ phase = "linked" /\ mask = {}
    /\ \E vs \in [1..Len(client.device.attrs) -> Texts] :
        LET sent == \A i \in DOMAIN vs : vs[i] >= 0 IN
        /\ given' = Wanted(client.device.attrs, vs, sent)
        /\ values' = IF sent THEN local_write_all_dev_attrs(dev, write_each_attr(vs), values,
                                                            fs.readonly) ELSE values
    /\ phase' = "written"
    /\ UNCHANGED <<fs, unread, dev, server, client, mask, buffer, samples>>

iio_channel_attr_write_all(c) ==
    /\ phase = "linked" /\ mask = {}
    /\ \E vs \in [1..Len(Chns[c].attrs) -> Texts] :
        LET sent == \A i \in DOMAIN vs : vs[i] >= 0
            files == [i \in DOMAIN vs |-> Chns[c].attrs[i].filename] IN
        /\ given' = Wanted(files, vs, sent)
        /\ values' = IF sent THEN local_write_all_chn_attrs(dev.channels[c], write_each_attr(vs),
                                                            values, fs.readonly) ELSE values
    /\ phase' = "written"
    /\ UNCHANGED <<fs, unread, dev, server, client, mask, buffer, samples>>

Next ==
    \/ ReadEntry \/ NextDirectory \/ CreateDevice \/ ScanFails
    \/ CreateContext \/ CreateClient \/ CreateBuffer
    \/ \E c \in 1..Len(Chns) : Enable(c) \/ Disable(c) \/ WriteChannel(c)
    \/ \E m \in SUBSET {c \in 1..Len(Chns) : Chns[c].index >= 0} : Refill(m)
    \/ iio_device_attr_write_all
    \/ \E c \in 1..Len(Chns) : iio_channel_attr_write_all(c)

Spec == Init /\ [][Next]_vars
-----------------------------------------------------------------------------

HasTree == phase \in {"debug", "described", "refused", "linked", "open", "written"}

Holders(f) == {c \in 1..Len(dev.channels) :
                  \E i \in 1..Len(dev.channels[c].attrs) : dev.channels[c].attrs[i].filename = f}

Own(f) == {c \in 1..Len(dev.channels) : /\ dev.channels[c].id = get_channel_id(f)
                                        /\ dev.channels[c].out = (f.dir = "out")}

\* The numbered or modified channels of the type a file without number names.
OfType(f) == {c \in 1..Len(dev.channels) :
                 /\ dev.channels[c].id.type = f.type /\ dev.channels[c].out = (f.dir = "out")
                 /\ dev.channels[c].id.num # NoNum \/ dev.channels[c].id.mod # NoMod}

OfName(f) == {c \in OfType(f) : /\ dev.channels[c].id.num # NoNum
                                /\ Leads(dev.channels[c].name, f.rest)}

SharedBy(f) == IF OfName(f) # {} THEN OfName(f)
               ELSE IF OfType(f) # {} THEN OfType(f) ELSE Own(f)

Told(c, word) == {f \in fs.scan \cap DOMAIN fs.content : c \in Own(f) /\ Last(f.rest) = word}

\* In whatever order readdir() gives the files of the three directories, and
\* though extended names are only known at the end, every file ends where its
\* name says: a channel's own files with that one channel, a shared one with
\* all channels of its name or else of its type, the others with the device;
\* and index and format are those of the channel's own scan element files
\* (create_device, add_channel, detect_and_move_global_attrs).
TreeIsTheDirectory ==
    HasTree /\ ~dev.err =>
        /\ \A f \in fs.attrs :
            CASE is_channel(f, TRUE) -> Holders(f) = Own(f) /\ Cardinality(Own(f)) = 1
              [] f.dir # "none" /\ ~is_channel(f, TRUE) ->
                    Holders(f) = SharedBy(f) /\ SharedBy(f) # {}
              [] OTHER -> Holders(f) = {}
        /\ \A f \in fs.attrs : (f.dir = "none" /\ f.rest \notin {<<"name">>, <<"label">>, <<"dev">>})
                                  <=> (f \in ToSet(dev.attrs))
        /\ \A c \in 1..Len(dev.channels) :
            /\ dev.channels[c].scan = (\E f \in fs.scan : c \in Own(f))
            /\ \A f \in Told(c, "index") : dev.channels[c].index = fs.content[f]
            /\ \A f \in Told(c, "type") : /\ dev.channels[c].format.length = fs.content[f].length
                                          /\ dev.channels[c].format.shift = fs.content[f].shift

Linked == phase \in {"linked", "open", "written"}

\* A bit of a mask, a sample and an attribute mean the same at both ends:
\* channel by channel the client has what the server has, in the same order
\* although both sort for themselves, its formats lose nothing but the scale's
\* digits after the sixth, and an attribute's name leads the server to the file
\* the client was told of (reorder_channels, xml.c, iio_channel_find_attr).
\* A context is refused only for a scan element without index or for markup.
BothEndsAgree ==
    /\ Linked =>
        /\ Len(Chns) = Len(dev.channels)
        /\ client.device.attrs = dev.attrs /\ client.device.name = dev.name
        /\ client.attrs = ContextAttrs(fs.ini)
        /\ \A c \in 1..Len(Chns) :
            LET mine == Chns[c]
                its == dev.channels[c]
                exact == [its.format EXCEPT !.scale = mine.format.scale] IN
            /\ mine.id = its.id /\ mine.out = its.out /\ mine.name = its.name
            /\ mine.scan = its.scan /\ mine.index = its.index
            /\ mine.scan => /\ mine.format = exact
                            /\ mine.format.scale - its.format.scale \in -500..500
            /\ \A i \in 1..Len(mine.attrs) :
                LET found == iio_channel_find_attr(its, mine.attrs[i].name) IN
                /\ found # <<>>
                /\ get_filename(its, found[1]) = mine.attrs[i].filename
    /\ phase = "refused" =>
        \/ dev.name \in Markup \/ dev.label \in Markup
        \/ \E c \in 1..Len(dev.channels) : dev.channels[c].scan /\ dev.channels[c].index < 0

\* The premise of SamplesAreKept: each channel has a place of its own, or shares
\* it with the channel before it, which is in the mask too and not written.
Regular(m) ==
    \A c \in m : (c > 1 /\ Chns[c].index = Chns[c - 1].index) => c - 1 \in m /\ ~Tx

\* What was put into the buffer last is what reading the channel gives, sample
\* for sample: whatever channels are enabled, in whatever order they are
\* written, with channels of other clients in between and with channels
\* disabled since, no sample lies on another's place, and the conversions
\* undo each other (iio_device_get_sample_size_mask, iio_buffer_first,
\* iio_channel_convert, iio_channel_convert_inverse).
SamplesAreKept ==
    phase = "open" /\ Regular(buffer.mask) =>
        \A c \in mask :
            LET got == iio_channel_read(Chns, buffer.mask, c, buffer.bytes) IN
            \A k \in 1..Len(samples[c]) : k <= Len(got) /\ got[k] = samples[c][k]

Readable(names, files) ==
    LET at == SelectSeq([i \in 1..Len(names) |-> i], LAMBDA i : values[files[i]] > 0)
    IN  [k \in 1..Len(at) |-> <<names[at[k]], values[files[at[k]]]>>]

\* The blocks carry no names, and still each callback hears the value of the
\* attribute it is told, for the device and for every channel, with texts that
\* fill their last cell and texts that do not; and what a write callback
\* answers is in that attribute's file and in no other (read_each_attr,
\* write_each_attr, local_read_all_*, local_write_all_*).
ValuesReachTheirNames ==
    Linked =>
        /\ values = given
        /\ LET got == iio_device_attr_read_all(client.device,
                        local_read_all_dev_attrs(dev, values, BlockLen))
           IN  got.err = 0 /\ got.told = Readable(dev.attrs, dev.attrs)
        /\ \A c \in 1..Len(Chns) :
            LET got == iio_channel_attr_read_all(Chns[c],
                        local_read_all_chn_attrs(dev.channels[c], values, BlockLen))
                names == [i \in 1..Len(Chns[c].attrs) |-> Chns[c].attrs[i].name]
                files == [i \in 1..Len(Chns[c].attrs) |-> Chns[c].attrs[i].filename]
            IN  got.err = 0 /\ got.told = Readable(names, files)

\* Every enabled channel's sample in every step of the buffer, in order, at the
\* place iio_buffer_first() and iio_buffer_step() give.
EachSample ==
    LET step == iio_device_get_sample_size_mask(Chns, buffer.mask)
        wanted == In(Chns, buffer.mask \cap mask)
    IN  FlattenSeq([k \in 1..(Len(buffer.bytes) \div step) |-> [j \in 1..Len(wanted) |->
            <<wanted[j], iio_buffer_first(Chns, buffer.mask, wanted[j]) + (k - 1) * step>>]])

\* iio.h: "Call the supplied callback for each sample found in a buffer".
ForeachFindsEachSample ==
    phase = "open" =>
        iio_buffer_foreach_sample(Chns, buffer.mask, mask, Len(buffer.bytes), Samples + 1)
            = EachSample
=============================================================================
