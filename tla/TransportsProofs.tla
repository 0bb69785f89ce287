-------------------------- MODULE TransportsProofs --------------------------
(***************************************************************************)
(* Proofs about Transports: each of the three implements Pipe and pushes   *)
(* back, for any items, any sizes of frames and any limits.                *)
(***************************************************************************)
EXTENDS Transports, TLAPS

\* A frame has at least its length, an empty buffer is not flushed first, and
\* the limits are numbers.
Sizes ==
  /\ size \in [Items -> Nat \ {0}]
  /\ capacity \in Nat /\ Boundary \in Nat \ {0}
  /\ max_frame_length \in [{"tx", "rx"} -> Nat]

-----------------------------------------------------------------------------
(* The invariant                                                           *)

Chunks == [item : Items, chunk : Nat]

Types ==
  /\ kind \in {"none", "unbounded", "bounded", "serde"}
  /\ sent \in Seq(Items) /\ seen \in Seq(Items) /\ end \in {"none", "eof", "error"}
  /\ buffer \in Seq(Chunks) /\ read \in Seq(Chunks)
  /\ kind = "serde" => wire \in Seq(Chunks)
  /\ kind # "serde" => wire \in Seq(Items) /\ buffer = << >> /\ read = << >>
  /\ tx \in {"open", "closed", "failed", "dropped"} /\ rx \in {"open", "dropped"}
  /\ unsent \in BOOLEAN

\* What is lost, is lost with the sink.
Ends ==
  /\ kind = "none" => sent = << >> /\ wire = << >>
  /\ tx \in {"closed", "dropped"} => buffer = << >>
  /\ unsent => tx = "dropped"

\* What has come out went in, in this order.
Prefix ==
  /\ Len(seen) <= Len(sent)
  /\ \A k \in 1..Len(seen) : seen[k] = sent[k]

\* The channels: what is between the ends are the items sent and not seen.
Queued ==
  /\ Len(sent) = Len(seen) + Len(wire)
  /\ \A k \in 1..Len(wire) : wire[k] = sent[Len(seen) + k]

\* The socket: the chunks between the ends, from the decoder back to the
\* encoder, are the frames of the items sent and not seen.  off[k] is where the
\* frame of item k ends.  A dropped sink may leave the last of them out.
Total == Len(read) + Len(wire) + Len(buffer)
At(p) == IF p <= Len(read) THEN read[p]
         ELSE IF p <= Len(read) + Len(wire) THEN wire[p - Len(read)]
         ELSE buffer[p - (Len(read) + Len(wire))]

Offsets(off, items) ==
  /\ off \in [0..Len(items) -> Nat]
  /\ \A k \in 1..Len(items) : off[k] = off[k - 1] + size[items[k]]
  /\ \A j, k \in 0..Len(items) : j <= k => off[j] <= off[k]

Framed(off) ==
  /\ \A k \in (Len(seen) + 1)..Len(sent) : \A n \in 1..size[sent[k]] : \A p \in 1..Total :
       p = (off[k - 1] - off[Len(seen)]) + n => At(p) = [item |-> sent[k], chunk |-> n]
  /\ Total <= off[Len(sent)] - off[Len(seen)]
  /\ ~unsent => Total = off[Len(sent)] - off[Len(seen)]

Streamed == \E off : Offsets(off, sent) /\ Framed(off)

Inv ==
  /\ Types /\ Ends /\ Prefix /\ Bounded
  /\ rx = "open" /\ end = "none" => IF kind = "serde" THEN Streamed ELSE Queued

-----------------------------------------------------------------------------
(* Sequences                                                               *)

\* A send into a channel, or a chunk that moves on.
LEMMA Push ==
  ASSUME NEW S, NEW s \in Seq(S), NEW e \in S
  PROVE /\ Append(s, e) \in Seq(S) /\ Len(s) \in Nat /\ Len(Append(s, e)) = Len(s) + 1
        /\ Append(s, e)[Len(s) + 1] = e
        /\ \A k \in 1..Len(s) : Append(s, e)[k] = s[k] /\ s[k] \in S
BY SMTT(30)

\* A receive from one.
LEMMA Pop ==
  ASSUME NEW S, NEW s \in Seq(S), s # << >>
  PROVE /\ Head(s) \in S /\ Head(s) = s[1] /\ Tail(s) \in Seq(S)
        /\ Len(s) \in Nat \ {0} /\ Len(Tail(s)) = Len(s) - 1
        /\ \A k \in 1..Len(Tail(s)) : Tail(s)[k] = s[k + 1]
BY SMTT(30)

\* The encoder: a frame is put behind what is in the write buffer.
LEMMA Encode ==
  ASSUME Sizes, NEW s \in Seq(Chunks), NEW i \in Items
  PROVE /\ s \o frame(i) \in Seq(Chunks) /\ Len(s) \in Nat
        /\ Len(s \o frame(i)) = Len(s) + size[i]
        /\ \A k \in 1..Len(s) : (s \o frame(i))[k] = s[k]
        /\ \A n \in 1..size[i] : (s \o frame(i))[Len(s) + n] = [item |-> i, chunk |-> n]
<1>1. size[i] \in Nat
  BY Zenon DEF Sizes
<1>2. frame(i) \in Seq(Chunks) /\ Len(frame(i)) = size[i]
  <2>1. \A n \in 1..size[i] : [item |-> i, chunk |-> n] \in Chunks
    BY <1>1, SMTT(30) DEF Chunks
  <2> QED BY <1>1, <2>1, SMTT(30) DEF frame
<1>3. \A n \in 1..size[i] : frame(i)[n] = [item |-> i, chunk |-> n]
  BY Zenon DEF frame
<1> HIDE DEF frame
<1> QED BY <1>1, <1>2, <1>3, SMTT(30)

\* The decoder: a frame is cut off from what was read.
LEMMA Cut ==
  ASSUME NEW S, NEW s \in Seq(S), NEW n \in Nat, n <= Len(s)
  PROVE /\ SubSeq(s, n + 1, Len(s)) \in Seq(S) /\ Len(SubSeq(s, n + 1, Len(s))) = Len(s) - n
        /\ \A k \in 1..(Len(s) - n) : SubSeq(s, n + 1, Len(s))[k] = s[n + k]
BY SMTT(30)

-----------------------------------------------------------------------------
(* The byte stream                                                         *)

\* The write buffer, the socket and the read buffer hold numbers of chunks.
LEMMA Lengths ==
  ASSUME Types, kind = "serde"
  PROVE /\ Len(sent) \in Nat /\ Len(seen) \in Nat
        /\ Len(read) \in Nat /\ Len(wire) \in Nat /\ Len(buffer) \in Nat /\ Total \in Nat
        /\ \A k \in 1..Len(sent) : sent[k] \in Items
BY SMTT(30) DEF Types, Total

\* Chunks that move on (Flush, Read), or are lost from the write buffer with
\* the sink (DropTx): those that remain have their places.
LEMMA StreamedKept ==
  ASSUME Types, Types', Prefix, Sizes, kind = "serde", Streamed,
         UNCHANGED <<kind, sent, seen>>, Total' <= Total,
         ~unsent' => ~unsent /\ Total' = Total,
         \A p \in 1..Total' : At(p)' = At(p)
  PROVE Streamed'
<1>1. PICK off : Offsets(off, sent) /\ Framed(off)
  BY Zenon DEF Streamed
<1>2. Offsets(off, sent')
  BY <1>1, Zenon
<1>3. Total \in Nat /\ Total' \in Nat /\ Len(sent) \in Nat /\ Len(seen) \in Nat
  BY Lengths, SMTT(30) DEF Types, Total
<1>4. ASSUME NEW k \in (Len(seen) + 1)..Len(sent), NEW n \in 1..size[sent[k]],
             NEW p \in 1..Total', p = (off[k - 1] - off[Len(seen)]) + n
      PROVE At(p)' = [item |-> sent[k], chunk |-> n]
  BY <1>1, <1>3, <1>4, SMTT(30) DEF Framed
<1>5. /\ Total' <= off[Len(sent)] - off[Len(seen)]
      /\ ~unsent' => Total' = off[Len(sent)] - off[Len(seen)]
  <2>1. off[Len(sent)] \in Nat /\ off[Len(seen)] \in Nat
    BY <1>1, <1>3, SMTT(30) DEF Offsets, Prefix
  <2> QED BY <1>1, <1>3, <2>1, SMTT(30) DEF Framed
<1>6. Framed(off)'
  BY <1>4, <1>5, Zenon DEF Framed
<1> QED BY <1>2, <1>6, Zenon DEF Streamed

\* Where the frame of a further item ends.
LEMMA Extend ==
  ASSUME Sizes, NEW s \in Seq(Items), NEW i \in Items, NEW off, Offsets(off, s)
  PROVE \E ext : /\ Offsets(ext, Append(s, i))
                 /\ ext[Len(s) + 1] = off[Len(s)] + size[i]
                 /\ \A k \in 0..Len(s) : ext[k] = off[k]
<1>1. PICK N \in Nat : N = Len(s)
  BY SMTT(30)
<1>2. PICK t \in Seq(Items) : t = Append(s, i)
  BY Push, Zenon
<1>3. Len(t) = N + 1 /\ t[N + 1] = i /\ \A k \in 1..N : t[k] = s[k] /\ s[k] \in Items
  BY <1>1, <1>2, Push, SMTT(30)
<1>4. /\ off \in [0..N -> Nat] /\ size[i] \in Nat
      /\ \A k \in 1..N : off[k] = off[k - 1] + size[s[k]]
      /\ \A j, k \in 0..N : j <= k => off[j] <= off[k]
  BY <1>1, Zenon DEF Offsets, Sizes
<1> HIDE DEF Offsets
<1> DEFINE ext == [k \in 0..(N + 1) |-> IF k \in 0..N THEN off[k] ELSE off[N] + size[i]]
<1>5. N \in 0..N /\ N + 1 \notin 0..N /\ \A k \in 0..N : k \in 0..(N + 1)
  BY SMTT(30)
<1>6. ext[N + 1] = off[N] + size[i] /\ \A k \in 0..N : ext[k] = off[k]
  BY <1>5, SMTT(30)
<1>7. ext \in [0..(N + 1) -> Nat]
  <2>1. off[N] + size[i] \in Nat
    BY <1>4, <1>5, SMTT(30)
  <2> QED BY <1>4, <2>1, Zenon
<1> HIDE DEF ext
<1>8. ASSUME NEW k \in 1..(N + 1) PROVE ext[k] = ext[k - 1] + size[t[k]]
  <2>1. CASE k = N + 1
    BY <1>3, <1>5, <1>6, <2>1, SMTT(30)
  <2>2. CASE k \in 1..N
    <3>1. k \in 0..N /\ k - 1 \in 0..N
      BY <2>2, SMTT(30)
    <3> QED BY <1>3, <1>4, <1>6, <2>2, <3>1, Zenon
  <2> QED BY <2>1, <2>2, SMTT(30)
<1>9. ASSUME NEW j \in 0..(N + 1), NEW k \in 0..(N + 1), j <= k PROVE ext[j] <= ext[k]
  <2>1. CASE k = N + 1
    <3>1. CASE j = N + 1
      BY <1>7, <2>1, <3>1, SMTT(30)
    <3>2. CASE j \in 0..N
      <4>1. off[j] <= off[N] /\ off[j] \in Nat /\ off[N] \in Nat
        BY <1>4, <1>5, <3>2, SMTT(30)
      <4> QED BY <1>4, <1>6, <2>1, <3>2, <4>1, SMTT(30)
    <3> QED BY <3>1, <3>2, SMTT(30)
  <2>2. CASE k \in 0..N
    <3>1. j \in 0..N
      BY <1>9, <2>2, SMTT(30)
    <3> QED BY <1>4, <1>6, <1>9, <2>2, <3>1, Zenon
  <2> QED BY <2>1, <2>2, SMTT(30)
<1>10. Offsets(ext, t)
  BY <1>3, <1>7, <1>8, <1>9, Zenon DEF Offsets
<1> QED BY <1>1, <1>2, <1>6, <1>10, Zenon

\* A chunk of a frame lies before the end of the last frame.
LEMMA Position ==
  ASSUME NEW a \in Nat, NEW b \in Nat, NEW c \in Nat, NEW d \in Nat, NEW w \in Nat,
         NEW n \in 1..w, a <= b, c = b + w, c <= d
  PROVE (b - a) + n \in 1..(d - a)
BY SMTT(30)

\* Its place once the frame before it is cut off.
LEMMA Shift ==
  ASSUME NEW a \in Nat, NEW b \in Nat, NEW w \in Nat, NEW n \in Int
  PROVE ((a - (b + w)) + n) + w = (a - b) + n
BY SMTT(30)

\* The place of a chunk that is still on its way, once a frame is cut off.
LEMMA Past ==
  ASSUME NEW r \in Nat, NEW s \in Int, NEW w \in Nat, NEW x \in Nat, NEW p \in Int, NEW q,
         s = r - w, q = p + w, ~(p <= s)
  PROVE /\ ~(q <= r)
        /\ (p <= s + x) <=> (q <= r + x)
        /\ p - s = q - r
        /\ p - (s + x) = q - (r + x)
BY SMTT(30)

\* start_send appends the frame of the item to the stream.
LEMMA StreamedSend ==
  ASSUME Types, Prefix, Sizes, kind = "serde", Streamed, ~unsent,
         NEW i \in Items, send_frame(i), sent' = Append(sent, i),
         UNCHANGED <<kind, seen, read, unsent>>
  PROVE Streamed'
<1>1. PICK off : Offsets(off, sent) /\ Framed(off)
  BY Zenon DEF Streamed
<1>3. /\ Total \in Nat /\ Len(sent) \in Nat /\ Len(seen) \in Nat /\ Len(seen) <= Len(sent)
      /\ size[i] \in Nat /\ \A k \in 1..Len(sent) : sent[k] \in Items /\ size[sent[k]] \in Nat
  BY Lengths, Zenon DEF Prefix, Sizes
<1>4. /\ Len(sent') = Len(sent) + 1 /\ sent'[Len(sent) + 1] = i
      /\ \A k \in 1..Len(sent) : sent'[k] = sent[k]
  BY Push, SMTT(30) DEF Types
<1>5. /\ Total' = Total + size[i]
      /\ \A p \in 1..Total : At(p)' = At(p)
      /\ \A n \in 1..size[i] : \A p : p = Total + n => At(p)' = [item |-> i, chunk |-> n]
  <2>1. buffer \in Seq(Chunks) /\ buffer' = buffer \o frame(i) /\ wire' = wire /\ read' = read
    BY Zenon DEF Types, send_frame
  <2>2. /\ Len(buffer') = Len(buffer) + size[i]
        /\ \A k \in 1..Len(buffer) : buffer'[k] = buffer[k]
        /\ \A n \in 1..size[i] : buffer'[Len(buffer) + n] = [item |-> i, chunk |-> n]
    BY <2>1, Encode, ZenonT(40)
  <2>3. /\ Len(read) \in Nat /\ Len(wire) \in Nat /\ Len(buffer) \in Nat
        /\ Len(read') = Len(read) /\ Len(wire') = Len(wire)
    BY <2>1, Lengths, Zenon
  <2>4. Total' = Total + size[i]
    BY <1>3, <2>2, <2>3, SMTT(30) DEF Total
  <2>5. ASSUME NEW p \in 1..Total PROVE At(p)' = At(p)
    <3>1. CASE p <= Len(read) + Len(wire)
      BY <2>1, <2>3, <3>1, Zenon DEF At
    <3>2. CASE ~(p <= Len(read) + Len(wire))
      <4>1. p - (Len(read) + Len(wire)) \in 1..Len(buffer) /\ ~(p <= Len(read))
        BY <2>3, <3>2, SMTT(30) DEF Total
      <4> QED BY <2>1, <2>2, <2>3, <3>2, <4>1, Zenon DEF At
    <3> QED BY <3>1, <3>2, Zenon
  <2>6. ASSUME NEW n \in 1..size[i], NEW p, p = Total + n
        PROVE At(p)' = [item |-> i, chunk |-> n]
    <3>1. /\ p - (Len(read) + Len(wire)) = Len(buffer) + n
          /\ ~(p <= Len(read)) /\ ~(p <= Len(read) + Len(wire))
      BY <1>3, <2>3, <2>6, SMTT(30) DEF Total
    <3>2. At(p)' = buffer'[Len(buffer) + n]
      BY <2>1, <2>3, <3>1, Zenon DEF At
    <3> QED BY <2>2, <3>2, Zenon
  <2> QED BY <2>4, <2>5, <2>6, Zenon
<1>6. \A k \in 0..Len(sent) : off[k] \in Nat
  BY <1>1, Zenon DEF Offsets
<1>7. PICK ext : /\ Offsets(ext, sent')
                 /\ ext[Len(sent) + 1] = off[Len(sent)] + size[i]
                 /\ \A k \in 0..Len(sent) : ext[k] = off[k]
  BY <1>1, Extend, SMTT(30) DEF Types
<1>8. Total = off[Len(sent)] - off[Len(seen)]
  BY <1>1, Zenon DEF Framed
<1>9. ASSUME NEW k \in (Len(seen) + 1)..(Len(sent) + 1), NEW n \in 1..size[sent'[k]],
              NEW p, p = (ext[k - 1] - ext[Len(seen)]) + n
       PROVE At(p)' = [item |-> sent'[k], chunk |-> n]
  <2>1. CASE k = Len(sent) + 1
    <3>1. k - 1 = Len(sent) /\ Len(sent) \in 0..Len(sent) /\ Len(seen) \in 0..Len(sent)
      BY <1>3, <2>1, SMTT(30)
    <3>2. ext[k - 1] = off[Len(sent)] /\ ext[Len(seen)] = off[Len(seen)]
      BY <1>7, <3>1, Zenon
    <3>3. p = Total + n
      BY <1>8, <1>9, <3>2, Zenon
    <3> QED BY <1>4, <1>5, <2>1, <3>3, Zenon
  <2>2. CASE k \in 1..Len(sent)
    <3>1. /\ k - 1 \in 0..Len(sent) /\ Len(seen) <= k - 1 /\ Len(seen) \in 0..Len(sent)
          /\ k \in 0..Len(sent) /\ Len(sent) \in 0..Len(sent) /\ k <= Len(sent) /\ k - 1 <= k
          /\ k \in (Len(seen) + 1)..Len(sent)
          /\ sent'[k] = sent[k] /\ n \in 1..size[sent[k]] /\ size[sent[k]] \in Nat
      BY <1>3, <1>4, <2>2, SMTT(30)
    <3>2. p = (off[k - 1] - off[Len(seen)]) + n
      BY <1>7, <1>9, <3>1, Zenon
    <3>3. /\ off[Len(seen)] <= off[k - 1] /\ off[k] = off[k - 1] + size[sent[k]]
          /\ off[k] <= off[Len(sent)]
      BY <1>1, <2>2, <3>1, Zenon DEF Offsets
    <3>4. /\ off[Len(seen)] \in Nat /\ off[k - 1] \in Nat
          /\ off[k] \in Nat /\ off[Len(sent)] \in Nat
      BY <1>6, <3>1, Zenon
    <3>5. (off[k - 1] - off[Len(seen)]) + n \in 1..(off[Len(sent)] - off[Len(seen)])
      BY <3>1, <3>3, <3>4, Position, Zenon
    <3>6. p \in 1..Total
      BY <1>8, <3>2, <3>5, Zenon
    <3>7. At(p) = [item |-> sent[k], chunk |-> n]
      BY <1>1, <3>1, <3>2, <3>6, Zenon DEF Framed
    <3> QED BY <1>5, <3>1, <3>6, <3>7, Zenon
  <2> QED BY <1>3, <2>1, <2>2, SMTT(30)
<1>10. Total' = ext[Len(sent) + 1] - ext[Len(seen)]
  <2>1. Len(seen) \in 0..Len(sent) /\ Len(sent) \in 0..Len(sent)
    BY <1>3, SMTT(30)
  <2>2. PICK a \in Nat, b \in Nat, w \in Nat :
          a = off[Len(seen)] /\ b = off[Len(sent)] /\ w = size[i]
    BY <1>3, <1>6, <2>1, Zenon
  <2>3. Total' = (b - a) + w
    BY <1>5, <1>8, <2>2, Zenon
  <2>4. ext[Len(sent) + 1] = b + w /\ ext[Len(seen)] = a
    BY <1>7, <2>1, <2>2, Zenon
  <2>5. (b - a) + w = (b + w) - a
    BY SMTT(30)
  <2> QED BY <2>3, <2>4, <2>5, Zenon
<1>11. Framed(ext)'
  <2>1. Len(sent') = Len(sent) + 1 /\ Len(seen') = Len(seen) /\ ~unsent'
    BY <1>4, Zenon
  <2>2. Total' <= ext[Len(sent')] - ext[Len(seen')]
    BY <1>3, <1>5, <1>10, <2>1, SMTT(30)
  <2> QED BY <1>9, <1>10, <2>1, <2>2, ZenonT(40) DEF Framed
<1> QED BY <1>7, <1>11, Zenon DEF Streamed

\* What was read begins with the frame of the next item.
LEMMA FirstFrame ==
  ASSUME Types, Prefix, Sizes, kind = "serde", read # << >>,
         NEW off, Offsets(off, sent), Framed(off)
  PROVE /\ Len(seen) < Len(sent) /\ Head(read).item = sent[Len(seen) + 1]
        /\ Len(seen) + 1 \in 1..Len(sent)
        /\ off[Len(seen) + 1] = off[Len(seen)] + size[Head(read).item]
<1>1. /\ Len(sent) \in Nat /\ Len(seen) \in Nat /\ Len(seen) <= Len(sent)
      /\ Total \in Nat /\ Len(read) \in Nat /\ Len(wire) \in Nat /\ Len(buffer) \in Nat
      /\ \A k \in 1..Len(sent) : size[sent[k]] \in Nat \ {0}
  BY Lengths, Zenon DEF Prefix, Sizes
<1>2. Head(read) = read[1] /\ Len(read) \in Nat \ {0}
  BY Pop, Zenon DEF Types
<1>3. 1 \in 1..Total /\ At(1) = Head(read)
  BY <1>1, <1>2, SMTT(30) DEF Total, At
<1>4. off[Len(sent)] \in Nat /\ off[Len(seen)] \in Nat
  BY <1>1, SMTT(30) DEF Offsets
<1>5. Len(seen) < Len(sent)
  <2>1. off[Len(sent)] # off[Len(seen)]
    BY <1>1, <1>3, <1>4, SMTT(30) DEF Framed
  <2> QED BY <1>1, <2>1, SMTT(30)
<1>6. Len(seen) + 1 \in 1..Len(sent) /\ (Len(seen) + 1) - 1 = Len(seen)
  BY <1>1, <1>5, SMTT(30)
<1>7. 1 \in 1..size[sent[Len(seen) + 1]] /\ Len(seen) + 1 \in (Len(seen) + 1)..Len(sent)
  BY <1>1, <1>6, SMTT(30)
<1>8. At(1) = [item |-> sent[Len(seen) + 1], chunk |-> 1]
  <2>1. 1 = (off[(Len(seen) + 1) - 1] - off[Len(seen)]) + 1
    BY <1>4, <1>6, SMTT(30)
  <2> QED BY <1>3, <1>7, <2>1, Zenon DEF Framed
<1>9. Head(read).item = sent[Len(seen) + 1]
  BY <1>3, <1>8, SMTT(30)
<1>10. off[Len(seen) + 1] = off[Len(seen)] + size[sent[Len(seen) + 1]]
  BY <1>6, Zenon DEF Offsets
<1> QED BY <1>5, <1>6, <1>9, <1>10, Zenon

\* The decoder cuts off the frame of the item it yields.
LEMMA StreamedDecode ==
  ASSUME Types, Prefix, Sizes, kind = "serde", Streamed, Decode, end' = "none"
  PROVE Streamed'
<1>1. PICK off : Offsets(off, sent) /\ Framed(off)
  BY Zenon DEF Streamed
<1>2. PICK i \in Items : /\ Len(seen) + 1 \in 1..Len(sent) /\ sent[Len(seen) + 1] = i
                         /\ off[Len(seen) + 1] = off[Len(seen)] + size[i]
                         /\ i = Head(read).item
  <2>1. read # << >>
    BY Zenon DEF Decode
  <2> QED BY <1>1, <2>1, FirstFrame, Lengths, Zenon
<1>3. /\ Len(sent) \in Nat /\ Len(seen) \in Nat /\ size[i] \in Nat
      /\ Len(read) \in Nat /\ Len(wire) \in Nat /\ Len(buffer) \in Nat /\ Total \in Nat
  BY Lengths, Zenon DEF Sizes
<1>4. /\ Len(read) >= size[i] /\ Len(seen') = Len(seen) + 1
      /\ UNCHANGED <<kind, sent, buffer, wire, unsent>>
  <2>1. seen' = Append(seen, i) /\ complete /\ UNCHANGED <<kind, sent, buffer, wire, unsent>>
    BY <1>2, Zenon DEF Decode
  <2> QED BY <1>2, <2>1, Push, SMTT(30) DEF Types, complete
<1>5. /\ Len(read') = Len(read) - size[i]
      /\ \A k \in 1..(Len(read) - size[i]) : read'[k] = read[size[i] + k]
  <2>1. read \in Seq(Chunks) /\ size[i] <= Len(read)
    BY <1>3, <1>4, Zenon DEF Types
  <2>2. read' = SubSeq(read, size[i] + 1, Len(read))
    BY <1>2, Zenon DEF Decode
  <2> QED BY <1>3, <2>1, <2>2, Cut, Zenon
<1>6. Total' = Total - size[i]
  BY <1>3, <1>4, <1>5, SMTT(30) DEF Total
<1>7. ASSUME NEW p \in 1..Total', NEW q, q = p + size[i] PROVE At(p)' = At(q)
  <2>1. CASE p <= Len(read')
    <3>1. p \in 1..(Len(read) - size[i]) /\ q <= Len(read) /\ q = size[i] + p
      BY <1>3, <1>5, <1>7, <2>1, SMTT(30)
    <3> QED BY <1>5, <2>1, <3>1, Zenon DEF At
  <2>2. CASE ~(p <= Len(read'))
    <3>1. /\ ~(q <= Len(read))
          /\ (p <= Len(read') + Len(wire)) <=> (q <= Len(read) + Len(wire))
          /\ p - Len(read') = q - Len(read)
          /\ p - (Len(read') + Len(wire)) = q - (Len(read) + Len(wire))
      <4>1. PICK r \in Nat, w \in Nat, x \in Nat : r = Len(read) /\ w = size[i] /\ x = Len(wire)
        BY <1>3, Zenon
      <4>2. PICK t \in Int : t = Len(read')
        BY <1>3, <1>5, SMTT(30)
      <4>3. p \in Int /\ q = p + w /\ t = r - w /\ ~(p <= t)
        BY <1>5, <1>7, <2>2, <4>1, <4>2, SMTT(30)
      <4>4. /\ ~(q <= r)
            /\ (p <= t + x) <=> (q <= r + x)
            /\ p - t = q - r /\ p - (t + x) = q - (r + x)
        BY <4>3, Past, SMTT(30)
      <4> QED BY <4>1, <4>2, <4>4, Zenon
    <3> QED BY <1>4, <2>2, <3>1, Zenon DEF At
  <2> QED BY <2>1, <2>2, Zenon
<1>8. /\ off[Len(seen)] \in Nat /\ off[Len(seen) + 1] \in Nat /\ off[Len(sent)] \in Nat
      /\ \A k \in (Len(seen) + 2)..Len(sent) : off[k - 1] \in Nat
  <2>1. \A k \in 0..Len(sent) : off[k] \in Nat
    BY <1>1, Zenon DEF Offsets
  <2>2. /\ Len(seen) \in 0..Len(sent) /\ Len(seen) + 1 \in 0..Len(sent)
        /\ Len(sent) \in 0..Len(sent)
        /\ \A k \in (Len(seen) + 2)..Len(sent) : k - 1 \in 0..Len(sent)
    BY <1>2, <1>3, SMTT(30)
  <2> QED BY <2>1, <2>2, Zenon
<1>9. ASSUME NEW k \in (Len(seen) + 2)..Len(sent), NEW n \in 1..size[sent[k]],
             NEW p \in 1..Total', p = (off[k - 1] - off[Len(seen) + 1]) + n
      PROVE At(p)' = [item |-> sent[k], chunk |-> n]
  <2>1. PICK q \in Int : q = p + size[i]
    BY <1>3, SMTT(30)
  <2>2. q \in 1..Total
    <3>1. PICK t \in Nat, w \in Nat : t = Total /\ w = size[i]
      BY <1>3, Zenon
    <3>2. p \in 1..(t - w) /\ q = p + w
      BY <1>6, <2>1, <3>1, Zenon
    <3>3. q \in 1..t
      BY <3>2, SMTT(30)
    <3> QED BY <3>1, <3>3, Zenon
  <2>3. q = (off[k - 1] - off[Len(seen)]) + n
    <3>1. off[k - 1] \in Nat /\ n \in Int
      BY <1>8, SMTT(30)
    <3>2. p = (off[k - 1] - (off[Len(seen)] + size[i])) + n
      BY <1>2, <1>9, Zenon
    <3> QED
      <4>1. PICK b \in Nat, w \in Nat : b = off[Len(seen)] /\ w = size[i]
        BY <1>3, <1>8, Zenon
      <4>2. PICK a \in Nat : a = off[k - 1]
        BY <3>1, Zenon
      <4>3. p = (a - (b + w)) + n
        BY <3>2, <4>1, <4>2, Zenon
      <4>4. p + w = (a - b) + n
        <5>1. ((a - (b + w)) + n) + w = (a - b) + n
          BY <3>1, Shift, SMTT(30)
        <5> QED BY <4>3, <5>1, Zenon
      <4> QED BY <2>1, <4>1, <4>2, <4>4, Zenon
  <2>4. k \in (Len(seen) + 1)..Len(sent)
    BY <1>3, SMTT(30)
  <2>5. At(q) = [item |-> sent[k], chunk |-> n]
    BY <1>1, <2>2, <2>3, <2>4, Zenon DEF Framed
  <2> QED BY <1>7, <2>1, <2>5, Zenon
<1>10. /\ Total' <= off[Len(sent)] - off[Len(seen) + 1]
       /\ ~unsent => Total' = off[Len(sent)] - off[Len(seen) + 1]
  <2>1. PICK a \in Nat, d \in Nat, t \in Nat, w \in Nat :
          a = off[Len(seen)] /\ d = off[Len(sent)] /\ t = Total /\ w = size[i]
    BY <1>3, <1>8, Zenon
  <2>2. off[Len(seen) + 1] = a + w /\ Total' = t - w
    BY <1>2, <1>6, <2>1, Zenon
  <2>3. t <= d - a /\ (~unsent => t = d - a)
    BY <1>1, <2>1, Zenon DEF Framed
  <2>4. /\ t <= d - a => t - w <= d - (a + w)
        /\ t = d - a => t - w = d - (a + w)
    BY SMTT(30)
  <2> QED BY <2>1, <2>2, <2>3, <2>4, Zenon
<1>11. Framed(off)'
  <2>1. (Len(seen) + 1) + 1 = Len(seen) + 2
    BY <1>3, SMTT(30)
  <2> QED BY <1>4, <1>9, <1>10, <2>1, SMTT(30) DEF Framed
<1> QED BY <1>1, <1>4, <1>11, Zenon DEF Streamed

\* Once nothing is between the ends, everything has come out, but for what was
\* lost with the sink.
LEMMA Drained ==
  ASSUME Types, Prefix, Sizes, kind = "serde", Streamed, Total = 0
  PROVE Len(seen) = Len(sent) \/ unsent
<1>1. PICK off : Offsets(off, sent) /\ Framed(off)
  BY Zenon DEF Streamed
<1>2. /\ Len(sent) \in Nat /\ Len(seen) \in Nat /\ Len(seen) <= Len(sent)
      /\ \A k \in 1..Len(sent) : size[sent[k]] \in Nat \ {0}
  BY Lengths, Zenon DEF Prefix, Sizes
<1> SUFFICES ASSUME Len(seen) < Len(sent), ~unsent PROVE FALSE
  BY <1>2, SMTT(30)
<1>3. /\ Len(seen) + 1 \in 1..Len(sent) /\ (Len(seen) + 1) - 1 = Len(seen)
      /\ Len(seen) + 1 <= Len(sent) /\ Len(seen) \in 0..Len(sent)
      /\ Len(seen) + 1 \in 0..Len(sent) /\ Len(sent) \in 0..Len(sent)
  BY <1>2, SMTT(30)
<1>4. /\ off[Len(seen) + 1] = off[Len(seen)] + size[sent[Len(seen) + 1]]
      /\ off[Len(seen) + 1] <= off[Len(sent)]
      /\ off[Len(seen)] \in Nat /\ off[Len(sent)] \in Nat
  BY <1>1, <1>3, Zenon DEF Offsets
<1>5. off[Len(sent)] - off[Len(seen)] = 0
  BY <1>1, Zenon DEF Framed
<1>6. size[sent[Len(seen) + 1]] \in Nat \ {0}
  BY <1>2, <1>3, Zenon
<1> QED BY <1>4, <1>5, <1>6, SMTT(30)

-----------------------------------------------------------------------------
(* The steps                                                               *)

\* poll_ready and start_send.
LEMMA SendInv ==
  ASSUME Sizes, Inv, NEW i \in Items, Send(i)
  PROVE Inv'
<1>1. /\ kind \in {"unbounded", "bounded", "serde"} /\ ~unsent
      /\ sent' = Append(sent, i) /\ UNCHANGED <<kind, seen, end, read, tx, rx, unsent>>
  BY Zenon DEF Send, poll_ready, unbounded_ready, bounded_ready, serde_ready, Inv, Ends
<1>2. /\ sent' \in Seq(Items) /\ Len(sent') = Len(sent) + 1 /\ Len(sent) \in Nat
      /\ Len(seen) \in Nat
      /\ sent'[Len(sent) + 1] = i /\ \A k \in 1..Len(sent) : sent'[k] = sent[k]
  BY <1>1, Push, SMTT(30) DEF Inv, Types
<1>3. Prefix'
  BY <1>1, <1>2, SMTT(30) DEF Inv, Prefix
<1>4. CASE kind # "serde"
  <2>1. wire' = Append(wire, i) /\ UNCHANGED buffer /\ wire \in Seq(Items)
    BY <1>4, Zenon DEF Send, send_item, send_frame, Inv, Types
  <2>2. /\ wire' \in Seq(Items) /\ Len(wire) \in Nat /\ Len(wire') = Len(wire) + 1
        /\ wire'[Len(wire) + 1] = i /\ \A k \in 1..Len(wire) : wire'[k] = wire[k]
    BY <2>1, Push, SMTT(30)
  <2>3. Types' /\ Ends'
    BY <1>1, <1>2, <1>4, <2>1, <2>2, Zenon DEF Inv, Types, Ends
  <2>4. Bounded'
    <3>1. kind = "bounded" => Len(wire) <= capacity
      BY Zenon DEF Send, poll_ready, unbounded_ready, bounded_ready, serde_ready
    <3> QED BY <1>1, <1>4, <2>2, <3>1, SMTT(30) DEF Bounded, Sizes
  <2>5. rx = "open" /\ end = "none" => Queued'
    <3> SUFFICES ASSUME Queued PROVE Queued'
      BY <1>4, Zenon DEF Inv
    <3>1. Len(sent') = Len(seen') + Len(wire')
      BY <1>1, <1>2, <2>2, SMTT(30) DEF Queued
    <3>2. ASSUME NEW k \in 1..Len(wire') PROVE wire'[k] = sent'[Len(seen') + k]
      <4>1. CASE k = Len(wire) + 1
        <5>1. Len(seen) + k = Len(sent) + 1
          BY <1>2, <2>2, <4>1, SMTT(30) DEF Queued
        <5> QED BY <1>1, <1>2, <2>2, <4>1, <5>1, Zenon
      <4>2. CASE k \in 1..Len(wire)
        <5>1. Len(seen) + k \in 1..Len(sent)
          BY <1>2, <2>2, <4>2, SMTT(30) DEF Queued
        <5> QED BY <1>1, <1>2, <2>2, <4>2, <5>1, Zenon DEF Queued
      <4> QED BY <2>2, <4>1, <4>2, SMTT(30)
    <3> QED BY <3>1, <3>2, Zenon DEF Queued
  <2> QED BY <1>1, <1>3, <1>4, <2>3, <2>4, <2>5, Zenon DEF Inv
<1>5. CASE kind = "serde"
  <2>1. send_frame(i) /\ size[i] <= max_frame_length["tx"] /\ Len(buffer) < Boundary
    BY <1>5, Zenon
       DEF Send, send_item, send_frame, poll_ready, unbounded_ready, bounded_ready,
                serde_ready
  <2>2. buffer' \in Seq(Chunks) /\ Len(buffer) \in Nat /\ Len(buffer') = Len(buffer) + size[i]
        /\ UNCHANGED wire
    BY <2>1, Encode, Zenon DEF send_frame, Inv, Types
  <2>3. Types' /\ Ends'
    <3>1. tx = "open"
      BY Zenon DEF Send
    <3> QED BY <1>1, <1>2, <1>5, <2>2, <3>1, Zenon DEF Inv, Types, Ends
  <2>4. Bounded'
    <3>1. size[i] \in Nat /\ Boundary \in Nat /\ max_frame_length["tx"] \in Nat
      BY Zenon DEF Sizes
    <3> QED BY <1>1, <1>5, <2>1, <2>2, <3>1, SMTT(30) DEF Bounded
  <2>5. rx = "open" /\ end = "none" => Streamed'
    BY <1>1, <1>5, <2>1, StreamedSend, Zenon DEF Inv
  <2> QED BY <1>1, <1>3, <1>5, <2>3, <2>4, <2>5, Zenon DEF Inv
<1> QED BY <1>4, <1>5, Zenon

\* A chunk moves from one buffer to the next and keeps its place.
LEMMA Moved ==
  ASSUME NEW s \in Seq(Chunks), NEW t \in Seq(Chunks), s # << >>,
         NEW u, u = Append(t, Head(s)), NEW v, v = Tail(s)
  PROVE /\ u \in Seq(Chunks) /\ v \in Seq(Chunks)
        /\ Len(s) \in Nat \ {0} /\ Len(t) \in Nat
        /\ Len(u) = Len(t) + 1 /\ Len(v) = Len(s) - 1
        /\ u[Len(t) + 1] = s[1] /\ \A k \in 1..Len(t) : u[k] = t[k]
        /\ \A k \in 1..(Len(s) - 1) : v[k] = s[k + 1]
<1>1. /\ Head(s) \in Chunks /\ Head(s) = s[1] /\ v \in Seq(Chunks)
      /\ Len(s) \in Nat \ {0} /\ Len(v) = Len(s) - 1
      /\ \A k \in 1..Len(v) : v[k] = s[k + 1]
  BY Pop, Zenon
<1>2. PICK e \in Chunks : e = Head(s)
  BY <1>1, Zenon
<1> QED BY <1>1, <1>2, Push, SMTT(30)

\* poll_flush.
LEMMA FlushInv ==
  ASSUME Sizes, Inv, Flush
  PROVE Inv'
<1>1. kind = "serde" /\ tx = "open" /\ buffer # << >> /\ ~unsent
      /\ UNCHANGED <<kind, sent, seen, end, read, rx, unsent>>
  BY Zenon DEF Flush, Inv, Ends
<1>2. Prefix'
  BY <1>1, Zenon DEF Inv, Prefix
<1>3. CASE rx # "open"
  <2>1. tx' = "failed" /\ UNCHANGED <<wire, buffer>>
    BY <1>3, Zenon DEF Flush
  <2> QED BY <1>1, <1>2, <1>3, <2>1, Zenon DEF Inv, Types, Ends, Bounded
<1>4. CASE rx = "open"
  <2>1. wire' = Append(wire, Head(buffer)) /\ buffer' = Tail(buffer) /\ UNCHANGED tx
    BY <1>4, Zenon DEF Flush
  <2>2. /\ wire' \in Seq(Chunks) /\ buffer' \in Seq(Chunks)
        /\ Len(buffer) \in Nat \ {0} /\ Len(wire) \in Nat
        /\ Len(wire') = Len(wire) + 1 /\ Len(buffer') = Len(buffer) - 1
        /\ wire'[Len(wire) + 1] = buffer[1] /\ \A k \in 1..Len(wire) : wire'[k] = wire[k]
        /\ \A k \in 1..(Len(buffer) - 1) : buffer'[k] = buffer[k + 1]
    BY <1>1, <2>1, Moved, SMTT(30) DEF Inv, Types
  <2>3. Types' /\ Ends'
    BY <1>1, <2>1, <2>2, Zenon DEF Inv, Types, Ends
  <2>4. Bounded'
    <3>1. Boundary \in Nat /\ max_frame_length["tx"] \in Nat
      BY Zenon DEF Sizes
    <3> QED BY <1>1, <2>2, <3>1, SMTT(30) DEF Inv, Bounded
  <2>5. Len(read) \in Nat /\ Total \in Nat /\ Total' = Total
    BY <1>1, <2>2, Lengths, SMTT(30) DEF Inv, Total
  <2>6. ASSUME NEW p \in 1..Total PROVE At(p)' = At(p)
    <3>1. CASE p <= Len(read) + Len(wire)
      <4>1. CASE p <= Len(read)
        BY <1>1, <4>1, Zenon DEF At
      <4>2. CASE ~(p <= Len(read))
        <5>1. p - Len(read) \in 1..Len(wire) /\ p <= Len(read) + Len(wire')
          BY <2>2, <2>5, <3>1, <4>2, SMTT(30)
        <5> QED BY <1>1, <2>2, <3>1, <4>2, <5>1, Zenon DEF At
      <4> QED BY <4>1, <4>2, Zenon
    <3>2. CASE p = Len(read) + Len(wire) + 1
      <4>1. /\ ~(p <= Len(read)) /\ ~(p <= Len(read) + Len(wire))
            /\ p <= Len(read) + Len(wire')
            /\ p - Len(read) = Len(wire) + 1 /\ p - (Len(read) + Len(wire)) = 1
        BY <2>2, <2>5, <3>2, SMTT(30)
      <4> QED BY <1>1, <2>2, <4>1, Zenon DEF At
    <3>3. CASE ~(p <= Len(read) + Len(wire)) /\ p # Len(read) + Len(wire) + 1
      <4>1. PICK k : k = p - (Len(read) + Len(wire'))
        BY Zenon
      <4>2. /\ ~(p <= Len(read)) /\ ~(p <= Len(read) + Len(wire'))
            /\ k \in 1..(Len(buffer) - 1) /\ p - (Len(read) + Len(wire)) = k + 1
        BY <2>2, <2>5, <3>3, <4>1, SMTT(30) DEF Total
      <4>3. At(p) = buffer[k + 1]
        BY <3>3, <4>2, Zenon DEF At
      <4>4. At(p)' = buffer'[k]
        BY <1>1, <4>1, <4>2, Zenon DEF At
      <4> QED BY <2>2, <4>2, <4>3, <4>4, Zenon
    <3> QED BY <3>1, <3>2, <3>3, Zenon
  <2>7. end = "none" => Streamed'
    BY <1>1, <1>4, <2>3, <2>5, <2>6, StreamedKept, SMTT(30) DEF Inv
  <2> QED BY <1>1, <1>2, <2>3, <2>4, <2>7, Zenon DEF Inv
<1> QED BY <1>3, <1>4, Zenon

\* poll_next takes a chunk from the socket.
LEMMA ReadInv ==
  ASSUME Sizes, Inv, Read
  PROVE Inv'
<1>1. kind = "serde" /\ rx = "open" /\ end = "none" /\ wire # << >>
      /\ UNCHANGED <<kind, sent, seen, end, buffer, tx, rx, unsent>>
  BY Zenon DEF Read
<1>2. Prefix'
  BY <1>1, Zenon DEF Inv, Prefix
<1>3. read' = Append(read, Head(wire)) /\ wire' = Tail(wire)
  BY Zenon DEF Read
<1>4. /\ read' \in Seq(Chunks) /\ wire' \in Seq(Chunks)
      /\ Len(wire) \in Nat \ {0} /\ Len(read) \in Nat
      /\ Len(read') = Len(read) + 1 /\ Len(wire') = Len(wire) - 1
      /\ read'[Len(read) + 1] = wire[1] /\ \A k \in 1..Len(read) : read'[k] = read[k]
      /\ \A k \in 1..(Len(wire) - 1) : wire'[k] = wire[k + 1]
  BY <1>1, <1>3, Moved, SMTT(30) DEF Inv, Types
<1>5. Types' /\ Ends'
  BY <1>1, <1>4, Zenon DEF Inv, Types, Ends
<1>6. Bounded'
  BY <1>1, Zenon DEF Inv, Bounded
<1>7. /\ Len(buffer) \in Nat /\ Total \in Nat /\ Total' = Total
      /\ Len(read') + Len(wire') = Len(read) + Len(wire)
  BY <1>1, <1>4, Lengths, SMTT(30) DEF Inv, Total
<1>8. ASSUME NEW p \in 1..Total PROVE At(p)' = At(p)
  <2>1. CASE p <= Len(read)
    <3>1. p <= Len(read') /\ p \in 1..Len(read)
      BY <1>4, <2>1, SMTT(30)
    <3> QED BY <1>4, <2>1, <3>1, Zenon DEF At
  <2>2. CASE p = Len(read) + 1
    <3>1. ~(p <= Len(read)) /\ p <= Len(read) + Len(wire) /\ p <= Len(read')
          /\ p - Len(read) = 1
      BY <1>4, <2>2, SMTT(30)
    <3> QED BY <1>4, <2>2, <3>1, Zenon DEF At
  <2>3. CASE ~(p <= Len(read)) /\ p # Len(read) + 1
    <3>1. ~(p <= Len(read'))
      BY <1>4, <2>3, SMTT(30)
    <3>2. CASE p <= Len(read) + Len(wire)
      <4>1. PICK k : k = p - Len(read')
        BY Zenon
      <4>2. k \in 1..(Len(wire) - 1) /\ p - Len(read) = k + 1 /\ p <= Len(read') + Len(wire')
        BY <1>4, <1>7, <2>3, <3>2, <4>1, SMTT(30)
      <4> QED BY <1>4, <2>3, <3>1, <3>2, <4>1, <4>2, Zenon DEF At
    <3>3. CASE ~(p <= Len(read) + Len(wire))
      BY <1>1, <1>7, <2>3, <3>1, <3>3, Zenon DEF At
    <3> QED BY <3>2, <3>3, Zenon
  <2> QED BY <2>1, <2>2, <2>3, Zenon
<1>9. Streamed'
  BY <1>1, <1>5, <1>7, <1>8, StreamedKept, SMTT(30) DEF Inv
<1> QED BY <1>1, <1>2, <1>5, <1>6, <1>9, Zenon DEF Inv

\* The next item that comes out is the next that went in.
LEMMA PrefixGrows ==
  ASSUME Types, Prefix, Len(seen) < Len(sent), NEW i \in Items, i = sent[Len(seen) + 1],
         seen' = Append(seen, i), UNCHANGED sent
  PROVE Prefix' /\ seen' \in Seq(Items) /\ Len(seen) \in Nat /\ Len(seen') = Len(seen) + 1
<1>1. /\ seen' \in Seq(Items) /\ Len(seen) \in Nat /\ Len(seen') = Len(seen) + 1
      /\ seen'[Len(seen) + 1] = i /\ \A k \in 1..Len(seen) : seen'[k] = seen[k]
      /\ Len(sent) \in Nat
  BY Push, SMTT(30) DEF Types
<1>2. Len(seen') <= Len(sent)
  BY <1>1, SMTT(30)
<1>3. ASSUME NEW k \in 1..Len(seen') PROVE seen'[k] = sent[k]
  <2>1. CASE k = Len(seen) + 1
    BY <1>1, <2>1, Zenon
  <2>2. CASE k \in 1..Len(seen)
    BY <1>1, <2>2, Zenon DEF Prefix
  <2> QED BY <1>1, <2>1, <2>2, SMTT(30)
<1> QED BY <1>1, <1>2, <1>3, Zenon DEF Prefix

\* The decoder yields the item whose frame is complete, or fails.
LEMMA DecodeInv ==
  ASSUME Sizes, Inv, Decode
  PROVE Inv' /\ (ThePipe!Yield \/ ThePipe!End)
<1>1. kind = "serde" /\ rx = "open" /\ end = "none" /\ read # << >>
      /\ UNCHANGED <<kind, sent, buffer, wire, tx, rx, unsent>>
  BY Zenon DEF Decode, Inv, Types
<1>2. PICK off : Offsets(off, sent) /\ Framed(off)
  BY <1>1, Zenon DEF Inv, Streamed
<1>3. /\ Len(seen) < Len(sent) /\ Head(read).item = sent[Len(seen) + 1]
      /\ Len(seen) + 1 \in 1..Len(sent)
  BY <1>1, <1>2, FirstFrame, Zenon DEF Inv
<1>4. PICK i \in Items : i = sent[Len(seen) + 1] /\ i = Head(read).item
  BY <1>1, <1>3, Lengths, Zenon DEF Inv
<1>5. CASE size[i] > max_frame_length["rx"]
  <2>1. end' = "error" /\ UNCHANGED <<seen, read>>
    BY <1>4, <1>5, Zenon DEF Decode
  <2>2. Inv'
    BY <1>1, <2>1, Zenon DEF Inv, Types, Ends, Prefix, Bounded
  <2>3. ThePipe!End
    BY <1>1, <2>1, Zenon DEF ThePipe!End
  <2> QED BY <2>2, <2>3, Zenon
<1>6. CASE ~(size[i] > max_frame_length["rx"])
  <2>1. /\ complete /\ seen' = Append(seen, i) /\ UNCHANGED end
        /\ read' = SubSeq(read, size[i] + 1, Len(read))
    BY <1>4, <1>6, Zenon DEF Decode
  <2>2. ThePipe!Yield
    BY <1>1, <1>3, <1>4, <2>1, Zenon DEF ThePipe!Yield
  <2>3. Prefix' /\ seen' \in Seq(Items)
    BY <1>1, <1>3, <1>4, <2>1, PrefixGrows, Zenon DEF Inv
  <2>4. read' \in Seq(Chunks)
    <3>1. size[i] \in Nat /\ size[i] <= Len(read) /\ read \in Seq(Chunks)
      BY <1>4, <2>1, Zenon DEF complete, Inv, Types, Sizes
    <3> QED BY <2>1, <3>1, Cut, Zenon
  <2>5. Types' /\ Ends' /\ Bounded'
    BY <1>1, <2>1, <2>3, <2>4, Zenon DEF Inv, Types, Ends, Bounded
  <2>6. Streamed'
    BY <1>1, <2>1, StreamedDecode, Zenon DEF Inv
  <2>7. Inv'
    BY <1>1, <2>3, <2>5, <2>6, Zenon DEF Inv
  <2> QED BY <2>2, <2>7, Zenon
<1> QED BY <1>5, <1>6, Zenon

\* poll_recv, poll_next: a channel yields its first item.
LEMMA ReceiveInv ==
  ASSUME Sizes, Inv, Receive
  PROVE Inv' /\ ThePipe!Yield
<1>1. /\ kind \in {"unbounded", "bounded"} /\ rx = "open" /\ end = "none" /\ wire # << >>
      /\ seen' = Append(seen, Head(wire)) /\ wire' = Tail(wire)
      /\ UNCHANGED <<kind, sent, end, buffer, read, tx, rx, unsent>>
  BY Zenon DEF Receive
<1>2. Queued /\ wire \in Seq(Items) /\ Len(seen) \in Nat /\ Len(sent) \in Nat
  BY <1>1, SMTT(30) DEF Inv, Types
<1>3. /\ Head(wire) = wire[1] /\ Head(wire) \in Items /\ wire' \in Seq(Items)
      /\ Len(wire) \in Nat \ {0} /\ Len(wire') = Len(wire) - 1
      /\ \A k \in 1..(Len(wire) - 1) : wire'[k] = wire[k + 1]
  BY <1>1, <1>2, Pop, Zenon
<1>4. PICK i \in Items : i = Head(wire)
  BY <1>3, Zenon
<1>5. Len(seen) < Len(sent) /\ i = sent[Len(seen) + 1]
  <2>1. 1 \in 1..Len(wire)
    BY <1>3, SMTT(30)
  <2> QED BY <1>2, <1>3, <1>4, <2>1, SMTT(30) DEF Queued
<1>6. ThePipe!Yield
  BY <1>1, <1>4, <1>5, Zenon DEF ThePipe!Yield
<1>7. Prefix' /\ seen' \in Seq(Items) /\ Len(seen') = Len(seen) + 1
  BY <1>1, <1>4, <1>5, PrefixGrows, Zenon DEF Inv
<1>8. Types' /\ Ends' /\ Bounded'
  <2>1. Types' /\ Ends'
    BY <1>1, <1>3, <1>7, Zenon DEF Inv, Types, Ends
  <2>2. Bounded'
    BY <1>1, <1>3, SMTT(30) DEF Inv, Bounded, Sizes
  <2> QED BY <2>1, <2>2, Zenon
<1>9. Queued'
  <2>1. Len(sent') = Len(seen') + Len(wire')
    BY <1>1, <1>2, <1>3, <1>7, SMTT(30) DEF Queued
  <2>2. ASSUME NEW k \in 1..Len(wire') PROVE wire'[k] = sent'[Len(seen') + k]
    <3>1. k \in 1..(Len(wire) - 1) /\ k + 1 \in 1..Len(wire)
          /\ Len(seen') + k = Len(seen) + (k + 1)
      BY <1>2, <1>3, <1>7, SMTT(30)
    <3> QED BY <1>1, <1>2, <1>3, <3>1, Zenon DEF Queued
  <2> QED BY <2>1, <2>2, Zenon DEF Queued
<1> QED BY <1>1, <1>6, <1>7, <1>8, <1>9, Zenon DEF Inv

\* Every sender is gone: the stream ends in good order when everything that
\* was not lost with the sink has come out.
LEMMA EndInv ==
  ASSUME Sizes, Inv, EndOfStream
  PROVE Inv' /\ ThePipe!End
<1>1. /\ rx = "open" /\ end = "none" /\ kind # "none" /\ tx \in {"closed", "dropped"}
      /\ wire = << >> /\ end' = (IF read = << >> THEN "eof" ELSE "error")
      /\ UNCHANGED <<kind, sent, seen, buffer, wire, read, tx, rx, unsent>>
  BY Zenon DEF EndOfStream
<1>2. buffer = << >>
  BY <1>1, Zenon DEF Inv, Ends
<1>3. Len(sent) \in Nat /\ Len(seen) \in Nat /\ sent \in Seq(Items) /\ seen \in Seq(Items)
  BY SMTT(30) DEF Inv, Types
<1>4. read = << >> => Len(seen) = Len(sent) \/ unsent
  <2>1. CASE kind = "serde"
    <3>1. read = << >> => Total = 0
      BY <1>1, <1>2, SMTT(30) DEF Total
    <3> QED BY <1>1, <2>1, <3>1, Drained, Zenon DEF Inv
  <2>2. CASE kind # "serde"
    <3>1. Len(sent) = Len(seen) + 0
      BY <1>1, <2>2, Zenon DEF Inv, Queued
    <3> QED BY <1>3, <3>1, SMTT(30)
  <2> QED BY <2>1, <2>2, Zenon
<1>5. Len(seen) = Len(sent) => seen = sent
  BY <1>3, SMTT(30) DEF Inv, Prefix
<1>6. ThePipe!End
  BY <1>1, <1>4, <1>5, Zenon DEF ThePipe!End
<1>7. Inv'
  BY <1>1, Zenon DEF Inv, Types, Ends, Prefix, Bounded
<1> QED BY <1>6, <1>7, Zenon

\* The sink is dropped, and its write buffer with it.
LEMMA DropTxInv ==
  ASSUME Sizes, Inv, DropTx
  PROVE Inv'
<1>1. /\ kind # "none" /\ tx # "dropped" /\ tx' = "dropped" /\ buffer' = << >>
      /\ unsent' = (buffer # << >>) /\ ~unsent
      /\ UNCHANGED <<kind, sent, seen, end, wire, read, rx>>
  BY Zenon DEF DropTx, Inv, Ends
<1>2. Types' /\ Ends'
  BY <1>1, SMTT(30) DEF Inv, Types, Ends
<1>3. Bounded'
  <2>1. Boundary \in Nat \ {0} /\ max_frame_length["tx"] \in Nat
    BY Zenon DEF Sizes
  <2> QED BY <1>1, <2>1, SMTT(30) DEF Inv, Bounded
<1>4. Prefix' /\ (Queued => Queued')
  BY <1>1, Zenon DEF Inv, Prefix, Queued
<1>5. ASSUME kind = "serde", Streamed PROVE Streamed'
  <2>1. /\ Len(read) \in Nat /\ Len(wire) \in Nat /\ Len(buffer) \in Nat
        /\ Total' = Len(read) + Len(wire) /\ (~unsent' => Total' = Total)
        /\ Total' <= Total
    <3>1. Len(read) \in Nat /\ Len(wire) \in Nat /\ Len(buffer) \in Nat
      BY <1>5, Lengths, Zenon DEF Inv
    <3>2. Len(read') = Len(read) /\ Len(wire') = Len(wire) /\ Len(buffer') = 0
      BY <1>1, Zenon
    <3>3. ~unsent' => Len(buffer) = 0
      <4>1. ~unsent' => buffer = << >>
        BY <1>1, Zenon
      <4> QED BY <4>1, SMTT(30)
    <3> QED BY <3>1, <3>2, <3>3, SMTT(30) DEF Total
  <2>2. \A p \in 1..Total' : At(p)' = At(p)
    BY <1>1, <2>1, SMTT(30) DEF At
  <2> QED BY <1>1, <1>2, <1>5, <2>1, <2>2, StreamedKept, Zenon DEF Inv
<1> QED BY <1>1, <1>2, <1>3, <1>4, <1>5, Zenon DEF Inv

-----------------------------------------------------------------------------
(* The theorem                                                             *)

\* Every step of a transport keeps the invariant, and is a step of a pipe or
\* none.
LEMMA TransportStep ==
  ASSUME Sizes, Inv, [Next]_vars
  PROVE Inv' /\ [ThePipe!Next]_(ThePipe!vars)
<1> USE DEF ThePipe!vars
<1>1. CASE UNCHANGED vars
  <2>1. Total' = Total /\ \A p : At(p)' = At(p)
    BY <1>1, Zenon DEF vars, Total, At
  <2>2. Types' /\ Ends' /\ Prefix' /\ Bounded'
    BY <1>1, ZenonT(40) DEF vars, Inv, Types, Ends, Prefix, Bounded
  <2>3. (Queued => Queued') /\ (Streamed => Streamed')
    BY <1>1, <2>1, Zenon DEF vars, Queued, Streamed, Offsets, Framed
  <2>4. Inv'
    BY <1>1, <2>2, <2>3, Zenon DEF vars, Inv
  <2> QED BY <1>1, <2>4, Zenon DEF vars
<1>2. CASE Make
  <2>1. /\ kind = "none" /\ kind' \in {"unbounded", "bounded", "serde"}
        /\ UNCHANGED <<sent, seen, end, buffer, wire, read, tx, rx, unsent>>
        /\ sent = << >> /\ wire = << >> /\ buffer = << >> /\ read = << >>
    BY <1>2, Zenon DEF Make, Inv, Types, Ends
  <2>2. seen = << >>
    BY <2>1, SMTT(30) DEF Inv, Types, Prefix
  <2>3. Types' /\ Ends' /\ Prefix'
    BY <2>1, Zenon DEF Inv, Types, Ends, Prefix
  <2>4. Bounded'
    <3>1. Boundary \in Nat \ {0} /\ max_frame_length["tx"] \in Nat /\ capacity \in Nat
      BY Zenon DEF Sizes
    <3> QED BY <2>1, <3>1, SMTT(30) DEF Bounded
  <2>5. Queued'
    BY <2>1, <2>2, SMTT(30) DEF Queued
  <2>6. Streamed'
    <3>1. PICK off : off = [k \in 0..0 |-> 0]
      BY Zenon
    <3>2. off[0] = 0 /\ off \in [0..0 -> Nat] /\ Total' = 0
      BY <2>1, <3>1, SMTT(30) DEF Total
    <3>3. Offsets(off, sent')
      BY <2>1, <3>2, SMTT(30) DEF Offsets
    <3>4. Framed(off)'
      BY <2>1, <2>2, <3>2, SMTT(30) DEF Framed
    <3> QED BY <3>3, <3>4, Zenon DEF Streamed
  <2> QED BY <2>1, <2>3, <2>4, <2>5, <2>6, Zenon DEF Inv
<1>3. CASE \E i \in Items : Send(i)
  <2>1. PICK i \in Items : Send(i)
    BY <1>3, Zenon
  <2>2. ThePipe!Send(i)
    BY <2>1, Zenon DEF Send, ThePipe!Send
  <2> QED BY <2>1, <2>2, SendInv, Zenon DEF ThePipe!Next
<1>4. CASE (\E i \in Items : SendErr(i)) \/ ReadyErr \/ Close
  <2>1. /\ UNCHANGED <<kind, sent, seen, end, buffer, wire, read, rx, unsent>>
        /\ tx = "open"
        /\ tx' \in {"failed", "open"} \/ (tx' = "closed" /\ buffer = << >>)
    BY <1>4, Zenon DEF SendErr, ReadyErr, Close, disconnect, shutdown, unbounded_close, Inv, Types
  <2>2. Types' /\ Ends' /\ Prefix' /\ Bounded'
    BY <2>1, Zenon DEF Inv, Types, Ends, Prefix, Bounded
  <2>3. Total' = Total /\ \A p : At(p)' = At(p)
    BY <2>1, Zenon DEF Total, At
  <2>4. (Queued => Queued') /\ (Streamed => Streamed')
    BY <2>1, <2>3, SMTT(30) DEF Queued, Streamed, Offsets, Framed
  <2> QED BY <2>1, <2>2, <2>4, Zenon DEF Inv
<1>5. CASE Flush
  BY <1>5, FlushInv, Zenon DEF Flush
<1>6. CASE DropTx
  <2>1. ThePipe!Drop \/ UNCHANGED ThePipe!vars
    BY <1>6, Zenon DEF DropTx, ThePipe!Drop, Inv, Ends, Types
  <2> QED BY <1>6, <2>1, DropTxInv, Zenon DEF ThePipe!Next
<1>7. CASE Receive
  BY <1>7, ReceiveInv, Zenon DEF ThePipe!Next
<1>8. CASE Read
  BY <1>8, ReadInv, Zenon DEF Read
<1>9. CASE Decode
  BY <1>9, DecodeInv, Zenon DEF ThePipe!Next
<1>10. CASE EndOfStream
  BY <1>10, EndInv, Zenon DEF ThePipe!Next
<1>11. CASE DropRx
  <2>1. /\ kind # "none" /\ rx' = "dropped" /\ wire' = << >>
        /\ UNCHANGED <<kind, sent, seen, end, buffer, read, tx, unsent>>
    BY <1>11, Zenon DEF DropRx
  <2>2. Types' /\ Ends' /\ Prefix'
    BY <2>1, SMTT(30) DEF Inv, Types, Ends, Prefix
  <2>3. Bounded'
    BY <2>1, SMTT(30) DEF Inv, Bounded, Sizes
  <2> QED BY <2>1, <2>2, <2>3, Zenon DEF Inv
<1>12. CASE Terminated
  BY <1>1, <1>12, Zenon DEF Terminated
<1> QED BY <1>1, <1>2, <1>3, <1>4, <1>5, <1>6, <1>7, <1>8, <1>9, <1>10, <1>11, <1>12, Zenon
           DEF Next, Stream

\* The Transport contract: for any items, frames and limits, each of the three
\* transports yields what its sink took, whole, once and in order, ends in
\* good order only after everything that was flushed, and pushes back.
THEOREM TransportsKeepContract ==
  ASSUME Sizes
  PROVE Spec => KeepsContract
<1>1. Init => Inv /\ ThePipe!Init
  <2> SUFFICES ASSUME Init PROVE Inv /\ ThePipe!Init
    BY Zenon
  <2>1. ThePipe!Init
    BY Zenon DEF Init, ThePipe!Init
  <2>2. Types /\ Ends
    <3>1. unsent \in BOOLEAN /\ ~unsent
      BY Zenon DEF Init
    <3>2. << >> \in Seq(Items) /\ << >> \in Seq(Chunks)
      BY SMTT(30)
    <3> QED BY <3>1, <3>2, Zenon DEF Init, Types, Ends
  <2>3. Prefix /\ Bounded /\ Queued
    BY SMTT(30) DEF Init, Prefix, Bounded, Queued
  <2> QED BY <2>1, <2>2, <2>3, Zenon DEF Init, Inv
<1>2. Inv /\ [Next]_vars => Inv' /\ [ThePipe!Next]_(ThePipe!vars)
  BY TransportStep, Zenon
<1>3. Inv => Bounded
  BY Zenon DEF Inv
<1> QED BY <1>1, <1>2, <1>3, PTL DEF Spec, KeepsContract, ThePipe!Spec
=============================================================================
