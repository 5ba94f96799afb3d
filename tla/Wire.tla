-------------------------------- MODULE Wire --------------------------------
(***************************************************************************)
(* One machine for every message format: a message is encoded, reaches the *)
(* decoder whole, cut short or with a length field changed, and is decoded *)
(* one item at a time.                                                     *)
(***************************************************************************)
EXTENDS OracleFormats, ControlFormats, DatabaseFormats, SshFormats,
        HttpFormats, FiniteSets, SequencesExt, TLC

Formats == OracleMessages @@ ControlMessages @@ DatabaseMessages @@ SshMessages
           @@ HttpMessages

VARIABLES
    format,     \* the message's format, a name of Formats
    form,       \* what Formats has for it: enc, dec and short, the outcomes
                \* of a decoder that runs out of bytes
    sizes,      \* the size of every body and group in it
    frame,      \* the message: its items with their fields and bytes
    damage,     \* what happened to it: "none", "cut" or "changed"
    size,       \* how many of its bytes arrive
    pc,         \* the decoder's next item
    at,         \* bytes it has read
    round,      \* rounds of the loop it is in
    read,       \* the fields it has decoded, in order
    asked,      \* the largest buffer it allocated
    wrapped,    \* did a length it computed wrap around?
    outcome     \* "new", "sent" or "unsent", then "decoding" and "done",
                \* "refused" or "panic"

vars == <<format, form, sizes, frame, damage, size, pc, at, round, read, asked,
          wrapped, outcome>>

Field(name, value) == [name |-> name, value |-> value]
Bytes(n, first, last) == [n |-> n, first |-> first, last |-> last]

-----------------------------------------------------------------------------
(* Encoding.  Every field has a value of its own, with different bytes     *)
(* below 127, or for a bit field with high and low bits.                   *)

Pattern(i) == 1 + ((4 * i) % 120)
Ones(w) == <<1, 257, 65793, 16843009>>[w]
Fill(i, w) == Pattern(i) * Ones(IF w > 4 THEN 4 ELSE w) + 1
SubFill(part, j) == IF part.k # -1 THEN part.k
                    ELSE ((2^part.bits \div 3) + j) % 2^part.bits

AllItems(enc) == enc \o FlattenSeq([i \in DOMAIN enc |-> enc[i].sub])
Sized(enc) ==
    {i \in DOMAIN enc : "sizes" \in DOMAIN enc[i] /\ enc[i].sizes # {}}
SizeChoices(enc) ==
    LET all == AllItems(enc)
        keys == {all[i].key : i \in Sized(all)}
        choices(key) == UNION {all[i].sizes : i \in {i \in Sized(all) :
                                                        all[i].key = key}}
    IN  {f \in [keys -> UNION {choices(key) : key \in keys}] :
            \A key \in keys : f[key] \in choices(key)}

Expand(enc) ==
    FlattenSeq([i \in DOMAIN enc |->
        IF enc[i].op = "many"
        THEN FlattenSeq([j \in 1..sizes[enc[i].key] |-> enc[i].sub])
        ELSE <<enc[i]>>])

SizeOf(item) == IF item.sizes # {} THEN sizes[item.key] ELSE item.w
Total(items) ==
    LET sum[i \in 0..Len(items)] ==
            IF i = 0 THEN 0 ELSE sum[i - 1] + SizeOf(items[i])
    IN  sum[Len(items)]

Cap(w) == IF w >= 4 THEN Huge ELSE 256^w - 1
TrueLength(item, start, total) ==
    item.k + (CASE item.scope = "all" -> total
                [] item.scope = "after" -> total - start - item.w
                [] OTHER -> sizes[item.scope])

Packed(sub) ==
    LET bits(j) == SubFill(sub[j], j) * 2^sub[j].shift
        sum[j \in 0..Len(sub)] == IF j = 0 THEN 0 ELSE sum[j - 1] + bits(j)
    IN  sum[Len(sub)]

(* Item i as it is sent: where it starts, how many bytes it has, their     *)
(* number or the byte they all are, and the fields they stand for.         *)
Place(item, i, start, total) ==
    LET exact == TrueLength(item, start, total)
        v == CASE item.op = "len" -> exact % (IF item.w < 4 THEN 256^item.w
                                              ELSE Huge)
               [] item.op = "pack" -> Packed(item.sub)
               [] item.op = "int" /\ item.k # -1 -> item.k
               [] OTHER -> Fill(i, item.w)
        n == SizeOf(item)
        body == Pattern(i)
    IN  [start |-> start, n |-> n, little |-> item.little,
         number |-> IF item.op = "take" THEN -1 ELSE v, body |-> body,
         honest |-> item.op = "len" => exact <= Cap(item.w),
         fields |-> CASE item.op = "take" ->
                           <<Field(item.name, IF n = 0 THEN Bytes(0, 0, 0)
                                              ELSE Bytes(n, body, body))>>
                      [] item.op = "pack" ->
                           [j \in DOMAIN item.sub |->
                              Field(item.sub[j].name,
                                    SubFill(item.sub[j], j))]
                      [] OTHER -> <<Field(item.name, v)>>]

Frame(items) ==
    [i \in DOMAIN items |->
        Place(items[i], i, Total(SubSeq(items, 1, i - 1)), Total(items))]

Init ==
    /\ format \in DOMAIN Formats /\ form = Formats[format]
    /\ sizes \in SizeChoices(form.enc)
    /\ frame = <<>> /\ damage = "none" /\ size = 0
    /\ pc = 1 /\ at = 0 /\ round = 1 /\ read = <<>>
    /\ asked = 0 /\ wrapped = FALSE /\ outcome = "new"

Encode ==
    /\ outcome = "new"
    /\ \E items \in {SelectSeq(Expand(form.enc),
                               LAMBDA item : item.op # "limit")},
          limits \in {SelectSeq(form.enc, LAMBDA item : item.op = "limit")} :
           /\ frame' = Frame(items)
           /\ size' = Total(items)
           /\ outcome' = IF \E i \in DOMAIN limits : Total(items) > limits[i].hi
                         THEN "unsent" ELSE "sent"
    /\ UNCHANGED <<format, form, sizes, damage, pc, at, round, read, asked,
                   wrapped>>

UsedBy(dec) == UNION {dec[i].n.names \cup dec[i].n.less \cup dec[i].from.names
                      : i \in DOMAIN dec}
Others(v, w) == {u \in {0, 1, 7, 20, v - 1, v + 1, Cap(w)}
                       \cup (IF w = 1 THEN 251..254 ELSE {}) :
                    u # v /\ u \in 0..Cap(w)}
(* The positions at which a cut matters: the ends of items, and inside.    *)
Cuts == UNION {{frame[i].start, frame[i].start + 1,
                frame[i].start + frame[i].n - 1} : i \in DOMAIN frame}
        \cap 0..(size - 1)

(* The message on its way: all of it arrives, or a part of it, or a number *)
(* the decoder looks at has another value.                                 *)
Arrive ==
    /\ outcome = "sent" /\ form.dec # <<>>
    /\ outcome' = "decoding"
    /\ \/ damage' = "none" /\ UNCHANGED <<frame, size>>
       \/ damage' = "cut" /\ size' \in Cuts /\ UNCHANGED frame
       \/ /\ damage' = "changed"
          /\ \E i \in DOMAIN frame :
               /\ frame[i].number # -1
               /\ frame[i].fields[1].name \in UsedBy(form.dec)
               /\ \E v \in Others(frame[i].number, frame[i].n) :
                    frame' = [frame EXCEPT ![i].number = v]
          /\ UNCHANGED size
    /\ UNCHANGED <<format, form, sizes, pc, at, round, read, asked, wrapped>>

-----------------------------------------------------------------------------
(* Decoding.                                                               *)

Byte(p) ==
    LET f == frame[CHOOSE i \in DOMAIN frame :
                     frame[i].start <= p /\ p < frame[i].start + frame[i].n]
        place == IF f.little THEN p - f.start ELSE f.start + f.n - 1 - p
    IN  CASE f.number = -1 -> f.body
          [] place > 3 -> 0
          [] OTHER -> (f.number \div 256^place) % 256
(* An integer of w bytes, of which at most four count.                     *)
Number(p, w, little) ==
    LET n == IF w > 4 THEN 4 ELSE w
        digit(j) == IF j >= n THEN 0
                    ELSE IF little THEN Byte(p + j) ELSE Byte(p + w - 1 - j)
    IN  IF digit(3) >= 127 THEN Huge
        ELSE digit(0) + 256 * (digit(1) + 256 * (digit(2) + 256 * digit(3)))
Cut(p, n) == IF n = 0 THEN Bytes(0, 0, 0)
             ELSE Bytes(n, Byte(p), Byte(p + n - 1))

Places(name) == {i \in DOMAIN read : read[i].name = name}
Get(name) == CASE name = "#left" -> size - at
               [] name = "#read" -> at
               [] name = "#size" -> size
               [] Places(name) = {} -> 0
               [] OTHER -> read[Max(Places(name))].value
Sum(names) ==
    LET sum[S \in SUBSET names] ==
            IF S = {} THEN 0
            ELSE LET n == CHOOSE n \in S : TRUE
                     v == Get(n)
                     rest == sum[S \ {n}]
                 IN  IF v = Huge \/ rest = Huge THEN Huge ELSE v + rest
    IN  sum[names]
Product(names) ==
    LET product[S \in SUBSET names] ==
            IF S = {} THEN 1
            ELSE LET n == CHOOSE n \in S : TRUE IN Get(n) * product[S \ {n}]
    IN  product[names]
Exact(e) == e.k - Sum(e.less)
            + (IF e.op = "product" THEN Product(e.names) ELSE Sum(e.names))
Wraps(e) == \/ e.bits # 0 /\ Exact(e) < 0
            \/ e.bits \in 1..30 /\ Exact(e) >= 2^e.bits
Value(e) == CASE e.bits = 0 -> Exact(e)
              [] e.bits = 32 -> IF Exact(e) < 0 THEN Huge ELSE Exact(e)
              [] OTHER -> Exact(e) % 2^e.bits

(* Go on with the item after the next skip ones; the last one is success.  *)
Advance(skip) ==
    /\ pc' = pc + 1 + skip
    /\ outcome' = IF pc + 1 + skip > Len(form.dec) THEN "done"
                  ELSE "decoding"
End(how) == outcome' = how /\ UNCHANGED pc
Unread == UNCHANGED <<at, read>>
Kept == UNCHANGED <<format, form, sizes, frame, damage>>
Same == Kept /\ UNCHANGED size

Short == \E how \in form.short : End(how) /\ Unread
Noted(item) == wrapped' = (wrapped \/ Wraps(item.n) \/ Wraps(item.from))

ReadInt(item) ==
    /\ item.op \in {"int", "len"}
    /\ IF at + item.w > size THEN Short
       ELSE /\ read' = Append(read, Field(item.name,
                                          Number(at, item.w, item.little)))
            /\ at' = at + item.w /\ Advance(0)
    /\ UNCHANGED <<round, asked, wrapped>> /\ Same

(* The parts of one name are joined, in the place of the last of them.     *)
Unpacked(sub, v) ==
    LET bits(j) == ((v \div 2^sub[j].shift) % 2^sub[j].bits) * 2^sub[j].up
        joined(name) ==
            LET isSet(k) == \E j \in DOMAIN sub :
                              sub[j].name = name /\ (bits(j) \div 2^k) % 2 = 1
                or[k \in 0..16] ==
                    IF k = 0 THEN 0
                    ELSE or[k - 1] + (IF isSet(k - 1) THEN 2^(k - 1) ELSE 0)
            IN  or[16]
        isLast(j) == \A i \in j + 1..Len(sub) : sub[i].name # sub[j].name
        places == SelectSeq([j \in DOMAIN sub |-> j], isLast)
    IN  [i \in DOMAIN places |->
            Field(sub[places[i]].name, joined(sub[places[i]].name))]

ReadPack(item) ==
    /\ item.op = "pack"
    /\ IF at + item.w > size THEN Short
       ELSE /\ read' = read
                    \o Unpacked(item.sub, Number(at, item.w, item.little))
            /\ at' = at + item.w /\ Advance(0)
    /\ UNCHANGED <<round, asked, wrapped>> /\ Same

(* A stream's bytes are read into a new buffer of that size.               *)
ReadBytes(item) ==
    /\ item.op = "take"
    /\ LET n == Value(item.n)
       IN  /\ IF n < 0 THEN End("panic") /\ Unread
              ELSE IF n > size - at THEN Short
              ELSE /\ read' = Append(read, Field(item.name, Cut(at, n)))
                   /\ at' = at + n /\ Advance(0)
           /\ asked' = IF form.short = {"refused"} /\ n > asked THEN n
                       ELSE asked
    /\ Noted(item)
    /\ UNCHANGED round /\ Same

ReadSlice(item) ==
    /\ item.op = "slice"
    /\ LET from == Value(item.from)
           to == Value(item.n)
       IN  IF from > to \/ to > size THEN End("panic") /\ Unread
           ELSE /\ read' = Append(read, Field(item.name, Cut(from, to - from)))
                /\ UNCHANGED at /\ Advance(0)
    /\ Noted(item)
    /\ UNCHANGED <<round, asked>> /\ Same

ReadUntil(item) ==
    /\ item.op = "until"
    /\ LET nuls == {p \in UNION {{frame[i].start, frame[i].start + 1}
                                 : i \in DOMAIN frame} :
                       at <= p /\ p < size /\ Byte(p) = 0}
       IN  IF nuls = {} THEN Short
           ELSE /\ read' = Append(read,
                                  Field(item.name, Cut(at, Min(nuls) - at)))
                /\ at' = Min(nuls) + 1 /\ Advance(0)
    /\ UNCHANGED <<round, asked, wrapped>> /\ Same

Holds(item) == Value(item.n) \in item.lo..item.hi

Check(item) ==
    /\ item.op \in {"test", "quit", "unless"}
    /\ IF item.op = "unless" THEN Advance(IF Holds(item) THEN 0 ELSE item.w)
       ELSE IF Holds(item) THEN Advance(0)
       ELSE End(IF item.op = "test" THEN "refused" ELSE "done")
    /\ Noted(item)
    /\ UNCHANGED <<round, asked>> /\ Unread /\ Same

Remember(item) ==
    /\ item.op \in {"let", "largest"}
    /\ LET v == Value(item.n)
       IN  read' = Append(read, Field(item.name, IF item.op = "let" THEN v
                                                ELSE Max({Get(item.name), v})))
    /\ Advance(0) /\ Noted(item)
    /\ UNCHANGED <<at, round, asked>> /\ Same

Narrow(item) ==
    /\ item.op = "window"
    /\ LET n == Value(item.n)
       IN  IF n < 0 THEN End("panic") /\ UNCHANGED size
           ELSE size' = Min({size, at + n}) /\ Advance(0)
    /\ Noted(item)
    /\ UNCHANGED <<round, asked>> /\ Unread /\ Kept

Allocate(item) ==
    /\ item.op = "make"
    /\ asked' = Max({asked, Value(item.n)})
    /\ Advance(0) /\ Noted(item)
    /\ UNCHANGED round /\ Unread /\ Same

Loop(item) ==
    /\ item.op \in {"each", "again"}
    /\ IF item.op = "each"
       THEN /\ round' = 1
            /\ Advance(IF Value(item.n) > 0 THEN 0 ELSE item.w)
       ELSE LET more == round < Value(item.n)
            IN  /\ round' = IF more THEN round + 1 ELSE round
                /\ Advance(IF more THEN -item.w - 1 ELSE 0)
    /\ UNCHANGED <<asked, wrapped>> /\ Unread /\ Same

(* The decoder's next item.                                                *)
Decode ==
    /\ outcome = "decoding"
    /\ \E item \in {form.dec[pc]} :
         \/ ReadInt(item) \/ ReadPack(item) \/ ReadBytes(item)
         \/ ReadSlice(item) \/ ReadUntil(item) \/ Check(item)
         \/ Remember(item) \/ Narrow(item) \/ Allocate(item) \/ Loop(item)

Over == \/ outcome \in {"unsent", "done", "refused", "panic"}
        \/ outcome = "sent" /\ form.dec = <<>>
Done == Over /\ UNCHANGED vars

Next == Encode \/ Arrive \/ Decode \/ Done

(* A decoder runs on when it is called; a read it makes ends: TimeoutConn. *)
Spec == Init /\ [][Next]_vars /\ WF_vars(Encode \/ Arrive \/ Decode)
=============================================================================
