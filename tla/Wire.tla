-------------------------------- MODULE Wire --------------------------------
(***************************************************************************)
(* The canonical codec of wire.c: frame headers, and values as a header of *)
(* type and tag followed by a body.  A sender encodes a value into a       *)
(* frame, or is a foreign peer that writes one the encoder would refuse;   *)
(* the stream may be cut, grow or change on its way; the receiver decodes. *)
(*                                                                         *)
(* Widths are scaled: a cell holds one of Base numbers and stands for a    *)
(* byte or a u32, a u64 is two cells, least significant first.  The header *)
(* of a value is two cells, as it is eight bytes in the code.  Failed      *)
(* allocations (GEAS_ERR_OOM of the decoder) are left out.                 *)
(***************************************************************************)
EXTENDS SequencesExt, Integers

CONSTANTS
  Values,      \* what a host passes to the encoder, well formed or not
  Levels,      \* how deep the values of any host nest
  Base,        \* numbers a cell can hold
  MaxDepth,    \* GEAS_WIRE_MAX_DEPTH
  MaxPayload,  \* GEAS_WIRE_MAX_PAYLOAD
  CharMax, Surrogates,
  Kinds,       \* message kinds passed to the frame writer
  Noise        \* what a damaged cell may read as

GEAS_TY == <<"Unit", "Int", "UInt", "Float", "Bool", "Byte", "Char", "String", "List", "Map",
             "Tuple", "Option", "Result", "Record", "PledgeRef", "Sum", "Instance">>

Tags == ToSet(GEAS_TY)

ASSUME BaseAssumption == Base \in Nat /\ Base > Len(GEAS_TY) /\ MaxPayload \in Nat /\ MaxPayload < Base
ASSUME NoiseAssumption == Noise \subseteq 0 .. Base - 1
ASSUME LevelsAssumption == MaxDepth \in Nat /\ Levels \in Nat /\ MaxDepth <= Levels
ASSUME CharAssumption == CharMax \in Nat

Code(ty) == (CHOOSE i \in DOMAIN GEAS_TY : GEAS_TY[i] = ty) - 1
TypeOf(cell) == IF cell < Len(GEAS_TY) THEN GEAS_TY[cell + 1] ELSE "garbage"

Cells == 0 .. Base - 1
Words == 0 .. Base * Base - 1

Variants == {"Option", "Result", "Sum"}
Boxes == {"Option", "Result"}
Fielded == {"Tuple", "Record", "Sum"}
Listed == {"List", "Map"}

\* A value: its number, its element tag, its bytes or its elements.  A box is a
\* sequence of at most one value, and len # 0 over no data is a NULL pointer.
Val(ty, tag, n, el, xs) ==
  [ty |-> ty, tag |-> tag, n |-> n, elem_ty |-> el, len |-> Len(xs), bytes |-> << >>, data |-> xs]
Str(s) ==
  [ty |-> "String", tag |-> 0, n |-> 0, elem_ty |-> "Unit", len |-> Len(s), bytes |-> s,
   data |-> << >>]
Zeroed == Val("Unit", 0, 0, "Unit", << >>)

Numbers(ty) ==
  CASE ty = "Int" -> {i \in Int : 2 * i >= -(Base * Base) /\ 2 * i < Base * Base}
    [] ty \in {"UInt", "Float"} -> Words
    [] ty \in {"Bool", "Byte", "Char"} -> Cells
    [] OTHER -> {0}

\* The members of the union that a value of its type uses.
UnionOK(v) ==
  /\ v.n \in Numbers(v.ty)
  /\ v.ty \notin Listed => v.elem_ty = "Unit"
  /\ v.ty # "String" => v.bytes = << >>
  /\ v.ty \notin Listed \cup Fielded \cup Boxes => v.data = << >>
  /\ v.ty \in Boxes => Len(v.data) <= 1
  /\ \/ v.len = Len(v.bytes) + Len(v.data)
     \/ v.ty \in {"String"} \cup Listed \cup Fielded /\ v.bytes = << >> /\ v.data = << >>

\* Every value of a program, well formed for the encoder or not, over elements in S.
Nodes(S) ==
  {v \in [ty : Tags, tag : Cells, n : Int, elem_ty : Tags, len : Words, bytes : Seq(Cells),
          data : Seq(S)] : UnionOK(v)}

Trees[k \in 0 .. Levels] == IF k = 0 THEN {} ELSE Nodes(Trees[k - 1])
GeasValue == Trees[Levels]

ASSUME ValuesAssumption == Values \subseteq GeasValue

-----------------------------------------------------------------------------
put_u32(n) == <<n>>
put_u64(n) == <<n % Base, n \div Base>>
get_u64(s, at) == s[at + 1] + Base * s[at + 2]

\* The two readings of the same bits.
Unsigned(i) == i % (Base * Base)
Signed(u) == IF 2 * u >= Base * Base THEN u - Base * Base ELSE u

MAGIC == Base - 1
HeaderLen == 5
KindOK(kind) == kind \in 1 .. 13

\* The frame header, or << >> when the kind or the length is refused.
geas_wire_frame_write(kind, id, payload_len) ==
  IF KindOK(kind) /\ payload_len <= MaxPayload
  THEN <<MAGIC>> \o put_u32(kind) \o put_u64(id) \o put_u32(payload_len) ELSE << >>

geas_wire_frame_read(s) ==
  {f \in {[kind |-> s[2], request_id |-> get_u64(s, 2), payload_len |-> s[5]]} :
     s[1] = MAGIC /\ KindOK(f.kind) /\ f.payload_len <= MaxPayload}

tag_crosses(ty) == ty \in ToSet(GEAS_TY) \ {"PledgeRef", "Instance"}
tag_keyable(ty) == ty \in {"Int", "UInt", "Bool", "Byte", "Char", "String"}
ScalarOK(ty, n) ==
  CASE ty = "Bool" -> n <= 1
    [] ty = "Char" -> n <= CharMax /\ n \notin Surrogates
    [] OTHER -> TRUE

\* Cells a scalar's body takes, and the fixed part of a composite's.
BodyLen(ty) ==
  CASE ty \in {"Int", "UInt", "Float", "String"} \cup Fielded -> 2
    [] ty \in {"Bool", "Byte", "Char"} -> 1
    [] ty \in Listed -> 3
    [] OTHER -> 0

-----------------------------------------------------------------------------
(* encode: the sizing pass validates, the write pass follows it.            *)

ElementsFit(v) ==
  CASE v.ty = "List" -> \A i \in DOMAIN v.data : v.data[i].ty = v.elem_ty
    [] v.ty = "Map"  -> \A i \in DOMAIN v.data : i % 2 = 1 => v.data[i].ty = v.elem_ty
    [] OTHER -> TRUE

ShapeOK(v) ==
  /\ v.ty \notin Variants => v.tag = 0
  /\ v.ty \in Boxes => v.tag <= 1
  /\ tag_crosses(v.ty) /\ ScalarOK(v.ty, v.n)
  /\ v.ty = "List" => tag_crosses(v.elem_ty)
  /\ v.ty = "Map" => tag_keyable(v.elem_ty) /\ v.len % 2 = 0
  /\ v.len # 0 => v.bytes # << >> \/ v.data # << >>
  /\ v.ty = "Option" => (v.tag = 0 <=> v.data = << >>)
  /\ v.ty = "Result" => v.data # << >>
  /\ ElementsFit(v)

\* The sizes of the elements on top of the value's own, -1 once one of them is refused.
size_add(own, sizes) ==
  LET total[i \in 0 .. Len(sizes)] ==
        IF i = 0 THEN own
        ELSE IF total[i - 1] = -1 \/ sizes[i] = -1 THEN -1 ELSE total[i - 1] + sizes[i]
  IN total[Len(sizes)]

\* The encoded size in cells of a value met at a depth, or -1 when it is refused.
encode_size[v \in GeasValue] ==
  [depth \in 1 .. MaxDepth + 1 |->
     IF depth > MaxDepth \/ ~ShapeOK(v) THEN -1
     ELSE size_add(2 + BodyLen(v.ty) + (IF v.ty = "String" THEN v.len ELSE 0),
                   [i \in 1 .. Len(v.data) |-> encode_size[v.data[i]][depth + 1]])]

\* The fixed part of a value's body.
WriteBody(v) ==
  CASE v.ty \in {"Int", "UInt", "Float"} -> put_u64(Unsigned(v.n))
    [] v.ty \in {"Bool", "Byte", "Char"} -> put_u32(v.n)
    [] v.ty \in {"String"} \cup Fielded  -> put_u64(v.len)
    [] v.ty \in Listed                   -> put_u64(v.len) \o put_u32(Code(v.elem_ty))
    [] OTHER                             -> << >>

encode_write[v \in GeasValue] ==
  put_u32(Code(v.ty)) \o put_u32(v.tag) \o WriteBody(v) \o v.bytes
    \o FlattenSeq([i \in 1 .. Len(v.data) |-> encode_write[v.data[i]]])

-----------------------------------------------------------------------------
(* decode: at counts the cells taken from s; a refusal is ok = FALSE.       *)

Refused == [ok |-> FALSE, v |-> Zeroed, at |-> 0]
Got(v, at) == [ok |-> TRUE, v |-> v, at |-> at]

take(s, at, n) == Len(s) - at >= n

count_plausible(s, at, count) == count <= (Len(s) - at) \div 2

\* Duplicate keys are merged silently.
keys_any(data, x) == TRUE

keys_distinct(data, x) == \A j \in DOMAIN data : j % 2 = 1 => data[j] # x

\* The element tag of a list or map is read and never compared.
element_any(ty, i, el, got_ty) == TRUE

element_fits(ty, i, el, got_ty) == ty = "List" \/ (ty = "Map" /\ i % 2 = 1) => got_ty = el

\* The next element of a composite, by its rules; inner is the decoder one level down.
decode_next(inner, ty, el, i, acc) ==
  LET e == inner[acc.at]
  IN IF /\ acc.ok /\ e.ok
        /\ element_fits(ty, i, el, e.v.ty)
        /\ ty = "Map" /\ i % 2 = 1 => keys_distinct(acc.vs, e.v)
     THEN [ok |-> TRUE, vs |-> Append(acc.vs, e.v), at |-> e.at]
     ELSE [acc EXCEPT !.ok = FALSE]

\* count elements one after the other.
decode_all(inner, from, count, ty, el) ==
  LET run[i \in 0 .. count] == IF i = 0 THEN [ok |-> TRUE, vs |-> << >>, at |-> from]
                               ELSE decode_next(inner, ty, el, i, run[i - 1])
  IN run[count]

decode_items(inner, at, count, ty, tag, el) ==
  LET end == decode_all(inner, at, count, ty, el)
  IN IF end.ok THEN Got(Val(ty, tag, 0, el, end.vs), end.at) ELSE Refused

\* The body of a value, from the cell behind its header.
decode_body(s, body, ty, tag, inner) ==
  LET rest == body + BodyLen(ty)
      count == get_u64(s, body)
      el == TypeOf(s[body + 3])
  IN CASE ty = "Unit" -> Got(Zeroed, rest)
       [] ty \in {"UInt", "Float"} -> Got(Val(ty, 0, count, "Unit", << >>), rest)
       [] ty = "Int" -> Got(Val(ty, 0, Signed(count), "Unit", << >>), rest)
       [] ty \in {"Bool", "Byte", "Char"} ->
            IF ScalarOK(ty, s[body + 1])
            THEN Got(Val(ty, 0, s[body + 1], "Unit", << >>), rest) ELSE Refused
       [] ty = "String" ->
            IF take(s, rest, count)
            THEN Got(Str(SubSeq(s, rest + 1, rest + count)), rest + count) ELSE Refused
       [] ty = "List" ->
            IF tag_crosses(el) /\ count_plausible(s, rest, count)
            THEN decode_items(inner, rest, count, ty, tag, el) ELSE Refused
       [] ty = "Map" ->
            IF count % 2 = 0 /\ tag_keyable(el) /\ count_plausible(s, rest, count)
            THEN decode_items(inner, rest, count, ty, tag, el) ELSE Refused
       [] ty \in Fielded ->
            IF count_plausible(s, rest, count)
            THEN decode_items(inner, rest, count, ty, tag, "Unit") ELSE Refused
       [] ty = "Option" /\ tag = 0 -> Got(Val(ty, 0, 0, "Unit", << >>), rest)
       [] OTHER -> decode_items(inner, rest, 1, ty, tag, "Unit")

\* One value; inner is the decoder one level down.
decode_value(s, at, inner) ==
  IF ~take(s, at, 2) THEN Refused
  ELSE LET ty == TypeOf(s[at + 1])
           tag == s[at + 2]
       IN IF \/ ~tag_crosses(ty)
             \/ ty \notin Variants /\ tag # 0
             \/ ty \in Boxes /\ tag > 1
             \/ ~take(s, at + 2, BodyLen(ty)) THEN Refused
          ELSE decode_body(s, at + 2, ty, tag, inner)

decode_rec(s) ==
  LET dec[depth \in 1 .. MaxDepth + 1] ==
        [at \in 0 .. Len(s) |->
           IF depth > MaxDepth THEN Refused ELSE decode_value(s, at, dec[depth + 1])]
  IN dec[1][0]

-----------------------------------------------------------------------------
(* A message on its way.                                                    *)

VARIABLES
  phase,   \* "made", "refused", "sent", "arrived" or "read"
  val,     \* the value sent
  kind,    \* the kind of its frame
  cap,     \* the sender's buffer is large enough, or not
  wire,    \* the frame and the payload
  intact,  \* history: nothing cut or changed what was sent
  got      \* what the receiver decoded, with the frame it read

vars == <<phase, val, kind, cap, wire, intact, got>>

Nothing == [frame |-> {}, res |-> Refused]

Init ==
  /\ phase = "made"
  /\ val \in Values
  /\ kind \in Kinds
  /\ cap \in BOOLEAN
  /\ wire = << >>
  /\ intact = TRUE
  /\ got = Nothing

\* A peer that writes any value, with or without this encoder's validation.
Foreign == geas_wire_frame_write(kind, 0, Len(encode_write[val])) # << >>

Send(s) ==
  /\ wire' = geas_wire_frame_write(kind, Base + 1, Len(s)) \o s
  /\ phase' = "sent"

geas_wire_encode_value ==
  /\ phase = "made"
  /\ LET need == encode_size[val][1]
     IN \/ /\ \/ need = -1 \/ ~cap
              \/ geas_wire_frame_write(kind, 0, need) = << >>
           /\ phase' = "refused"
           /\ UNCHANGED wire
        \/ /\ need # -1 /\ cap
           /\ geas_wire_frame_write(kind, 0, need) # << >>
           /\ Send(encode_write[val])
  /\ UNCHANGED <<val, kind, cap, intact, got>>

ForeignSends ==
  /\ phase = "made" /\ Foreign
  /\ Send(encode_write[val])
  /\ intact' = (encode_size[val][1] # -1)
  /\ UNCHANGED <<val, kind, cap, got>>

\* The stream arrives whole, cut, with more behind it, or with one cell changed.
Arrive ==
  /\ phase = "sent" /\ phase' = "arrived"
  /\ \/ /\ UNCHANGED wire
        /\ UNCHANGED intact
     \/ /\ \E n \in Noise : wire' = Append(wire, n)
        /\ UNCHANGED intact
     \/ /\ \E n \in 0 .. Len(wire) - 1 : wire' = SubSeq(wire, 1, n)
        /\ intact' = FALSE
     \/ /\ \E i \in DOMAIN wire, n \in Noise : wire[i] # n /\ wire' = [wire EXCEPT ![i] = n]
        /\ intact' = FALSE
  /\ UNCHANGED <<val, kind, cap, got>>

\* The caller reads the header and decodes once payload_len cells are there.  Its
\* buffer may hold more (park keeps several values in one): what follows a complete
\* value is the caller's business.
geas_wire_decode_value ==
  /\ phase = "arrived" /\ phase' = "read"
  /\ LET frames == IF take(wire, 0, HeaderLen) THEN geas_wire_frame_read(wire) ELSE {}
     IN got' = [frame |-> frames,
                res |-> IF \E f \in frames : take(wire, HeaderLen, f.payload_len)
                        THEN decode_rec(SubSeq(wire, HeaderLen + 1, Len(wire)))
                        ELSE Refused]
  /\ UNCHANGED <<val, kind, cap, wire, intact>>

Next == geas_wire_encode_value \/ ForeignSends \/ Arrive \/ geas_wire_decode_value

Spec == Init /\ [][Next]_vars

-----------------------------------------------------------------------------
\* A map the runtime built has no duplicate keys, at any depth.
KeysDistinct[v \in GeasValue] ==
  /\ v.ty = "Map" => \A i, j \in DOMAIN v.data :
                       i % 2 = 1 /\ j % 2 = 1 /\ i # j => v.data[i] # v.data[j]
  /\ \A i \in DOMAIN v.data : KeysDistinct[v.data[i]]

(* A value the encoder accepts comes back as it was, from exactly the cells    *)
(* the sizing pass measured, whatever follows it in the buffer; the frame      *)
(* keeps its kind and length.  The one value the encoder accepts and the       *)
(* decoder refuses is a map with a duplicate key.                              *)
RoundTrip ==
  phase = "read" /\ intact =>
    /\ got.frame = {[kind |-> kind, request_id |-> Base + 1, payload_len |-> encode_size[val][1]]}
    /\ got.res = IF KeysDistinct[val] THEN Got(val, encode_size[val][1]) ELSE Refused

(* Canonical: whatever the bytes, a payload the decoder accepts is the one     *)
(* encoding of its value: the encoder accepts that value and reproduces the    *)
(* cells consumed, so no damaged or foreign stream decodes to a value that     *)
(* could not have been sent.  The decoder never reads past the buffer.         *)
Canonical ==
  /\ phase = "read" /\ got.res.ok =>
       /\ got.res.at <= Len(wire) - HeaderLen
       /\ encode_size[got.res.v][1] = got.res.at
       /\ encode_write[got.res.v] = SubSeq(wire, HeaderLen + 1, HeaderLen + got.res.at)
  /\ \A f \in got.frame :
       geas_wire_frame_write(f.kind, f.request_id, f.payload_len) = SubSeq(wire, 1, HeaderLen)
=============================================================================
