------------------------------- MODULE Layouts -------------------------------
(***************************************************************************)
(* Layouts as data, and how the SDKs of both platforms write and read      *)
(* values by them: what serializeLayout and deserializeLayout do.          *)
(*                                                                         *)
(* Bytes are numbers below 256; an address is 20 bytes, a universal        *)
(* address 32.  Prices and dropoffs are counted in units of 10 where the   *)
(* EVM SDK's units are 1e6 and 1e12 wei, percentages in 1/100000 of a      *)
(* percent.                                                                *)
(***************************************************************************)
EXTENDS Integers, SequencesExt

-----------------------------------------------------------------------------
(* Items: a number under one of the conversions, a constant that is not    *)
(* part of the value, bytes of a fixed size, bytes behind their length, a   *)
(* switch with [id, tag, layout] cases, an array (behind its length if size *)
(* is not 0), a nested layout.                                              *)
Num(name, size, as) == [kind |-> "num", name |-> name, size |-> size, as |-> as, le |-> FALSE]
Fixed(value, size)  == [kind |-> "fixed", name |-> "", size |-> size, value |-> value]
Raw(name, size)     == [kind |-> "raw", name |-> name, size |-> size]
Sized(name, size)   == [kind |-> "sized", name |-> name, size |-> size]
Switch(name, cases) == [kind |-> "switch", name |-> name, cases |-> cases]
Array(name, size, layout) ==
  [kind |-> "array", name |-> name, size |-> size, layout |-> layout, le |-> FALSE]
LittleEndian(item) == [item EXCEPT !.le = TRUE]
Sub(name, layout)   == [kind |-> "sub", name |-> name, layout |-> layout]

Uint(name, size)  == Num(name, size, "number")
universalAddressItem(name) == Raw(name, 32)
chainItem(name)   == Uint(name, 2)
zip(types, layouts) ==
  [i \in DOMAIN types |-> <<types[i][1], types[i][2], layouts[i]>>]

(* Conversions.  Thrown stands among the bytes for an error.                *)
Thrown == 256
gasPriceUnit   == 10
gasDropoffUnit == 10

\* percentageItem: two leading digits below 1 %, one decimal above.
OnePercent == 100000
Negexp(p) == CASE p >= OnePercent         -> 0
               [] p >= OnePercent \div 10  -> 1
               [] p >= OnePercent \div 100 -> 2
               [] OTHER                    -> 3

RECURSIVE Normalised(_, _)
Normalised(mantissa, negexp) ==
  IF mantissa % 10 = 0 /\ negexp > 0
  THEN Normalised(mantissa \div 10, negexp - 1)
  ELSE mantissa * 4 + negexp

\* Seeded fault: zeros are dropped without moving the decimal point.
RECURSIVE Stripped(_, _)
Stripped(mantissa, negexp) ==
  IF mantissa % 10 = 0 /\ negexp > 0
  THEN Stripped(mantissa \div 10, negexp)
  ELSE mantissa * 4 + negexp
FromPercentageStripped(p) ==
  IF p > 1000 * OnePercent \/ p < 0 THEN -1
  ELSE IF p < OnePercent \div 10000 THEN 0
  ELSE LET e == Negexp(p)
       IN Stripped((p * 10^(1 + e) + OnePercent \div 2) \div OnePercent, e)

FromPercentage(p) ==
  IF p > 1000 * OnePercent \/ p < 0 THEN -1
  ELSE IF p < OnePercent \div 10000 THEN 0
  ELSE LET e == Negexp(p)
       IN Normalised((p * 10^(1 + e) + OnePercent \div 2) \div OnePercent, e)
ToPercentage(encoded) == (encoded \div 4) * 10^(4 - (encoded % 4))

From(as, v) == CASE as = "number"     -> v
                 [] as = "bool"       -> IF v THEN 1 ELSE 0
                 [] as = "gasPrice"   -> v \div gasPriceUnit
                 [] as = "gasDropoff" -> v \div gasDropoffUnit
                 [] as = "percentage" -> FromPercentage(v)
To(as, n) == CASE as = "number"     -> n
               [] as = "bool"       -> n > 0
               [] as = "gasPrice"   -> n * gasPriceUnit
               [] as = "gasDropoff" -> n * gasDropoffUnit
               [] as = "percentage" -> ToPercentage(n)

RECURSIVE BigEndian(_, _)
BigEndian(n, size) ==
  IF n < 0 \/ (size = 0 /\ n > 0) THEN <<Thrown>>
  ELSE IF size = 0 THEN <<>>
  ELSE Append(BigEndian(n \div 256, size - 1), n % 256)
FromBytes(bytes) == FoldLeft(LAMBDA n, b : n * 256 + b, 0, bytes)
Written(it, n)  == IF it.le THEN Reverse(BigEndian(n, it.size)) ELSE BigEndian(n, it.size)
Number(it, bytes) == IF it.le THEN FromBytes(Reverse(bytes)) ELSE FromBytes(bytes)

-----------------------------------------------------------------------------
(* serializeLayout and deserializeLayout                                    *)
RECURSIVE Serialize(_, _)
SerializeItem(it, v) ==
  CASE it.kind = "num"   -> Written(it, From(it.as, v[it.name]))
    [] it.kind = "fixed" -> BigEndian(it.value, it.size)
    [] it.kind = "raw"   -> IF Len(v[it.name]) = it.size THEN v[it.name] ELSE <<Thrown>>
    [] it.kind = "sized" -> BigEndian(Len(v[it.name]), it.size) \o v[it.name]
    [] it.kind = "sub"   -> Serialize(it.layout, v[it.name])
    [] it.kind = "array" ->
         (IF it.size = 0 THEN <<>> ELSE Written(it, Len(v[it.name])))
           \o FlattenSeq([i \in DOMAIN v[it.name] |-> Serialize(it.layout, v[it.name][i])])
    [] it.kind = "switch" ->
         LET of == SelectSeq(it.cases, LAMBDA c : c[2] = v[it.name].tag)
         IN IF of = <<>> THEN <<Thrown>>
            ELSE <<of[1][1]>> \o Serialize(of[1][3], v[it.name])
Serialize(layout, v) ==
  FlattenSeq([i \in DOMAIN layout |-> SerializeItem(layout[i], v)])
Throws(bytes) == Contains(bytes, Thrown)

First(bytes, n) == SubSeq(bytes, 1, n)
Rest(bytes, n)  == SubSeq(bytes, n + 1, Len(bytes))

\* What is read, and the bytes that are left; ok = FALSE stands for an error.
RECURSIVE DeserializeOn(_, _, _), DeserializeArray(_, _, _)
Reads(layout, was, name, value, bytes) ==
  DeserializeOn(layout, [was EXCEPT !.v = (name :> value) @@ @], bytes)
DeserializeItem(it, bytes) ==
  LET Ok(value, left) == [ok |-> TRUE, v |-> value, left |-> left]
      Error == [ok |-> FALSE, v |-> <<>>, left |-> <<>>]
      nothing == [ok |-> TRUE, v |-> <<>>, left |-> bytes]
  IN IF it.kind \in {"num", "fixed", "raw", "sized"} /\ Len(bytes) < it.size THEN Error
     ELSE CASE it.kind = "num" ->
                 Ok(To(it.as, Number(it, First(bytes, it.size))), Rest(bytes, it.size))
            [] it.kind = "fixed" ->
                 IF First(bytes, it.size) = BigEndian(it.value, it.size)
                 THEN Ok(it.value, Rest(bytes, it.size)) ELSE Error
            [] it.kind = "raw" -> Ok(First(bytes, it.size), Rest(bytes, it.size))
            [] it.kind = "sized" ->
                 LET n == FromBytes(First(bytes, it.size))
                     left == Rest(bytes, it.size)
                 IN IF Len(left) < n THEN Error ELSE Ok(First(left, n), Rest(left, n))
            [] it.kind = "sub" -> DeserializeOn(it.layout, nothing, bytes)
            [] it.kind = "array" ->
                 IF it.size = 0 \/ Len(bytes) < it.size THEN Error
                 ELSE DeserializeArray(it.layout, Number(it, First(bytes, it.size)),
                                       Rest(bytes, it.size))
            [] it.kind = "switch" ->
                 LET of == SelectSeq(it.cases, LAMBDA c : bytes # <<>> /\ c[1] = bytes[1])
                 IN IF of = <<>> THEN Error
                    ELSE DeserializeOn(of[1][3], [nothing EXCEPT !.v = "tag" :> of[1][2]],
                                       Tail(bytes))
DeserializeOn(layout, was, bytes) ==
  IF ~was.ok \/ layout = <<>> THEN [was EXCEPT !.left = bytes]
  ELSE LET got == DeserializeItem(layout[1], bytes)
       IN IF ~got.ok THEN got
          ELSE IF layout[1].kind = "fixed" THEN DeserializeOn(Tail(layout), was, got.left)
          ELSE Reads(Tail(layout), was, layout[1].name, got.v, got.left)
DeserializeArray(layout, n, bytes) ==
  IF n = 0 THEN [ok |-> TRUE, v |-> <<>>, left |-> bytes]
  ELSE LET one == DeserializeItem(Sub("", layout), bytes)
           more == DeserializeArray(layout, n - 1, one.left)
       IN IF one.ok /\ more.ok THEN [more EXCEPT !.v = <<one.v>> \o @]
          ELSE [ok |-> FALSE, v |-> <<>>, left |-> <<>>]

\* What a reader that leaves the bytes behind unread finds.
ReadFrom(layout, bytes) == DeserializeOn(layout, [ok |-> TRUE, v |-> <<>>, left |-> bytes], bytes)
Whole(got) == [got EXCEPT !.ok = @ /\ got.left = <<>>]
\* The whole of the bytes must be read.
Deserialize(layout, bytes) == Whole(ReadFrom(layout, bytes))
=============================================================================
