------------------------------ MODULE KeyCodec ------------------------------
(***************************************************************************)
(* The encoding of key attributes into storage keys (src/engine/           *)
(* key_codec.cpp) and the byte order storage keys are sorted in.           *)
(*                                                                         *)
(* A key attribute is [type |-> "S", "N" or "B", v |-> ...]: the bytes of  *)
(* a string or binary value, or a number.  Keys are sequences of bytes.    *)
(***************************************************************************)
EXTENDS Integers, Sequences, FiniteSets, SequencesExt

\* std::string order: byte by byte, a proper prefix first.
Less(a, b) ==
    LET differ == {i \in 1 .. Len(a) : i <= Len(b) /\ a[i] # b[i]}
    IN  IF differ = {} THEN Len(a) < Len(b)
        ELSE LET i == CHOOSE i \in differ : \A j \in differ : i <= j
             IN  a[i] < b[i]

HasPrefix(key, prefix) ==
    Len(key) >= Len(prefix) /\ SubSeq(key, 1, Len(prefix)) = prefix

\* A zero byte is escaped, and two of them end the component.
append_escaped(bytes) ==
    FlattenSeq([i \in DOMAIN bytes |-> IF bytes[i] = 0 THEN <<0, 255>> ELSE <<bytes[i]>>])
    \o <<0, 0>>

\* The width of a number's sign and magnitude.  Doubles have 64 bits; the
\* order argument needs one sign bit above a magnitude that grows with |d|.
NumberBits == 16

\* Mutation: negative numbers only have their sign bit flipped.
append_sign_only(d) ==
    LET sign == 2^(NumberBits - 1)
        image == IF d < 0 THEN 0 - d ELSE d + sign
    IN  <<image \div 256, image % 256>>

append_number(d) ==
    LET sign == 2^(NumberBits - 1)
        bits == IF d < 0 THEN sign + (0 - d) ELSE d
        image == IF bits >= sign THEN 2^NumberBits - 1 - bits ELSE bits + sign
    IN  <<image \div 256, image % 256>>

encode_key_component(av) ==
    CASE av.type = "S" -> <<83>> \o append_escaped(av.v)
      [] av.type = "N" -> <<78>> \o append_number(av.v)
      [] av.type = "B" -> <<66>> \o append_escaped(av.v)

\* The components of a key, in the order of the key schema.
encode_primary_key(values) ==
    FlattenSeq([i \in DOMAIN values |-> encode_key_component(values[i])])

\* The first key after every key with this prefix; <<>> when there is none.
prefix_successor(prefix) ==
    LET open == {i \in DOMAIN prefix : prefix[i] # 255}
    IN  IF open = {} THEN <<>>
        ELSE LET i == CHOOSE i \in open : \A j \in open : j <= i
             IN  [SubSeq(prefix, 1, i) EXCEPT ![i] = @ + 1]

=============================================================================
