---------------------------- MODULE PrimStrings ----------------------------
(* prim_string.c: strings as OCaml has them, in blocks of whole words whose *)
(* last byte says how many bytes before it are padding.  A new block comes  *)
(* with the words that were asked for and those that alloc goes forward by. *)
EXTENDS Words, Sequences, FiniteSetsExt, SequencesExt

CONSTANT WordBytes    \* 8

ASSUME WordBytesAssumption == WordBytes \in Nat \ {0}

\* `char` is signed.
Char(byte) == IF byte >= 128 THEN byte - 256 ELSE byte
Byte(block, k) == Char(block[k + 1])

prim_strlen(block) == LET temp == Len(block) - 1 IN temp - Byte(block, temp)

words(len) == len \div WordBytes + 1

\* Mutant: the last byte that a word too many still has.
PadLate(len) ==
    Min({j \in len .. len + 2 * WordBytes : j \div WordBytes >= words(len)})

\* Where the loop that writes zeros after the characters stops.
Pad(len) ==
    Min({j \in len .. len + WordBytes : (j + 1) \div WordBytes >= words(len)})

\* The bytes that are written, the last one with the number of zeros before it.
New(s, asked, taken) ==
    LET j == Pad(Len(s))
    IN  [block |-> s \o [k \in 1 .. j - Len(s) |-> 0] \o <<j - Len(s)>>,
         asked |-> asked, taken |-> taken]

\* The words of a block, header included.
WordsOf(block) == Len(block) \div WordBytes + 1

mk_ocaml_string(s) == New(s, words(Len(s)) + 1, words(Len(s)) + 1)

\* bytes and d are tagged, and used as they are.
prim_string_make(bytes, d) ==
    New([k \in 1 .. bytes |-> d % 256], words(bytes), words(bytes))

\* What lies behind a block.
Beyond == 255

\* from and len too.
prim_string_sub(block, from, len) ==
    New([k \in 1 .. len |-> IF from + k <= Len(block) THEN block[from + k] ELSE Beyond],
        words(len), words(len))

prim_string_cat(x, y) ==
    LET lenx == prim_strlen(x)
        leny == prim_strlen(y)
    IN  New(SubSeq(x, 1, lenx) \o SubSeq(y, 1, leny), words(lenx + leny), words(lenx + leny))

prim_string_get(block, i) == Val_long(Byte(block, Long_val(i)))
prim_string_length(block) == Val_long(prim_strlen(block))

----------------------------------------------------------------------------
(* LambdaANF_to_Clight_stack.v: a literal, as the words that are stored     *)

\* The word whose bytes, lowest first, are these.
Packed(bytes) == FoldRight(LAMBDA byte, rest : byte + 256 * rest, bytes, 0)

\* Whole words of characters, and one with the last characters and the padding.
encode_list(l) ==
    LET whole == Len(l) \div WordBytes
        rest == SubSeq(l, whole * WordBytes + 1, Len(l))
        chars(k) == SubSeq(l, (k - 1) * WordBytes + 1, k * WordBytes)
    IN  [k \in 1 .. whole |-> Packed(chars(k))]
        \o <<(WordBytes - 1 - Len(rest)) * 2^(8 * (WordBytes - 1)) + Packed(rest)>>

\* The bytes of the words, and the words from which alloc goes forward.
compile_string(l) ==
    LET stored == encode_list(l)
    IN  [block |-> FlattenSeq([k \in 1 .. Len(stored) |->
                       [b \in 1 .. WordBytes |-> Bits(stored[k], 8 * (b - 1), 8)]]),
         taken |-> words(Len(l)) + 1]
=============================================================================
