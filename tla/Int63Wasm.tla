----------------------------- MODULE Int63Wasm -----------------------------
(* The same operators as the WebAssembly backend translates them            *)
(* (LambdaANF_to_Wasm_primints.v), on i64 words without a tag. A result is  *)
(* the word in memory, the constructor of an unboxed value, or the fields   *)
(* of a boxed one as in Int63Runtime.                                       *)
EXTENDS Words, Bitwise

bitmask(w) == w % Base
low32(w) == w % 2^(Half + 1)
high32(w) == Shr(w, Half + 1)

add(x, y) == bitmask(Wrap(x + y))
sub(x, y) == bitmask(Wrap(x - y))
mul(x, y) == bitmask(Wrap(x * y))

div_instrs(x, y) == IF y = 0 THEN 0 ELSE x \div y
mod_instrs(x, y) == IF y = 0 THEN x ELSE x % y

shl_instrs(x, y) == IF y < Size THEN bitmask(Shl(x, y)) ELSE 0
shr_instrs(x, y) == IF y < Size THEN Shr(x, y) ELSE 0

boolean(b) == IF b THEN 1 ELSE 0
compare_instrs(x, y) == IF x < y THEN 1 ELSE IF x = y THEN 0 ELSE 2

make_carry(b, n) == <<IF b THEN 1 ELSE 0, n>>

apply_add_carry_operationStrict(x, y, addone) ==
    LET r == bitmask(Wrap(x + y + (IF addone THEN 1 ELSE 0)))
    IN  make_carry(r < x, r)

apply_add_carry_operation(x, y, addone) ==
    LET r == bitmask(Wrap(x + y + (IF addone THEN 1 ELSE 0)))
    IN  make_carry(IF addone THEN r <= x ELSE r < x, r)

apply_sub_carry_operation(x, y, subone) ==
    LET r == bitmask(Wrap(x - y - (IF subone THEN 1 ELSE 0)))
    IN  make_carry(~(IF subone THEN y < x ELSE y <= x), r)

mulc_instrs(x, y) ==
    LET ll    == Wrap(low32(x) * low32(y))
        hl    == Wrap(high32(x) * low32(y))
        lh    == Wrap(low32(x) * high32(y))
        hh    == Wrap(high32(x) * high32(y))
        cross == Wrap(high32(ll) + low32(hl) + lh)
        upper == Wrap(high32(hl) + high32(cross) + hh)
        lower == Shl(cross, Half + 1) | low32(ll)
    IN  <<Wrap(Shl(upper, 1) + Shr(lower, Size)), bitmask(lower)>>

diveucl_instrs(x, y) ==
    IF x = 0 THEN <<0, 0>> ELSE IF y = 0 THEN <<0, x>> ELSE <<x \div y, x % y>>

\* i64.clz and i64.ctz, of the wasm machine.
clz(w) == CHOOSE n \in 0 .. Size + 1 : w * 2^n < 2 * Base /\ (n = Size + 1 \/ w * 2^n >= Base)
ctz(w) == CHOOSE n \in 0 .. Size : w % 2^n = 0 /\ w % 2^(n + 1) # 0

head0_instrs(x) == clz(x) - 1
tail0_instrs(x) == IF x = 0 THEN Size ELSE ctz(x)

addmuldiv_instrs(p, x, y) ==
    IF p > Size THEN 0 ELSE bitmask(Shl(x, p) | Shr(y, Size - p))
=============================================================================
