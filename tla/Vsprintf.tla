------------------------------ MODULE Vsprintf ------------------------------
(***************************************************************************)
(* lib/vsprintf.c: vsprintf() walking over its format, number(), and the   *)
(* functions that read numbers back.  Characters are strings of length 1,  *)
(* the types have as few bits as a model can bear.                         *)
(***************************************************************************)
EXTENDS Integers, Sequences, SequencesExt

CONSTANTS
  Formats, Arguments,        (* what vsprintf() is called with             *)
  ShortBits, IntBits, LongLongBits, (* int, long and pointers are the same *)
  PointerWidth               (* twice the size of a pointer                *)

VARIABLES
  fmt, args,
  fp,     (* fmt, as an index: the character that is next                  *)
  ap,     (* the argument that is next                                     *)
  flags, field_width, precision, qualifier,
  str,    (* what is written                                               *)
  start,  (* Len(str) before the last conversion                           *)
  num,    (* its argument                                                  *)
  pc

vars == <<fmt, args, fp, ap, flags, field_width, precision, qualifier, str, start, num, pc>>
spec == <<flags, field_width, precision, qualifier>>

Init ==
  /\ fmt \in Formats /\ args \in Arguments
  /\ fp = 1 /\ ap = 1 /\ str = <<>> /\ start = 0 /\ num = 0 /\ pc = "text"
  /\ flags = {} /\ field_width = -1 /\ precision = -1 /\ qualifier = ""

At(s, i) == IF i \in DOMAIN s THEN s[i] ELSE "NUL"
Repeat(c, n) == IF n > 0 THEN [j \in 1 .. n |-> c] ELSE <<>>

Decimal == <<"0", "1", "2", "3", "4", "5", "6", "7", "8", "9">>
Lower == <<"0", "1", "2", "3", "4", "5", "6", "7", "8", "9", "a", "b", "c", "d", "e", "f">>
Upper == <<"0", "1", "2", "3", "4", "5", "6", "7", "8", "9", "A", "B", "C", "D", "E", "F">>
In(c, digits) == \E d \in DOMAIN digits : digits[d] = c
Value(c) == (CHOOSE d \in 1 .. 16 : Lower[d] = c \/ Upper[d] = c) - 1
isxdigit(c) == In(c, Lower) \/ In(c, Upper)

(* The number that begins at s[i]: its value and where it ends.            *)
Digits(s, i, base, limit) ==
  LET f[j \in Nat] ==
        IF j = 0 THEN [value |-> 0, end |-> i]
        ELSE LET before == f[j - 1]
                 c == At(s, i + (j - 1))
             IN IF isxdigit(c) /\ Value(c) < base /\ before.end = i + (j - 1)
                  THEN [value |-> (before.value * base + Value(c)) % limit, end |-> i + j]
                  ELSE before
  IN f[Len(s)]

(* if (!base): the base, and where the number begins.                      *)
BaseOf(s, i) ==
  IF At(s, i) # "0" THEN <<10, i>>
  ELSE IF At(s, i + 1) = "x" /\ isxdigit(At(s, i + 2)) THEN <<16, i + 2>>
  ELSE <<8, i + 1>>

simple_strtoull(s, i, base) ==
  LET from == IF base = 0 THEN BaseOf(s, i) ELSE <<base, i>> IN
  Digits(s, from[2], from[1], 2 ^ LongLongBits)

(* The result as an unsigned number.                                       *)
simple_strtoll(s, i, base) ==
  IF At(s, i) = "-"
    THEN LET r == simple_strtoull(s, i + 1, base) IN [r EXCEPT !.value = (-@) % 2 ^ LongLongBits]
    ELSE simple_strtoull(s, i, base)

skip_atoi(i) == Digits(fmt, i, 10, 65536)  (* widths are far below that *)

(* do_div() until nothing is left, and once for 0: what is left after j    *)
(* divisions, and how many there are.                                      *)
Left(n, base) == LET left[j \in Nat] == IF j = 0 THEN n ELSE left[j - 1] \div base IN left
Divisions(left) == CHOOSE i \in 1 .. left[0] + 1 : left[i] = 0 /\ \A j \in 1 .. i - 1 : left[j] # 0

(* Mutant of DigitsOf: tmp is not turned round.                            *)
DigitsReversed(n, base) ==
  LET left == Left(n, base) IN [j \in 1 .. Divisions(left) |-> Lower[(left[j - 1] % base) + 1]]

(* The remainders, the last one first.                                     *)
DigitsOf(n, base) ==
  LET left == Left(n, base)
      i == Divisions(left)
  IN [j \in 1 .. i |-> Lower[(left[i - j] % base) + 1]]

Capital(s) == [j \in DOMAIN s |-> IF isxdigit(s[j]) THEN Upper[Value(s[j]) + 1] ELSE "X"]

Sign(n, type) ==
  IF "SIGN" \notin type THEN <<>>
  ELSE IF n < 0 THEN <<"-">>
  ELSE IF "PLUS" \in type THEN <<"+">>
  ELSE IF "SPACE" \in type THEN <<" ">> ELSE <<>>

Prefix(base, type) ==
  IF "SPECIAL" \notin type \/ base = 10 THEN <<>> ELSE IF base = 8 THEN <<"0">> ELSE <<"0", "x">>

(* n as a number of so many bits.                                          *)
As(n, bits, signed) ==
  LET u == n % 2 ^ bits IN IF signed /\ u >= 2 ^ (bits - 1) THEN u - 2 ^ bits ELSE u

(* The most negative int, and what is left of a width: taking from the most*)
(* negative one wraps (undefined in C, two's complement as it is built).   *)
(* Any other width is -1 at least, and what is written is far shorter than *)
(* an int can say.                                                         *)
Least == -(2 ^ (IntBits - 1))
Room(size, taken) == IF size = Least THEN size - taken + 2 ^ IntBits ELSE size - taken

(* Mutant of number: the sign is not counted in the width.                 *)
NumberUnsigned(n, base, size, prec, type) ==
  LET sign == Sign(n, type)
      body == Prefix(base, type) \o DigitsOf(IF sign = <<"-">> THEN -n ELSE n % 2 ^ LongLongBits, base)
      pad == Repeat(IF "ZEROPAD" \in type THEN "0" ELSE " ", size - Len(body))
  IN IF "LEFT" \in type THEN sign \o body \o pad ELSE pad \o sign \o body

number(n, base, size, prec, type) ==
  LET sign == Sign(n, type)
      prefix == Prefix(base, type)
      digits == DigitsOf(IF sign = <<"-">> THEN -n ELSE n % 2 ^ LongLongBits, base)
      body == Repeat("0", prec - Len(digits)) \o digits
      room == Room(size, Len(sign) + Len(prefix) + Len(body))
      large(s) == IF "LARGE" \in type THEN Capital(s) ELSE s
      front == sign \o large(prefix)
  IN IF "LEFT" \in type THEN front \o large(body) \o Repeat(" ", room)
     ELSE IF "ZEROPAD" \in type THEN front \o Repeat("0", room) \o large(body)
     ELSE Repeat(" ", room) \o front \o large(body)

Text ==
  /\ pc = "text"
  /\ \/ At(fmt, fp) = "NUL" /\ pc' = "end" /\ UNCHANGED <<fp, str, start, spec>>
     \/ /\ At(fmt, fp) \notin {"NUL", "%"}
        /\ str' = Append(str, fmt[fp]) /\ fp' = fp + 1 /\ UNCHANGED <<pc, start, spec>>
     \/ /\ At(fmt, fp) = "%"
        /\ fp' = fp + 1 /\ pc' = "flags" /\ start' = Len(str)
        /\ flags' = {} /\ field_width' = -1 /\ precision' = -1 /\ qualifier' = ""
        /\ UNCHANGED str
  /\ UNCHANGED <<fmt, args, ap, num>>

FlagOf == [c \in {"-", "+", " ", "#", "0"} |->
  CASE c = "-" -> "LEFT" [] c = "+" -> "PLUS" [] c = " " -> "SPACE" [] c = "#" -> "SPECIAL" [] c = "0" -> "ZEROPAD"]

(* Mutant of Flags: fmt is not stepped before it is looked at again.       *)
FlagsStuck ==
  /\ pc = "flags"
  /\ IF At(fmt, fp) \in DOMAIN FlagOf
       THEN flags' = flags \union {FlagOf[fmt[fp]]} /\ UNCHANGED <<fp, pc>>
       ELSE pc' = "width" /\ UNCHANGED <<flags, fp>>
  /\ UNCHANGED <<fmt, args, ap, field_width, precision, qualifier, str, start, num>>

Flags ==
  /\ pc = "flags"
  /\ IF At(fmt, fp) \in DOMAIN FlagOf
       THEN flags' = flags \union {FlagOf[fmt[fp]]} /\ fp' = fp + 1 /\ UNCHANGED pc
       ELSE pc' = "width" /\ UNCHANGED <<flags, fp>>
  /\ UNCHANGED <<fmt, args, ap, field_width, precision, qualifier, str, start, num>>

(* -field_width leaves the most negative int as it is.                     *)
Width ==
  /\ pc = "width" /\ pc' = "precision"
  /\ \/ /\ In(At(fmt, fp), Decimal)
        /\ field_width' = skip_atoi(fp).value /\ fp' = skip_atoi(fp).end /\ UNCHANGED <<ap, flags>>
     \/ /\ At(fmt, fp) = "*"
        /\ fp' = fp + 1 /\ ap' = ap + 1
        /\ LET width == As(args[ap], IntBits, TRUE) IN
           IF width < 0 THEN field_width' = As(-width, IntBits, TRUE) /\ flags' = flags \union {"LEFT"}
           ELSE field_width' = width /\ UNCHANGED flags
     \/ /\ At(fmt, fp) # "*" /\ ~In(At(fmt, fp), Decimal) /\ UNCHANGED <<fp, ap, field_width, flags>>
  /\ UNCHANGED <<fmt, args, precision, qualifier, str, start, num>>

(* A dot alone, or a negative precision, is a precision of 0.              *)
Precision ==
  /\ pc = "precision" /\ pc' = "qualifier"
  /\ LET next == At(fmt, fp + 1)
         given == As(args[ap], IntBits, TRUE)
     IN
     IF At(fmt, fp) # "." THEN UNCHANGED <<fp, ap, precision>>
     ELSE IF In(next, Decimal)
       THEN precision' = skip_atoi(fp + 1).value /\ fp' = skip_atoi(fp + 1).end /\ UNCHANGED ap
     ELSE IF next = "*"
       THEN precision' = (IF given < 0 THEN 0 ELSE given) /\ fp' = fp + 2 /\ ap' = ap + 1
     ELSE precision' = 0 /\ fp' = fp + 1 /\ UNCHANGED ap
  /\ UNCHANGED <<fmt, args, flags, field_width, qualifier, str, start, num>>

Qualifier ==
  /\ pc = "qualifier" /\ pc' = "convert"
  /\ IF At(fmt, fp) \in {"h", "l", "L", "Z"} THEN qualifier' = fmt[fp] /\ fp' = fp + 1 ELSE UNCHANGED <<qualifier, fp>>
  /\ UNCHANGED <<fmt, args, ap, flags, field_width, precision, str, start, num>>

(* What va_arg makes of an argument; size_t has no sign.                   *)
Argument(signed) ==
  CASE qualifier = "L" -> As(args[ap], LongLongBits, TRUE)
    [] qualifier = "h" -> As(args[ap], ShortBits, signed)
    [] qualifier = "Z" -> As(args[ap], IntBits, FALSE)
    [] OTHER -> As(args[ap], IntBits, signed)

Integer == {"o", "x", "X", "d", "i", "u"}
Base(c) == CASE c = "o" -> 8 [] c \in {"x", "X"} -> 16 [] OTHER -> 10

Put(s) == str' = str \o s

ConvertInteger ==
  /\ pc = "convert" /\ pc' = "text" /\ At(fmt, fp) \in Integer
  /\ LET c == fmt[fp]
         type == flags \union (IF c \in {"d", "i"} THEN {"SIGN"} ELSE IF c = "X" THEN {"LARGE"} ELSE {})
     IN /\ flags' = type
        /\ num' = Argument("SIGN" \in type)
        /\ Put(number(num', Base(c), field_width, precision, type))
  /\ ap' = ap + 1 /\ fp' = fp + 1
  /\ UNCHANGED <<fmt, args, field_width, precision, qualifier, start>>

ConvertPointer ==
  /\ pc = "convert" /\ pc' = "text" /\ At(fmt, fp) = "p"
  /\ field_width' = IF field_width = -1 THEN PointerWidth ELSE field_width
  /\ flags' = IF field_width = -1 THEN flags \union {"ZEROPAD"} ELSE flags
  /\ num' = As(args[ap], IntBits, FALSE)
  /\ Put(number(num', 16, field_width', precision, flags'))
  /\ ap' = ap + 1 /\ fp' = fp + 1
  /\ UNCHANGED <<fmt, args, precision, qualifier, start>>

Padded(s, room) ==
  LET pad == Repeat(" ", room) IN IF "LEFT" \in flags THEN s \o pad ELSE pad \o s

(* %c and %s; an argument n stands for the string of n characters, a       *)
(* negative one for NULL.  %c counts the width down before it looks at it, *)
(* %s afterwards.                                                          *)
ConvertText ==
  /\ pc = "convert" /\ pc' = "text" /\ At(fmt, fp) \in {"c", "s"}
  /\ LET s == IF fmt[fp] = "c" THEN <<"c">>
              ELSE IF args[ap] < 0 THEN <<"<", "N", "U", "L", "L", ">">> ELSE Repeat("s", args[ap])
         len == IF fmt[fp] = "s" /\ precision \in 0 .. Len(s) THEN precision ELSE Len(s)
     IN Put(Padded(SubSeq(s, 1, len), IF fmt[fp] = "c" THEN Room(field_width, 1) ELSE field_width - len))
  /\ num' = args[ap] /\ ap' = ap + 1 /\ fp' = fp + 1
  /\ UNCHANGED <<fmt, args, spec, start>>

(* %n: how much has been written so far goes to where the argument points. *)
ConvertCount ==
  /\ pc = "convert" /\ pc' = "text" /\ At(fmt, fp) = "n"
  /\ num' = Len(str) /\ ap' = ap + 1 /\ fp' = fp + 1
  /\ UNCHANGED <<fmt, args, spec, str, start>>

(* Mutant of ConvertOther: the end of the format is stepped over.          *)
ConvertOtherFar ==
  /\ pc = "convert" /\ pc' = "text" /\ At(fmt, fp) \notin Integer \union {"p", "c", "s", "n"}
  /\ Put(<<"%">>) /\ fp' = fp + 1
  /\ UNCHANGED <<fmt, args, ap, spec, start, num>>

ConvertOther ==
  /\ pc = "convert" /\ pc' = "text"
  /\ LET c == At(fmt, fp) IN
     /\ c \notin Integer \union {"p", "c", "s", "n"}
     /\ Put(IF c \in {"%", "NUL"} THEN <<"%">> ELSE <<"%", c>>)
     /\ fp' = IF c = "NUL" THEN fp ELSE fp + 1
  /\ UNCHANGED <<fmt, args, ap, spec, start, num>>

Return == pc = "end" /\ UNCHANGED vars

Next ==
  \/ Text \/ Flags \/ Width \/ Precision \/ Qualifier \/ Return
  \/ ConvertInteger \/ ConvertPointer \/ ConvertText \/ ConvertCount \/ ConvertOther

Spec == Init /\ [][Next]_vars /\ WF_vars(Next)
-----------------------------------------------------------------------------
(* What a format asks for, character by character: the stage of a          *)
(* conversion it has come to, and how many arguments until then.           *)
After(stage, c) ==
  IF stage = "text" THEN IF c = "%" THEN "flags" ELSE "text"
  ELSE IF stage = "flags" /\ c \in DOMAIN FlagOf THEN "flags"
  ELSE IF stage \in {"flags", "width"} /\ In(c, Decimal) THEN "width"
  ELSE IF stage = "flags" /\ c = "*" THEN "width taken"
  ELSE IF stage \in {"flags", "width", "width taken"} /\ c = "." THEN "dot"
  ELSE IF stage \in {"dot", "precision"} /\ In(c, Decimal) THEN "precision"
  ELSE IF stage = "dot" /\ c = "*" THEN "precision taken"
  ELSE IF stage # "qualified" /\ c \in {"h", "l", "L", "Z"} THEN "qualified"
  ELSE "text"

Takes(stage, c) ==
  stage # "text" /\ (c \in Integer \union {"p", "c", "s", "n"} \/ (stage \in {"flags", "dot"} /\ c = "*"))

Asked(f) ==
  LET a[j \in 0 .. Len(f)] ==
        IF j = 0 THEN [stage |-> "text", taken |-> 0]
        ELSE LET before == a[j - 1]
             IN [stage |-> After(before.stage, f[j]),
                 taken |-> before.taken + (IF Takes(before.stage, f[j]) THEN 1 ELSE 0)]
  IN a

(* A caller passes what its format asks for.                               *)
ArgumentsOK ==
  /\ Arguments \subseteq Seq(Int) /\ PointerWidth \in Nat
  /\ {2^ShortBits, 2^IntBits, 2^LongLongBits} \subseteq Nat \ {0}
  /\ 2^(IntBits - 1) \in Nat \ {0, 1} /\ 2^IntBits = 2 * 2^(IntBits - 1)
  /\ \A f \in Formats : f \in Seq(Range(f))
  /\ \A f \in Formats, a \in Arguments : Asked(f)[Len(f)].taken <= Len(a)

(* Reading never leaves the format, also when it ends within a conversion, *)
(* and takes the arguments it asks for, no more (lib/vsprintf.c:165-321).  *)
TypeOK ==
  /\ fp \in 1 .. Len(fmt) + 1 /\ ap \in 1 .. Len(args) + 1
  /\ ap = 1 + Asked(fmt)[fp - 1].taken
  /\ flags \subseteq {"LEFT", "PLUS", "SPACE", "SPECIAL", "ZEROPAD", "SIGN", "LARGE"}
  /\ field_width >= -1 \/ field_width = Least
  /\ precision >= -1

(* The letter of the conversion that was the last step.                    *)
Converted == IF pc = "text" /\ fp > 1 /\ Asked(fmt)[fp - 2].stage # "text" THEN At(fmt, fp - 1) ELSE "NUL"
Field == SubSeq(str, start + 1, Len(str))

(* Where the number in a field begins: behind the pad and a plus.          *)
NumberAt == CHOOSE i \in 1 .. Len(Field) + 1 :
  /\ At(Field, i) \notin {" ", "+"}
  /\ \A j \in 1 .. i - 1 : Field[j] \in {" ", "+"}

(* What number() writes simple_strtoll() reads back, whatever the flags,   *)
(* width and precision; a prefix in capitals it does not know (23-33).     *)
ReadsBack ==
  /\ Converted \in Integer \union {"p"}
  /\ ~("SPECIAL" \in flags /\ "LARGE" \in flags)
  => LET base == IF Converted = "p" THEN 16 ELSE Base(Converted)
         prefixed == "SPECIAL" \in flags /\ base # 10
     IN simple_strtoll(Field, NumberAt, IF prefixed THEN 0 ELSE base).value = num % 2 ^ LongLongBits

(* The precision is the "min. # of digits for integers; max number of      *)
(* chars for from string", the width a minimum that pads and never cuts,   *)
(* and pads no further unless it is the most negative int (179-181).       *)
FieldShape ==
  /\ Converted \in Integer \union {"p", "c", "s"} => Len(Field) >= field_width
  /\ Converted \in Integer \union {"p"} =>
       \E i \in 0 .. Len(Field) : \A j \in 1 .. precision : isxdigit(At(Field, i + j))
  /\ Converted = "s" /\ precision >= 0 =>
       \E i \in 0 .. Len(Field) : \A j \in DOMAIN Field : Field[j] = " " \/ j - i \in 1 .. precision
  /\ Converted \in Integer \union {"p"} /\ field_width >= -1 /\ Len(Field) > field_width => " " \notin Range(Tail(Field))
  /\ Converted \in Integer \union {"c", "s"} /\ "LEFT" \in flags /\ ~(Range(Field) \subseteq {" "})
       => Field[1] # " " \/ "SPACE" \in flags

(* The format is worked off.                                               *)
Returns == <>(pc = "end")
=============================================================================
