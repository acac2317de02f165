------------------------------- MODULE Format -------------------------------
(***************************************************************************)
(* The formatting of printk (lib/printk.c): vprintfmt as a loop over the   *)
(* format, one action per round, with strtol, puts_wo_nl and print_dec_int *)
(* as operators.  user/printf.c holds the same text, two lines further     *)
(* down, for the printf of the user programs.                              *)
(*                                                                         *)
(* Characters are strings of length one; the format is a sequence of them  *)
(* followed by NUL.  int and long have IntBits and LongBits bits; a number *)
(* is represented by its bit pattern, a natural number.                    *)
(***************************************************************************)
EXTENDS Integers, Sequences, SequencesExt

CONSTANTS
  IntBits, LongBits,
  Calls       \* calls to consider: [fmt, args, text], text what is expected:
              \* a set of one sequence, or the empty set for calls that are not C

FormatAssumption ==
  /\ IntBits \in Nat \ {0} /\ LongBits \in Nat /\ IntBits <= LongBits

VARIABLES
  call,       \* the call in progress
  fmt,        \* the pointer into call.fmt: an index, Len + 1 is the NUL
  vl,         \* the arguments not yet taken
  flags,      \* struct fmt_flags
  out,        \* the characters given to putch; written is its length
  stored      \* what %n stored, -1 if nothing yet

vars == <<call, fmt, vl, flags, out, stored>>

At(q) == IF q <= Len(call.fmt) THEN call.fmt[q] ELSE "NUL"

-----------------------------------------------------------------------------
(* strtol, with the base 10 of both callers.  Run(q, S) is where a loop    *)
(* that skips the characters of S from q on stops.                         *)
Decimal == <<"0", "1", "2", "3", "4", "5", "6", "7", "8", "9">>
xdigits == [lower |-> Decimal \o <<"a", "b", "c", "d", "e", "f">>,
            upper |-> Decimal \o <<"A", "B", "C", "D", "E", "F">>]
isspace == {" ", "\t", "\n", "VT", "\f", "\r"}    \* VT for \v

Run(q, S) == CHOOSE r \in q .. Len(call.fmt) + 1 :
               At(r) \notin S /\ \A k \in q .. r - 1 : At(k) \in S
strtol(q) ==
  LET r   == Run(q, isspace)
      s   == IF At(r) \in {"-", "+"} THEN r + 1 ELSE r
      end == Run(s, Range(Decimal))
      ret == FoldLeft(LAMBDA v, c : 10 * v + SelectInSeq(Decimal, LAMBDA d : d = c) - 1,
                      0, SubSeq(call.fmt, s, end - 1))
  IN  [end |-> end, value |-> IF At(r) = "-" THEN -ret ELSE ret]

-----------------------------------------------------------------------------
(* va_arg: an int is sign-extended to a long, an unsigned int is not. *)
SignBit(bits) == 2^(bits - 1)
Unsigned(n) == n % 2^IntBits
SignExtended(n) ==
  Unsigned(n) + (IF Unsigned(n) >= SignBit(IntBits) THEN 2^LongBits - 2^IntBits ELSE 0)

Pad(c, n)    == [i \in 1 .. n |-> c]
Larger(a, b) == IF a > b THEN a ELSE b

(* The digits the do-while loops collect in buf, first digit first. *)
Numeral(n, base, digits) ==
  LET text[k \in 0 .. n] == IF k < base THEN <<digits[k + 1]>>
                            ELSE Append(text[k \div base], digits[(k % base) + 1])
  IN  text[n]

(* The precision 0 leaves: the width, when nothing else says how wide.     *)
Precision(f, prefix) == IF f.prec = -1 /\ f.zeroflag THEN f.width - prefix ELSE f.prec


(* puts_wo_nl: a null pointer, as a string the one below, is "(null)". *)
NullPointer == <<"NULL">>
puts_wo_nl(s) == IF s = NullPointer THEN <<"(", "n", "u", "l", "l", ")">> ELSE s

NoSignRoom(sign) == 0
SignRoom(sign) == Len(sign)
print_dec_int(num, is_signed, f) ==
  LET neg    == is_signed /\ num >= SignBit(LongBits)
      digits == Numeral(IF neg THEN 2^LongBits - num ELSE num, 10, Decimal)
      sign   == IF neg THEN <<"-">>
                ELSE IF is_signed /\ f.sign THEN <<"+">>
                ELSE IF is_signed /\ f.spaceflag THEN <<" ">> ELSE <<>>
      prec   == Precision(f, 0)
  IN
  IF is_signed /\ num = SignBit(LongBits) THEN <<"-">> \o digits
  ELSE IF f.prec = 0 /\ num = 0 THEN <<>>
  ELSE Pad(" ", f.width - Larger(Len(digits), prec) - Len(sign)) \o sign
         \o Pad("0", prec - SignRoom(sign) - Len(digits)) \o digits

print_hex(num, c, f) ==
  LET digits == Numeral(num, 16, IF c = "X" THEN xdigits.upper ELSE xdigits.lower)
      prefix == IF c = "p" \/ (f.sharpflag /\ num # 0)
                THEN <<"0", IF c = "X" THEN "X" ELSE "x">> ELSE <<>>
      prec   == Precision(f, Len(prefix))
  IN
  IF f.prec = 0 /\ num = 0 /\ c # "p" THEN <<>>
  ELSE Pad(" ", f.width - Len(prefix) - Larger(Len(digits), prec)) \o prefix
         \o Pad("0", prec - Len(digits)) \o digits

(* What conversion c prints of argument a. *)
Converted(c, a) ==
  CASE c \in {"x", "X", "p"} ->
         print_hex(IF c = "p" \/ flags.longflag THEN a ELSE Unsigned(a), c, flags)
    [] c \in {"d", "i", "u"} ->
         print_dec_int(IF flags.longflag THEN a ELSE SignExtended(a), c # "u", flags)
    [] c = "s" -> puts_wo_nl(a)
    [] c = "c" -> <<a>>

-----------------------------------------------------------------------------
NoFormat == [in_format |-> FALSE, longflag |-> FALSE, sharpflag |-> FALSE,
             zeroflag |-> FALSE, spaceflag |-> FALSE, sign |-> FALSE,
             width |-> 0, prec |-> 0]
OldFlags(f) == [f EXCEPT !.in_format = TRUE, !.prec = -1]
NewFormat(f) == [NoFormat EXCEPT !.in_format = TRUE, !.prec = -1]

Init ==
  /\ call \in Calls
  /\ fmt = 1 /\ vl = call.args /\ flags = NoFormat /\ out = <<>> /\ stored = -1

FlagOf == [c \in {"#", "0", "l", "z", "t", "j", "+", " "} |->
             CASE c = "#" -> "sharpflag" [] c = "0" -> "zeroflag"
               [] c = "+" -> "sign"      [] c = " " -> "spaceflag"
               [] OTHER   -> "longflag"]
WidthStart  == Range(Decimal) \ {"0"}
Conversions == {"x", "X", "p", "d", "i", "u", "s", "c"}

(* Outside a format: a character is printed, % begins a format. *)
Literal ==
  /\ ~flags.in_format /\ At(fmt) \notin {"%", "NUL"}
  /\ out' = Append(out, At(fmt)) /\ fmt' = fmt + 1
  /\ UNCHANGED <<call, vl, flags, stored>>

Percent ==
  /\ ~flags.in_format /\ At(fmt) = "%"
  /\ flags' = NewFormat(flags) /\ fmt' = fmt + 1
  /\ UNCHANGED <<call, vl, out, stored>>

Flag ==
  /\ flags.in_format /\ At(fmt) \in DOMAIN FlagOf
  /\ flags' = [flags EXCEPT ![FlagOf[At(fmt)]] = TRUE] /\ fmt' = fmt + 1
  /\ UNCHANGED <<call, vl, out, stored>>

(* Width and precision: a number of the format, or, after *, an argument.  *)
(* strtol leaves fmt behind the number; the loop will add one again.       *)
NoStepBack(q) == q
StepBack(q) == q - 1
Width ==
  /\ flags.in_format /\ At(fmt) \in WidthStart
  /\ flags' = [flags EXCEPT !.width = strtol(fmt).value]
  /\ fmt' = StepBack(strtol(fmt).end) + 1
  /\ UNCHANGED <<call, vl, out, stored>>

WidthArg ==
  /\ flags.in_format /\ At(fmt) = "*" /\ vl # <<>>
  /\ flags' = [flags EXCEPT !.width = Head(vl)] /\ vl' = Tail(vl) /\ fmt' = fmt + 1
  /\ UNCHANGED <<call, out, stored>>

PrecNumber ==
  /\ flags.in_format /\ At(fmt) = "." /\ At(fmt + 1) # "*"
  /\ flags' = [flags EXCEPT !.prec = strtol(fmt + 1).value]
  /\ fmt' = StepBack(strtol(fmt + 1).end) + 1
  /\ UNCHANGED <<call, vl, out, stored>>

PrecArg ==
  /\ flags.in_format /\ At(fmt) = "." /\ At(fmt + 1) = "*" /\ vl # <<>>
  /\ flags' = [flags EXCEPT !.prec = Head(vl)] /\ vl' = Tail(vl) /\ fmt' = fmt + 2
  /\ UNCHANGED <<call, out, stored>>

(* The end of a format: an argument is printed, counted into, or none is   *)
(* taken; a character that is no conversion is printed as it is.           *)
EndFormat == flags' = [flags EXCEPT !.in_format = FALSE] /\ fmt' = fmt + 1

Convert ==
  /\ flags.in_format /\ At(fmt) \in Conversions /\ vl # <<>>
  /\ out' = out \o Converted(At(fmt), Head(vl)) /\ vl' = Tail(vl)
  /\ EndFormat /\ UNCHANGED <<call, stored>>

Count ==
  /\ flags.in_format /\ At(fmt) = "n" /\ vl # <<>>
  /\ stored' = Len(out) /\ vl' = Tail(vl)
  /\ EndFormat /\ UNCHANGED <<call, out>>

Verbatim ==
  /\ flags.in_format
  /\ At(fmt) \notin DOMAIN FlagOf \cup WidthStart \cup Conversions
                      \cup {"*", ".", "n", "NUL"}
  /\ out' = Append(out, At(fmt))
  /\ EndFormat /\ UNCHANGED <<call, vl, stored>>

Next ==
  \/ Literal \/ Percent \/ Flag \/ Width \/ WidthArg \/ PrecNumber \/ PrecArg
  \/ Convert \/ Count \/ Verbatim

Spec == Init /\ [][Next]_vars

-----------------------------------------------------------------------------
(* The loop never steps over the NUL that ends the format, wherever the    *)
(* format breaks off: the fmt++ and fmt-- around strtol cancel out.        *)
NeverPastEnd == fmt <= Len(call.fmt) + 1

(* The whole text printed for a call is the one expected of it: no flag,   *)
(* width or argument of one conversion is felt by the next.                *)
TextExpected ==
  fmt = Len(call.fmt) + 1 /\ call.text # {} => out \in call.text
=============================================================================
