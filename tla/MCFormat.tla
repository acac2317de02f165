------------------------------ MODULE MCFormat ------------------------------
(***************************************************************************)
(* Calls for Format.  A conversion is given by what it asks for, a record  *)
(* of flags, width, precision, size and letter, with an argument.  Render  *)
(* is its spelling in a format; Reference is the text C's printf is to     *)
(* print for it, stated from the record.                                   *)
(***************************************************************************)
EXTENDS Format

None == -1

Value(d, n) ==
  LET bits == IF d.long THEN LongBits ELSE IntBits
      u    == n % 2^bits
  IN  IF d.conv = "d" /\ u >= SignBit(bits) THEN u - 2^bits ELSE u
Abs(v) == IF v < 0 THEN -v ELSE v

SignText(d, v) ==
  IF d.conv # "d" THEN <<>>
  ELSE IF v < 0 THEN <<"-">>
  ELSE IF "+" \in d.flags THEN <<"+">>
  ELSE IF " " \in d.flags THEN <<" ">> ELSE <<>>
Prefix(d, v) ==
  IF d.conv = "x" /\ "#" \in d.flags /\ v # 0 THEN <<"0", "x">> ELSE SignText(d, v)
Digits(d, v) ==
  LET plain == Numeral(Abs(v), IF d.conv = "x" THEN 16 ELSE 10, xdigits.lower)
  IN  Pad("0", d.prec - Len(plain)) \o plain

Reference(d, n) ==
  LET v    == Value(d, n)
      head == Prefix(d, v)
      body == Digits(d, v)
      room == d.width - Len(head) - Len(body)
  IN  IF "0" \in d.flags /\ d.prec = None THEN head \o Pad("0", room) \o body
      ELSE Pad(" ", room) \o head \o body

(* Where the code is known to differ from C: a precision together with a   *)
(* sign; precision 0 of the value 0; the smallest long; %u of an int with  *)
(* its sign bit set.                                                       *)
Differs(d, n) ==
  \/ d.prec > 0 /\ SignText(d, Value(d, n)) # <<>>
  \/ d.prec = 0 /\ Value(d, n) = 0
  \/ d.conv = "d" /\ Value(d, n) = -SignBit(LongBits)
  \/ d.conv = "u" /\ ~d.long /\ Value(d, n) >= SignBit(IntBits)

Number(k) == IF k < 0 THEN <<>> ELSE Numeral(k, 10, Decimal)
Render(d) ==
  <<"%">> \o SetToSeq(d.flags) \o (IF d.width = 0 THEN <<>> ELSE Number(d.width))
    \o (IF d.prec = None THEN <<>> ELSE <<".">> \o Number(d.prec))
    \o (IF d.long THEN <<"l">> ELSE <<>>) \o <<d.conv>>

Asked == [flags : SUBSET {"#", "0", "+", " "}, width : {0, 3, 10}, prec : {None, 0, 2},
          long : BOOLEAN, conv : {"d", "u", "x"}]

Numbers == {0, 7, 10, 23, 31, 32, 63}

(* A conversion after one that sets every flag, and a string. *)
First  == [flags |-> {"#", "0", "+"}, width |-> 4, prec |-> None, long |-> TRUE, conv |-> "x"]
(* Strings, a character and a pointer. *)
Strings ==
  {[fmt |-> <<"%", "s", "%", "c", "%", "p">>, args |-> <<s, "z", n>>, text |-> {
      (IF s = NullPointer THEN <<"(", "n", "u", "l", "l", ")">> ELSE s) \o <<"z", "0", "x">>
        \o Numeral(n, 16, xdigits.lower)}] :
     s \in {<<"a", "b">>, <<"NULL">>}, n \in Numbers}

ReferenceCalls ==
  Strings \cup
  {[fmt  |-> Render(First) \o <<"a">> \o Render(p[1]) \o <<"%", "s">>,
    args |-> <<10, p[2], <<"b">> >>,
    text |-> {Reference(First, 10) \o <<"a">> \o Reference(p[1], p[2]) \o <<"b">>}] :
     p \in {q \in Asked \X Numbers : ~Differs(q[1], q[2])}}

(* Every format of up to four of these characters, complete or not. *)
Alphabet == {"%", ".", "5", "-", " ", "*", "l", "d", "n"}
RawCalls ==
  {[fmt |-> f, args |-> <<1, 2, 3, 4>>, text |-> {}] :
     f \in UNION {[1 .. k -> Alphabet] : k \in 1 .. 4}}

AllCalls == ReferenceCalls \cup RawCalls
=============================================================================
