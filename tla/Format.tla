------------------------------- MODULE Format -------------------------------
(***************************************************************************)
(* The kernel's conversions between numbers and their digits, in           *)
(* kernel/shell.cpp and kernel/kernel.cpp.  A text of digits is a sequence *)
(* of digit values, the most significant first.                            *)
(***************************************************************************)
EXTENDS Integers, Sequences

\* The digits the loops "buf[i++] = n % base; n /= base" leave, read from
\* the last to the first, as they are printed.
Digits(n, base) ==
  LET buf[k \in Nat] == IF k = 0 THEN << >>
                        ELSE Append(buf[k \div base], k % base)
  IN  buf[n]

\* Digits, filled up to the width with zeros.
Pad(digits, width) ==
  IF Len(digits) >= width THEN digits
  ELSE [k \in 1 .. (width - Len(digits)) |-> 0] \o digits

\* Decimal, at least width digits and at least one.
print_num(n, width) == Pad(IF n = 0 THEN <<0>> ELSE Digits(n, 10), width)

\* Hexadecimal, always 16 digits.
vga_print_hex(n) == Pad(Digits(n, 16), 16)

\* Mutant: a megabyte is taken for a thousand kilobytes.
format_size_thousand(bytes) ==
  LET kb == bytes \div 1024
      mb == kb \div 1000
      gb == mb \div 1024
  IN  IF gb > 0 THEN [digits |-> print_num(gb, 0), unit |-> "GB"]
      ELSE IF mb > 0 THEN [digits |-> print_num(mb, 0), unit |-> "MB"]
      ELSE [digits |-> print_num(kb, 0), unit |-> "KB"]

\* A size in the largest unit that has a whole one.
format_size(bytes) ==
  LET kb == bytes \div 1024
      mb == kb \div 1024
      gb == mb \div 1024
  IN  IF gb > 0 THEN [digits |-> print_num(gb, 0), unit |-> "GB"]
      ELSE IF mb > 0 THEN [digits |-> print_num(mb, 0), unit |-> "MB"]
      ELSE [digits |-> print_num(kb, 0), unit |-> "KB"]

hex == <<"0", "1", "2", "3", "4", "5", "6", "7", "8", "9",
         "A", "B", "C", "D", "E", "F">>
lower == <<"a", "b", "c", "d", "e", "f">>

Position(ch, seq) == CHOOSE k \in DOMAIN seq : seq[k] = ch
IsIn(ch, seq) == \E k \in DOMAIN seq : seq[k] = ch

\* Mutant: small letters count from 0.
hex_to_int_small(ch) ==
  IF IsIn(ch, hex) THEN Position(ch, hex) - 1
  ELSE IF IsIn(ch, lower) THEN Position(ch, lower) - 1
  ELSE -1

\* The value of a hexadecimal character, -1 if it is none.
hex_to_int(ch) ==
  IF IsIn(ch, hex) THEN Position(ch, hex) - 1
  ELSE IF IsIn(ch, lower) THEN Position(ch, lower) - 1 + 10
  ELSE -1

=============================================================================
