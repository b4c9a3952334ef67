-------------------------------- MODULE Klib --------------------------------
(***************************************************************************)
(* The helpers of tools/klib.c that the kernel uses, and the loader's      *)
(* int_to_str: pure functions, each called with every input of a small     *)
(* set.  A string is the sequence of its characters, without the NUL.  An  *)
(* int has its width, and / and % truncate towards 0 as in C.              *)
(***************************************************************************)
EXTENDS Integers, Sequences

CONSTANTS
    INT_MAX,        \* 2^31 - 1
    Bases,          \* what is passed to kernel_itoa
    Strings,        \* what is passed to kernel_strncpy,
    Sizes,          \*   and as its size
    Formats,        \* what is passed to log_printf: sequences of pieces
    StrBufSize      \* the 128 characters of log_printf's buffer

INT_MIN == -INT_MAX - 1

ASSUME KlibAssumption ==
    /\ INT_MAX \in Nat
    /\ Sizes \subseteq Nat
    /\ \A src \in Strings : Len(src) \in Nat
    /\ StrBufSize \in Nat \ {0}

VARIABLE klib       \* the last call: the function, its arguments and its result

NoCall == [fn |-> "none"]

Abs(n) == IF n < 0 THEN -n ELSE n
Sign(n) == IF n < 0 THEN -1 ELSE 1

\* C's n % base, where n has the given sign and absolute value.
Rem(sign, n, base) == sign * (n % base)

-----------------------------------------------------------------------------
(* Strings.                                                                *)

\* Mutant: the NUL is put one character behind the end.
Mutant_kernel_strncpy(src, size) ==
    [i \in -1..size |-> IF i \in 0..(Len(src) - 1) THEN src[i + 1]
                        ELSE IF i = Len(src) + 1 THEN "NUL" ELSE "junk"]

\* What dest[-1] to dest[size] hold after kernel_strncpy(dest, src, size).  The loop
\* has decremented size once more than it has copied characters, also when it ended
\* because size was 0: the NUL is put over the last character only if one less than
\* size was copied.
kernel_strncpy(src, size) ==
    LET n == IF Len(src) < size THEN Len(src) ELSE size
        left == IF Len(src) < size THEN size - n - 1 ELSE -1
        end == IF left = 0 THEN n - 1 ELSE n
    IN  [i \in -1..size |->
            IF size = 0 THEN "junk"
            ELSE IF i = end THEN "NUL"
            ELSE IF i \in 0..(n - 1) THEN src[i + 1] ELSE "junk"]

-----------------------------------------------------------------------------
(* Numbers.                                                                *)

numchar == << "F", "E", "D", "C", "B", "A", "9", "8", "7", "6", "5", "4", "3", "2", "1", "0",
              "1", "2", "3", "4", "5", "6", "7", "8", "9", "A", "B", "C", "D", "E", "F" >>

\* kernel_itoa's digit for a remainder.
itoaDigit == [i \in -15..15 |-> numchar[i + 16]]

\* The loader's digits; the digit of a negative remainder is some other character.
loaderDigit ==
    [i \in -15..15 |->
        IF i < 0 THEN "other"
        ELSE <<"0", "1", "2", "3", "4", "5", "6", "7", "8", "9",
               "a", "b", "c", "d", "e", "f">>[i + 1]]

\* The do loop of both functions: the digits, last first.  num keeps its sign when it
\* is divided, as / truncates.
Digits(digit, num, base) ==
    LET digits[n \in 0..Abs(num)] ==
            <<digit[Rem(Sign(num), n, base)]>>
            \o (IF n \div base = 0 THEN <<>> ELSE digits[n \div base])
    IN  digits[Abs(num)]

\* The loop that swaps the characters from both ends on.
reversed(str) == [i \in 1..Len(str) |-> str[Len(str) - i + 1]]

\* Mutant: the number is negated instead of the digits being looked up on both sides.
Mutant_kernel_itoa(num, base) ==
    LET n == IF num < 0 /\ num # INT_MIN THEN -num ELSE num
    IN  (IF num < 0 /\ base = 10 THEN <<"-">> ELSE <<>>)
        \o (IF n = INT_MIN THEN <<"0">> ELSE reversed(Digits(itoaDigit, n, base)))

kernel_itoa(num, base) ==
    IF base \notin {2, 8, 10, 16} THEN <<>>
    ELSE (IF num < 0 /\ base = 10 THEN <<"-">> ELSE <<>>)
         \o reversed(Digits(itoaDigit, num, base))

\* -INT_MIN wraps around to itself.  The whole buffer is reversed, the sign too.
int_to_str(num, base) ==
    IF num < 0
    THEN reversed(<<"-">> \o Digits(loaderDigit, IF num = INT_MIN THEN num ELSE -num, base))
    ELSE reversed(Digits(loaderDigit, num, base))

-----------------------------------------------------------------------------
(* Formatted output.                                                       *)

\* Mutant: the state does not go back to NORMAL after a directive.  (A directive that no
\* argument is left for adds nothing.)
Mutant_format_char(s, args, ch) ==
    LET arg == args[s.taken + 1]
        take(text) == [read_fmt |-> TRUE, out |-> s.out \o text, taken |-> s.taken + 1]
    IN  CASE ~s.read_fmt /\ ch = "%" -> [s EXCEPT !.read_fmt = TRUE]
          [] ~s.read_fmt /\ ch # "%" -> [s EXCEPT !.out = Append(@, ch)]
          [] s.read_fmt /\ (ch \notin {"s", "d", "c", "x"} \/ s.taken = Len(args)) -> s
          [] s.read_fmt /\ ch = "s" /\ s.taken < Len(args) -> take(arg)
          [] s.read_fmt /\ ch = "d" /\ s.taken < Len(args) -> take(kernel_itoa(arg, 10))
          [] s.read_fmt /\ ch = "c" /\ s.taken < Len(args) -> take(<<arg>>)
          [] s.read_fmt /\ ch = "x" /\ s.taken < Len(args) -> take(kernel_itoa(arg, 16))

\* One turn of kernel_vsprintf's loop: the state, the output and the number of arguments
\* taken after it.  What %s and %c take is written as it is, numbers by kernel_itoa.
format_char(s, args, ch) ==
    LET arg == args[s.taken + 1]
        take(text) == [read_fmt |-> FALSE, out |-> s.out \o text, taken |-> s.taken + 1]
    IN  CASE ~s.read_fmt /\ ch = "%" -> [s EXCEPT !.read_fmt = TRUE]
          [] ~s.read_fmt /\ ch # "%" -> [s EXCEPT !.out = Append(@, ch)]
          [] s.read_fmt /\ ch = "s" -> take(arg)
          [] s.read_fmt /\ ch = "d" -> take(kernel_itoa(arg, 10))
          [] s.read_fmt /\ ch = "c" -> take(<<arg>>)
          [] s.read_fmt /\ ch = "x" -> take(kernel_itoa(arg, 16))
          [] s.read_fmt /\ ch \notin {"s", "d", "c", "x"} -> [s EXCEPT !.read_fmt = FALSE]

kernel_vsprintf(fmt, args) ==
    LET state[i \in 0..Len(fmt)] ==
            IF i = 0 THEN [read_fmt |-> FALSE, out |-> <<>>, taken |-> 0]
            ELSE format_char(state[i - 1], args, fmt[i])
    IN  state[Len(fmt)].out

\* What log_printf writes to the port for a message: the buffer was cleared before, so
\* that the text ends where the formatting ended, unless that is past the buffer.
written(fmt, args) ==
    LET out == kernel_vsprintf(fmt, args)
    IN  IF Len(out) < StrBufSize THEN out ELSE <<"overrun">>

\* The sequences of seqs, one behind the other.
Joined(seqs) ==
    LET joined[i \in 0..Len(seqs)] == IF i = 0 THEN <<>> ELSE joined[i - 1] \o seqs[i]
    IN  joined[Len(seqs)]

\* The format string and the arguments that a sequence of pieces makes, and its text.
FmtOf(pieces) == Joined([i \in 1..Len(pieces) |-> pieces[i].fmt])
ArgsOf(pieces) == Joined([i \in 1..Len(pieces) |-> pieces[i].args])
TextOf(pieces) == Joined([i \in 1..Len(pieces) |-> pieces[i].text])

\* A piece of a message: a character, or a directive with its argument; and what it is to
\* be replaced by.
IsPiece(p) ==
    LET directive(ch) == p.fmt = <<"%", ch>> /\ p.args = <<p.args[1]>>
    IN  /\ p.fmt \in Seq(STRING) /\ p.text \in Seq(STRING)
        /\ \/ p.fmt = <<p.fmt[1]>> /\ p.fmt[1] # "%" /\ p.args = <<>> /\ p.text = p.fmt
           \/ directive("s") /\ p.text = p.args[1]
           \/ directive("c") /\ p.text = <<p.args[1]>>
           \/ directive("d") /\ p.text = kernel_itoa(p.args[1], 10)
           \/ directive("x") /\ p.text = kernel_itoa(p.args[1], 16)

ASSUME FormatAssumption ==
    \A pieces \in Formats : Len(pieces) \in Nat /\ \A i \in 1..Len(pieces) : IsPiece(pieces[i])

-----------------------------------------------------------------------------

Int32 == INT_MIN..INT_MAX

KlibInit == klib = NoCall

strncpy_call ==
    /\ klib = NoCall
    /\ \E src \in Strings, size \in Sizes :
           klib' = [fn |-> "kernel_strncpy", src |-> src, size |-> size,
                    dest |-> kernel_strncpy(src, size)]

itoa_call ==
    /\ klib = NoCall
    /\ \E num \in Int32, base \in Bases :
           klib' = [fn |-> "kernel_itoa", num |-> num, base |-> base,
                    str |-> kernel_itoa(num, base)]

int_to_str_call ==
    /\ klib = NoCall
    /\ \E num \in Int32, base \in {10, 16} :
           klib' = [fn |-> "int_to_str", num |-> num, base |-> base,
                    str |-> int_to_str(num, base)]

log_call ==
    /\ klib = NoCall
    /\ \E pieces \in Formats :
           klib' = [fn |-> "log_printf", pieces |-> pieces,
                    str |-> written(FmtOf(pieces), ArgsOf(pieces))]

Returned == klib # NoCall /\ klib' = NoCall

KlibNext == strncpy_call \/ itoa_call \/ int_to_str_call \/ log_call \/ Returned

KlibSpec == KlibInit /\ [][KlibNext]_klib

-----------------------------------------------------------------------------

\* StrncpyExact: a name that is at least two characters shorter than the buffer is
\* copied with its NUL, and nothing outside the buffer is written.  (A name one
\* character shorter loses its last character, and one that fills the buffer gets its
\* NUL behind it, although "size是字符串数组的大小包含了'\0'", klib.c:28.)
StrncpyExact ==
    klib.fn = "kernel_strncpy" /\ Len(klib.src) + 1 < klib.size =>
        /\ klib.dest[-1] = "junk" /\ klib.dest[klib.size] = "junk"
        /\ \A i \in 1..Len(klib.src) : klib.dest[i - 1] = klib.src[i]
        /\ klib.dest[Len(klib.src)] = "NUL"

\* The value of a digit in either digit table.
DigitValue(ch) ==
    IF \E i \in 16..31 : numchar[i] = ch
    THEN (CHOOSE i \in 16..31 : numchar[i] = ch) - 16
    ELSE IF \E i \in 10..15 : loaderDigit[i] = ch
    THEN CHOOSE i \in 10..15 : loaderDigit[i] = ch
    ELSE -1

\* What a sequence of digits stands for.
Horner(digits, base) ==
    LET value[i \in 0..Len(digits)] ==
            IF i = 0 THEN 0 ELSE value[i - 1] * base + DigitValue(digits[i])
    IN  value[Len(digits)]

\* What a numeral stands for.
Value(str, base) ==
    IF str[1] = "-" THEN -Horner(Tail(str), base) ELSE Horner(str, base)

\* NumberRoundTrip: the decimal numeral of every int stands for it, INT_MIN included,
\* whose absolute value is no int (klib.c:102 looks negative remainders up left of the
\* middle of numchar); the binary, octal and hexadecimal numerals, and those of
\* int_to_str, stand for their number if it is not negative.  (A negative number is not
\* covered there: kernel_itoa drops its sign, so that %x does not show an address above
\* 2 GB as it is, and int_to_str puts the sign behind the digits.)
NumberRoundTrip ==
    /\ klib.fn = "kernel_itoa" /\ klib.base \in {2, 8, 10, 16} /\ (klib.num >= 0 \/ klib.base = 10) =>
          /\ Value(klib.str, klib.base) = klib.num
          /\ klib.num # 0 => klib.str[1] # "0"
    /\ klib.fn = "int_to_str" /\ klib.num >= 0 => Value(klib.str, klib.base) = klib.num

\* FormatExpands: a message that fits into log_printf's buffer is written as its
\* pieces one after the other, each directive replaced by its own argument
\* (klib.c:122-160, log.c:33), also where directives follow each other directly or
\* expand to nothing.
FormatExpands ==
    klib.fn = "log_printf" =>
        LET text == TextOf(klib.pieces)
        IN  Len(text) < StrBufSize => klib.str = text
=============================================================================
